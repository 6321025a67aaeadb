------------------------------- MODULE UsbProofs -------------------------------
(***************************************************************************)
(* Searches for USB devices, for any number of nodes, buses, ids and       *)
(* searches.                                                               *)
(***************************************************************************)
EXTENDS Usb, SequenceTheorems, TLAPS

Pcs == {"idle", "root", "node", "ask", "reopen", "timeout"}

TypeInv ==
  /\ system \in System /\ asked \in Id \cup {None} /\ pc \in Pcs
  /\ plugged \in [Node -> Id \cup {None}] /\ node \in Node \cup {None}
  /\ pc # "idle" => asked \in Id
  /\ system # "usbfs" => buses = {}
  /\ pc \in {"ask", "reopen", "timeout"} => node \in Node
  /\ files \in Int /\ handed \in Int /\ searches \in Nat /\ clean \in BOOLEAN

LEMMA TypeStep == TypeInv /\ [Next]_vars => TypeInv'
<1> SUFFICES ASSUME TypeInv, [Next]_vars PROVE TypeInv' OBVIOUS
<1> USE DEF TypeInv, Pcs, search, io
<1>1. CASE World BY <1>1 DEF World, Plug, Unplug
<1>2. CASE Search
  <2> USE DEF Searching, Ends
  <2>1. CASE Root BY <2>1 DEF Root
  <2>2. CASE NoRoot \/ RootFails BY <2>2 DEF NoRoot, RootFails
  <2>3. CASE Exhausted BY <2>3 DEF Exhausted
  <2>4. CASE \E b \in Bus : NextBus(b) BY <2>4 DEF NextBus
  <2>5. CASE \E b \in Bus : BusFails(b) BY <2>5 DEF BusFails
  <2>6. CASE \E n \in Node : Open(n) BY <2>6 DEF Open
  <2>7. CASE \E n \in Node : OpenFails(n) BY <2>7 DEF OpenFails
  <2>8. CASE Answers BY <2>8 DEF Answers, FilesAsked
  <2>9. CASE NoAnswer
    <3>1. clean' \in BOOLEAN BY <2>9, Zenon DEF NoAnswer
    <3>2. files' \in Int BY <2>9 DEF NoAnswer
    <3> QED BY <2>9, <3>1, <3>2 DEF NoAnswer
  <2>10. CASE Reopen BY <2>10 DEF Reopen
  <2>11. CASE ReopenFails BY <2>11 DEF ReopenFails
  <2>12. CASE SetTimeout BY <2>12 DEF SetTimeout
  <2>13. CASE TimeoutFails BY <2>13 DEF TimeoutFails
  <2> QED BY <1>2, <2>1, <2>2, <2>3, <2>4, <2>5, <2>6, <2>7, <2>8, <2>9, <2>10,
             <2>11, <2>12, <2>13 DEF Search
<1>3. CASE Write BY <1>3 DEF Write, WriteSome, WriteFails
<1>4. CASE Close BY <1>4 DEF Close
<1>5. CASE \E id \in Id : Find(id) BY <1>5 DEF Find
<1>6. CASE \E n \in 1..MaxSize : StartWrite(n) BY <1>6 DEF StartWrite
<1>7. CASE UNCHANGED vars BY <1>7 DEF vars
<1> QED BY <1>1, <1>2, <1>3, <1>4, <1>5, <1>6, <1>7 DEF Next

LEMMA TypeInit == Init => TypeInv
BY DEF Init, TypeInv, Pcs

LEMMA TypeAlways == Spec => []TypeInv
BY TypeInit, TypeStep, PTL DEF Spec

-----------------------------------------------------------------------------
(* What is found. A device that has stayed is still to be tried, or is the *)
(* one being tried, until the search ends.                                 *)

Ahead(n) == n \in todo \/ BusOf[n] \in buses
FindInv ==
  /\ stayed \subseteq Node
  /\ pc # "idle" => \A n \in stayed : plugged[n] = asked
  /\ pc = "node" => \A n \in stayed : Ahead(n)
  /\ pc = "ask" => \A n \in stayed : Ahead(n) \/ n = node
  /\ pc = "idle" /\ result = "none" => stayed = {}

\* As devices come, go and change places.
LEMMA FindWorld ==
  ASSUME TypeInv, FindInv, World
  PROVE  FindInv'
<1>1. ASSUME NEW n \in Node, NEW id \in Id, Plug(n, id) PROVE FindInv'
  <2>1. \A m \in Node : plugged[m] # None => plugged'[m] = plugged[m]
    BY <1>1 DEF Plug
  <2>2. \A m \in stayed : pc # "idle" => plugged'[m] = plugged[m]
    <3> SUFFICES ASSUME NEW m \in stayed, pc # "idle", plugged'[m] # plugged[m]
                 PROVE  FALSE
      OBVIOUS
    <3>1. plugged[m] = asked /\ m \in Node BY DEF FindInv
    <3>2. asked # None BY IdAssumption DEF TypeInv, None
    <3> QED BY <3>1, <3>2, <2>1
  <2> QED BY <1>1, <2>2 DEF FindInv, Plug, search, Ahead
<1>2. ASSUME NEW n \in Node, Unplug(n) PROVE FindInv'
  <2>1. \A m \in stayed' : m \in stayed /\ plugged'[m] = plugged[m]
    BY <1>2 DEF Unplug
  <2> QED BY <1>2, <2>1 DEF FindInv, Unplug, search, Ahead
<1> QED BY <1>1, <1>2 DEF World

\* What failed or was tried in vain is not among those that stayed. The root
\* directory leads to all nodes; an exhausted one leaves none; and a device
\* that answers and is not the one has not stayed.
LEMMA FindSearch ==
  ASSUME TypeInv, FindInv, Search, \A id \in Id : id < IdHalf
  PROVE  FindInv'
<1> USE DEF Searching, Ends, FindInv, Ahead
<1>1. CASE Root BY <1>1, BusAssumption, SystemAssumption DEF Root, TypeInv
<1>2. CASE NoRoot \/ RootFails BY <1>2 DEF NoRoot, RootFails
<1>3. CASE Exhausted BY <1>3 DEF Exhausted
<1>4. ASSUME NEW b \in Bus, NextBus(b) PROVE FindInv' BY <1>4 DEF NextBus
<1>5. ASSUME NEW b \in Bus, BusFails(b) PROVE FindInv' BY <1>5 DEF BusFails
<1>6. ASSUME NEW n \in Node, Open(n) PROVE FindInv' BY <1>6 DEF Open
<1>7. ASSUME NEW n \in Node, OpenFails(n) PROVE FindInv' BY <1>7 DEF OpenFails
<1>8. CASE Answers
  <2>1. Seen(asked) = asked
    BY <1>8, IdAssumption DEF Seen, TypeInv, Answers
  <2>2. node \in stayed => pc' = "reopen" BY <1>8, <2>1 DEF Answers
  <2> QED BY <1>8, <2>2 DEF Answers
<1>9. CASE NoAnswer BY <1>9 DEF NoAnswer, TodoAfterFailure
<1>10. CASE Reopen BY <1>10 DEF Reopen
<1>11. CASE ReopenFails BY <1>11 DEF ReopenFails
<1>12. CASE SetTimeout BY <1>12 DEF SetTimeout
<1>13. CASE TimeoutFails BY <1>13 DEF TimeoutFails
<1> QED BY <1>1, <1>2, <1>3, <1>4, <1>5, <1>6, <1>7, <1>8, <1>9, <1>10, <1>11,
           <1>12, <1>13 DEF Search

LEMMA FindStep ==
  ASSUME \A id \in Id : id < IdHalf
  PROVE  TypeInv /\ FindInv /\ [Next]_vars => FindInv'
<1> SUFFICES ASSUME TypeInv, FindInv, [Next]_vars PROVE FindInv' OBVIOUS
<1>1. CASE World BY <1>1, FindWorld
<1>2. CASE Search BY <1>2, FindSearch
<1>3. CASE Write \/ Close \/ (\E n \in 1..MaxSize : StartWrite(n)) \/ UNCHANGED vars
  BY <1>3 DEF Write, WriteSome, WriteFails, Close, StartWrite, vars, search,
     FindInv, Ahead
<1>4. ASSUME NEW id \in Id, Find(id) PROVE FindInv' BY <1>4 DEF Find, FindInv
<1> QED BY <1>1, <1>2, <1>3, <1>4 DEF Next

\* On every system, and for any number of devices that come, go and fail, a
\* device that stays and does not fail is found, provided that no id has its
\* highest bit set.
THEOREM NotFoundMeansAbsentCorrect ==
  (\A id \in Id : id < IdHalf) => (Spec => []NotFoundMeansAbsent)
<1> SUFFICES ASSUME \A id \in Id : id < IdHalf
             PROVE  Spec => []NotFoundMeansAbsent
  OBVIOUS
<1>1. Init => FindInv BY DEF Init, FindInv
<1>2. TypeInv /\ FindInv /\ [Next]_vars => FindInv' BY FindStep
<1>3. FindInv => NotFoundMeansAbsent BY DEF FindInv, NotFoundMeansAbsent
<1> QED BY <1>1, <1>2, <1>3, TypeAlways, PTL DEF Spec

-----------------------------------------------------------------------------
(* What is open. *)

\* Files that are open only while the search is where it is.
Meanwhile ==
  IF pc = "idle" \/ pc = "root" THEN 0
  ELSE (IF system = "usbfs" THEN 1 ELSE 0) + (IF pc \in {"ask", "timeout"} THEN 1 ELSE 0)
FilesInv ==
  clean => /\ files >= handed + Meanwhile
           /\ system # "usbdev" => files = handed + Meanwhile
           /\ system = "usbdev" => files <= handed + Meanwhile + searches
           /\ system = "usbdev" /\ pc = "root" => files < handed + searches
           /\ pc = "timeout" => system \in {"ugen", "usbdev"}

LEMMA FilesStep == TypeInv /\ FilesInv /\ [Next]_vars => FilesInv'
<1> SUFFICES ASSUME TypeInv, FilesInv, [Next]_vars PROVE FilesInv' OBVIOUS
<1> USE DEF FilesInv, Meanwhile, TypeInv, Pcs
<1>1. CASE Search
  <2> USE DEF Searching, Ends
  <2>1. CASE Root BY <2>1 DEF Root
  <2>2. CASE NoRoot \/ RootFails BY <2>2 DEF NoRoot, RootFails
  <2>3. CASE Exhausted BY <2>3 DEF Exhausted
  <2>4. CASE \E b \in Bus : NextBus(b) BY <2>4 DEF NextBus
  <2>5. CASE \E b \in Bus : BusFails(b) BY <2>5 DEF BusFails
  <2>6. CASE \E n \in Node : Open(n) BY <2>6 DEF Open
  <2>7. CASE \E n \in Node : OpenFails(n) BY <2>7 DEF OpenFails
  <2>8. CASE Answers BY <2>8 DEF Answers, FilesAsked
  <2>9. CASE NoAnswer BY <2>9 DEF NoAnswer
  <2>10. CASE Reopen BY <2>10 DEF Reopen
  <2>11. CASE ReopenFails BY <2>11 DEF ReopenFails
  <2>12. CASE SetTimeout BY <2>12 DEF SetTimeout
  <2>13. CASE TimeoutFails BY <2>13 DEF TimeoutFails
  <2> QED BY <1>1, <2>1, <2>2, <2>3, <2>4, <2>5, <2>6, <2>7, <2>8, <2>9, <2>10,
             <2>11, <2>12, <2>13 DEF Search
<1>2. CASE Close BY <1>2 DEF Close, search
<1>3. CASE \E id \in Id : Find(id) BY <1>3 DEF Find
<1>4. CASE World \/ Write \/ (\E n \in 1..MaxSize : StartWrite(n)) \/ UNCHANGED vars
  BY <1>4 DEF World, Plug, Unplug, Write, WriteSome, WriteFails, StartWrite,
     vars, search
<1> QED BY <1>1, <1>2, <1>3, <1>4 DEF Next

\* For any number of nodes and searches: nothing stays open that should not,
\* unless a device fails to answer.
THEOREM SearchClosesFilesCorrect == Spec => []SearchClosesFiles
<1>1. Init => FilesInv BY DEF Init, FilesInv, Meanwhile
<1>2. TypeInv /\ FilesInv => SearchClosesFiles
  BY DEF FilesInv, Meanwhile, SearchClosesFiles, TypeInv
<1> QED BY <1>1, <1>2, FilesStep, TypeAlways, PTL DEF Spec

-----------------------------------------------------------------------------
(* What is written. *)

\* What is left goes on where what was sent ends.
SentInv ==
  /\ sent \in Seq(Nat) /\ left \in Seq(Nat) /\ Len(sent) + Len(left) = size
  /\ \A i \in 1..Len(sent) : sent[i] = i
  /\ \A i \in 1..Len(left) : left[i] = Len(sent) + i

\* A write that sends only the first n bytes keeps that (write_carefully).
LEMMA WriteStep == ASSUME SentInv, NEW n, WriteSome(n) PROVE SentInv'
<1> USE DEF SentInv
<1> DEFINE part == SubSeq(left, 1, n)
           rest == SubSeq(left, n + 1, Len(left))
<1>1. n \in 1..Len(left) /\ sent' = sent \o part /\ left' = rest /\ size' = size
  BY DEF WriteSome, Rest
<1>a. /\ n \in Nat \ {0} /\ n <= Len(left) /\ Len(left) \in Nat
      /\ \A i \in 1..Len(left) : left[i] \in Nat
  BY <1>1, LenProperties, ElementOfSeq
<1>2. /\ part \in Seq(Nat) /\ Len(part) = n /\ \A i \in 1..n : part[i] = Len(sent) + i
      /\ n \in Nat
  <2>1. \A i \in 1..n : left[i] \in Nat /\ i \in 1..Len(left)
    BY <1>a
  <2>2. /\ part \in Seq(Nat) /\ Len(part) = n /\ \A i \in 1..n : part[i] = left[i]
    BY <1>a, <2>1, SubSeqProperties
  <2> QED  BY <1>a, <2>1, <2>2
<1>3. /\ rest \in Seq(Nat) /\ Len(rest) = Len(left) - n /\ Len(left) \in Nat
      /\ \A i \in 1..Len(left) - n : rest[i] = left[n + i]
  <2>1. \A i \in n + 1..Len(left) : left[i] \in Nat
    BY <1>a
  <2>2. /\ rest \in Seq(Nat)
        /\ Len(rest) = IF n + 1 <= Len(left) THEN Len(left) - (n + 1) + 1 ELSE 0
        /\ \A i \in 1..Len(left) - (n + 1) + 1 : rest[i] = left[n + 1 + i - 1]
    BY <1>a, <2>1, SubSeqProperties
  <2> QED  BY <1>a, <2>2
<1>4. \A i \in 1..Len(left) - n : rest[i] = Len(sent) + n + i
  <2> SUFFICES ASSUME NEW i \in 1..Len(left) - n PROVE rest[i] = Len(sent) + n + i
    OBVIOUS
  <2>1. n + i \in 1..Len(left) /\ Len(sent) \in Nat
    BY <1>1, <1>3
  <2>2. left[n + i] = Len(sent) + (n + i)
    BY <2>1
  <2> QED  BY <1>2, <1>3, <2>1, <2>2
<1> HIDE DEF part, rest
<1>5. /\ sent' \in Seq(Nat) /\ Len(sent') = Len(sent) + n /\ Len(sent) \in Nat
      /\ \A i \in 1..Len(sent) : sent'[i] = sent[i]
      /\ \A i \in 1..Len(sent) + n : i > Len(sent) => sent'[i] = part[i - Len(sent)]
  <2>1. /\ sent \o part \in Seq(Nat) /\ Len(sent \o part) = Len(sent) + Len(part)
        /\ \A i \in 1 .. Len(sent) + Len(part) :
             (sent \o part)[i] = IF i <= Len(sent) THEN sent[i] ELSE part[i - Len(sent)]
    BY <1>2, ConcatProperties
  <2>2. Len(sent) \in Nat
    BY LenProperties
  <2> QED  BY <1>1, <1>2, <2>1, <2>2
<1>6. \A i \in 1..Len(sent) + n : sent'[i] = i
  <2> SUFFICES ASSUME NEW i \in 1..Len(sent) + n PROVE sent'[i] = i
    OBVIOUS
  <2>1. CASE i <= Len(sent)
    <3>1. i \in 1..Len(sent)
      BY <1>2, <1>5, <2>1
    <3>2. sent'[i] = sent[i]
      BY <1>5, <3>1
    <3>3. sent[i] = i
      BY <3>1
    <3> QED  BY <3>2, <3>3
  <2>2. CASE i > Len(sent)
    <3>1. i - Len(sent) \in 1..n
      BY <1>2, <1>5, <2>2
    <3>2. part[i - Len(sent)] = Len(sent) + (i - Len(sent))
      BY <1>2, <3>1
    <3> QED  BY <1>2, <1>5, <2>2, <3>1, <3>2
  <2> QED  BY <1>2, <1>5, <2>1, <2>2
<1>7. Len(sent') + Len(left') = size'
  BY <1>1, <1>2, <1>3, <1>5
<1> QED  BY <1>1, <1>3, <1>4, <1>5, <1>6, <1>7

\* And so does every step of the searches, the world and the files.
LEMMA SentStep == SentInv /\ [Next]_vars => SentInv'
<1> SUFFICES ASSUME SentInv, [Next]_vars PROVE SentInv' OBVIOUS
<1>1. CASE \E n \in 1..MaxSize : WriteSome(n) BY <1>1, WriteStep
<1>2. CASE WriteFails BY <1>2 DEF WriteFails, SentInv
<1>3. CASE \E n \in 1..MaxSize : StartWrite(n)
  <2>1. PICK n \in 1..MaxSize : StartWrite(n) BY <1>3
  <2>2. sent' = <<>> /\ left' = [i \in 1..n |-> i] /\ size' = n /\ n \in Nat
    BY <2>1, BoundAssumption DEF StartWrite, Buffer
  <2>3. Len(left') = n /\ left' \in Seq(Nat)
    BY <2>2
  <2> QED BY <2>2, <2>3 DEF SentInv
<1>4. CASE World BY <1>4 DEF World, Plug, Unplug, io, SentInv
<1>5. CASE Search
  <2>1. UNCHANGED io
    BY <1>5 DEF Search, Root, NoRoot, RootFails, Exhausted, NextBus, BusFails, Open, OpenFails,
       Answers, NoAnswer, Reopen, ReopenFails, SetTimeout, TimeoutFails, Searching, Ends
  <2> QED BY <2>1 DEF io, SentInv
<1>6. CASE Close BY <1>6 DEF Close, io, SentInv
<1>7. CASE \E id \in Id : Find(id) BY <1>7 DEF Find, io, SentInv
<1>8. CASE UNCHANGED vars BY <1>8 DEF vars, io, SentInv
<1> QED BY <1>1, <1>2, <1>3, <1>4, <1>5, <1>6, <1>7, <1>8 DEF Next, Write

\* However often and wherever a write of any size is cut short: the bytes arrive in order,
\* and all of them unless the write fails (write_carefully of file.c).
THEOREM BytesOnceCorrect == Spec => []BytesOnce
<1>1. Init => SentInv BY DEF Init, SentInv
<1>2. SentInv => BytesOnce
  <2> SUFFICES ASSUME SentInv, left = <<>> PROVE Len(sent) = size
    BY DEF SentInv, BytesOnce
  <2>1. Len(left) = 0 /\ Len(sent) \in Nat
    BY DEF SentInv
  <2> QED BY <2>1 DEF SentInv
<1> QED BY <1>1, <1>2, SentStep, PTL DEF Spec
==============================================================================

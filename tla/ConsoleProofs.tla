---------------------------- MODULE ConsoleProofs ----------------------------
(***************************************************************************)
(* For texts, lines, keys and memories of any size: that the one number    *)
(* eat counts with is enough, that lines are counted and tokens divided    *)
(* right, that the terminal shows the line that is edited, and that        *)
(* inspect shows what memory holds.                                        *)
(***************************************************************************)
EXTENDS Console, FiniteSetTheorems, SequenceTheorems, TLAPS

-----------------------------------------------------------------------------
(* Conditional compilation. The invariant says where eat is: within the    *)
(* outermost condition that is not selected, and as deep in it as nesting  *)
(* counts.                                                                 *)

IInv ==
  /\ TypeOK
  /\ nesting = Interpreting => Selected(open)
  /\ NestingIsDepth
  /\ LoaderIsInterpreted

\* A source that waits for one it loads.
Suspended == [text : Seq(Token), at : Nat, open : Seq(Branch)]

-----------------------------------------------------------------------------
(* The sequences of branches *)

\* A sequence without its last element.
LEMMA CutFacts ==
  ASSUME NEW Any, NEW s \in Seq(Any), NEW n \in 0..Len(s)
  PROVE  /\ SubSeq(s, 1, n) \in Seq(Any) /\ Len(SubSeq(s, 1, n)) = n
         /\ \A i \in 1..n : SubSeq(s, 1, n)[i] = s[i]
<1>1. n \in Nat /\ n <= Len(s) /\ Len(s) \in Nat
  BY LenProperties
<1>2. \A i \in 1..n : s[i] \in Any
  BY <1>1, ElementOfSeq
<1>3. SubSeq(s, 1, n) = [i \in 1..n |-> s[i]]
  BY <1>1, <1>2, SubSeqProperties
<1> QED
  BY <1>1, <1>2, <1>3, SubSeqProperties

LEMMA WithoutLast ==
  ASSUME NEW Any, NEW s \in Seq(Any), s # <<>>
  PROVE  /\ SubSeq(s, 1, Len(s) - 1) \in Seq(Any)
         /\ Len(SubSeq(s, 1, Len(s) - 1)) = Len(s) - 1
         /\ \A i \in 1..(Len(s) - 1) : SubSeq(s, 1, Len(s) - 1)[i] = s[i]
<1>1. Len(s) - 1 \in 0..Len(s)
  BY LenProperties, EmptySeq
<1> QED
  BY <1>1, CutFacts

\* What .if adds to the conditions a text is in.
LEMMA OpenedFacts ==
  ASSUME open \in Seq(Branch), NEW branch \in Branch
  PROVE  /\ Opened(branch) \in Seq(Branch)
         /\ Len(Opened(branch)) = Len(open) + 1
         /\ \A i \in 1..Len(open) : Opened(branch)[i] = open[i]
         /\ Opened(branch)[Len(open) + 1] = branch
  BY AppendProperties, LenProperties DEF Opened

\* What .then removes.
LEMMA ClosedFacts ==
  ASSUME open \in Seq(Branch)
  PROVE  /\ Closed \in Seq(Branch)
         /\ open = <<>> => Closed = <<>>
         /\ open # <<>> => /\ Len(Closed) = Len(open) - 1
                           /\ \A i \in 1..(Len(open) - 1) : Closed[i] = open[i]
<1>1. CASE open = <<>>
  BY <1>1 DEF Closed
<1>2. CASE open # <<>>
  BY <1>2, WithoutLast DEF Closed
<1> QED
  BY <1>1, <1>2

\* What .else changes: the last branch only.
LEMMA TurnedFacts ==
  ASSUME open \in Seq(Branch)
  PROVE  /\ Turned \in Seq(Branch)
         /\ open = <<>> => Len(Turned) = 1 /\ Turned[1] = "skipped"
         /\ open # <<>> =>
              /\ Len(Turned) = Len(open)
              /\ \A i \in 1..(Len(open) - 1) : Turned[i] = open[i]
              /\ Turned[Len(open)] = OtherBranch(open[Len(open)])
<1>1. CASE open = <<>>
  BY <1>1 DEF Turned, Branch
<1>2. CASE open # <<>>
  <2>1. Len(open) \in Nat /\ Len(open) >= 1
    BY <1>2, LenProperties, EmptySeq
  <2>2. OtherBranch(open[Len(open)]) \in Branch
    BY DEF OtherBranch, Branch
  <2>3. Turned = [open EXCEPT ![Len(open)] = OtherBranch(open[Len(open)])]
    BY <1>2 DEF Turned
  <2> QED
    BY <1>2, <2>1, <2>2, <2>3, ExceptSeq
<1> QED
  BY <1>1, <1>2

-----------------------------------------------------------------------------
(* The invariant *)

\* The initial states satisfy it.
LEMMA InitIInv == Init => IInv
  BY DEF Init, IInv, TypeOK, NestingIsDepth, LoaderIsInterpreted, Selected,
         Interpreting, Branch

\* What it says of a text that is interpreted, and of one that is eaten.
LEMMA Interpreted ==
  ASSUME open' \in Seq(Branch), nesting' = -1, Selected(open')
  PROVE  /\ (nesting = Interpreting => Selected(open))'
         /\ NestingIsDepth'
  BY DEF NestingIsDepth, Interpreting

LEMMA EatenWithin ==
  ASSUME open' \in Seq(Branch), nesting' \in Nat, NEW k \in 1..Len(open'),
         open'[k] = "skipped", \A i \in 1..(k-1) : open'[i] = "selected",
         nesting' = Len(open') - k
  PROVE  /\ (nesting = Interpreting => Selected(open))'
         /\ NestingIsDepth'
  BY DEF NestingIsDepth, Interpreting

\* Every step keeps it.
LEMMA NextIInv == IInv /\ [Next]_vars => IInv'
<1> SUFFICES ASSUME IInv, [Next]_vars PROVE IInv'
  OBVIOUS
<1> USE DEF Interpreting
<1>0. /\ text \in Seq(Token) /\ at \in 0..Len(text) /\ Len(text) \in Nat
      /\ nesting \in {-1} \cup Nat /\ open \in Seq(Branch) /\ Len(open) \in Nat
  BY LenProperties DEF IInv, TypeOK
<1>b. /\ outer \in Seq(Suspended) /\ Len(outer) \in Nat
      /\ \A i \in 1..Len(outer) : /\ outer[i] \in Suspended
                                  /\ outer[i].at <= Len(outer[i].text)
                                  /\ Selected(outer[i].open)
  <2>1. outer \in Seq(Suspended)
    BY DEF IInv, TypeOK, Suspended
  <2> QED
    BY <2>1, LenProperties, ElementOfSeq DEF IInv, TypeOK, LoaderIsInterpreted
<1>a. nesting \in {-1} \cup Nat /\ open \in Seq(Branch) /\ Len(open) \in Nat
  BY <1>0
<1>1. nesting = -1 => \A i \in 1..Len(open) : open[i] = "selected"
  BY DEF IInv, Selected
<1>2. nesting # -1 =>
        \E k \in 1..Len(open) :
          /\ open[k] = "skipped" /\ \A i \in 1..(k-1) : open[i] = "selected"
          /\ nesting = Len(open) - k
  BY DEF IInv, NestingIsDepth
<1>3. ASSUME UNCHANGED outer, open' \in Seq(Branch), nesting' \in {-1} \cup Nat,
             text' \in Seq(Token), at' \in 0..Len(text')
      PROVE  TypeOK' /\ LoaderIsInterpreted'
  BY <1>3 DEF IInv, TypeOK, LoaderIsInterpreted
<1>4. ASSUME NEW flag \in BOOLEAN, If(flag) \/ IfDef(flag) PROVE IInv'
  <2> DEFINE branch == IF flag THEN "selected" ELSE "skipped"
  <2>1. /\ nesting = -1 /\ nesting' = IF flag THEN -1 ELSE 0
        /\ open' = Opened(branch) /\ branch \in Branch
        /\ UNCHANGED <<text, outer>> /\ at' \in 0..Len(text)
    BY <1>0, <1>4 DEF If, IfDef, Token1, EatUnless, Read, Branch
  <2>2. /\ open' \in Seq(Branch) /\ Len(open') = Len(open) + 1
        /\ \A i \in 1..Len(open) : open'[i] = open[i]
        /\ open'[Len(open) + 1] = branch
    BY <1>0, <2>1, OpenedFacts
  <2>3. TypeOK' /\ LoaderIsInterpreted'
    BY <1>0, <1>3, <2>1, <2>2
  <2>4. CASE flag
    <3>1. nesting' = -1 /\ branch = "selected"
      BY <2>1, <2>4
    <3>2. ASSUME NEW i \in 1..Len(open') PROVE open'[i] = "selected"
      <4>1. i \in 1..Len(open) \/ i = Len(open) + 1
        BY <1>0, <2>2
      <4> QED
        BY <1>1, <2>1, <2>2, <3>1, <4>1
    <3>3. Selected(open')
      BY <3>2 DEF Selected
    <3> QED
      BY <2>2, <2>3, <3>1, <3>3, Interpreted DEF IInv
  <2>5. CASE ~flag
    <3> DEFINE n == Len(open) + 1
    <3>1. nesting' = 0 /\ branch = "skipped"
      BY <2>1, <2>5
    <3>2. n \in 1..Len(open') /\ open'[n] = "skipped" /\ nesting' = Len(open') - n
      BY <1>0, <2>2, <3>1
    <3>3. \A i \in 1..(n - 1) : open'[i] = "selected"
      BY <1>0, <1>1, <2>1, <2>2
    <3> QED
      BY <2>2, <2>3, <3>1, <3>2, <3>3, EatenWithin DEF IInv
  <2> QED
    BY <2>4, <2>5
<1>5. CASE Else
  <2>1. /\ nesting = -1 /\ nesting' = 0 /\ open' = Turned
        /\ UNCHANGED <<text, outer>> /\ at' \in 0..Len(text)
    BY <1>0, <1>5 DEF Else, Token1, Read
  <2>2. TypeOK' /\ LoaderIsInterpreted'
    BY <1>0, <1>3, <2>1, TurnedFacts
  <2>3. /\ open' \in Seq(Branch) /\ Len(open') \in 1..Len(open')
        /\ open'[Len(open')] = "skipped"
        /\ \A i \in 1..(Len(open') - 1) : open'[i] = "selected"
    <3>1. CASE open = <<>>
      <4>1. open' \in Seq(Branch) /\ Len(open') = 1 /\ open'[1] = "skipped"
        BY <1>a, <2>1, <3>1, TurnedFacts
      <4> QED
        BY <4>1
    <3>2. CASE open # <<>>
      <4>1. Len(open) >= 1 /\ open[Len(open)] = "selected"
        BY <1>0, <1>1, <2>1, <3>2, EmptySeq, LenProperties
      <4> QED
        BY <1>0, <1>1, <2>1, <3>2, <4>1, TurnedFacts DEF OtherBranch
    <3> QED
      BY <3>1, <3>2
  <2> QED
    BY <2>1, <2>2, <2>3, EatenWithin DEF IInv
<1>6. CASE Then
  <2>1. /\ nesting = -1 /\ nesting' = -1 /\ open' = Closed
        /\ UNCHANGED <<text, outer>> /\ at' \in 0..Len(text)
    BY <1>0, <1>6 DEF Then, Token1, Read
  <2>2. TypeOK' /\ LoaderIsInterpreted' /\ open' \in Seq(Branch)
    BY <1>0, <1>3, <2>1, ClosedFacts
  <2>3. Selected(open')
    <3>1. CASE open = <<>>
      BY <1>0, <2>1, <3>1, ClosedFacts DEF Selected
    <3>2. CASE open # <<>>
      BY <1>0, <1>1, <2>1, <3>2, ClosedFacts DEF Selected
    <3> QED
      BY <3>1, <3>2
  <2> QED
    BY <2>1, <2>2, <2>3, Interpreted DEF IInv
<1>7. CASE Word
  <2>1. UNCHANGED <<text, nesting, outer, open>> /\ at' \in 0..Len(text)
    BY <1>0, <1>7 DEF Word, Read
  <2> QED
    BY <1>0, <1>3, <2>1 DEF IInv, NestingIsDepth, Selected
<1>8. ASSUME NEW t \in File, Load(t) PROVE IInv'
  <2> DEFINE o == [text |-> text, at |-> at + 1, open |-> open]
  <2>1. /\ nesting = -1 /\ nesting' = -1 /\ outer' = Append(outer, o)
        /\ text' = t /\ at' = 0 /\ open' = <<>>
    BY <1>8 DEF Load, Token1
  <2>2. t \in Seq(Token) /\ Len(t) \in Nat
    BY TextAssumption, LenProperties DEF Text
  <2>3. o \in Suspended /\ o.at <= Len(o.text) /\ Selected(o.open)
    BY <1>0, <1>1, <1>8, <2>1 DEF Load, Token1, Suspended, Selected
  <2>4. /\ outer' \in Seq(Suspended)
        /\ Len(outer') = Len(outer) + 1 /\ outer'[Len(outer) + 1] = o
        /\ \A i \in 1..Len(outer) : outer'[i] = outer[i]
    BY <1>b, <2>1, <2>3, AppendProperties
  <2>5. \A i \in 1..Len(outer') : /\ outer'[i].at <= Len(outer'[i].text)
                                  /\ Selected(outer'[i].open)
    <3> TAKE i \in 1..Len(outer')
    <3>1. i \in 1..Len(outer) \/ i = Len(outer) + 1
      BY <1>b, <2>4
    <3> QED
      BY <1>b, <2>3, <2>4, <3>1
  <2>6. open' \in Seq(Branch) /\ Selected(open')
    BY <2>1 DEF Selected
  <2>7. LoaderIsInterpreted'
    BY <2>5 DEF LoaderIsInterpreted
  <2>8. TypeOK'
    BY <2>1, <2>2, <2>4, <2>5, <2>6 DEF TypeOK, Suspended
  <2> QED
    BY <2>1, <2>6, <2>7, <2>8, Interpreted DEF IInv
<1>9. CASE Eat
  <2> DEFINE kind == text[at + 1]
  <2>1. /\ nesting # -1 /\ nesting' = Eaten(kind)
        /\ UNCHANGED <<text, outer>> /\ at' \in 0..Len(text)
        /\ open' = CASE kind \in {"if", "ifdef"} -> Opened("skipped")
                     [] kind = "else" -> Turned
                     [] kind = "then" -> Closed
                     [] OTHER -> open
    BY <1>0, <1>9 DEF Eat, Read
  <2>2. PICK k \in 1..Len(open) :
          /\ open[k] = "skipped" /\ \A i \in 1..(k-1) : open[i] = "selected"
          /\ nesting = Len(open) - k
    BY <1>2, <2>1
  <2>3. open # <<>> /\ nesting \in Nat
    BY <1>0, <2>1, <2>2
  <2>4. ASSUME open' \in Seq(Branch), nesting' \in {-1} \cup Nat
        PROVE  TypeOK' /\ LoaderIsInterpreted'
    BY <1>0, <1>3, <2>1, <2>4
  <2>5. CASE kind \in {"if", "ifdef"}
    <3>1. nesting' = nesting + 1 /\ open' = Opened("skipped")
      BY <2>1, <2>5 DEF Eaten
    <3>2. /\ open' \in Seq(Branch) /\ Len(open') = Len(open) + 1
          /\ \A i \in 1..Len(open) : open'[i] = open[i]
      BY <1>0, <3>1, OpenedFacts DEF Branch
    <3>3. /\ k \in 1..Len(open') /\ open'[k] = "skipped"
          /\ \A i \in 1..(k-1) : open'[i] = "selected"
          /\ nesting' \in Nat /\ nesting' = Len(open') - k
      BY <1>a, <2>2, <2>3, <3>1, <3>2
    <3> QED
      BY <2>4, <3>2, <3>3, EatenWithin DEF IInv
  <2>6. CASE kind = "else"
    <3>1. nesting' = EatenElse /\ open' = Turned
      BY <2>1, <2>6 DEF Eaten
    <3>2. /\ open' \in Seq(Branch) /\ Len(open') = Len(open)
          /\ \A i \in 1..(Len(open) - 1) : open'[i] = open[i]
          /\ open'[Len(open)] = OtherBranch(open[Len(open)])
      BY <1>0, <2>3, <3>1, TurnedFacts
    <3>3. CASE nesting = 0
      <4>1. nesting' = -1 /\ Selected(open')
        BY <1>0, <2>2, <3>1, <3>2, <3>3 DEF EatenElse, OtherBranch, Selected
      <4> QED
        BY <2>4, <3>2, <4>1, Interpreted DEF IInv
    <3>4. CASE nesting # 0
      <4>1. k \in 1..(Len(open) - 1) /\ nesting' \in Nat
        BY <1>a, <2>2, <2>3, <3>1, <3>4 DEF EatenElse
      <4>2. k \in 1..Len(open') /\ nesting' = Len(open') - k
        BY <1>a, <2>2, <3>1, <3>2, <3>4, <4>1 DEF EatenElse
      <4>3. open'[k] = "skipped" /\ \A i \in 1..(k-1) : open'[i] = "selected"
        BY <1>a, <2>2, <3>2, <4>1
      <4> QED
        BY <2>4, <3>2, <4>1, <4>2, <4>3, EatenWithin DEF IInv
    <3> QED
      BY <3>3, <3>4
  <2>7. CASE kind = "then"
    <3>1. nesting' = nesting - 1 /\ open' = Closed
      BY <2>1, <2>7 DEF Eaten, EatenThen
    <3>2. /\ open' \in Seq(Branch) /\ Len(open') = Len(open) - 1
          /\ \A i \in 1..(Len(open) - 1) : open'[i] = open[i]
      BY <1>0, <2>3, <3>1, ClosedFacts
    <3>3. CASE nesting = 0
      <4>1. nesting' = -1 /\ Selected(open')
        BY <1>0, <2>2, <3>1, <3>2, <3>3 DEF Selected
      <4> QED
        BY <2>4, <3>2, <4>1, Interpreted DEF IInv
    <3>4. CASE nesting # 0
      <4>1. k \in 1..(Len(open) - 1) /\ nesting' \in Nat
        BY <1>a, <2>2, <2>3, <3>1, <3>4
      <4>2. k \in 1..Len(open') /\ nesting' = Len(open') - k
        BY <1>a, <2>2, <3>1, <3>2, <3>4, <4>1
      <4>3. open'[k] = "skipped" /\ \A i \in 1..(k-1) : open'[i] = "selected"
        BY <1>a, <2>2, <3>2, <4>1
      <4> QED
        BY <2>4, <3>2, <4>1, <4>2, <4>3, EatenWithin DEF IInv
    <3> QED
      BY <3>3, <3>4
  <2>8. CASE kind \notin {"if", "ifdef", "else", "then"}
    <3>1. nesting' = nesting /\ open' = open
      BY <2>1, <2>8 DEF Eaten
    <3> QED
      BY <1>0, <2>2, <2>3, <2>4, <3>1, EatenWithin DEF IInv
  <2> QED
    BY <2>5, <2>6, <2>7, <2>8
<1>10. CASE EndOfText
  <2> DEFINE o == outer[Len(outer)]
  <2>1. /\ outer # <<>> /\ nesting' = -1
        /\ text' = o.text /\ at' = o.at /\ open' = o.open
        /\ outer' = SubSeq(outer, 1, Len(outer) - 1)
    BY <1>10 DEF EndOfText
  <2>2. Len(outer) \in 1..Len(outer)
    BY <1>b, <2>1, EmptySeq
  <2>3. o \in Suspended /\ o.at <= Len(o.text) /\ Selected(o.open)
    BY <1>b, <2>2
  <2>4. /\ text' \in Seq(Token) /\ at' \in 0..Len(text')
        /\ open' \in Seq(Branch) /\ Selected(open')
    BY <2>1, <2>3, LenProperties DEF Suspended
  <2>5. /\ outer' \in Seq(Suspended) /\ Len(outer') = Len(outer) - 1
        /\ \A i \in 1..(Len(outer) - 1) : outer'[i] = outer[i]
    BY <1>b, <2>1, WithoutLast
  <2>6. \A i \in 1..Len(outer') : /\ outer'[i].at <= Len(outer'[i].text)
                                  /\ Selected(outer'[i].open)
    BY <1>b, <2>5
  <2>7. TypeOK' /\ LoaderIsInterpreted'
    BY <2>1, <2>4, <2>5, <2>6 DEF TypeOK, LoaderIsInterpreted, Suspended, Selected
  <2> QED
    BY <2>1, <2>4, <2>7, Interpreted DEF IInv
<1>11. CASE EndOfLine \/ Error
  <2>1. /\ text' = <<>> /\ at' = 0 /\ nesting' = -1 /\ open' = <<>>
        /\ outer' = <<>>
    BY <1>11 DEF EndOfLine, Error
  <2>2. open' \in Seq(Branch) /\ Selected(open') /\ TypeOK' /\ LoaderIsInterpreted'
    BY <2>1 DEF Selected, TypeOK, LoaderIsInterpreted
  <2> QED
    BY <2>1, <2>2, Interpreted DEF IInv
<1>12. CASE NextLine
  <2>1. text = <<>> /\ text' \in Line /\ UNCHANGED <<at, nesting, outer, open>>
    BY <1>12 DEF NextLine
  <2>2. text' \in Seq(Token) /\ at' \in 0..Len(text')
    BY <1>0, <2>1, TextAssumption, LenProperties DEF Text
  <2> QED
    BY <1>0, <2>1, <2>2 DEF IInv, TypeOK, NestingIsDepth, LoaderIsInterpreted, Selected
<1>13. CASE UNCHANGED vars
  BY <1>13 DEF vars, IInv, TypeOK, NestingIsDepth, LoaderIsInterpreted, Selected
<1> QED
  BY <1>4, <1>5, <1>6, <1>7, <1>8, <1>9, <1>10, <1>11, <1>12, <1>13 DEF Next

-----------------------------------------------------------------------------
(* What follows *)

\* The invariant holds of every state of every run.
LEMMA IInvHolds == Spec => []IInv
  BY InitIInv, NextIInv, PTL DEF Spec

\* Positions stay within their texts and eat's count is a count.
THEOREM TypeCorrect == Spec => []TypeOK
<1>1. IInv => TypeOK
  BY DEF IInv
<1> QED
  BY <1>1, IInvHolds, PTL

\* Words are executed, not tossed, in just the texts that all the conditions
\* around them select: eat ends at the right .else or .then (startup.mu4:
\* 640-668), whatever the text.
THEOREM SelectedIsInterpretedCorrect == Spec => []SelectedIsInterpreted
<1>1. IInv => SelectedIsInterpreted
  BY DEF IInv, NestingIsDepth, SelectedIsInterpreted, Selected
<1> QED
  BY <1>1, IInvHolds, PTL

\* eat's count is its depth in the condition it skips.
THEOREM NestingIsDepthCorrect == Spec => []NestingIsDepth
<1>1. IInv => NestingIsDepth
  BY DEF IInv
<1> QED
  BY <1>1, IInvHolds, PTL

-----------------------------------------------------------------------------
(* The memory dumper. While a line is looked at, the source that is read is *)
(* the mode's, and the line in the cache is one of that source.             *)

CacheIsLine == cache.line = D!NoLine \/ cache.data = memory[source][cache.line]

DumpInv ==
  /\ a \in Nat
  /\ istack \in Seq([addr : Nat, mode : Mode]) /\ saved \in Seq([addr : Nat, mode : Mode])
  /\ mode \in Mode
  /\ cache = [line |-> cache.line, data |-> cache.data]
  /\ pc \in {"show", "key"} => source = SourceOf[mode] /\ CacheIsLine
  /\ InspectShowsMemory

\* Division by a positive number.
LEMMA Divided ==
  ASSUME NEW m \in Nat \ {0}, NEW x \in Int
  PROVE  x = m * (x \div m) + (x % m) /\ x % m \in 0..(m - 1) /\ x \div m \in Int
<1>1. x \div m \in Int
  OBVIOUS
<1>2. x % m \in 0..(m - 1)
  OBVIOUS
<1>3. x = m * (x \div m) + (x % m)
  OBVIOUS
<1> QED
  BY <1>1, <1>2, <1>3

\* The line of an address is a natural number.
LEMMA LineOfAddress ==
  ASSUME NEW x \in Nat
  PROVE  D!LineOf(x) \in Nat
<1>1. LineSize \in Nat \ {0}
  BY DumpAssumption DEF D!SizeAssumption
<1>2. x = LineSize * (x \div LineSize) + (x % LineSize) /\ x % LineSize < LineSize
      /\ x \div LineSize \in Int
  BY <1>1, Divided
<1>. DEFINE q == x \div LineSize
<1>3. q \in Int /\ LineSize * q > -LineSize
  BY <1>1, <1>2
<1>. HIDE DEF q
<1>4. q >= 0
  <2>. SUFFICES ASSUME q <= -1 PROVE FALSE
    BY <1>3
  <2>1. LineSize * (-1 - q) >= 0 /\ LineSize * (-1 - q) = -LineSize - LineSize * q
    BY <1>1, <1>3
  <2>. QED  BY <1>1, <1>3, <2>1
<1>. QED  BY <1>3, <1>4 DEF D!LineOf, q

\* Rounding down does not go below zero.
LEMMA RoundedDown ==
  ASSUME NEW x \in Nat, NEW n \in Nat \ {0}
  PROVE  D!RoundDown(x, n) \in Nat
<1>1. x % n \in 0..(n - 1) /\ x % n <= x
  OBVIOUS
<1>. QED  BY <1>1 DEF D!RoundDown

LEMMA Wrapped ==
  ASSUME NEW x \in Int
  PROVE  D!Wrap(x) \in Nat
<1>1. Lines \in Nat \ {0} /\ LineSize \in Nat \ {0}
  BY DumpAssumption DEF D!SizeAssumption
<1>2. Lines * LineSize \in Nat \ {0}
  BY <1>1
<1>. QED  BY <1>2, Divided DEF D!Wrap
\* A mode word sets the mode and its source, and forgets the line it has.
LEMMA Entered ==
  ASSUME NEW m \in Mode, NEW x \in Int, D!Enter(m, x),
         cache = [line |-> cache.line, data |-> cache.data]
  PROVE  /\ a' \in Nat /\ mode' \in Mode /\ source' = SourceOf[mode'] /\ CacheIsLine'
         /\ cache' = [line |-> cache'.line, data |-> cache'.data]
<1>1. AlignOf[m] \in Nat \ {0}
  BY DumpAssumption DEF D!SourceAssumption
<1>2. a' \in Nat
  BY <1>1, Wrapped, RoundedDown DEF D!Enter
<1>3. cache' = [line |-> D!NoLine, data |-> cache.data]
  BY DEF D!Enter
<1>. QED  BY <1>2, <1>3 DEF D!Enter, CacheIsLine

LEMMA DumpInitInv == D!Init => DumpInv
<1>. SUFFICES ASSUME D!Init PROVE DumpInv
  OBVIOUS
<1>1. <<>> \in Seq([addr : Nat, mode : Mode])
  OBVIOUS
<1>. QED  BY <1>1 DEF D!Init, DumpInv, InspectShowsMemory, D!InspectShowsMemory

\* Every step keeps it: memory is written, and the source changed without a
\* mode word, at the console only.
LEMMA DumpNextInv == DumpInv /\ [D!Next]_ofDump => DumpInv'
<1>. SUFFICES ASSUME DumpInv, [D!Next]_ofDump PROVE DumpInv'
  OBVIOUS
<1>. USE DEF InspectShowsMemory, D!InspectShowsMemory
<1>. DEFINE Addresses == Seq([addr : Nat, mode : Mode])
<1>1. /\ a \in Nat /\ istack \in Addresses /\ saved \in Addresses /\ mode \in Mode
      /\ cache = [line |-> cache.line, data |-> cache.data]
      /\ pc \in {"show", "key"} => source = SourceOf[mode] /\ CacheIsLine
  BY DEF DumpInv
<1>2. /\ LineSize \in Nat \ {0} /\ CellSize \in Nat \ {0} /\ D!Skip \in Nat \ {0}
      /\ D!Address \subseteq Nat
  BY DumpAssumption DEF D!SizeAssumption, D!Skip, D!Address
<1>3. ASSUME NEW x \in Int PROVE D!SkipAdvance(a, x) \in Nat
  <2>1. D!Wrap(a + x) \in Nat
    BY <1>1, Wrapped
  <2>. QED  BY <1>2, <2>1, RoundedDown DEF D!SkipAdvance
<1>4. ASSUME NEW x \in Nat, D!Move(x), UNCHANGED istack \/ istack' = Append(istack, [addr |-> a, mode |-> mode])
      PROVE  DumpInv'
  <2>1. istack' \in Addresses
    <3>1. [addr |-> a, mode |-> mode] \in [addr : Nat, mode : Mode]
      BY <1>1
    <3>2. Append(istack, [addr |-> a, mode |-> mode]) \in Addresses
      BY <1>1, <3>1, AppendProperties
    <3>. QED  BY <1>1, <1>4, <3>2
  <2>2. CacheIsLine'
    BY <1>1, <1>4 DEF D!Move, CacheIsLine
  <2>. QED  BY <1>1, <1>4, <2>1, <2>2 DEF D!Move, DumpInv
<1>5. ASSUME NEW m \in Mode, NEW x \in Int, D!Enter(m, x), pc' = "show",
             istack' \in Addresses, UNCHANGED saved
      PROVE  DumpInv'
  BY <1>1, <1>5, Entered DEF DumpInv
<1>6. CASE D!ShowLine
  <2>1. pc = "show" /\ UNCHANGED <<memory, source, mode, a, istack, saved>>
    BY <1>6 DEF D!ShowLine
  <2>. DEFINE l == D!LineOf(a)
  <2>2. l \in Nat /\ l # D!NoLine
    BY <1>1, LineOfAddress DEF D!NoLine
  <2>. HIDE DEF l
  <2>3. CASE D!Show(l) /\ pc' = "key"
    <3>1. D!Cached(l) = memory[source][l]
      BY <1>1, <2>1, <2>2 DEF D!Cached, CacheIsLine
    <3>2. /\ cache' = [line |-> l, data |-> memory[source][l]]
          /\ shown' = [line |-> l, data |-> memory[source][l]]
      BY <2>3, <3>1 DEF D!Show
    <3>3. CacheIsLine'
      BY <2>1, <3>2 DEF CacheIsLine
    <3>. QED  BY <1>1, <2>1, <2>3, <3>2, <3>3 DEF DumpInv
  <2>4. CASE D!ReadFails(l) /\ pc' = "console"
    <3>1. cache' = [line |-> l, data |-> cache.data]
      BY <1>1, <2>4 DEF D!ReadFails
    <3>. QED  BY <1>1, <2>1, <2>4, <3>1 DEF DumpInv
  <2>. QED  BY <1>6, <2>3, <2>4 DEF D!ShowLine, l
<1>7. CASE D!Forward \/ D!Backward
  <2>1. D!Skip \in Int /\ -D!Skip \in Int
    BY <1>2
  <2>2. PICK x \in Nat : D!Move(x) /\ UNCHANGED istack
    BY <1>3, <1>7, <2>1 DEF D!Forward, D!Backward
  <2>. QED  BY <1>4, <2>2
<1>8. CASE D!Toggle
  <2>1. D!RoundDown(a, IF skip_by_cell THEN LineSize ELSE CellSize) \in Nat
    BY <1>1, <1>2, RoundedDown
  <2>. QED  BY <1>4, <1>8, <2>1 DEF D!Toggle
<1>9. ASSUME NEW x \in D!Address, D!Go(x) \/ D!Call(x)
      PROVE  DumpInv'
  <2>1. x \in Nat
    BY <1>2
  <2>. QED  BY <1>1, <1>4, <1>9, <2>1 DEF D!Go, D!Call
<1>10. CASE D!ReturnFromCall
  <2>1. CASE istack = <<>>
    BY <1>1, <1>10, <2>1 DEF D!ReturnFromCall, DumpInv, CacheIsLine
  <2>2. CASE istack # <<>>
    <3>1. PICK m \in Mode, x \in Nat : D!Enter(m, x) /\ istack' = SubSeq(istack, 1, Len(istack) - 1)
      <4>1. istack[Len(istack)] \in [addr : Nat, mode : Mode]
        <5>1. Len(istack) \in 1..Len(istack)
          BY <1>1, <2>2, LenProperties, EmptySeq
        <5>. QED  BY <1>1, <5>1, ElementOfSeq
      <4>. QED  BY <1>10, <2>2, <4>1 DEF D!ReturnFromCall
    <3>2. istack' \in Addresses
      BY <1>1, <2>2, <3>1, WithoutLast
    <3>. QED  BY <1>5, <1>10, <3>1, <3>2 DEF D!ReturnFromCall
  <2>. QED  BY <2>1, <2>2
<1>11. ASSUME NEW m \in Mode,
              D!SwitchMode(m) \/ \E x \in D!Address : D!Inspect(m, x)
       PROVE  DumpInv'
  <2>1. PICK x \in Nat : D!Enter(m, x) /\ pc' = "show" /\ UNCHANGED <<istack, saved>>
    <3>1. CASE D!SwitchMode(m)
      BY <1>1, <3>1 DEF D!SwitchMode
    <3>2. CASE \E x \in D!Address : D!Inspect(m, x)
      BY <1>2, <3>2 DEF D!Inspect
    <3>. QED  BY <1>11, <3>1, <3>2
  <2>2. x \in Int /\ istack' \in Addresses /\ UNCHANGED saved
    BY <1>1, <2>1
  <2>. QED  BY <1>5, <2>1, <2>2
<1>12. CASE D!Quit
  BY <1>1, <1>12 DEF D!Quit, DumpInv
<1>13. ASSUME NEW x \in D!Address, NEW y \in D!Address, D!Dumps(x, y)
       PROVE  DumpInv'
  <2>1. /\ pc' = "dumps" /\ a' = x /\ saved' = istack /\ istack' = <<>>
        /\ mode' = mode /\ cache' = cache
    BY <1>13 DEF D!Dumps
  <2>2. x \in Nat /\ <<>> \in Addresses
    BY <1>2
  <2>. HIDE DEF Addresses
  <2>3. a' \in Nat /\ istack' \in Addresses /\ saved' \in Addresses /\ mode' \in Mode
    BY <1>1, <2>1, <2>2
  <2>. QED  BY <1>1, <2>1, <2>3 DEF DumpInv, Addresses
<1>14. CASE D!DumpLine
  <2>1. D!RoundDown(D!Wrap(a + LineSize), LineSize) \in Nat
    BY <1>1, <1>2, Wrapped, RoundedDown
  <2>2. \E l, d : cache' = [line |-> l, data |-> d]
    BY <1>14 DEF D!DumpLine, D!Show
  <2>3. cache' = [line |-> cache'.line, data |-> cache'.data]
    BY <2>2
  <2>. QED  BY <1>1, <1>14, <2>1, <2>3 DEF D!DumpLine, DumpInv
<1>15. CASE D!DumpsDone
  BY <1>1, <1>15 DEF D!DumpsDone, DumpInv
<1>16. ASSUME NEW s \in Source, NEW l \in D!LineNumber, D!Write(s, l)
       PROVE  DumpInv'
  BY <1>1, <1>16 DEF D!Write, DumpInv
<1>17. CASE UNCHANGED ofDump
  BY <1>1, <1>17 DEF ofDump, DumpInv, CacheIsLine
<1>. QED
  BY <1>6, <1>7, <1>8, <1>9, <1>10, <1>11, <1>12, <1>13, <1>14, <1>15, <1>16, <1>17
  DEF D!Next

\* inspect shows what the memory of its mode holds (lib/du-cached.mu4), although
\* lines are cached, reads fail, modes change back and forth and memory is
\* written between one inspection and the next.
THEOREM InspectShowsMemoryCorrect == ConsoleSpec => []InspectShowsMemory
<1>1. ConsoleInit => D!Init
  BY DEF ConsoleInit
<1>2. [ConsoleNext]_consoleVars => [D!Next]_ofDump
  BY DEF ConsoleNext, consoleVars, ofDump
<1>3. DumpInv => InspectShowsMemory
  BY DEF DumpInv
<1>. QED  BY <1>1, <1>2, <1>3, DumpInitInv, DumpNextInv, PTL DEF ConsoleSpec
-----------------------------------------------------------------------------
(* Sequences with an element more, or less *)

\* The first i elements, and those behind them.
LEMMA Front ==
  ASSUME NEW Any, NEW s \in Seq(Any), NEW i \in 0..Len(s)
  PROVE  /\ SubSeq(s, 1, i) \in Seq(Any) /\ Len(SubSeq(s, 1, i)) = i
         /\ \A k \in 1..i : SubSeq(s, 1, i)[k] = s[k]
  BY CutFacts

LEMMA Rest ==
  ASSUME NEW Any, NEW s \in Seq(Any), NEW i \in 0..Len(s)
  PROVE  /\ SubSeq(s, i + 1, Len(s)) \in Seq(Any) /\ Len(SubSeq(s, i + 1, Len(s))) = Len(s) - i
         /\ \A k \in 1..(Len(s) - i) : SubSeq(s, i + 1, Len(s))[k] = s[i + k]
<1>. DEFINE n == Len(s)
            m == i + 1
            t == SubSeq(s, m, n)
<1>1. n \in Nat /\ i \in Nat /\ i <= n /\ m \in Nat /\ n - m + 1 = n - i
  BY LenProperties
<1>2. \A k \in m..n : s[k] \in Any
  BY <1>1, ElementOfSeq
<1>3. /\ t \in Seq(Any) /\ Len(t) = IF m <= n THEN n - m + 1 ELSE 0
      /\ t = [k \in 1..(n - m + 1) |-> s[k + m - 1]]
  BY <1>1, <1>2, SubSeqProperties
<1>. HIDE DEF t, n
<1>4. Len(t) = n - i
  BY <1>1, <1>3 DEF m
<1>5. ASSUME NEW k \in 1..(n - i)
      PROVE  t[k] = s[i + k]
  <2>1. k \in 1..(n - m + 1) /\ k + m - 1 = i + k
    BY <1>1
  <2>. QED  BY <1>3, <2>1
<1>. QED  BY <1>3, <1>4, <1>5 DEF t, m, n

\* u is s, of m elements, and behind it t, of n elements.
Joins(u, s, t, m, n) ==
  /\ Len(u) = m + n
  /\ \A k \in 1..m : u[k] = s[k]
  /\ \A k \in 1..n : u[m + k] = t[k]

LEMMA Joined ==
  ASSUME NEW Any, NEW s \in Seq(Any), NEW t \in Seq(Any), NEW m \in Nat, NEW n \in Nat,
         Len(s) = m, Len(t) = n
  PROVE  s \o t \in Seq(Any) /\ Joins(s \o t, s, t, m, n)
<1>1. /\ s \o t \in Seq(Any) /\ Len(s \o t) = m + n
      /\ \A k \in 1..(m + n) : (s \o t)[k] = IF k <= m THEN s[k] ELSE t[k - m]
  BY ConcatProperties
<1>2. ASSUME NEW k \in 1..m PROVE (s \o t)[k] = s[k]
  <2>1. k \in 1..(m + n) /\ k <= m
    OBVIOUS
  <2>. QED  BY <1>1, <2>1
<1>3. ASSUME NEW k \in 1..n PROVE (s \o t)[m + k] = t[k]
  <2>1. m + k \in 1..(m + n) /\ ~(m + k <= m) /\ (m + k) - m = k
    OBVIOUS
  <2>. QED  BY <1>1, <2>1
<1>. QED  BY <1>1, <1>2, <1>3 DEF Joins

\* u is t with an element more behind the first i, or with the one there less.
With(u, t, i, x) == u = SubSeq(t, 1, i) \o <<x>> \o SubSeq(t, i + 1, Len(t))
Without(u, t, i) == u = SubSeq(t, 1, i) \o SubSeq(t, (i + 1) + 1, Len(t))

\* An element is inserted behind the first i.
LEMMA Inserted ==
  ASSUME NEW Any, NEW s \in Seq(Any), NEW i \in 0..Len(s), NEW x \in Any, NEW t,
         With(t, s, i, x)
  PROVE  /\ t \in Seq(Any) /\ Len(t) = Len(s) + 1
         /\ \A k \in 1..i : t[k] = s[k]
         /\ t[i + 1] = x
         /\ \A k \in (i + 1)..Len(s) : t[k + 1] = s[k]
<1>. DEFINE low == SubSeq(s, 1, i)
            mid == <<x>>
            high == SubSeq(s, i + 1, Len(s))
            front == low \o mid
<1>1. Len(s) \in Nat /\ i \in Nat /\ i <= Len(s) /\ i + 1 \in Nat /\ Len(s) - i \in Nat
  BY LenProperties
<1>2. low \in Seq(Any) /\ Len(low) = i /\ \A k \in 1..i : low[k] = s[k]
  BY Front
<1>3. /\ high \in Seq(Any) /\ Len(high) = Len(s) - i
      /\ \A k \in 1..(Len(s) - i) : high[k] = s[i + k]
  BY Rest
<1>4. mid \in Seq(Any) /\ Len(mid) = 1 /\ mid[1] = x
  OBVIOUS
<1>. HIDE DEF low, mid, high
<1>5. /\ front \in Seq(Any) /\ Len(front) = i + 1
      /\ \A k \in 1..i : front[k] = low[k]
      /\ \A k \in 1..1 : front[i + k] = mid[k]
  <2>1. front \in Seq(Any) /\ Joins(front, low, mid, i, 1)
    <3>1. /\ low \in Seq(Any) /\ mid \in Seq(Any) /\ i \in Nat /\ 1 \in Nat
          /\ Len(low) = i /\ Len(mid) = 1
      BY <1>1, <1>2, <1>4
    <3>. QED  BY <3>1, Joined
  <2>. QED  BY <2>1 DEF Joins
<1>6. front[i + 1] = x
  BY <1>4, <1>5
<1>. HIDE DEF front
<1>7. t = front \o high
  BY DEF front, low, mid, high, With
<1>8. /\ t \in Seq(Any) /\ Len(t) = (i + 1) + (Len(s) - i)
      /\ \A k \in 1..(i + 1) : t[k] = front[k]
      /\ \A k \in 1..(Len(s) - i) : t[(i + 1) + k] = high[k]
  <2>1. t \in Seq(Any) /\ Joins(t, front, high, i + 1, Len(s) - i)
    <3>1. /\ front \in Seq(Any) /\ high \in Seq(Any) /\ i + 1 \in Nat /\ Len(s) - i \in Nat
          /\ Len(front) = i + 1 /\ Len(high) = Len(s) - i
      BY <1>1, <1>3, <1>5
    <3>. QED  BY <1>7, <3>1, Joined
  <2>. QED  BY <2>1 DEF Joins
<1>9. Len(t) = Len(s) + 1
  BY <1>1, <1>8
<1>10. ASSUME NEW k \in 1..i PROVE t[k] = s[k]
  <2>1. k \in 1..(i + 1)
    BY <1>1
  <2>. QED  BY <1>2, <1>5, <1>8, <2>1
<1>11. t[i + 1] = x
  <2>1. i + 1 \in 1..(i + 1)
    BY <1>1
  <2>. QED  BY <1>6, <1>8, <2>1
<1>12. ASSUME NEW k \in (i + 1)..Len(s) PROVE t[k + 1] = s[k]
  <2>1. k - i \in 1..(Len(s) - i) /\ (i + 1) + (k - i) = k + 1 /\ i + (k - i) = k
    BY <1>1
  <2>2. t[(i + 1) + (k - i)] = high[k - i] /\ high[k - i] = s[i + (k - i)]
    BY <1>3, <1>8, <2>1
  <2>. QED  BY <2>1, <2>2
<1>. QED  BY <1>8, <1>9, <1>10, <1>11, <1>12

\* The element behind the first i is deleted.
LEMMA Deleted ==
  ASSUME NEW Any, NEW s \in Seq(Any), NEW i \in 0..(Len(s) - 1), NEW t,
         Without(t, s, i)
  PROVE  /\ t \in Seq(Any) /\ Len(t) = Len(s) - 1
         /\ \A k \in 1..i : t[k] = s[k]
         /\ \A k \in (i + 1)..(Len(s) - 1) : t[k] = s[k + 1]
<1>. DEFINE low == SubSeq(s, 1, i)
            high == SubSeq(s, (i + 1) + 1, Len(s))
<1>1. /\ Len(s) \in Nat /\ i \in Nat /\ i <= Len(s) - 1 /\ i \in 0..Len(s)
      /\ i + 1 \in 0..Len(s) /\ Len(s) - (i + 1) \in Nat
  BY LenProperties
<1>2. low \in Seq(Any) /\ Len(low) = i /\ \A k \in 1..i : low[k] = s[k]
  BY <1>1, Front
<1>3. /\ high \in Seq(Any) /\ Len(high) = Len(s) - (i + 1)
      /\ \A k \in 1..(Len(s) - (i + 1)) : high[k] = s[(i + 1) + k]
  BY <1>1, Rest
<1>. HIDE DEF low, high
<1>4. t = low \o high
  BY DEF low, high, Without
<1>5. /\ t \in Seq(Any) /\ Len(t) = i + (Len(s) - (i + 1))
      /\ \A k \in 1..i : t[k] = low[k]
      /\ \A k \in 1..(Len(s) - (i + 1)) : t[i + k] = high[k]
  <2>1. t \in Seq(Any) /\ Joins(t, low, high, i, Len(s) - (i + 1))
    <3>. DEFINE n == Len(s) - (i + 1)
    <3>1. i \in Nat /\ n \in Nat
      BY <1>1
    <3>2. /\ low \in Seq(Any) /\ high \in Seq(Any)
          /\ Len(low) = i /\ Len(high) = n
      BY <1>2, <1>3
    <3>3. low \o high \in Seq(Any) /\ Joins(low \o high, low, high, i, n)
      <4>. HIDE DEF n
      <4>. QED  BY <3>1, <3>2, Joined
    <3>. QED  BY <1>4, <3>3
  <2>. QED  BY <2>1 DEF Joins
<1>6. Len(t) = Len(s) - 1
  BY <1>1, <1>5
<1>7. ASSUME NEW k \in (i + 1)..(Len(s) - 1) PROVE t[k] = s[k + 1]
  <2>1. k - i \in 1..(Len(s) - (i + 1)) /\ i + (k - i) = k /\ (i + 1) + (k - i) = k + 1
    BY <1>1
  <2>2. t[i + (k - i)] = high[k - i] /\ high[k - i] = s[(i + 1) + (k - i)]
    BY <1>3, <1>5, <2>1
  <2>. QED  BY <2>1, <2>2
<1>. QED  BY <1>2, <1>5, <1>6, <1>7
-----------------------------------------------------------------------------
(* The command-line editor. The buffer holds the widest line, and the      *)
(* terminal has a column (editline.mu4 makes the buffer 256 bytes, for a   *)
(* line of a wide terminal). The line is always shorter than the row, and  *)
(* the history is the circle of what was entered.                          *)

RowFits == Width \in 1..BufferSize

Short(chars) == chars \in Seq(Printable) /\ Len(chars) <= Width - 1

\* The row that shows a text, and nothing else.
RowOf(chars) == [c \in E!Row |-> IF c < Len(chars) THEN chars[c + 1] ELSE Blank]

\* Entry e of n, when past was entered.
EntryOf(e, n, past) ==
  [prev |-> IF e = 1 THEN n ELSE e - 1,
   next |-> IF e = n THEN 1 ELSE e + 1,
   text |-> IF e = 1 THEN <<>> ELSE past[e - 1]]

Circle(past) == [e \in 1..(Len(past) + 1) |-> EntryOf(e, Len(past) + 1, past)]

EditInv ==
  /\ Short(line) /\ idx \in 0..Len(line)
  /\ entered \in Seq(Seq(Printable))
  /\ \A k \in 1..Len(entered) : Short(entered[k])
  /\ entries = Circle(entered)
  /\ cl_cur \in 1..(Len(entered) + 1)
  /\ editing \in BOOLEAN
  /\ editing => screen = RowOf(line) /\ column = idx

LEMMA RowFacts ==
  ASSUME RowFits
  PROVE  /\ Width \in Nat /\ Width >= 1 /\ Width # 0 /\ BufferSize \in Nat /\ Width <= BufferSize
         /\ E!Columns = Width /\ E!Row = 0..(Width - 1)
<1>1. BufferSize \in Nat
  BY EditLineAssumption DEF E!SizeAssumption
<1>. QED  BY <1>1 DEF RowFits, E!Columns, E!Row

LEMMA NothingShort ==
  ASSUME RowFits
  PROVE  Short(<<>>) /\ Len(<<>>) = 0 /\ <<>> \in Seq(Printable)
<1>1. Width \in Nat /\ Width >= 1
  BY RowFacts
<1>. QED  BY <1>1, EmptySeq DEF Short

\* A text typed on an empty row is what the row shows.
LEMMA TypedShows ==
  ASSUME RowFits, NEW t \in Seq(Printable)
  PROVE  E!Typed(E!BlankRow, 0, t) = RowOf(t)
<1>1. Len(t) \in Nat /\ E!Row = 0..(Width - 1) /\ Width \in Nat
  BY RowFacts, LenProperties
<1>2. ASSUME NEW c \in E!Row
      PROVE  (IF c \in 0..(0 + Len(t) - 1) THEN t[c - 0 + 1] ELSE E!BlankRow[c])
             = (IF c < Len(t) THEN t[c + 1] ELSE Blank)
  <2>1. c \in Nat /\ E!BlankRow[c] = Blank /\ c - 0 + 1 = c + 1
        /\ (c \in 0..(0 + Len(t) - 1) <=> c < Len(t))
    BY <1>1 DEF E!BlankRow
  <2>. QED  BY <2>1
<1>. QED  BY <1>2 DEF E!Typed, RowOf

LEMMA ErasedIsBlank ==
  ASSUME RowFits, NEW row PROVE E!EraseEol(row, 0) = E!BlankRow
<1>1. \A c \in E!Row : ~(c < 0)
  BY RowFacts
<1>. QED  BY <1>1 DEF E!EraseEol, E!BlankRow

LEMMA NothingShown == ASSUME RowFits PROVE E!BlankRow = RowOf(<<>>)
<1>1. \A c \in E!Row : ~(c < Len(<<>>))
  BY RowFacts, NothingShort
<1>. QED  BY <1>1 DEF E!BlankRow, RowOf

\* What a key for a character makes of the line, it makes of the row.
LEMMA AddedShows ==
  ASSUME RowFits, NEW t, Short(t), Len(t) < Width - 1, NEW i \in 0..Len(t),
         NEW x \in Printable, NEW u, With(u, t, i, x)
  PROVE  /\ Short(u) /\ i + 1 \in 0..Len(u)
         /\ E!Typed(E!InsertBlank(RowOf(t), i), i, <<x>>) = RowOf(u)
         /\ E!Clip(i + 1) = i + 1
<1>1. t \in Seq(Printable) /\ Len(t) \in Nat /\ i \in Nat /\ i <= Len(t)
  BY LenProperties DEF Short
<1>2. Width \in Nat /\ E!Row = 0..(Width - 1)
  BY RowFacts
<1>3. /\ u \in Seq(Printable) /\ Len(u) = Len(t) + 1
      /\ \A k \in 1..i : u[k] = t[k]
      /\ u[i + 1] = x
      /\ \A k \in (i + 1)..Len(t) : u[k + 1] = t[k]
  <2>1. t \in Seq(Printable) /\ i \in 0..Len(t) /\ x \in Printable
    BY <1>1
  <2>. QED  BY <2>1, Inserted
<1>31. Len(u) = Len(t) + 1
  BY <1>3
<1>. DEFINE row == E!InsertBlank(RowOf(t), i)
<1>4. ASSUME NEW c \in E!Row
      PROVE  (IF c \in i..(i + Len(<<x>>) - 1) THEN <<x>>[c - i + 1]
              ELSE row[c])
             = (IF c < Len(u) THEN u[c + 1] ELSE Blank)
  <2>1. c \in Nat /\ c <= Width - 1 /\ Len(<<x>>) = 1 /\ <<x>>[1] = x
    BY <1>2
  <2>2. row[c]
        = IF c < i THEN RowOf(t)[c] ELSE IF c = i THEN Blank ELSE RowOf(t)[c - 1]
    BY DEF E!InsertBlank
  <2>3. CASE c < i
    <3>1. RowOf(t)[c] = t[c + 1]
      BY <1>1, <2>1, <2>3 DEF RowOf
    <3>2. c + 1 \in 1..i /\ c < Len(u) /\ ~(c \in i..(i + 1 - 1))
      BY <1>1, <1>31, <2>1, <2>3
    <3>. QED  BY <1>3, <2>1, <2>2, <2>3, <3>1, <3>2
  <2>4. CASE c = i
    <3>1. c \in i..(i + 1 - 1) /\ c - i + 1 = 1 /\ c < Len(u)
      BY <1>1, <1>31, <2>4
    <3>. QED  BY <1>3, <2>1, <2>4, <3>1
  <2>5. CASE c > i
    <3>1. c - 1 \in E!Row /\ c - 1 + 1 = c /\ ~(c < i) /\ ~(c = i) /\ ~(c \in i..(i + 1 - 1))
      BY <1>1, <1>2, <2>1, <2>5
    <3>2. RowOf(t)[c - 1] = IF c - 1 < Len(t) THEN t[c] ELSE Blank
      BY <3>1 DEF RowOf
    <3>3. CASE c - 1 < Len(t)
      <4>1. c \in (i + 1)..Len(t) /\ c < Len(u)
        BY <1>1, <1>31, <2>1, <2>5, <3>3
      <4>. QED  BY <1>3, <2>1, <2>2, <3>1, <3>2, <3>3, <4>1
    <3>4. CASE ~(c - 1 < Len(t))
      <4>1. ~(c < Len(u))
        BY <1>1, <1>31, <2>1, <3>4
      <4>. QED  BY <2>1, <2>2, <3>1, <3>2, <3>4, <4>1
    <3>. QED  BY <3>3, <3>4
  <2>. QED  BY <1>1, <2>1, <2>3, <2>4, <2>5
<1>5. E!Typed(row, i, <<x>>) = RowOf(u)
  <2>. HIDE DEF row
  <2>. QED  BY <1>4 DEF E!Typed, RowOf
<1>6. Len(u) <= Width - 1 /\ i + 1 \in 0..Len(u) /\ i + 1 \in E!Row
  BY <1>1, <1>2, <1>31
<1>. QED  BY <1>3, <1>5, <1>6 DEF Short, E!Clip

LEMMA DeletedShows ==
  ASSUME RowFits, NEW t, Short(t), NEW i \in 0..(Len(t) - 1), NEW u, Without(u, t, i)
  PROVE  /\ Short(u) /\ i \in 0..Len(u)
         /\ E!DeleteChar(RowOf(t), i) = RowOf(u)
<1>1. t \in Seq(Printable) /\ Len(t) \in Nat /\ i \in Nat /\ i <= Len(t) - 1
      /\ Len(t) <= Width - 1
  BY LenProperties DEF Short
<1>2. Width \in Nat /\ E!Row = 0..(Width - 1)
  BY RowFacts
<1>3. /\ u \in Seq(Printable) /\ Len(u) = Len(t) - 1
      /\ \A k \in 1..i : u[k] = t[k]
      /\ \A k \in (i + 1)..(Len(t) - 1) : u[k] = t[k + 1]
  BY <1>1, Deleted
<1>31. Len(u) = Len(t) - 1
  BY <1>3
<1>. DEFINE row == RowOf(t)
<1>4. ASSUME NEW c \in E!Row
      PROVE  (IF c < i THEN row[c] ELSE IF c + 1 \in E!Row THEN row[c + 1] ELSE Blank)
             = (IF c < Len(u) THEN u[c + 1] ELSE Blank)
  <2>1. c \in Nat /\ c <= Width - 1
    BY <1>2
  <2>2. CASE c < i
    <3>1. RowOf(t)[c] = t[c + 1]
      BY <1>1, <2>1, <2>2 DEF RowOf
    <3>2. c + 1 \in 1..i /\ c < Len(u)
      BY <1>1, <1>31, <2>1, <2>2
    <3>. QED  BY <1>3, <2>2, <3>1, <3>2
  <2>3. CASE ~(c < i) /\ c < Len(u)
    <3>1. c + 1 \in E!Row /\ c + 1 < Len(t) /\ c + 1 \in (i + 1)..(Len(t) - 1)
      BY <1>1, <1>2, <1>31, <2>1, <2>3
    <3>2. RowOf(t)[c + 1] = t[(c + 1) + 1]
      BY <3>1 DEF RowOf
    <3>. QED  BY <1>3, <2>3, <3>1, <3>2
  <2>4. CASE ~(c < Len(u))
    <3>1. ~(c < i) /\ ~(c + 1 < Len(t))
      BY <1>1, <1>31, <2>1, <2>4
    <3>2. c + 1 \in E!Row => RowOf(t)[c + 1] = Blank
      BY <3>1 DEF RowOf
    <3>. QED  BY <2>4, <3>1, <3>2
  <2>. QED  BY <2>2, <2>3, <2>4
<1>5. E!DeleteChar(row, i) = RowOf(u)
  <2>. HIDE DEF row
  <2>. QED  BY <1>4 DEF E!DeleteChar, RowOf
<1>6. Len(u) <= Width - 1 /\ i \in 0..Len(u)
  BY <1>1, <1>2, <1>31
<1>. QED  BY <1>3, <1>5, <1>6 DEF Short

\* The history

LEMMA FunctionIsSeq ==
  ASSUME NEW Any, NEW n \in Nat, NEW f \in [1..n -> Any]
  PROVE  f \in Seq(Any) /\ Len(f) = n
  OBVIOUS

Entry == [prev : Nat, next : Nat, text : Seq(Printable)]

LEMMA CircleFacts ==
  ASSUME NEW past \in Seq(Seq(Printable))
  PROVE  /\ Len(past) \in Nat
         /\ Circle(past) \in Seq(Entry) /\ Len(Circle(past)) = Len(past) + 1
         /\ \A e \in 1..(Len(past) + 1) :
              Circle(past)[e] = EntryOf(e, Len(past) + 1, past)
<1>. DEFINE n == Len(past) + 1
<1>1. Len(past) \in Nat /\ n \in Nat
  BY LenProperties
<1>2. ASSUME NEW e \in 1..n PROVE EntryOf(e, n, past) \in Entry
  <2>1. e = 1 \/ e - 1 \in 1..Len(past)
    BY <1>1
  <2>2. (IF e = 1 THEN <<>> ELSE past[e - 1]) \in Seq(Printable)
    BY <2>1, ElementOfSeq, EmptySeq
  <2>3. (IF e = 1 THEN n ELSE e - 1) \in Nat /\ (IF e = n THEN 1 ELSE e + 1) \in Nat
    BY <1>1
  <2>. QED  BY <2>2, <2>3 DEF EntryOf, Entry
<1>3. Circle(past) = [e \in 1..n |-> EntryOf(e, n, past)]
  BY DEF Circle
<1>. HIDE DEF n
<1>4. Circle(past) \in Seq(Entry) /\ Len(Circle(past)) = n
      /\ \A e \in 1..n : Circle(past)[e] = EntryOf(e, n, past)
  <2>1. Circle(past) \in [1..n -> Entry]
    BY <1>2, <1>3
  <2>. QED  BY <1>1, <1>3, <2>1, FunctionIsSeq
<1>. QED  BY <1>1, <1>4 DEF n

LEMMA Remembered ==
  ASSUME NEW past \in Seq(Seq(Printable)), NEW t \in Seq(Printable), entries = Circle(past)
  PROVE  E!Link(t) = Circle(Append(past, t))
<1>. DEFINE n == Len(past) + 1
            new == Append(past, t)
            last == entries[E!Root].prev
            linked == [entries EXCEPT ![E!Root].prev = Len(entries) + 1]
            relinked == [linked EXCEPT ![last].next = Len(entries) + 1]
            added == [prev |-> last, next |-> E!Root, text |-> t]
<1>1. /\ Len(past) \in Nat /\ n \in Nat /\ n >= 1 /\ E!Root = 1
      /\ entries \in Seq(Entry) /\ Len(entries) = n
      /\ \A e \in 1..n : entries[e] = EntryOf(e, n, past)
  BY CircleFacts DEF E!Root
<1>2. /\ new \in Seq(Seq(Printable)) /\ Len(new) = n
      /\ \A k \in 1..(n - 1) : new[k] = past[k]
      /\ new[n] = t
  BY <1>1, AppendProperties
<1>3. /\ Circle(new) \in Seq(Entry) /\ Len(Circle(new)) = n + 1
      /\ \A e \in 1..(n + 1) : Circle(new)[e] = EntryOf(e, n + 1, new)
  BY <1>2, CircleFacts
<1>. HIDE DEF n, new
<1>4. last = n
  BY <1>1 DEF EntryOf
<1>5. added = EntryOf(n + 1, n + 1, new)
  BY <1>1, <1>2, <1>4 DEF EntryOf
<1>. HIDE DEF last
<1>6. ASSUME NEW e \in 1..n PROVE relinked[e] = EntryOf(e, n + 1, new)
  <2>1. DOMAIN entries = 1..n
    BY <1>1, LenProperties
  <2>2. entries[e] = EntryOf(e, n, past)
    BY <1>1
  <2>3. linked[e] = [prev |-> IF e = 1 THEN n + 1 ELSE e - 1,
                     next |-> IF e = n THEN 1 ELSE e + 1,
                     text |-> IF e = 1 THEN <<>> ELSE past[e - 1]]
    BY <1>1, <2>1, <2>2 DEF EntryOf
  <2>4. DOMAIN linked = 1..n
    BY <2>1
  <2>. HIDE DEF linked
  <2>5. relinked[e] = [prev |-> IF e = 1 THEN n + 1 ELSE e - 1,
                       next |-> IF e = n THEN n + 1 ELSE e + 1,
                       text |-> IF e = 1 THEN <<>> ELSE past[e - 1]]
    BY <1>1, <1>4, <2>3, <2>4
  <2>6. e # n + 1 /\ (e # 1 => e - 1 \in 1..(n - 1)) /\ (e = n => e + 1 = n + 1)
    BY <1>1
  <2>7. e # 1 => new[e - 1] = past[e - 1]
    BY <1>2, <2>6
  <2>. QED  BY <2>5, <2>6, <2>7 DEF EntryOf
<1>7. relinked \in Seq(Entry) /\ Len(relinked) = n
  <2>1. relinked = [e \in 1..n |-> relinked[e]]
    <3>1. DOMAIN entries = 1..n
      BY <1>1, LenProperties
    <3>. QED  BY <3>1
  <2>2. ASSUME NEW e \in 1..n PROVE relinked[e] \in Entry
    <3>1. e \in 1..(n + 1)
      BY <1>1
    <3>2. relinked[e] = Circle(new)[e] /\ e \in 1..Len(Circle(new))
      BY <1>3, <1>6, <3>1
    <3>. QED  BY <1>3, <3>2, ElementOfSeq
  <2>. HIDE DEF relinked, Entry
  <2>3. relinked \in [1..n -> Entry]
    BY <2>1, <2>2
  <2>. QED  BY <1>1, <2>3, FunctionIsSeq
<1>8. added \in Entry
  <2>1. n + 1 \in 1..(n + 1)
    BY <1>1
  <2>2. added = Circle(new)[n + 1] /\ n + 1 \in 1..Len(Circle(new))
    BY <1>3, <1>5, <2>1
  <2>. QED  BY <1>3, <2>2, ElementOfSeq
<1>9. E!Link(t) = Append(relinked, added)
  BY DEF E!Link, last
<1>. HIDE DEF relinked, added
<1>10. /\ Append(relinked, added) \in Seq(Entry) /\ Len(Append(relinked, added)) = n + 1
       /\ \A e \in 1..n : Append(relinked, added)[e] = relinked[e]
       /\ Append(relinked, added)[n + 1] = added
  BY <1>1, <1>7, <1>8, AppendProperties
<1>11. ASSUME NEW e \in 1..(n + 1)
       PROVE  Append(relinked, added)[e] = Circle(new)[e]
  <2>1. e \in 1..n \/ e = n + 1
    BY <1>1
  <2>. QED  BY <1>3, <1>5, <1>6, <1>10, <2>1
<1>12. Append(relinked, added) = Circle(new)
  <2>1. /\ Append(relinked, added) \in Seq(Entry) /\ Circle(new) \in Seq(Entry)
        /\ Len(Append(relinked, added)) = Len(Circle(new))
        /\ \A e \in 1..Len(Append(relinked, added)) : Append(relinked, added)[e] = Circle(new)[e]
    BY <1>3, <1>10, <1>11
  <2>. HIDE DEF Entry
  <2>. QED  BY <2>1, SeqEqual
<1>. QED  BY <1>9, <1>12 DEF new

LEMMA EditInitInv == RowFits /\ E!Init => EditInv
<1>. SUFFICES ASSUME RowFits, E!Init PROVE EditInv
  OBVIOUS
<1>1. line = <<>> /\ idx = 0 /\ cl_cur = 1 /\ editing = FALSE /\ entered = <<>>
      /\ entries = <<[prev |-> 1, next |-> 1, text |-> <<>>]>>
  BY DEF E!Init, E!Root
<1>2. Short(line) /\ Len(line) = 0
  BY <1>1, NothingShort
<1>3. entered \in Seq(Seq(Printable)) /\ Len(entered) = 0
  BY <1>1, EmptySeq
<1>4. EntryOf(1, 1, entered) = [prev |-> 1, next |-> 1, text |-> <<>>]
  BY DEF EntryOf
<1>. DEFINE circle == Circle(entered)
            root == EntryOf(1, 1, entered)
<1>5. circle \in Seq(Entry) /\ Len(circle) = 1 /\ circle[1] = root
  <2>1. /\ circle \in Seq(Entry) /\ Len(circle) = Len(entered) + 1
        /\ \A e \in 1..(Len(entered) + 1) : circle[e] = EntryOf(e, Len(entered) + 1, entered)
    BY <1>3, CircleFacts
  <2>. HIDE DEF circle
  <2>2. Len(entered) + 1 = 1
    BY <1>3
  <2>. QED  BY <2>1, <2>2
<1>. HIDE DEF Entry, circle, root
<1>6. root \in Entry
  <2>1. 1 \in 1..Len(circle)
    BY <1>5
  <2>. QED  BY <1>5, <2>1, ElementOfSeq
<1>7. entries = circle
  <2>1. <<root>> \in Seq(Entry) /\ Len(<<root>>) = 1 /\ <<root>>[1] = root
    BY <1>6
  <2>2. \A e \in 1..1 : <<root>>[e] = circle[e]
    BY <1>5, <2>1
  <2>3. <<root>> = circle
    <3>1. /\ <<root>> \in Seq(Entry) /\ circle \in Seq(Entry) /\ Len(<<root>>) = Len(circle)
          /\ \A e \in 1..Len(<<root>>) : <<root>>[e] = circle[e]
      BY <1>5, <2>1, <2>2
    <3>. QED  BY <3>1, SeqEqual
  <2>. QED  BY <1>1, <1>4, <2>3 DEF root
<1>8. entries = Circle(entered)
  BY <1>7 DEF circle
<1>9. cl_cur \in 1..(Len(entered) + 1) /\ \A k \in 1..Len(entered) : Short(entered[k])
  BY <1>1, <1>3
<1>10. idx \in 0..Len(line) /\ editing = FALSE
  BY <1>1, <1>2
<1>. QED  BY <1>2, <1>3, <1>8, <1>9, <1>10 DEF EditInv

LEMMA EntryFields ==
  ASSUME NEW e, NEW n, NEW past
  PROVE  /\ EntryOf(e, n, past).prev = IF e = 1 THEN n ELSE e - 1
         /\ EntryOf(e, n, past).next = IF e = n THEN 1 ELSE e + 1
         /\ EntryOf(e, n, past).text = IF e = 1 THEN <<>> ELSE past[e - 1]
  BY DEF EntryOf

\* The text of the entry that is the previous or the next is a line.
LEMMA EntryTexts ==
  ASSUME RowFits, EditInv
  PROVE  /\ Len(entered) \in Nat
         /\ \A e \in 1..(Len(entered) + 1) :
              /\ entries[e] = EntryOf(e, Len(entered) + 1, entered)
              /\ Short(entries[e].text)
              /\ entries[e].prev \in 1..(Len(entered) + 1)
              /\ entries[e].next \in 1..(Len(entered) + 1)
<1>1. entered \in Seq(Seq(Printable)) /\ entries = Circle(entered)
      /\ \A k \in 1..Len(entered) : Short(entered[k])
  BY DEF EditInv
<1>2. /\ Len(entered) \in Nat
      /\ \A e \in 1..(Len(entered) + 1) : entries[e] = EntryOf(e, Len(entered) + 1, entered)
  BY <1>1, CircleFacts
<1>3. ASSUME NEW e \in 1..(Len(entered) + 1)
      PROVE  /\ Short(entries[e].text)
             /\ entries[e].prev \in 1..(Len(entered) + 1)
             /\ entries[e].next \in 1..(Len(entered) + 1)
  <2>. DEFINE n == Len(entered) + 1
  <2>0. entries[e] = EntryOf(e, n, entered)
    BY <1>2
  <2>. HIDE DEF n
  <2>1. entries[e].text = IF e = 1 THEN <<>> ELSE entered[e - 1]
    BY <2>0, EntryFields
  <2>2. e = 1 \/ e - 1 \in 1..Len(entered)
    BY <1>2
  <2>3. Short(entries[e].text)
    BY <1>1, <2>1, <2>2, NothingShort
  <2>4. /\ entries[e].prev = IF e = 1 THEN n ELSE e - 1
        /\ entries[e].next = IF e = n THEN 1 ELSE e + 1
    BY <2>0, EntryFields
  <2>. QED  BY <1>2, <2>3, <2>4 DEF n
<1>. QED  BY <1>2, <1>3

LEMMA EditedInv ==
  ASSUME RowFits, EditInv, NEW e \in 1..(Len(entered) + 1), E!Edit(e)
  PROVE  EditInv'
<1>1. Short(line') /\ cl_cur' = e /\ idx' = Len(line')
  BY EntryTexts DEF E!Edit
<1>2. Len(line') \in Nat /\ Len(line') \in E!Row /\ line' \in Seq(Printable)
  BY <1>1, RowFacts, LenProperties DEF Short
<1>3. screen' = RowOf(line') /\ column' = idx'
  <2>1. screen' = E!Typed(E!EraseEol(screen, 0), 0, line') /\ column' = E!Clip(Len(line'))
    BY DEF E!Edit
  <2>2. E!Typed(E!BlankRow, 0, line') = RowOf(line')
    BY <1>2, TypedShows
  <2>3. E!Clip(Len(line')) = Len(line')
    BY <1>2 DEF E!Clip
  <2>. QED  BY <1>1, <2>1, <2>2, <2>3, ErasedIsBlank
<1>4. UNCHANGED <<entries, editing, entered>>
  BY DEF E!Edit
<1>. QED  BY <1>1, <1>2, <1>3, <1>4 DEF EditInv

LEMMA EditNextInv == RowFits /\ EditInv /\ [E!Next]_ofLine => EditInv'
<1>. SUFFICES ASSUME RowFits, EditInv, [E!Next]_ofLine PROVE EditInv'
  OBVIOUS
<1>1. /\ Short(line) /\ line \in Seq(Printable) /\ Len(line) \in Nat /\ Len(line) <= Width - 1
      /\ idx \in 0..Len(line) /\ editing \in BOOLEAN
  BY LenProperties DEF EditInv, Short
<1>2. editing => screen = RowOf(line) /\ column = idx
  BY DEF EditInv
<1>3. /\ Width \in Nat /\ Width >= 1 /\ Width # 0 /\ BufferSize \in Nat /\ Width <= BufferSize
      /\ E!Row = 0..(Width - 1)
  BY RowFacts
<1>4. /\ entered \in Seq(Seq(Printable)) /\ entries = Circle(entered) /\ Len(entered) \in Nat
      /\ \A k \in 1..Len(entered) : Short(entered[k])
      /\ cl_cur \in 1..(Len(entered) + 1)
  BY LenProperties DEF EditInv
\* A key for which the row shows the line is the invariant.
<1>5. ASSUME NEW new, NEW i \in 0..Len(new), E!Key(new, i), Short(new),
             screen' = RowOf(new), column' = i
      PROVE  EditInv'
  BY <1>4, <1>5 DEF E!Key, EditInv
<1>6. CASE E!Typing
  <2>1. line' = <<>> /\ idx' = 0 /\ cl_cur' = 1 /\ screen' = E!BlankRow /\ column' = 0
        /\ editing' = TRUE /\ UNCHANGED <<entries, entered>>
    BY <1>6 DEF E!Typing, E!Root
  <2>2. screen' = RowOf(line')
    BY <2>1, NothingShown
  <2>3. Short(line') /\ idx' \in 0..Len(line')
    BY <2>1, NothingShort
  <2>4. cl_cur' \in 1..(Len(entered') + 1)
    BY <1>4, <2>1
  <2>. QED  BY <1>4, <2>1, <2>2, <2>3, <2>4 DEF EditInv
<1>7. CASE E!Left
  <2>1. E!Key(line, idx - 1) /\ editing /\ idx > 0
        /\ column' = E!LeftOf(column) /\ UNCHANGED screen
    BY <1>7 DEF E!Left, E!MoveTo, E!Key
  <2>2. idx - 1 \in 0..Len(line) /\ column' = idx - 1
    BY <1>1, <1>2, <2>1 DEF E!LeftOf
  <2>. QED  BY <1>1, <1>2, <1>5, <2>1, <2>2
<1>8. CASE E!Right
  <2>1. E!Key(line, idx + 1) /\ editing /\ idx < Len(line)
        /\ column' = E!Clip(column + 1) /\ UNCHANGED screen
    BY <1>8 DEF E!Right, E!MoveTo, E!Key, E!len
  <2>2. idx + 1 \in 0..Len(line) /\ column + 1 \in E!Row /\ column = idx
    BY <1>1, <1>2, <1>3, <2>1
  <2>3. column' = idx + 1
    BY <2>1, <2>2 DEF E!Clip
  <2>. QED  BY <1>1, <1>2, <1>5, <2>1, <2>2, <2>3
<1>9. CASE E!Home
  <2>1. E!Key(line, 0) /\ editing /\ column' = 0 /\ UNCHANGED screen
    BY <1>9 DEF E!Home, E!MoveTo, E!Key
  <2>2. 0 \in 0..Len(line)
    BY <1>1
  <2>. QED  BY <1>1, <1>2, <1>5, <2>1, <2>2
<1>10. CASE E!End
  <2>1. E!Key(line, Len(line)) /\ editing /\ column' = E!Clip(Len(line)) /\ UNCHANGED screen
    BY <1>10 DEF E!End, E!MoveTo, E!Key, E!len
  <2>2. Len(line) \in 0..Len(line) /\ Len(line) \in E!Row
    BY <1>1, <1>3
  <2>3. column' = Len(line)
    BY <2>1, <2>2 DEF E!Clip
  <2>. QED  BY <1>1, <1>2, <1>5, <2>1, <2>2, <2>3
<1>11. CASE E!Delete
  <2>. DEFINE new == E!Until(idx) \o E!From(idx + 1)
  <2>1. E!Key(new, idx) /\ editing /\ idx < Len(line)
        /\ screen' = E!DeleteChar(screen, column) /\ UNCHANGED column
    BY <1>11 DEF E!Delete, E!Key, E!len
  <2>2. idx \in 0..(Len(line) - 1)
    BY <1>1, <2>1
  <2>3. Without(new, line, idx)
    BY DEF Without, E!Until, E!From, E!len
  <2>. HIDE DEF new
  <2>4. Short(new) /\ idx \in 0..Len(new) /\ E!DeleteChar(RowOf(line), idx) = RowOf(new)
    BY <1>1, <2>2, <2>3, DeletedShows
  <2>. QED  BY <1>2, <1>5, <2>1, <2>4
<1>12. CASE E!Backspace
  <2>. DEFINE i == idx - 1
              new == E!Until(i) \o E!From(idx)
  <2>1. E!Key(new, i) /\ editing /\ idx > 0
        /\ screen' = E!DeleteChar(screen, E!LeftOf(column)) /\ column' = E!LeftOf(column)
    BY <1>12 DEF E!Backspace, E!Key
  <2>2. i \in 0..(Len(line) - 1) /\ E!LeftOf(column) = i /\ i + 1 = idx
    BY <1>1, <1>2, <2>1 DEF E!LeftOf
  <2>3. Without(new, line, i)
    BY <2>2 DEF Without, E!Until, E!From, E!len
  <2>. HIDE DEF new, i
  <2>4. Short(new) /\ i \in 0..Len(new) /\ E!DeleteChar(RowOf(line), i) = RowOf(new)
    BY <1>1, <2>2, <2>3, DeletedShows
  <2>. QED  BY <1>2, <1>5, <2>1, <2>2, <2>4
<1>13. CASE E!Erase
  <2>1. E!Key(<<>>, 0) /\ screen' = E!EraseEol(screen, 0) /\ column' = 0
    BY <1>13 DEF E!Erase
  <2>2. Short(<<>>) /\ 0 \in 0..Len(<<>>)
    BY NothingShort
  <2>3. screen' = RowOf(<<>>)
    BY <2>1, ErasedIsBlank, NothingShown
  <2>. QED  BY <1>5, <2>1, <2>2, <2>3
<1>14. CASE E!Up
  <2>1. entries[cl_cur].prev \in 1..(Len(entered) + 1)
    BY <1>4, EntryTexts
  <2>. QED  BY <1>14, <2>1, EditedInv DEF E!Up
<1>15. CASE E!Down
  <2>1. entries[cl_cur].next \in 1..(Len(entered) + 1)
    BY <1>4, EntryTexts
  <2>. QED  BY <1>15, <2>1, EditedInv DEF E!Down
<1>16. CASE E!Return
  <2>1. editing' = FALSE /\ UNCHANGED <<line, idx, cl_cur, screen>>
    BY <1>16 DEF E!Return
  <2>2. CASE line = <<>>
    <3>1. UNCHANGED <<entries, entered>>
      BY <1>16, <2>2 DEF E!Return
    <3>. QED  BY <1>1, <1>4, <2>1, <3>1 DEF EditInv
  <2>3. CASE line # <<>>
    <3>1. entries' = E!Link(E!Capped) /\ entered' = Append(entered, line)
      BY <1>16, <2>3 DEF E!Return
    <3>2. E!Capped = line
      <4>1. Len(line) < BufferSize
        BY <1>1, <1>3
      <4>. QED  BY <1>1, <4>1, SubSeqFull DEF E!Capped, E!len
    <3>3. entries' = Circle(entered')
      BY <1>1, <1>4, <3>1, <3>2, Remembered
    <3>4. /\ entered' \in Seq(Seq(Printable)) /\ Len(entered') = Len(entered) + 1
          /\ \A k \in 1..Len(entered) : entered'[k] = entered[k]
          /\ entered'[Len(entered) + 1] = line
      BY <1>1, <1>4, <3>1, AppendProperties
    <3>5. ASSUME NEW k \in 1..Len(entered') PROVE Short(entered'[k])
      <4>1. k \in 1..Len(entered) \/ k = Len(entered) + 1
        BY <1>4, <3>4
      <4>. QED  BY <1>1, <1>4, <3>4, <4>1
    <3>6. cl_cur' \in 1..(Len(entered') + 1)
      BY <1>4, <2>1, <3>4
    <3>. QED  BY <1>1, <2>1, <3>3, <3>4, <3>5, <3>6 DEF EditInv
  <2>. QED  BY <2>2, <2>3
<1>17. ASSUME NEW ch \in Printable, E!Add(ch) PROVE EditInv'
  <2>. DEFINE new == E!Until(idx) \o <<ch>> \o E!From(idx)
  <2>1. E!Key(new, idx + 1) /\ editing /\ Len(line) < Width - 1
        /\ screen' = E!Typed(E!InsertBlank(screen, column), column, <<ch>>)
        /\ column' = E!Clip(column + 1)
    BY <1>3, <1>17 DEF E!Add, E!Key, E!Room, E!len
  <2>2. With(new, line, idx, ch)
    BY DEF With, E!Until, E!From, E!len
  <2>. HIDE DEF new
  <2>3. /\ Short(new) /\ idx + 1 \in 0..Len(new)
        /\ E!Typed(E!InsertBlank(RowOf(line), idx), idx, <<ch>>) = RowOf(new)
        /\ E!Clip(idx + 1) = idx + 1
    BY <1>1, <2>1, <2>2, AddedShows
  <2>. QED  BY <1>2, <1>5, <2>1, <2>3
<1>18. CASE UNCHANGED ofLine
  BY <1>1, <1>2, <1>4, <1>18 DEF ofLine, EditInv
<1>. QED
  BY <1>6, <1>7, <1>8, <1>9, <1>10, <1>11, <1>12, <1>13, <1>14, <1>15, <1>16, <1>17, <1>18
  DEF E!Next

\* The line that Up shows.
LEMMA UpIsOlderStep == RowFits /\ EditInv => E!UpIsOlder
<1>. SUFFICES ASSUME RowFits, EditInv, E!Up PROVE E!UpIsOlder
  BY DEF E!UpIsOlder
<1>. DEFINE n == Len(entered)
            age == (E!Shown(cl_cur) + 1) % (n + 1)
<1>1. n \in Nat /\ cl_cur \in 1..(n + 1)
  BY EntryTexts DEF EditInv
<1>2. /\ \A e \in 1..(n + 1) : entries[e] = EntryOf(e, n + 1, entered)
      /\ entries[cl_cur].prev \in 1..(n + 1)
  BY <1>1, EntryTexts
<1>. DEFINE p == entries[cl_cur].prev
<1>3. line' = entries[p].text
  BY DEF E!Up, E!Edit
<1>4. p = IF cl_cur = 1 THEN n + 1 ELSE cl_cur - 1
  <2>1. entries[cl_cur] = EntryOf(cl_cur, n + 1, entered)
    BY <1>1, <1>2
  <2>. QED  BY <2>1, EntryFields
<1>5. line' = IF p = 1 THEN <<>> ELSE entered[p - 1]
  <2>1. entries[p] = EntryOf(p, n + 1, entered)
    BY <1>2
  <2>. QED  BY <1>3, <2>1, EntryFields
<1>6. E!Shown(cl_cur) = IF cl_cur = 1 THEN 0 ELSE n + 2 - cl_cur
  BY DEF E!Shown, E!Root
<1>. HIDE DEF n, p
<1>7. /\ p = 1 => age = 0
      /\ p # 1 => age # 0 /\ n + 1 - age = p - 1
  <2>1. CASE cl_cur = 1
    <3>1. age = 1 % (n + 1) /\ p = n + 1
      BY <1>4, <1>6, <2>1
    <3>2. n = 0 => 1 % (n + 1) = 0
      OBVIOUS
    <3>3. n > 0 => 1 % (n + 1) = 1
      BY <1>1
    <3>. QED  BY <1>1, <3>1, <3>2, <3>3
  <2>2. CASE cl_cur = 2
    <3>1. age = (n + 1) % (n + 1) /\ p = 1
      BY <1>1, <1>4, <1>6, <2>2
    <3>2. (n + 1) % (n + 1) = 0
      BY <1>1
    <3>. QED  BY <3>1, <3>2
  <2>3. CASE cl_cur > 2
    <3>1. p = cl_cur - 1 /\ p # 1 /\ E!Shown(cl_cur) + 1 = n + 3 - cl_cur
      BY <1>1, <1>4, <1>6, <2>3
    <3>2. n + 3 - cl_cur \in 1..n
      BY <1>1, <2>3
    <3>3. age = n + 3 - cl_cur
      BY <1>1, <3>1, <3>2
    <3>. QED  BY <1>1, <3>1, <3>2, <3>3
  <2>. QED  BY <1>1, <2>1, <2>2, <2>3
<1>8. line' = IF age = 0 THEN <<>> ELSE entered[n + 1 - age]
  BY <1>5, <1>7
<1>. QED  BY <1>8 DEF E!UpIsOlder, n

LEMMA EditInvHolds == ASSUME RowFits PROVE ConsoleSpec => []EditInv
<1>1. ConsoleInit => E!Init
  BY DEF ConsoleInit
<1>2. [ConsoleNext]_consoleVars => [E!Next]_ofLine
  BY DEF ConsoleNext, consoleVars, ofLine
<1>3. E!Init => EditInv
  BY EditInitInv
<1>4. EditInv /\ [E!Next]_ofLine => EditInv'
  BY EditNextInv
<1>. QED  BY <1>1, <1>2, <1>3, <1>4, PTL DEF ConsoleSpec

\* On a terminal of any width that the buffer has room for, what the user sees is
\* the line that will be evaluated and the place in it, after any keys in any
\* order (lib/editline.mu4: each key changes the buffer and, on its own, what it
\* tells the terminal).
THEOREM ScreenShowsLineCorrect == ASSUME RowFits PROVE ConsoleSpec => []ScreenShowsLine
<1>1. EditInv => ScreenShowsLine
  <2>1. EditInv /\ editing => E!Typed(E!BlankRow, 0, line) = RowOf(line)
    BY TypedShows DEF EditInv, Short
  <2>. QED  BY <2>1 DEF EditInv, ScreenShowsLine, E!ScreenShowsLine
<1>. QED  BY <1>1, EditInvHolds, PTL

\* Up shows the line that was entered before the one that is shown, and an empty
\* one after the oldest, whatever was entered (cl>history links entries into the
\* circle, cl-key-up follows it).
THEOREM UpShowsOlderCorrect == ASSUME RowFits PROVE ConsoleSpec => UpShowsOlder
<1>1. EditInv => [part = "line" => E!UpIsOlder]_ofLine
  BY UpIsOlderStep
<1>. QED  BY <1>1, EditInvHolds, PTL DEF UpShowsOlder
-----------------------------------------------------------------------------
(* Source text. Every reading goes forward over a piece of the text and     *)
(* counts its newlines, so that the number of the line follows from the     *)
(* position; a string has no newlines, and a file begins a count of its own.*)

\* A set of numbers has a least element.
LEMMA Least ==
  ASSUME NEW N \in SUBSET Nat, N # {}
  PROVE  \E k \in N : \A l \in N : k <= l
<1>1. \E k \in N : \A l \in N : ~(<<l, k>> \in OpToRel(<, Nat))
  BY NatLessThanWellFounded, WFMin
<1>2. PICK k \in N : \A l \in N : ~(<<l, k>> \in OpToRel(<, Nat))
  BY <1>1
<1>3. ASSUME NEW l \in N PROVE k <= l
  <2>1. k \in Nat /\ l \in Nat
    OBVIOUS
  <2>2. ~(l < k)
    BY <1>2, <2>1 DEF OpToRel
  <2>. QED  BY <2>1, <2>2
<1>. QED  BY <1>2, <1>3

\* Where a scan stops.
Stops(n, t, i, chars) ==
  /\ n \in i..Len(t)
  /\ \A k \in i..(n - 1) : t[k + 1] \notin chars
  /\ n < Len(t) => t[n + 1] \in chars

LEMMA Stopped ==
  ASSUME NEW t \in Seq(S!Char), NEW i \in 0..Len(t), NEW chars
  PROVE  Stops(S!StopAt(t, i, chars), t, i, chars)
<1>. DEFINE stops == {k \in i..(Len(t) - 1) : t[k + 1] \in chars}
            n == S!StopAt(t, i, chars)
<1>1. Len(t) \in Nat /\ i \in Nat /\ i <= Len(t)
  BY LenProperties
<1>2. n = IF stops = {} THEN Len(t) ELSE CHOOSE k \in stops : \A l \in stops : k <= l
  BY DEF S!StopAt
<1>3. stops \in SUBSET Nat
  BY <1>1
<1>. HIDE DEF n
<1>4. CASE stops = {}
  <2>1. n = Len(t)
    BY <1>2, <1>4
  <2>2. ASSUME NEW k \in i..(n - 1) PROVE t[k + 1] \notin chars
    BY <1>4, <2>1, <2>2
  <2>. QED  BY <1>1, <2>1, <2>2 DEF Stops, n
<1>5. CASE stops # {}
  <2>1. n \in stops /\ \A l \in stops : n <= l
    <3>1. \E k \in stops : \A l \in stops : k <= l
      <4>. HIDE DEF stops
      <4>. QED  BY <1>3, <1>5, Least
    <3>. HIDE DEF stops
    <3>. QED  BY <1>2, <1>5, <3>1
  <2>2. n \in i..(Len(t) - 1) /\ t[n + 1] \in chars
    BY <2>1
  <2>3. ASSUME NEW k \in i..(n - 1) PROVE t[k + 1] \notin chars
    <3>1. k \in i..(Len(t) - 1) /\ ~(n <= k)
      BY <1>1, <2>2
    <3>. QED  BY <2>1, <3>1
  <2>. QED  BY <1>1, <2>2, <2>3 DEF Stops, n
<1>. QED  BY <1>4, <1>5

\* Source counts as any module does.
LEMMA SameCardinality ==
  ASSUME NEW N PROVE S!Cardinality(N) = Cardinality(N)
  BY DEF S!Cardinality, Cardinality

\* Newlines are counted piece by piece.
LEMMA Counted ==
  ASSUME NEW t, NEW i \in Nat, NEW j \in Nat, NEW k \in Nat, i <= j, j <= k
  PROVE  /\ S!Newlines(t, i, j) \in Nat /\ S!Newlines(t, j, k) \in Nat
         /\ S!Newlines(t, i, k) = S!Newlines(t, i, j) + S!Newlines(t, j, k)
<1>. DEFINE Lf(l, m) == {c \in (l + 1)..m : t[c] = "newline"}
<1>1. ASSUME NEW l \in Nat, NEW m \in Nat
      PROVE  IsFiniteSet(Lf(l, m)) /\ Cardinality(Lf(l, m)) \in Nat
  <2>1. IsFiniteSet((l + 1)..m) /\ Lf(l, m) \in SUBSET ((l + 1)..m)
    BY FS_Interval
  <2>2. IsFiniteSet(Lf(l, m))
    <3>. HIDE DEF Lf
    <3>. QED  BY <2>1, FS_Subset
  <2>. QED  BY <2>2, FS_CardinalityType
<1>2. Lf(i, k) = Lf(i, j) \cup Lf(j, k) /\ Lf(i, j) \cap Lf(j, k) = {}
  OBVIOUS
<1>3. /\ S!Newlines(t, i, j) = Cardinality(Lf(i, j))
      /\ S!Newlines(t, j, k) = Cardinality(Lf(j, k))
      /\ S!Newlines(t, i, k) = Cardinality(Lf(i, k))
  <2>1. ASSUME NEW l, NEW m PROVE S!Newlines(t, l, m) = Cardinality(Lf(l, m))
    BY SameCardinality DEF S!Newlines
  <2>. QED  BY <2>1
<1>. HIDE DEF Lf
<1>4. Cardinality(Lf(i, k)) = Cardinality(Lf(i, j)) + Cardinality(Lf(j, k)) - Cardinality({})
  BY <1>1, <1>2, FS_Union
<1>. QED  BY <1>1, <1>3, <1>4, FS_EmptySet

LEMMA CountType ==
  ASSUME NEW t, NEW i \in Nat, NEW j \in Nat, i <= j
  PROVE  S!Newlines(t, i, j) \in Nat
<1>1. j <= j
  OBVIOUS
<1>. QED  BY <1>1, Counted

\* A text that is evaluated is one line.
OneLine(t) == \A k \in 1..Len(t) : t[k] # "newline"

LEMMA NoneCounted ==
  ASSUME NEW t, NEW i \in Nat, NEW j \in Nat,
         i = j \/ (OneLine(t) /\ Len(t) \in Nat /\ j <= Len(t))
  PROVE  S!Newlines(t, i, j) = 0
<1>1. {c \in (i + 1)..j : t[c] = "newline"} = {}
  BY DEF OneLine
<1>2. S!Newlines(t, i, j) = Cardinality({})
  BY <1>1, SameCardinality DEF S!Newlines
<1>. QED  BY <1>2, FS_EmptySet

LEMMA NoneAtStart ==
  ASSUME NEW t PROVE S!Newlines(t, 0, 0) = 0
<1>1. 0 \in Nat
  OBVIOUS
<1>. QED  BY <1>1, NoneCounted

\* What the reader keeps.
Pieces == [at : Nat, length : Nat]
Reader == [first : Nat, lineno : Nat, parsed_lineno : Nat, parsed : Pieces, trailing : Pieces]

\* Reading goes forward, and the number of the line with it.
Forward(t, r, s) ==
  /\ r \in Reader /\ s \in Reader
  /\ r.first <= s.first /\ s.first <= Len(t)
  /\ s.lineno = r.lineno + S!Newlines(t, r.first, s.first)

LEMMA Further ==
  ASSUME NEW t, NEW r, NEW s, NEW u, Forward(t, r, s), Forward(t, s, u)
  PROVE  Forward(t, r, u)
<1>. DEFINE a1 == r.first
            a2 == s.first
            a3 == u.first
<1>1. /\ a1 \in Nat /\ a2 \in Nat /\ a3 \in Nat /\ r.lineno \in Nat /\ s.lineno \in Nat
      /\ a1 <= a2 /\ a2 <= a3 /\ a3 <= Len(t)
      /\ s.lineno = r.lineno + S!Newlines(t, a1, a2)
      /\ u.lineno = s.lineno + S!Newlines(t, a2, a3)
  BY DEF Forward, Reader
<1>2. r \in Reader /\ u \in Reader
  BY DEF Forward
<1>3. a1 <= a3 /\ u.lineno = r.lineno + S!Newlines(t, a1, a3)
  <2>. HIDE DEF a1, a2, a3
  <2>1. /\ S!Newlines(t, a1, a2) \in Nat /\ S!Newlines(t, a2, a3) \in Nat
        /\ S!Newlines(t, a1, a3) = S!Newlines(t, a1, a2) + S!Newlines(t, a2, a3)
    BY <1>1, Counted
  <2>. QED  BY <1>1, <2>1
<1>. QED  BY <1>1, <1>2, <1>3 DEF Forward

LEMMA SkipsForward ==
  ASSUME NEW t \in Seq(S!Char), NEW r \in Reader, r.first <= Len(t)
  PROVE  /\ Forward(t, r, S!Skip(t, r))
         /\ Stops(S!Skip(t, r).first, t, r.first, S!Char \ S!Spaces)
<1>. DEFINE n == S!StopAt(t, r.first, S!Char \ S!Spaces)
            s == S!Skip(t, r)
<1>1. Len(t) \in Nat /\ r.first \in Nat /\ r.first \in 0..Len(t) /\ r.lineno \in Nat
  BY LenProperties DEF Reader
<1>2. Stops(n, t, r.first, S!Char \ S!Spaces)
  BY <1>1, Stopped
<1>3. n \in Nat /\ r.first <= n /\ n <= Len(t)
  BY <1>1, <1>2 DEF Stops
<1>4. s = [r EXCEPT !.first = n, !.lineno = @ + S!Newlines(t, r.first, n)]
  BY DEF S!Skip
<1>. HIDE DEF n, s
<1>5. S!Newlines(t, r.first, n) \in Nat
  BY <1>1, <1>3, CountType
<1>6. /\ s.first = n /\ s.lineno = r.lineno + S!Newlines(t, r.first, n)
      /\ s \in Reader
  <2>. DEFINE lines == r.lineno + S!Newlines(t, r.first, n)
  <2>1. lines \in Nat /\ s = [r EXCEPT !.first = n, !.lineno = lines]
    BY <1>1, <1>4, <1>5
  <2>. HIDE DEF lines
  <2>2. s.first = n /\ s.lineno = lines /\ s \in Reader
    BY <1>3, <2>1 DEF Reader
  <2>. QED  BY <2>2 DEF lines
<1>. QED  BY <1>2, <1>3, <1>6 DEF Forward, s, n

\* The piece that is parsed begins where the reader is and ends where a
\* delimiter stands, and the reader is behind the delimiter.
LEMMA ScansForward ==
  ASSUME NEW t \in Seq(S!Char), NEW r \in Reader, r.first <= Len(t), NEW delim
  PROVE  LET s == S!Scan(t, r, delim)
             chars == IF delim = "space" THEN S!Spaces ELSE {delim} IN
         /\ Forward(t, r, s)
         /\ s.parsed \in Pieces /\ s.parsed.at = r.first /\ s.parsed_lineno = r.lineno
         /\ Stops(S!End(s.parsed), t, r.first, chars)
         /\ s.first \in {S!End(s.parsed), S!End(s.parsed) + 1}
<1>. DEFINE s == S!Scan(t, r, delim)
            chars == IF delim = "space" THEN S!Spaces ELSE {delim}
            n == S!StopAt(t, r.first, chars)
            end == IF n < Len(t) THEN n + 1 ELSE n
<1>1. Len(t) \in Nat /\ r.first \in Nat /\ r.first \in 0..Len(t) /\ r.lineno \in Nat
  BY LenProperties DEF Reader
<1>. HIDE DEF chars
<1>2. Stops(n, t, r.first, chars)
  BY <1>1, Stopped
<1>. HIDE DEF n
<1>3. /\ n \in Nat /\ r.first <= n /\ n <= Len(t)
      /\ end \in Nat /\ n <= end /\ end <= Len(t) /\ end \in {n, n + 1}
  BY <1>1, <1>2 DEF Stops
<1>4. s = [r EXCEPT !.parsed = S!Piece(r.first, n), !.trailing = S!Piece(n, end),
                    !.first = end, !.parsed_lineno = r.lineno,
                    !.lineno = @ + S!Newlines(t, r.first, end)]
  BY DEF S!Scan, n, chars
<1>. HIDE DEF s, end
<1>5. S!Newlines(t, r.first, end) \in Nat
  BY <1>1, <1>3, CountType
<1>6. /\ S!Piece(r.first, n) \in Pieces /\ S!Piece(n, end) \in Pieces
      /\ S!Piece(r.first, n).at = r.first /\ S!End(S!Piece(r.first, n)) = n
  BY <1>1, <1>3 DEF Pieces, S!Piece, S!End
<1>7. /\ s.first = end /\ s.lineno = r.lineno + S!Newlines(t, r.first, end)
      /\ s.parsed = S!Piece(r.first, n) /\ s.parsed_lineno = r.lineno
      /\ s \in Reader
  <2>. DEFINE lines == r.lineno + S!Newlines(t, r.first, end)
              piece == S!Piece(r.first, n)
              space == S!Piece(n, end)
  <2>1. /\ lines \in Nat
        /\ s = [r EXCEPT !.parsed = piece, !.trailing = space,
                         !.first = end, !.parsed_lineno = r.lineno, !.lineno = lines]
    BY <1>1, <1>4, <1>5
  <2>2. piece \in Pieces /\ space \in Pieces
    BY <1>6
  <2>. HIDE DEF lines, piece, space, Pieces
  <2>3. /\ s.first = end /\ s.lineno = lines /\ s.parsed = piece /\ s.parsed_lineno = r.lineno
        /\ s \in Reader
    BY <1>1, <1>3, <2>1, <2>2 DEF Reader
  <2>. QED  BY <2>3 DEF lines, piece
<1>8. Forward(t, r, s)
  BY <1>1, <1>3, <1>7 DEF Forward
<1>. QED  BY <1>2, <1>3, <1>6, <1>7, <1>8 DEF s, chars

\* A token is read forward, and put back forward from where the reader was.
LEMMA ReadsForward ==
  ASSUME NEW t \in Seq(S!Char), NEW r \in Reader, r.first <= Len(t)
  PROVE  LET s == S!ReadToken(t, r) IN
         /\ Forward(t, r, s) /\ Forward(t, r, S!BackUp(s))
         /\ s.parsed \in Pieces
         /\ Stops(s.parsed.at, t, r.first, S!Char \ S!Spaces)
         /\ Stops(S!End(s.parsed), t, s.parsed.at, S!Spaces)
         /\ s.first \in {S!End(s.parsed), S!End(s.parsed) + 1}
<1>. DEFINE q == S!Skip(t, r)
            s == S!Scan(t, q, "space")
            b == S!BackUp(s)
<1>1. Forward(t, r, q) /\ Stops(q.first, t, r.first, S!Char \ S!Spaces)
  BY SkipsForward
<1>2. q \in Reader /\ q.first <= Len(t)
  BY <1>1 DEF Forward
<1>. HIDE DEF q
<1>3. /\ Forward(t, q, s)
      /\ s.parsed \in Pieces /\ s.parsed.at = q.first /\ s.parsed_lineno = q.lineno
      /\ Stops(S!End(s.parsed), t, q.first, S!Spaces)
      /\ s.first \in {S!End(s.parsed), S!End(s.parsed) + 1}
  BY <1>2, ScansForward
<1>4. S!ReadToken(t, r) = s
  BY DEF S!ReadToken, q
<1>. HIDE DEF s
<1>5. Forward(t, r, s)
  BY <1>1, <1>3, Further
<1>6. Forward(t, r, b)
  <2>1. b = [s EXCEPT !.first = q.first, !.lineno = q.lineno]
    BY <1>3 DEF S!BackUp
  <2>2. s \in Reader
    BY <1>5 DEF Forward
  <2>. HIDE DEF b
  <2>3. b \in Reader /\ b.first = q.first /\ b.lineno = q.lineno
    BY <1>2, <2>1, <2>2 DEF Reader
  <2>. QED  BY <1>1, <2>3 DEF Forward
<1>. QED  BY <1>1, <1>3, <1>4, <1>5, <1>6

LEMMA CommentsForward ==
  ASSUME NEW t \in Seq(S!Char), NEW r \in Reader, r.first <= Len(t)
  PROVE  LET s == S!Comment(t, S!ReadToken(t, r)) IN Forward(t, r, s)
<1>. DEFINE q == S!ReadToken(t, r)
            s == S!Comment(t, q)
<1>1. Forward(t, r, q)
  BY ReadsForward
<1>. HIDE DEF q
<1>2. q \in Reader /\ q.first <= Len(t)
  BY <1>1 DEF Forward
<1>3. Forward(t, q, S!Scan(t, q, "newline"))
  BY <1>2, ScansForward
<1>4. Forward(t, r, S!Scan(t, q, "newline"))
  BY <1>1, <1>3, Further
<1>5. s = S!Scan(t, q, "newline") \/ s = q
  BY DEF S!Comment
<1>. QED  BY <1>1, <1>4, <1>5 DEF q

\* A source that waits for the one it suspended it for.
Outers == [text : Seq(S!Char), first : Nat, line : Nat, token : Pieces]

\* The k-th source, t, is a file and its reader is in the line it counted, or it
\* is a string.
Placed(number, k, os, t, first) ==
  IF k = 1 \/ os[k - 1].line # 0 THEN number = 1 + S!Newlines(t, 0, first) ELSE OneLine(t)

\* The number of the line each source is in, or was suspended in: a file that
\* was loaded preserves it, a string that is evaluated leaves it as it is.
Numbered(n, os, t, r) ==
  /\ n \in [1..(Len(os) + 1) -> Nat \ {0}]
  /\ n[Len(os) + 1] = r.lineno
  /\ \A k \in 1..Len(os) :
       /\ os[k].line \in {0, n[k]}
       /\ os[k].line = 0 => n[k] = n[k + 1]
       /\ Placed(n[k], k, os, os[k].text, os[k].first)
  /\ Placed(r.lineno, Len(os) + 1, os, t, r.first)

SourceInv ==
  /\ source_text \in Seq(S!Char)
  /\ reader \in Reader /\ reader.first <= Len(source_text)
  /\ token \in Pieces
  /\ source_outer \in Seq(Outers)
  /\ \A k \in 1..Len(source_outer) : source_outer[k].first <= Len(source_outer[k].text)
  /\ \E n : Numbered(n, source_outer, source_text, reader)

LEMMA MovedNumbers ==
  ASSUME NEW os \in Seq(Outers), NEW t \in Seq(S!Char), NEW r, NEW s, NEW n,
         Numbered(n, os, t, r), Forward(t, r, s)
  PROVE  \E m : Numbered(m, os, t, s)
<1>. DEFINE N == Len(os)
            m == [n EXCEPT ![N + 1] = s.lineno]
            count == S!Newlines(t, r.first, s.first)
<1>1. N \in Nat /\ Len(t) \in Nat
  BY LenProperties
<1>2. /\ n \in [1..(N + 1) -> Nat \ {0}] /\ n[N + 1] = r.lineno
      /\ Placed(r.lineno, N + 1, os, t, r.first)
  BY DEF Numbered
<1>3. \A k \in 1..N : /\ os[k].line \in {0, n[k]}
                      /\ os[k].line = 0 => n[k] = n[k + 1]
                      /\ Placed(n[k], k, os, os[k].text, os[k].first)
  BY DEF Numbered
<1>4. /\ r.first \in Nat /\ s.first \in Nat /\ r.first <= s.first /\ s.first <= Len(t)
      /\ r.lineno \in Nat /\ s.lineno \in Nat /\ s.lineno = r.lineno + count
  BY DEF Forward, Reader
<1>5. count \in Nat
  BY <1>4, CountType
<1>6. r.lineno # 0 /\ s.lineno # 0
  <2>1. N + 1 \in 1..(N + 1)
    BY <1>1
  <2>. HIDE DEF count, N
  <2>. QED  BY <1>2, <1>4, <1>5, <2>1
<1>7. /\ m \in [1..(N + 1) -> Nat \ {0}] /\ m[N + 1] = s.lineno
      /\ \A k \in 1..N : m[k] = n[k]
  <2>. HIDE DEF count, N
  <2>. QED  BY <1>1, <1>2, <1>4, <1>6
<1>8. CASE N + 1 = 1 \/ os[(N + 1) - 1].line # 0
  <2>1. r.lineno = 1 + S!Newlines(t, 0, r.first)
    BY <1>2, <1>8 DEF Placed
  <2>2. S!Newlines(t, 0, s.first) = S!Newlines(t, 0, r.first) + count
        /\ S!Newlines(t, 0, r.first) \in Nat
    <3>1. 0 \in Nat /\ 0 <= r.first
      BY <1>4
    <3>. QED  BY <1>4, <3>1, Counted
  <2>3. s.lineno = 1 + S!Newlines(t, 0, s.first)
    <3>. HIDE DEF count
    <3>. QED  BY <1>4, <1>5, <2>1, <2>2
  <2>4. Placed(s.lineno, N + 1, os, t, s.first)
    BY <1>8, <2>3 DEF Placed
  <2>5. \A k \in 1..N : os[k].line = 0 => m[k] = m[k + 1]
    <3>1. ASSUME NEW k \in 1..N, os[k].line = 0 PROVE m[k] = m[k + 1]
      <4>1. k # N
        BY <1>1, <1>8, <3>1
      <4>2. k + 1 \in 1..N
        BY <1>1, <4>1
      <4>. HIDE DEF m, N
      <4>. QED  BY <1>3, <1>7, <3>1, <4>2
    <3>. QED  BY <3>1
  <2>6. Numbered(m, os, t, s)
    <3>1. \A k \in 1..N : /\ os[k].line \in {0, m[k]}
                          /\ Placed(m[k], k, os, os[k].text, os[k].first)
      <4>. HIDE DEF m, N
      <4>. QED  BY <1>3, <1>7
    <3>. HIDE DEF m
    <3>. QED  BY <1>7, <2>4, <2>5, <3>1 DEF Numbered
  <2>. QED  BY <2>6
<1>9. CASE ~(N + 1 = 1 \/ os[(N + 1) - 1].line # 0)
  <2>1. OneLine(t)
    BY <1>2, <1>9 DEF Placed
  <2>2. count = 0
    BY <1>1, <1>4, <2>1, NoneCounted
  <2>3. s.lineno = r.lineno
    BY <1>4, <2>2
  <2>4. Placed(s.lineno, N + 1, os, t, s.first)
    BY <1>9, <2>1 DEF Placed
  <2>5. Numbered(n, os, t, s)
    BY <1>2, <1>3, <2>3, <2>4 DEF Numbered
  <2>. QED  BY <2>5
<1>. QED  BY <1>8, <1>9

LEMMA SuspendedNumbers ==
  ASSUME NEW os \in Seq(Outers), NEW t, NEW r \in Reader, NEW n, Numbered(n, os, t, r),
         NEW x \in Outers, x.text = t, x.first = r.first, x.line \in {0, r.lineno},
         NEW u, NEW s \in Reader, s.first = 0,
         s.lineno = IF x.line = 0 THEN r.lineno ELSE 1, x.line = 0 => OneLine(u)
  PROVE  \E m : Numbered(m, Append(os, x), u, s)
<1>. DEFINE N == Len(os)
            p == Append(os, x)
            m == [k \in 1..(N + 2) |-> IF k <= N + 1 THEN n[k] ELSE s.lineno]
<1>1. N \in Nat
  BY LenProperties
<1>2. /\ n \in [1..(N + 1) -> Nat \ {0}] /\ n[N + 1] = r.lineno
      /\ Placed(r.lineno, N + 1, os, t, r.first)
  BY DEF Numbered
<1>3. \A k \in 1..N : /\ os[k].line \in {0, n[k]}
                      /\ os[k].line = 0 => n[k] = n[k + 1]
                      /\ Placed(n[k], k, os, os[k].text, os[k].first)
  BY DEF Numbered
<1>4. Len(p) = N + 1 /\ (\A k \in 1..N : p[k] = os[k]) /\ p[N + 1] = x
  BY AppendProperties
<1>. HIDE DEF N, p
<1>5. r.lineno # 0 /\ s.lineno \in Nat \ {0} /\ N + 1 \in 1..(N + 1)
  <2>1. r.lineno \in Nat /\ s.lineno \in Nat
    BY DEF Reader
  <2>. QED  BY <1>1, <1>2, <2>1
<1>6. /\ m \in [1..(N + 2) -> Nat \ {0}] /\ m[N + 2] = s.lineno
      /\ \A k \in 1..(N + 1) : m[k] = n[k]
  BY <1>1, <1>2, <1>5
<1>. HIDE DEF m
<1>7. ASSUME NEW k \in 1..(N + 1), NEW number, NEW v, NEW first
      PROVE  Placed(number, k, p, v, first) <=> Placed(number, k, os, v, first)
  <2>1. k = 1 \/ k - 1 \in 1..N
    BY <1>1
  <2>2. k = 1 \/ p[k - 1] = os[k - 1]
    BY <1>4, <2>1
  <2>. QED  BY <2>2 DEF Placed
<1>8. Placed(s.lineno, N + 2, p, u, s.first)
  <2>1. (N + 2) - 1 = N + 1 /\ N + 2 # 1
    BY <1>1
  <2>2. CASE x.line = 0
    BY <1>4, <2>1, <2>2 DEF Placed
  <2>3. CASE x.line # 0
    <3>1. S!Newlines(u, 0, 0) = 0
      BY NoneAtStart
    <3>2. s.lineno = 1 + S!Newlines(u, 0, s.first)
      BY <2>3, <3>1
    <3>. QED  BY <1>4, <2>1, <2>3, <3>2 DEF Placed
  <2>. QED  BY <2>2, <2>3
<1>9. ASSUME NEW k \in 1..(N + 1)
      PROVE  /\ p[k].line \in {0, m[k]}
             /\ p[k].line = 0 => m[k] = m[k + 1]
             /\ Placed(m[k], k, p, p[k].text, p[k].first)
  <2>1. CASE k = N + 1
    <3>1. p[k] = x /\ m[k] = r.lineno /\ m[k + 1] = s.lineno
      <4>1. k + 1 = N + 2
        BY <1>1, <2>1
      <4>. QED  BY <1>2, <1>4, <1>6, <2>1, <4>1
    <3>2. Placed(r.lineno, k, p, t, r.first)
      BY <1>2, <1>7, <2>1
    <3>. QED  BY <3>1, <3>2
  <2>2. CASE k # N + 1
    <3>1. k \in 1..N /\ k + 1 \in 1..(N + 1)
      BY <1>1, <2>2
    <3>2. p[k] = os[k] /\ m[k] = n[k] /\ m[k + 1] = n[k + 1]
      BY <1>4, <1>6, <3>1
    <3>3. Placed(n[k], k, p, os[k].text, os[k].first)
      BY <1>3, <1>7, <3>1
    <3>. QED  BY <1>3, <3>1, <3>2, <3>3
  <2>. QED  BY <2>1, <2>2
<1>10. Numbered(m, p, u, s)
  <2>1. Len(p) + 1 = N + 2
    BY <1>1, <1>4
  <2>. QED  BY <1>4, <1>6, <1>8, <1>9, <2>1 DEF Numbered
<1>. QED  BY <1>10 DEF p

LEMMA ResumedNumbers ==
  ASSUME NEW os \in Seq(Outers), os # <<>>, NEW t, NEW r, NEW n, Numbered(n, os, t, r),
         NEW back, back = os[Len(os)],
         NEW s, s.first = back.first,
         s.lineno = IF back.line = 0 THEN r.lineno ELSE back.line
  PROVE  \E m : Numbered(m, SubSeq(os, 1, Len(os) - 1), back.text, s)
<1>. DEFINE N == Len(os)
            p == SubSeq(os, 1, N - 1)
            m == [k \in 1..N |-> n[k]]
<1>1. N \in Nat /\ N >= 1 /\ N - 1 \in Nat
  BY LenProperties, EmptySeq
<1>2. /\ n \in [1..(N + 1) -> Nat \ {0}] /\ n[N + 1] = r.lineno
  BY DEF Numbered
<1>3. \A k \in 1..N : /\ os[k].line \in {0, n[k]}
                      /\ os[k].line = 0 => n[k] = n[k + 1]
                      /\ Placed(n[k], k, os, os[k].text, os[k].first)
  BY DEF Numbered
<1>4. Len(p) = N - 1 /\ \A k \in 1..(N - 1) : p[k] = os[k]
  BY WithoutLast
<1>5. back = os[N]
  OBVIOUS
<1>. HIDE DEF N, p
<1>6. /\ m \in [1..N -> Nat \ {0}]
      /\ \A k \in 1..N : m[k] = n[k]
  BY <1>1, <1>2
<1>. HIDE DEF m
<1>7. ASSUME NEW k \in 1..N, NEW number, NEW v, NEW first
      PROVE  Placed(number, k, p, v, first) <=> Placed(number, k, os, v, first)
  <2>1. k = 1 \/ k - 1 \in 1..(N - 1)
    BY <1>1
  <2>2. k = 1 \/ p[k - 1] = os[k - 1]
    BY <1>4, <2>1
  <2>. QED  BY <2>2 DEF Placed
<1>8. N \in 1..N
  BY <1>1
<1>9. s.lineno = n[N]
  BY <1>2, <1>3, <1>5, <1>8
<1>10. Placed(s.lineno, N, p, back.text, s.first)
  <2>1. Placed(n[N], N, os, back.text, back.first)
    BY <1>3, <1>5, <1>8
  <2>. QED  BY <1>7, <1>8, <1>9, <2>1
<1>11. ASSUME NEW k \in 1..(N - 1)
       PROVE  /\ p[k].line \in {0, m[k]}
              /\ p[k].line = 0 => m[k] = m[k + 1]
              /\ Placed(m[k], k, p, p[k].text, p[k].first)
  <2>1. k \in 1..N /\ k + 1 \in 1..N
    BY <1>1
  <2>2. p[k] = os[k] /\ m[k] = n[k] /\ m[k + 1] = n[k + 1]
    BY <1>4, <1>6, <2>1
  <2>3. Placed(n[k], k, p, os[k].text, os[k].first)
    BY <1>3, <1>7, <2>1
  <2>. QED  BY <1>3, <2>1, <2>2, <2>3
<1>12. Numbered(m, p, back.text, s)
  <2>1. Len(p) + 1 = N
    BY <1>1, <1>4
  <2>2. m[N] = s.lineno
    BY <1>6, <1>8, <1>9
  <2>. QED  BY <1>4, <1>6, <1>10, <1>11, <2>1, <2>2 DEF Numbered
<1>. QED  BY <1>12 DEF p, N

LEMMA SourceInitInv == S!Init => SourceInv
<1>. SUFFICES ASSUME S!Init PROVE SourceInv
  OBVIOUS
<1>1. source_text \in SourceFile /\ reader = S!Start(1) /\ source_outer = <<>>
      /\ token = S!Piece(0, 0)
  BY DEF S!Init
<1>2. source_text \in Seq(S!Char)
  BY <1>1, SourceAssumption DEF S!TextAssumption
<1>3. token \in Pieces
  BY <1>1 DEF Pieces, S!Piece
<1>4. reader \in Reader /\ reader.first = 0 /\ reader.lineno = 1
  <2>1. S!Piece(0, 0) \in Pieces
    BY DEF Pieces, S!Piece
  <2>. QED  BY <1>1, <2>1 DEF Reader, S!Start
<1>5. Len(source_text) \in Nat /\ source_outer \in Seq(Outers) /\ Len(source_outer) = 0
  BY <1>1, <1>2, LenProperties, EmptySeq
<1>6. Placed(reader.lineno, 1, source_outer, source_text, reader.first)
  <2>1. S!Newlines(source_text, 0, 0) = 0
    BY NoneAtStart
  <2>. QED  BY <1>4, <2>1 DEF Placed
<1>7. Numbered([k \in 1..1 |-> 1], source_outer, source_text, reader)
  BY <1>4, <1>5, <1>6 DEF Numbered
<1>. QED  BY <1>2, <1>3, <1>4, <1>5, <1>7 DEF SourceInv

\* A reading, of any of the words.
LEMMA MovedInv ==
  ASSUME SourceInv, Forward(source_text, reader, reader'), token' \in Pieces,
         UNCHANGED <<source_text, source_outer>>
  PROVE  SourceInv'
<1>1. PICK n : Numbered(n, source_outer, source_text, reader)
  BY DEF SourceInv
<1>2. source_outer \in Seq(Outers) /\ source_text \in Seq(S!Char)
  BY DEF SourceInv
<1>3. \E m : Numbered(m, source_outer, source_text, reader')
  BY <1>1, <1>2, MovedNumbers
<1>4. \E m : Numbered(m, source_outer', source_text', reader')
  BY <1>3
<1>5. reader' \in Reader /\ reader'.first <= Len(source_text')
  BY DEF Forward
<1>. QED  BY <1>2, <1>4, <1>5 DEF SourceInv

LEMMA SuspendedInv ==
  ASSUME SourceInv, NEW line_ \in {0, reader.lineno}, S!Suspend(line_),
         NEW u \in Seq(S!Char), source_text' = u, token' = S!Piece(0, 0),
         reader' = [reader EXCEPT !.first = 0,
                                  !.lineno = IF line_ = 0 THEN reader.lineno ELSE 1],
         line_ = 0 => OneLine(u)
  PROVE  SourceInv'
<1>. DEFINE x == [text |-> source_text, first |-> reader.first, line |-> line_, token |-> token]
<1>1. /\ source_outer \in Seq(Outers) /\ source_text \in Seq(S!Char) /\ reader \in Reader
      /\ reader.first <= Len(source_text) /\ token \in Pieces
      /\ \A k \in 1..Len(source_outer) : source_outer[k].first <= Len(source_outer[k].text)
  BY DEF SourceInv
<1>2. PICK n : Numbered(n, source_outer, source_text, reader)
  BY DEF SourceInv
<1>3. x \in Outers /\ x.text = source_text /\ x.first = reader.first /\ x.line = line_
  <2>1. reader.first \in Nat /\ line_ \in Nat
    BY <1>1 DEF Reader
  <2>. HIDE DEF Pieces
  <2>. QED  BY <1>1, <2>1 DEF Outers
<1>4. source_outer' = Append(source_outer, x)
  BY DEF S!Suspend
<1>. HIDE DEF x
<1>5. /\ reader' \in Reader /\ reader'.first = 0
      /\ reader'.lineno = IF line_ = 0 THEN reader.lineno ELSE 1
  <2>. DEFINE number == IF line_ = 0 THEN reader.lineno ELSE 1
  <2>1. number \in Nat /\ reader' = [reader EXCEPT !.first = 0, !.lineno = number]
    BY <1>1 DEF Reader
  <2>2. reader \in Reader
    BY <1>1
  <2>. HIDE DEF number, Pieces
  <2>3. reader' \in Reader
    <3>1. reader' = [first |-> 0, lineno |-> number, parsed_lineno |-> reader.parsed_lineno,
                     parsed |-> reader.parsed, trailing |-> reader.trailing]
      BY <2>1, <2>2 DEF Reader
    <3>2. reader.parsed_lineno \in Nat /\ reader.parsed \in Pieces /\ reader.trailing \in Pieces
      BY <2>2 DEF Reader
    <3>. QED  BY <2>1, <3>1, <3>2 DEF Reader
  <2>4. reader'.first = 0 /\ reader'.lineno = number
    BY <2>1, <2>2 DEF Reader
  <2>. QED  BY <2>3, <2>4 DEF number
<1>6. \E m : Numbered(m, Append(source_outer, x), u, reader')
  <2>1. /\ x.line \in {0, reader.lineno} /\ x.line = 0 => OneLine(u)
        /\ reader'.lineno = IF x.line = 0 THEN reader.lineno ELSE 1
    BY <1>3, <1>5
  <2>. QED  BY <1>1, <1>2, <1>3, <1>5, <2>1, SuspendedNumbers
<1>7. \E m : Numbered(m, source_outer', source_text', reader')
  BY <1>4, <1>6
<1>8. /\ source_outer' \in Seq(Outers) /\ Len(source_outer') = Len(source_outer) + 1
      /\ \A k \in 1..Len(source_outer) : source_outer'[k] = source_outer[k]
      /\ source_outer'[Len(source_outer) + 1] = x
  BY <1>1, <1>3, <1>4, AppendProperties
<1>9. ASSUME NEW k \in 1..Len(source_outer')
      PROVE  source_outer'[k].first <= Len(source_outer'[k].text)
  <2>1. k \in 1..Len(source_outer) \/ k = Len(source_outer) + 1
    BY <1>1, <1>8, LenProperties
  <2>. QED  BY <1>1, <1>3, <1>8, <2>1
<1>10. reader'.first <= Len(source_text') /\ token' \in Pieces
  <2>1. Len(u) \in Nat
    BY LenProperties
  <2>. QED  BY <1>5, <2>1 DEF Pieces, S!Piece
<1>. QED  BY <1>5, <1>7, <1>8, <1>9, <1>10 DEF SourceInv

LEMMA SourceNextInv == SourceInv /\ [S!Next]_ofSource => SourceInv'
<1>. SUFFICES ASSUME SourceInv, [S!Next]_ofSource PROVE SourceInv'
  OBVIOUS
<1>1. /\ source_outer \in Seq(Outers) /\ source_text \in Seq(S!Char) /\ reader \in Reader
      /\ reader.first <= Len(source_text) /\ token \in Pieces
      /\ \A k \in 1..Len(source_outer) : source_outer[k].first <= Len(source_outer[k].text)
  BY DEF SourceInv
<1>2. /\ Forward(source_text, reader, S!ReadToken(source_text, reader))
      /\ Forward(source_text, reader, S!BackUp(S!ReadToken(source_text, reader)))
      /\ S!ReadToken(source_text, reader).parsed \in Pieces
  BY <1>1, ReadsForward
<1>3. CASE S!Word
  BY <1>2, <1>3, MovedInv DEF S!Word
<1>4. CASE S!Bar
  <2>1. Forward(source_text, reader, S!Comment(source_text, S!ReadToken(source_text, reader)))
    BY <1>1, CommentsForward
  <2>. QED  BY <1>2, <1>4, <2>1, MovedInv DEF S!Bar
<1>5. CASE S!MoreToken
  BY <1>1, <1>2, <1>5, MovedInv DEF S!MoreToken
<1>6. CASE S!Untoken
  BY <1>1, <1>2, <1>6, MovedInv DEF S!Untoken
<1>7. ASSUME NEW d, S!Parse(d) PROVE SourceInv'
  <2>1. Forward(source_text, reader, S!Scan(source_text, reader, d))
    BY <1>1, ScansForward
  <2>. QED  BY <1>1, <1>7, <2>1, MovedInv DEF S!Parse
<1>8. ASSUME NEW t \in SourceFile, S!Load(t) PROVE SourceInv'
  <2>1. t \in Seq(S!Char)
    BY SourceAssumption DEF S!TextAssumption
  <2>2. reader.lineno # 0
    <3>1. PICK n : Numbered(n, source_outer, source_text, reader)
      BY DEF SourceInv
    <3>2. Len(source_outer) + 1 \in 1..(Len(source_outer) + 1)
      BY <1>1, LenProperties
    <3>. QED  BY <3>1, <3>2 DEF Numbered
  <2>3. reader' = [reader EXCEPT !.first = 0,
                                 !.lineno = IF reader.lineno = 0 THEN reader.lineno ELSE 1]
    BY <1>8, <2>2 DEF S!Load
  <2>4. S!Suspend(reader.lineno) /\ source_text' = t /\ token' = S!Piece(0, 0)
    BY <1>8 DEF S!Load
  <2>5. reader.lineno = 0 => OneLine(t)
    BY <2>2
  <2>. QED  BY <2>1, <2>3, <2>4, <2>5, SuspendedInv
<1>9. ASSUME NEW t \in String, S!Evaluate(t) PROVE SourceInv'
  <2>1. t \in Seq(S!Char \ {"newline"})
    BY SourceAssumption DEF S!TextAssumption
  <2>2. t \in Seq(S!Char)
    BY <2>1, SeqMonotonic
  <2>3. OneLine(t)
    BY <2>1, ElementOfSeq DEF OneLine
  <2>4. S!Suspend(0) /\ source_text' = t /\ token' = S!Piece(0, 0)
        /\ reader' = [reader EXCEPT !.first = 0]
    BY <1>9 DEF S!Evaluate
  <2>5. reader' = [reader EXCEPT !.first = 0, !.lineno = IF 0 = 0 THEN reader.lineno ELSE 1]
    BY <1>1, <2>4 DEF Reader
  <2>. QED  BY <2>2, <2>3, <2>4, <2>5, SuspendedInv
<1>10. CASE S!EndOfSource
  <2>. DEFINE N == Len(source_outer)
              back == source_outer[N]
              r == S!ReadToken(source_text, reader)
              number == IF back.line = 0 THEN r.lineno ELSE back.line
  <2>1. /\ source_outer # <<>>
        /\ source_text' = back.text /\ token' = back.token
        /\ reader' = [r EXCEPT !.first = back.first,
                               !.lineno = IF back.line = 0 THEN @ ELSE back.line]
        /\ source_outer' = SubSeq(source_outer, 1, N - 1)
    BY <1>10 DEF S!EndOfSource
  <2>2. N \in Nat /\ N \in 1..N
    BY <1>1, <2>1, LenProperties, EmptySeq
  <2>3. back \in Outers /\ back.first <= Len(back.text)
    BY <1>1, <2>2, ElementOfSeq
  <2>4. back.text \in Seq(S!Char) /\ back.first \in Nat /\ back.line \in Nat
        /\ back.token \in Pieces
    <3>. HIDE DEF back, Pieces
    <3>. QED  BY <2>3 DEF Outers
  <2>5. r \in Reader /\ r.lineno \in Nat
    <3>1. r \in Reader
      BY <1>2 DEF Forward
    <3>. HIDE DEF r
    <3>. QED  BY <3>1 DEF Reader
  <2>6. PICK n : Numbered(n, source_outer, source_text, r)
    <3>1. PICK n : Numbered(n, source_outer, source_text, reader)
      BY DEF SourceInv
    <3>. QED  BY <1>1, <1>2, <3>1, MovedNumbers
  <2>7. reader' \in Reader /\ reader'.first = back.first /\ reader'.lineno = number
    <3>1. number \in Nat /\ reader' = [r EXCEPT !.first = back.first, !.lineno = number]
      BY <2>1, <2>4, <2>5
    <3>. HIDE DEF number, r, back, Pieces
    <3>. QED  BY <2>4, <2>5, <3>1 DEF Reader
  <2>8. \E m : Numbered(m, SubSeq(source_outer, 1, N - 1), back.text, reader')
    <3>. HIDE DEF r
    <3>. QED  BY <1>1, <2>1, <2>6, <2>7, ResumedNumbers
  <2>9. /\ source_outer' \in Seq(Outers) /\ Len(source_outer') = N - 1
        /\ \A k \in 1..(N - 1) : source_outer'[k] = source_outer[k]
    BY <1>1, <2>1, WithoutLast
  <2>10. ASSUME NEW k \in 1..Len(source_outer')
         PROVE  source_outer'[k].first <= Len(source_outer'[k].text)
    <3>1. k \in 1..(N - 1) /\ k \in 1..N
      BY <2>2, <2>9
    <3>. QED  BY <1>1, <2>9, <3>1
  <2>11. \E m : Numbered(m, source_outer', source_text', reader')
    BY <2>1, <2>8
  <2>. QED  BY <2>1, <2>3, <2>4, <2>7, <2>9, <2>10, <2>11 DEF SourceInv
<1>11. CASE UNCHANGED ofSource
  BY <1>11 DEF ofSource, SourceInv
<1>. QED
  BY <1>3, <1>4, <1>5, <1>6, <1>7, <1>8, <1>9, <1>10, <1>11 DEF S!Next

LEMMA SourceInvHolds == ConsoleSpec => []SourceInv
<1>1. ConsoleInit => S!Init
  BY DEF ConsoleInit
<1>2. [ConsoleNext]_consoleVars => [S!Next]_ofSource
  BY DEF ConsoleNext, consoleVars, ofSource
<1>. QED  BY <1>1, <1>2, SourceInitInv, SourceNextInv, PTL DEF ConsoleSpec

\* The number of the line is that of the next character, in any text, after any
\* reading, putting back, loading and evaluating (interpret.c counts newlines
\* where it skips and scans, untoken restores the count, and startup.mu4 preserves
\* it around the loading of a file but not around the evaluation of a string).
THEOREM LineIsPositionCorrect == ConsoleSpec => []LineIsPosition
<1>1. SourceInv => LineIsPosition
  <2>. SUFFICES ASSUME SourceInv, S!InFile
                PROVE  reader.lineno = 1 + S!Newlines(source_text, 0, reader.first)
    BY DEF LineIsPosition, S!LineIsPosition
  <2>1. PICK n : Numbered(n, source_outer, source_text, reader)
    BY DEF SourceInv
  <2>2. Len(source_outer) \in Nat /\ (source_outer = <<>> => Len(source_outer) = 0)
    BY LenProperties, EmptySeq DEF SourceInv
  <2>3. Len(source_outer) + 1 = 1 \/ source_outer[(Len(source_outer) + 1) - 1].line # 0
    BY <2>2 DEF S!InFile
  <2>. QED  BY <2>1, <2>3 DEF Numbered, Placed
<1>. QED  BY <1>1, SourceInvHolds, PTL

\* A token is what white space separates, in any text: interpret.c passes over
\* nothing else, and cuts no token short.
THEOREM TokensAreWordsCorrect == ConsoleSpec => TokensAreWords
<1>1. SourceInv => S!WordIsToken
  <2>. SUFFICES ASSUME SourceInv, S!Word PROVE S!WordIsToken
    BY DEF S!WordIsToken
  <2>. DEFINE t == source_text
              s == S!ReadToken(source_text, reader)
  <2>1. /\ t \in Seq(S!Char) /\ reader \in Reader /\ reader.first <= Len(t)
        /\ Len(t) \in Nat /\ reader.first \in Nat
    BY LenProperties DEF SourceInv, Reader
  <2>2. /\ s.parsed \in Pieces
        /\ Stops(s.parsed.at, t, reader.first, S!Char \ S!Spaces)
        /\ Stops(S!End(s.parsed), t, s.parsed.at, S!Spaces)
        /\ s.first \in {S!End(s.parsed), S!End(s.parsed) + 1}
    BY <2>1, ReadsForward
  <2>3. reader' = s /\ token' = s.parsed
    BY DEF S!Word
  <2>. HIDE DEF s
  <2>4. /\ token'.at \in Nat /\ S!End(token') \in Nat
        /\ token'.at <= Len(t) /\ S!End(token') <= Len(t)
    <3>1. token'.at \in Nat /\ S!End(token') \in Nat
      BY <2>2, <2>3 DEF Pieces, S!End
    <3>. QED  BY <2>1, <2>2, <2>3, <3>1 DEF Stops
  <2>5. ASSUME NEW k \in (reader.first + 1)..token'.at PROVE t[k] \in S!Spaces
    <3>1. k - 1 \in reader.first..(token'.at - 1) /\ (k - 1) + 1 = k /\ k \in 1..Len(t)
      BY <2>1, <2>4
    <3>2. t[k] \notin S!Char \ S!Spaces
      BY <2>2, <2>3, <3>1 DEF Stops
    <3>. QED  BY <2>1, <3>1, <3>2, ElementOfSeq
  <2>6. ASSUME NEW k \in (token'.at + 1)..S!End(token') PROVE t[k] \notin S!Spaces
    <3>1. k - 1 \in token'.at..(S!End(token') - 1) /\ (k - 1) + 1 = k
      BY <2>4
    <3>. QED  BY <2>2, <2>3, <3>1 DEF Stops
  <2>7. S!End(token') < Len(t) => t[S!End(token') + 1] \in S!Spaces
    BY <2>2, <2>3 DEF Stops
  <2>. QED  BY <2>2, <2>3, <2>5, <2>6, <2>7 DEF S!WordIsToken
<1>2. SourceInv => [part = "source" => S!WordIsToken]_ofSource
  BY <1>1
<1>. QED  BY <1>2, SourceInvHolds, PTL DEF TokensAreWords
==============================================================================

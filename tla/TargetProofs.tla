---------------------------- MODULE TargetProofs ----------------------------
(***************************************************************************)
(* Proofs about Tasker, for every number of tasks, every width of status   *)
(* bytes and every pace of timer and watchdog.                             *)
(***************************************************************************)
EXTENDS Target, FunctionTheorems, SequenceTheorems, NaturalsInduction, WellFoundedInduction, TLAPS

\* The part of the types that the proofs need.
Typed ==
    /\ status \in [Task -> Byte] /\ next \in [Task -> Task]
    /\ u \in Task /\ y \in Task /\ g0 \in Byte

\* What nap holds is what the status byte holds, and no interrupt can come.
NapHolds == at = "store" => g0 = status[u] /\ ~ie

\* Who executes what.
Places1 == /\ at \in {"entry", "work", "load", "store"} => u # Chat
           /\ at \in {"poll", "call", "stop"} => u = Chat /\ y = Chat

\* Where the application may be executed on behalf of app-stop.
Called == {"call", "lost", "stop"}

\* Once the application is stopped, it stays so until a reset.
StoppedIsQuiet == Stopped => u = Chat /\ y = Chat /\ (at \notin Called => ~ie)

PartialIsStopped == flash = "partial" => Stopped /\ at # "startup"

IInv == Typed /\ NapHolds /\ Places1 /\ StoppedIsQuiet /\ PartialIsStopped

\* Tasks are what the sequence of them holds; heart-task is one of the
\* application's (load-chat-serial.mu4).
LEMMA Tasks == Chat \in Task /\ Heart \in Task /\ Heart # Chat
<1> DEFINE n == Len(Buttons) + 1
<1>1. Len(Created) = n /\ Created[n] = Heart /\ n \in 1 .. Len(Created)
  BY TaskAssumption DEF Created
<1>2. Heart \in App
  BY <1>1 DEF App
<1> QED
  BY <1>2, TaskAssumption DEF Task

\* The circle that create-task makes is one of tasks (simple-tasker.mu4).
LEMMA RingTyped == Ring \in [Task -> Task] /\ Ring[Chat] = Heart
<1> DEFINE Prev(t) == IF t = Chat THEN Heart
                      ELSE LET i == CHOOSE i \in 1 .. Len(Created) : Created[i] = t
                           IN  IF i = 1 THEN Chat ELSE Created[i - 1]
<1>1. Created \in Seq(Task)
  BY TaskAssumption, Tasks DEF Created
<1>2. ASSUME NEW t \in Task PROVE Prev(t) \in Task
  <2>1. CASE t = Chat
    BY <2>1, Tasks
  <2>2. CASE t # Chat
    <3> DEFINE i == CHOOSE i \in 1 .. Len(Created) : Created[i] = t
    <3>1. \E j \in 1 .. Len(Created) : Created[j] = t
      BY <2>2 DEF Task, App
    <3>2. i \in 1 .. Len(Created)
      BY <3>1
    <3>3. CASE i = 1
      BY <3>3, <2>2, Tasks
    <3>4. CASE i # 1
      <4> HIDE DEF i
      <4>1. i - 1 \in 1 .. Len(Created)
        BY <3>2, <3>4, <1>1
      <4>2. Created[i - 1] \in Task
        BY <4>1, <1>1
      <4> QED
        BY <4>2, <3>4, <2>2 DEF i
    <3> QED
      BY <3>3, <3>4
  <2> QED
    BY <2>1, <2>2
<1>3. Ring = [t \in Task |-> Prev(t)]
  BY DEF Ring, Circle
<1> QED
  BY <1>2, <1>3, Tasks

LEMMA BytesStay == ASSUME NEW b \in Byte
                   PROVE  Up(b) \in Byte /\ Down(b) \in Byte
  BY ByteAssumption DEF Byte, Up, Down

LEMMA TypedStays == Typed /\ [Next]_vars => Typed'
<1> SUFFICES ASSUME Typed, [Next]_vars PROVE Typed'
  OBVIOUS
<1> USE DEF Typed
<1>1. CASE Startup
  <2>1. 2 * Half - 1 \in Byte
    BY ByteAssumption DEF Byte
  <2> QED
    BY <1>1, <2>1, RingTyped, Tasks DEF Startup
<1>2. CASE AppStart \/ Stop
  BY <1>2, Tasks DEF AppStart, Stop, Alone
<1>3. CASE NapStore
  <2>1. Up(g0) \in Byte
    BY BytesStay
  <2> QED
    BY <1>3, <2>1 DEF NapStore
<1>4. CASE Search
  BY <1>4 DEF Search
<1>5. CASE Interrupt
  BY <1>5, BytesStay DEF Interrupt, machine
<1>6. CASE Poll \/ AppStop \/ AppReturns \/ WriteFlash \/ HeartEntry \/ HeartLoop \/ ButtonLoop \/ Hang
           \/ NapLoad \/ Yield \/ Tick \/ Bite
  BY <1>6 DEF Poll, AppStop, AppReturns, WriteFlash, HeartEntry, HeartLoop, ButtonLoop, Hang, NapLoad,
              Yield, Tick, Bite, machine
<1>7. CASE UNCHANGED vars
  BY <1>7 DEF vars, machine
<1> QED
  BY <1>1, <1>2, <1>3, <1>4, <1>5, <1>6, <1>7 DEF Next, Step

LEMMA Inductive == IInv /\ [Next]_vars => IInv'
<1> SUFFICES ASSUME IInv, [Next]_vars PROVE IInv'
  OBVIOUS
<1>0. Typed'
  BY TypedStays DEF IInv
<1> USE DEF IInv, NapHolds, Places1, StoppedIsQuiet, PartialIsStopped, Stopped, Called
<1>1. CASE Startup
  BY <1>1, <1>0, RingTyped, Tasks DEF Startup
<1>2. CASE Poll
  BY <1>2, <1>0 DEF Poll, Chats, watchdog
<1>3. CASE AppStart
  BY <1>3, <1>0 DEF AppStart, Chats
<1>4. CASE AppStop
  BY <1>4, <1>0 DEF AppStop, Chats, watchdog
<1>18. CASE AppReturns
  <2>1. Stopped' = Stopped /\ flash' = flash /\ at' \in Called
    BY <1>18 DEF AppReturns, watchdog
  <2>2. NapHolds' /\ Places1'
    BY <1>18 DEF AppReturns
  <2> QED
    BY <1>18, <1>0, <2>1, <2>2 DEF AppReturns
<1>19. CASE Stop
  <2>1. next'[Chat] = Chat
    BY <1>19, Tasks DEF Stop, Alone, Typed
  <2> QED
    BY <1>19, <1>0, <2>1 DEF Stop, Cli
<1>5. CASE WriteFlash
  BY <1>5, <1>0 DEF WriteFlash, Chats, watchdog
<1>6. CASE HeartEntry
  BY <1>6, <1>0 DEF HeartEntry
<1>7. CASE HeartLoop
  BY <1>7, <1>0 DEF HeartLoop
<1>8. CASE ButtonLoop
  BY <1>8, <1>0 DEF ButtonLoop, watchdog
<1>9. CASE Hang
  BY <1>9, <1>0 DEF Hang, watchdog
<1>10. CASE NapLoad
  BY <1>10, <1>0 DEF NapLoad, watchdog, Cli
<1>11. CASE NapStore
  BY <1>11, <1>0 DEF NapStore, watchdog
<1>12. CASE Yield
  BY <1>12, <1>0 DEF Yield, watchdog
<1>13. CASE Search
  <2>1. at' \in {"poll", "entry", "work", "search"}
    BY <1>13 DEF Search, Resumes
  <2>2. at' # "search" => at' = Resumes(next[y]) /\ u' = next[y]
    BY <1>13 DEF Search
  <2>3. NapHolds' /\ Places1'
    BY <1>13, <2>1, <2>2, Tasks DEF Search, Resumes
  <2>4. u' \in {u, next[y]} /\ y' = next[y] /\ ie' = ie /\ at = "search"
    BY <1>13 DEF Search
  <2>5. Stopped' = Stopped /\ flash' = flash
    BY <1>13 DEF Search, watchdog
  <2>6. StoppedIsQuiet' /\ PartialIsStopped'
    BY <2>1, <2>4, <2>5
  <2> QED
    BY <2>3, <2>6, <1>0
<1>14. CASE Tick
  BY <1>14, <1>0 DEF Tick, machine
<1>15. CASE Bite
  BY <1>15, <1>0 DEF Bite, watchdog
<1>16. CASE Interrupt
  BY <1>16, <1>0 DEF Interrupt, machine, watchdog
<1>17. CASE UNCHANGED vars
  BY <1>17, <1>0 DEF vars, machine, watchdog
<1> QED
  BY <1>1, <1>2, <1>3, <1>4, <1>5, <1>6, <1>7, <1>8, <1>9, <1>10, <1>11, <1>12,
     <1>13, <1>14, <1>15, <1>16, <1>17, <1>18, <1>19 DEF Next, Step

LEMMA Initially == Init => IInv
<1> SUFFICES ASSUME Init PROVE IInv
  OBVIOUS
<1>1. Typed
  BY Tasks, ByteAssumption DEF Init, Typed, Byte
<1> QED
  BY <1>1 DEF Init, IInv, NapHolds, Places1, StoppedIsQuiet, PartialIsStopped, Called

THEOREM Invariance == Spec => []IInv
<1> QED
  BY Initially, Inductive, PTL DEF Spec

(* While the application in flash is not whole, nothing of it is executed  *)
(* but what app-stop calls (app-stop-cmd of chat-loop.mu4).                *)
THEOREM PartialIsIdleCorrect == Spec => []PartialIsIdle
<1>1. IInv => PartialIsIdle
  BY DEF IInv, PartialIsStopped, StoppedIsQuiet, Stopped, PartialIsIdle, Called
<1> QED
  BY <1>1, Invariance, PTL

\* What WakeupsConserved says of a step.
Conserved ==
    at # "startup" =>
      \A t \in Task :
        LET woken == tov /\ ~tov' /\ t \in Woken(beat')
            naps == at = "store" /\ at' = "yield" /\ t = u
        IN  status'[t] = IF woken THEN Down(status[t])
                         ELSE IF naps THEN Up(status[t]) ELSE status[t]

(* No wakeup is lost or made up between the reading and the writing of a   *)
(* status byte (nap and wake of heart.mu4).                                *)
THEOREM WakeupsConservedCorrect == Spec => WakeupsConserved
<1>1. IInv /\ [Next]_vars => [Conserved]_vars
  <2> SUFFICES ASSUME IInv, Next, at # "startup", NEW t \in Task
               PROVE  LET woken == tov /\ ~tov' /\ t \in Woken(beat')
                          naps == at = "store" /\ at' = "yield" /\ t = u
                      IN  status'[t] = IF woken THEN Down(status[t])
                                       ELSE IF naps THEN Up(status[t]) ELSE status[t]
    BY DEF Conserved
  <2>1. CASE NapStore
    BY <2>1 DEF NapStore, IInv, NapHolds, Typed, timer
  <2>2. CASE Interrupt
    <3>1. status'[t] = IF t \in Woken(beat') THEN Down(status[t]) ELSE status[t]
      BY <2>2 DEF Interrupt
    <3>2. tov /\ ~tov' /\ at' = at
      BY <2>2 DEF Interrupt, machine
    <3> QED
      BY <3>1, <3>2
  <2>3. CASE Poll \/ AppStart \/ AppStop \/ AppReturns \/ Stop \/ WriteFlash \/ HeartEntry \/ HeartLoop
             \/ ButtonLoop \/ Hang \/ NapLoad \/ Yield \/ Search
    <3>1. UNCHANGED <<status, tov>> /\ ~ (at = "store")
      BY <2>3 DEF Poll, AppStart, AppStop, AppReturns, Stop, WriteFlash, HeartEntry, HeartLoop,
                  ButtonLoop, Hang, NapLoad, Yield, Search, timer, Chats
    <3> QED
      BY <3>1
  <2>4. CASE Tick \/ Bite
    <3>1. status' = status /\ (at = "store" => at' # "yield")
      BY <2>4 DEF Tick, Bite, machine
    <3>2. ASSUME tov PROVE tov'
      BY <2>4, <3>2, Zenon DEF Tick, Bite, timer
    <3> QED
      BY <3>1, <3>2
  <2>5. CASE Startup
    BY <2>5 DEF Startup
  <2> QED
    BY <2>1, <2>2, <2>3, <2>4, <2>5 DEF Next, Step
<1>2. [][Conserved]_vars => WakeupsConserved
  BY DEF WakeupsConserved, Conserved
<1> QED
  BY <1>1, <1>2, Invariance, PTL DEF Spec

-----------------------------------------------------------------------------
(***************************************************************************)
(* The conversation. What the peer does with a byte depends on the bytes   *)
(* before it and not on when it comes, so that what a word will have done  *)
(* is settled when it is asked for: a path leads through the bytes on the  *)
(* line and what the word has still to do, from where the peer is now to   *)
(* where both have finished. A place on it is the command that waits for   *)
(* arguments, those it has, and data: the peer's address, memory and page  *)
(* buffer, the replies that the host has not taken yet, and those it has.  *)
(***************************************************************************)

Place(c, a, d) == [c |-> c, a |-> a, d |-> d]
Data(zz, m, f, log, g) == [z |-> zz, m |-> m, f |-> f, log |-> log, got |-> g]

Streamed(k) == IF k = 0 THEN Count ELSE k
FlashOf(m, x) ==
    IF x < FlashSize THEN IF m.rww = "open" THEN m.flash[x] ELSE Closed[x]
    ELSE IF x < FlashSize + Len(Version) THEN Version[x - FlashSize + 1] ELSE C!Blank

FlashBytes(m, x, n) == [i \in 1 .. n |-> FlashOf(m, x + i - 1)]

\* What a command answers, and what it leaves.
Answers(c, a, zz, m) ==
    CASE c = 18 -> C!LoHi(zz)
      [] c = 20 -> [i \in 1 .. Streamed(a[1]) |-> FlashOf(m, zz + i - 1)]
      [] c = 21 -> <<m["data"][zz % DataSize]>>
      [] c = 22 -> <<m["eeprom"][zz % DataSize]>>
      [] c \in {23, 25} -> <<0>>
      [] OTHER -> <<>>
NewZ(c, a, zz) ==
    CASE c = 16 -> FlashSize
      [] c \in {17, 19} -> C!Word(a[1], a[2])
      [] c = 20 -> zz + Streamed(a[1])
      [] c \in {21, 22, 24, 25} -> zz + 1
      [] c = 23 -> zz + 2
      [] OTHER -> zz
NewMemory(c, a, zz, m, f) ==
    CASE c = 24 -> [m EXCEPT !["data"][zz % DataSize] = a[1]]
      [] c = 25 -> [m EXCEPT !["eeprom"][zz % DataSize] = a[1]]
      [] c = 23 /\ a[3] = 3 ->
            [m EXCEPT !.flash = [x \in 0 .. FlashSize - 1 |->
                IF x \in C!PageOf(zz) THEN C!Blank ELSE m.flash[x]], !.rww = "closed"]
      [] c = 23 /\ a[3] = 5 ->
            [m EXCEPT !.flash = [x \in 0 .. FlashSize - 1 |->
                IF x \in C!PageOf(zz) THEN C!Both(m.flash[x], f[x % Page]) ELSE m.flash[x]],
                      !.rww = "closed"]
      [] c = 23 /\ a[3] = 17 -> [m EXCEPT !.rww = "open"]
      [] OTHER -> m
NewBuffer(c, a, zz, f) ==
    CASE c = 23 /\ a[3] = 1 -> LET w == 2 * ((zz % Page) \div 2)
                               IN  [f EXCEPT ![w] = a[1], ![w + 1] = a[2]]
      [] c = 23 /\ a[3] \in {5, 17} -> C!Erased
      [] OTHER -> f

Finish(c, a, d) ==
    Data(NewZ(c, a, d.z), NewMemory(c, a, d.z, d.m, d.f), NewBuffer(c, a, d.z, d.f),
         d.log \o Answers(c, a, d.z, d.m), d.got)

\* A command with all its arguments has as good as been executed.
Settled(c, a, d) ==
    IF c # 0 /\ Len(a) = C!Needs(c) THEN Place(0, <<>>, Finish(c, a, d)) ELSE Place(c, a, d)

Command(b) == IF b \in 16 .. 27 THEN b ELSE 0
After(p, b) ==
    IF p.c = 0 THEN Settled(Command(b), <<>>, p.d) ELSE Settled(p.c, Append(p.a, b), p.d)

\* A count is one of the values that a count can have.
Fits(p, b) == p.c = 20 => b \in 0 .. Count - 1

\* The host takes the oldest reply.
Taken(d) == Data(d.z, d.m, d.f, Tail(d.log), Append(d.got, Head(d.log)))

Item == [op : {"send"}, b : C!Byte, of : 0 .. 27] \cup [op : {"heard"}, b : C!Byte]
        \cup [op : {"recv", "drain", "flush"}]

\* An item of a script, or a byte that is on the line, leads from p to q.
Leads1(p, x, q) ==
    \/ /\ x.op = "send" /\ x.of = p.c /\ Fits(p, x.b) /\ q = After(p, x.b)
    \/ /\ x.op = "heard" /\ Fits(p, x.b) /\ q = After(p, x.b)
    \/ /\ x.op = "recv" /\ p.c = 0 /\ p.d.log # <<>>
       /\ q = Place(0, p.a, Taken(p.d))

\* A path along s, from p to q.
IsPath(h, s, p, q) ==
    /\ h[0] = p /\ h[Len(s)] = q
    /\ \A i \in 1 .. Len(s) : Leads1(h[i - 1], s[i], h[i])
Leads(p, s, q) == \E h : IsPath(h, s, p, q)

LEMMA LeadsNone ==
  ASSUME NEW p
  PROVE  Leads(p, <<>>, p)
<1>. DEFINE h == [i \in 0 .. 0 |-> p]
<1>1. IsPath(h, <<>>, p, p)
  BY DEF IsPath
<1>. QED  BY <1>1 DEF Leads

LEMMA LeadsEmpty ==
  ASSUME NEW p, NEW q, Leads(p, <<>>, q)
  PROVE  p = q
BY DEF Leads, IsPath

LEMMA LeadsOne ==
  ASSUME NEW p, NEW x \in Item, NEW q, Leads1(p, x, q)
  PROVE  Leads(p, <<x>>, q)
<1>. DEFINE h == [i \in 0 .. 1 |-> IF i = 0 THEN p ELSE q]
<1>1. Len(<<x>>) = 1 /\ <<x>>[1] = x /\ h[0] = p /\ h[1] = q
  OBVIOUS
<1>. HIDE DEF h
<1>2. IsPath(h, <<x>>, p, q)
  <2>1. \A i \in 1 .. 1 : i = 1 /\ i - 1 = 0
    OBVIOUS
  <2>. QED  BY <1>1, <2>1 DEF IsPath
<1>. QED  BY <1>2 DEF Leads

LEMMA LeadsThen ==
  ASSUME NEW p, NEW s \in Seq(Item), NEW q, NEW t \in Seq(Item), NEW r,
         Leads(p, s, q), Leads(q, t, r)
  PROVE  Leads(p, s \o t, r)
<1>1. PICK h : IsPath(h, s, p, q)
  BY DEF Leads
<1>2. PICK k : IsPath(k, t, q, r)
  BY DEF Leads
<1>. DEFINE m == Len(s)
            n == Len(t)
            e == [i \in 0 .. m + n |-> IF i <= m THEN h[i] ELSE k[i - m]]
<1>3. /\ m \in Nat /\ n \in Nat /\ Len(s \o t) = m + n
      /\ \A i \in 1 .. m : (s \o t)[i] = s[i]
      /\ \A i \in (m + 1) .. (m + n) : (s \o t)[i] = t[i - m]
  OBVIOUS
<1>4. /\ h[0] = p /\ h[m] = q /\ \A i \in 1 .. m : Leads1(h[i - 1], s[i], h[i])
      /\ k[0] = q /\ k[n] = r /\ \A i \in 1 .. n : Leads1(k[i - 1], t[i], k[i])
  BY <1>1, <1>2 DEF IsPath
<1>. HIDE DEF m, n
<1>5. /\ \A i \in 0 .. m : e[i] = h[i]
      /\ \A i \in m .. (m + n) : e[i] = k[i - m]
  <2>1. \A i \in 0 .. m : i \in 0 .. m + n /\ i <= m
    BY <1>3
  <2>2. ASSUME NEW i \in m .. (m + n) PROVE e[i] = k[i - m]
    <3>1. CASE i = m
      BY <1>3, <1>4, <3>1
    <3>2. CASE i # m
      BY <1>3, <3>2
    <3>. QED  BY <3>1, <3>2
  <2>. QED  BY <2>1, <2>2
<1>. HIDE DEF e
<1>6. e[0] = p /\ e[m + n] = r
  BY <1>3, <1>4, <1>5
<1>7. ASSUME NEW i \in 1 .. (m + n) PROVE Leads1(e[i - 1], (s \o t)[i], e[i])
  <2>1. CASE i <= m
    <3>1. i \in 1 .. m /\ i - 1 \in 0 .. m /\ i \in 0 .. m
      BY <1>3, <2>1
    <3>. QED  BY <1>3, <1>4, <1>5, <3>1
  <2>2. CASE ~(i <= m)
    <3>1. /\ i \in (m + 1) .. (m + n) /\ i \in m .. (m + n) /\ i - 1 \in m .. (m + n)
          /\ i - m \in 1 .. n /\ (i - 1) - m = (i - m) - 1
      BY <1>3, <2>2
    <3>2. e[i - 1] = k[(i - m) - 1] /\ e[i] = k[i - m] /\ (s \o t)[i] = t[i - m]
      BY <1>3, <1>5, <3>1
    <3>. QED  BY <1>4, <3>1, <3>2
  <2>. QED  BY <2>1, <2>2
<1>8. IsPath(e, s \o t, p, r)
  BY <1>3, <1>6, <1>7 DEF IsPath
<1>. QED  BY <1>8 DEF Leads

LEMMA LeadsHead ==
  ASSUME NEW p, NEW s \in Seq(Item), NEW r, s # <<>>, Leads(p, s, r)
  PROVE  \E q : Leads1(p, Head(s), q) /\ Leads(q, Tail(s), r)
<1>1. PICK h : IsPath(h, s, p, r)
  BY DEF Leads
<1>. DEFINE n == Len(s)
            e == [i \in 0 .. n - 1 |-> h[i + 1]]
<1>2. /\ n \in Nat /\ n >= 1 /\ Head(s) = s[1] /\ Len(Tail(s)) = n - 1
      /\ \A i \in 1 .. n - 1 : Tail(s)[i] = s[i + 1]
  OBVIOUS
<1>3. h[0] = p /\ h[n] = r /\ \A i \in 1 .. n : Leads1(h[i - 1], s[i], h[i])
  BY <1>1 DEF IsPath
<1>. HIDE DEF n
<1>4. \A i \in 0 .. n - 1 : e[i] = h[i + 1]
  OBVIOUS
<1>. HIDE DEF e
<1>5. Leads1(p, Head(s), h[1])
  <2>1. 1 \in 1 .. n /\ 1 - 1 = 0
    BY <1>2
  <2>. QED  BY <1>2, <1>3, <2>1
<1>6. ASSUME NEW i \in 1 .. n - 1 PROVE Leads1(e[i - 1], Tail(s)[i], e[i])
  <2>1. /\ i - 1 \in 0 .. n - 1 /\ i \in 0 .. n - 1 /\ i + 1 \in 1 .. n
        /\ (i - 1) + 1 = (i + 1) - 1
    BY <1>2
  <2>. QED  BY <1>2, <1>3, <1>4, <2>1
<1>7. e[0] = h[1] /\ e[n - 1] = r
  <2>1. 0 \in 0 .. n - 1 /\ n - 1 \in 0 .. n - 1 /\ 0 + 1 = 1 /\ (n - 1) + 1 = n
    BY <1>2
  <2>. QED  BY <1>3, <1>4, <2>1
<1>8. IsPath(e, Tail(s), h[1], r)
  BY <1>2, <1>6, <1>7 DEF IsPath
<1>. QED  BY <1>5, <1>8 DEF Leads

-----------------------------------------------------------------------------
(* Places *)

Memory == [data : [0 .. DataSize - 1 -> C!Byte], eeprom : [0 .. DataSize - 1 -> C!Byte],
           flash : [0 .. FlashSize - 1 -> C!Byte], rww : {"open", "closed"}]
PageBuffer == [0 .. Page - 1 -> C!Byte]
DataSet == [z : Nat, m : Memory, f : PageBuffer, log : Seq(Nat), got : Seq(Nat)]
Commands == {0} \cup 16 .. 27
Waiting(c, a) == IF c = 0 THEN a = <<>> ELSE Len(a) < C!Needs(c)
PlaceSet == {p \in [c : Commands, a : Seq(C!Byte), d : DataSet] : Waiting(p.c, p.a)}

\* What the constants are assumed to be.
Sizes == C!SizeAssumption /\ C!ChunkAssumption /\ C!WordAssumption

\* A command that has all its arguments, and these are what it can do with.
Ready(c, a) == /\ c \in 16 .. 27 /\ a \in Seq(C!Byte) /\ Len(a) = C!Needs(c)
               /\ c = 20 => a[1] \in 0 .. Count - 1

LEMMA SmallRemainder ==
  ASSUME NEW n \in Nat, n > 0, NEW k \in 0 .. n - 1
  PROVE  k % n = k
OBVIOUS

LEMMA SizeFacts ==
  ASSUME Sizes
  PROVE  /\ DataSize \in Nat /\ DataSize >= 1 /\ FlashSize \in Nat /\ FlashSize >= 1
         /\ Page \in Nat /\ Page >= 1 /\ Chunk \in Nat /\ Chunk >= 1 /\ Chunk <= Count
         /\ Count \in Nat /\ Count >= 1 /\ Count <= 256 /\ FlashSize <= 65536
<1>1. {DataSize, FlashSize, Page, Chunk, Count} \subseteq Nat \ {0}
  BY DEF Sizes, C!SizeAssumption
<1>2. DataSize \in Nat \ {0} /\ FlashSize \in Nat \ {0} /\ Page \in Nat \ {0}
      /\ Chunk \in Nat \ {0} /\ Count \in Nat \ {0}
  BY <1>1
<1>3. Chunk <= Count /\ Count <= 256 /\ FlashSize <= 65536
  BY DEF Sizes, C!WordAssumption
<1>. QED  BY <1>2, <1>3

LEMMA VersionFacts ==
  ASSUME Sizes
  PROVE  Version \in Seq(C!Byte) /\ Len(Version) \in 1 .. Count
BY DEF Sizes, C!WordAssumption

LEMMA DivideFacts ==
  ASSUME Sizes
  PROVE  Page % Chunk = 0 /\ FlashSize % Page = 0 /\ Chunk % 2 = 0
BY DEF Sizes, C!ChunkAssumption

LEMMA ByteFacts ==
  /\ \A b \in C!Byte : b \in Nat /\ b \in 0 .. 255
  /\ 0 \in C!Byte /\ C!Blank \in C!Byte
BY DEF C!Byte, C!Blank

LEMMA NeedsFacts ==
  /\ C!Needs(17) = 2 /\ C!Needs(19) = 2 /\ C!Needs(20) = 1 /\ C!Needs(24) = 1
  /\ C!Needs(25) = 1 /\ C!Needs(23) = 3 /\ \A c \in {0, 16, 18, 21, 22, 26, 27} : C!Needs(c) = 0
  /\ \A c \in Commands : C!Needs(c) \in 0 .. 3
BY DEF C!Needs, Commands

\* The arguments of a command are bytes.
LEMMA ArgumentFacts ==
  ASSUME NEW c, NEW a, Ready(c, a)
  PROVE  /\ c \in {17, 19} => a[1] \in Nat /\ a[2] \in Nat
         /\ c = 20 => a[1] \in 0 .. Count - 1
         /\ c \in {24, 25} => a[1] \in C!Byte
         /\ c = 23 => a[1] \in C!Byte /\ a[2] \in C!Byte /\ a[3] \in C!Byte
<1>1. a \in Seq(C!Byte) /\ Len(a) = C!Needs(c) /\ (c = 20 => a[1] \in 0 .. Count - 1)
  BY DEF Ready
<1>2. \A i \in 1 .. Len(a) : a[i] \in C!Byte
  BY <1>1
<1>3. CASE c \in {17, 19}
  <2>1. 1 \in 1 .. Len(a) /\ 2 \in 1 .. Len(a)
    BY <1>1, <1>3, NeedsFacts
  <2>. QED  BY <1>2, <1>3, <2>1, ByteFacts
<1>4. CASE c \in {24, 25}
  <2>1. 1 \in 1 .. Len(a)
    BY <1>1, <1>4, NeedsFacts
  <2>. QED  BY <1>2, <1>4, <2>1
<1>5. CASE c = 23
  <2>1. 1 \in 1 .. Len(a) /\ 2 \in 1 .. Len(a) /\ 3 \in 1 .. Len(a)
    BY <1>1, <1>5, NeedsFacts
  <2>. QED  BY <1>2, <1>5, <2>1
<1>. QED  BY <1>1, <1>3, <1>4, <1>5

\* The type of what a command leaves.
LEMMA FlashByte ==
  ASSUME Sizes, NEW m \in Memory
  PROVE  \A x \in Nat : FlashOf(m, x) \in Nat
<1>. TAKE x \in Nat
<1>1. CASE x < FlashSize
  <2>1. x \in 0 .. FlashSize - 1 /\ m.flash \in [0 .. FlashSize - 1 -> C!Byte]
    BY <1>1, SizeFacts DEF Memory
  <2>2. Closed \in [0 .. FlashSize - 1 -> C!Byte]
    BY DEF Sizes, C!WordAssumption
  <2>3. m.flash[x] \in Nat /\ Closed[x] \in Nat
    BY <2>1, <2>2, ByteFacts
  <2>. QED  BY <1>1, <2>3 DEF FlashOf
<1>2. CASE ~(x < FlashSize) /\ x < FlashSize + Len(Version)
  <2>1. Version \in Seq(C!Byte) /\ x - FlashSize + 1 \in 1 .. Len(Version)
    BY <1>2, SizeFacts, VersionFacts
  <2>2. Version[x - FlashSize + 1] \in C!Byte
    BY <2>1
  <2>. QED  BY <1>2, <2>2, ByteFacts DEF FlashOf
<1>3. CASE ~(x < FlashSize) /\ ~(x < FlashSize + Len(Version))
  BY <1>3, ByteFacts DEF FlashOf
<1>. QED  BY <1>1, <1>2, <1>3

LEMMA FinishTyped ==
  ASSUME Sizes, NEW c, NEW a, Ready(c, a),
         NEW zz \in Nat, NEW m \in Memory, NEW f \in PageBuffer
  PROVE  /\ NewZ(c, a, zz) \in Nat /\ NewMemory(c, a, zz, m, f) \in Memory
         /\ NewBuffer(c, a, zz, f) \in PageBuffer /\ Answers(c, a, zz, m) \in Seq(Nat)
<1>0. c \in 16 .. 27
  BY DEF Ready
<1>1. c = 20 => Streamed(a[1]) \in Nat
  <2>1. c = 20 => a[1] \in 0 .. Count - 1
    BY ArgumentFacts
  <2>. QED  BY <2>1, SizeFacts DEF Streamed
<1>2. NewZ(c, a, zz) \in Nat
  <2>1. CASE c = 16
    BY <2>1, SizeFacts DEF NewZ
  <2>2. CASE c \in {17, 19}
    <3>1. C!Word(a[1], a[2]) \in Nat
      BY <2>2, ArgumentFacts DEF C!Word
    <3>. QED  BY <2>2, <3>1 DEF NewZ
  <2>3. CASE c \notin {16, 17, 19}
    BY <2>3, <1>1 DEF NewZ
  <2>. QED  BY <2>1, <2>2, <2>3
<1>3. NewBuffer(c, a, zz, f) \in PageBuffer
  <2>1. C!Erased \in PageBuffer
    BY ByteFacts DEF C!Erased, PageBuffer
  <2>2. ASSUME c = 23
        PROVE  \A w : [f EXCEPT ![w] = a[1], ![w + 1] = a[2]] \in PageBuffer
    <3>1. a[1] \in C!Byte /\ a[2] \in C!Byte
      BY <2>2, ArgumentFacts
    <3>. QED  BY <3>1 DEF PageBuffer
  <2>. QED  BY <2>1, <2>2 DEF NewBuffer
<1>4. NewMemory(c, a, zz, m, f) \in Memory
  <2>1. m.flash \in [0 .. FlashSize - 1 -> C!Byte] /\ DOMAIN m.flash = 0 .. FlashSize - 1
    BY DEF Memory
  <2>2. [x \in 0 .. FlashSize - 1 |-> IF x \in C!PageOf(zz) THEN C!Blank ELSE m.flash[x]]
        \in [0 .. FlashSize - 1 -> C!Byte]
    BY <2>1, ByteFacts
  <2>3. ASSUME NEW x \in 0 .. FlashSize - 1 PROVE C!Both(m.flash[x], f[x % Page]) \in C!Byte
    <3>1. x % Page \in 0 .. Page - 1
      <4>1. x \in Int /\ Page \in Nat /\ Page >= 1
        BY SizeFacts
      <4>. QED  BY <4>1
    <3>2. f[x % Page] \in C!Byte /\ m.flash[x] \in C!Byte
      BY <2>1, <3>1 DEF PageBuffer
    <3>. QED  BY <3>2 DEF C!Both
  <2>4. [x \in 0 .. FlashSize - 1 |-> IF x \in C!PageOf(zz)
                                        THEN C!Both(m.flash[x], f[x % Page]) ELSE m.flash[x]]
        \in [0 .. FlashSize - 1 -> C!Byte]
    BY <2>1, <2>3
  <2>5. \A g \in [0 .. FlashSize - 1 -> C!Byte] :
            [m EXCEPT !.flash = g, !.rww = "closed"] \in Memory
    BY DEF Memory
  <2>6. CASE c = 24
    <3>1. a[1] \in C!Byte
      BY <2>6, ArgumentFacts
    <3>2. [m EXCEPT !["data"][zz % DataSize] = a[1]] \in Memory
      BY <3>1 DEF Memory
    <3>. QED  BY <2>6, <3>2 DEF NewMemory
  <2>7. CASE c = 25
    <3>1. a[1] \in C!Byte
      BY <2>7, ArgumentFacts
    <3>2. [m EXCEPT !["eeprom"][zz % DataSize] = a[1]] \in Memory
      BY <3>1 DEF Memory
    <3>. QED  BY <2>7, <3>2 DEF NewMemory
  <2>8. CASE c = 23 /\ a[3] = 3
    <3>. DEFINE g == [x \in 0 .. FlashSize - 1 |->
                        IF x \in C!PageOf(zz) THEN C!Blank ELSE m.flash[x]]
    <3>1. NewMemory(c, a, zz, m, f) = [m EXCEPT !.flash = g, !.rww = "closed"]
      BY <2>8 DEF NewMemory
    <3>. HIDE DEF g
    <3>2. g \in [0 .. FlashSize - 1 -> C!Byte]
      BY <2>2 DEF g
    <3>. QED  BY <2>5, <3>1, <3>2
  <2>9. CASE c = 23 /\ a[3] = 5
    <3>. DEFINE g == [x \in 0 .. FlashSize - 1 |-> IF x \in C!PageOf(zz)
                        THEN C!Both(m.flash[x], f[x % Page]) ELSE m.flash[x]]
    <3>1. NewMemory(c, a, zz, m, f) = [m EXCEPT !.flash = g, !.rww = "closed"]
      BY <2>9 DEF NewMemory
    <3>. HIDE DEF g
    <3>2. g \in [0 .. FlashSize - 1 -> C!Byte]
      BY <2>4 DEF g
    <3>. QED  BY <2>5, <3>1, <3>2
  <2>10. CASE c = 23 /\ a[3] = 17
    <3>1. [m EXCEPT !.rww = "open"] \in Memory
      BY DEF Memory
    <3>. QED  BY <2>10, <3>1 DEF NewMemory
  <2>. QED  BY <2>6, <2>7, <2>8, <2>9, <2>10 DEF NewMemory
<1>5. Answers(c, a, zz, m) \in Seq(Nat)
  <2>1. \A x \in Nat : FlashOf(m, x) \in Nat
    BY FlashByte
  <2>2. zz % DataSize \in 0 .. DataSize - 1
    BY SizeFacts
  <2>3. m["data"][zz % DataSize] \in Nat /\ m["eeprom"][zz % DataSize] \in Nat
    BY <2>2, ByteFacts DEF Memory
  <2>4. CASE c = 20
    <3>1. \A i \in 1 .. Streamed(a[1]) : zz + i - 1 \in Nat
      BY <1>1, <2>4
    <3>2. \A i \in 1 .. Streamed(a[1]) : FlashOf(m, zz + i - 1) \in Nat
      BY <2>1, <3>1
    <3>3. [i \in 1 .. Streamed(a[1]) |-> FlashOf(m, zz + i - 1)] \in Seq(Nat)
      BY <1>1, <2>4, <3>2
    <3>. QED  BY <2>4, <3>3 DEF Answers
  <2>5. CASE c = 18
    BY <2>5 DEF Answers, C!LoHi
  <2>6. CASE c \in {21, 22}
    BY <2>3, <2>6 DEF Answers
  <2>7. CASE c \notin {18, 20, 21, 22}
    BY <2>7 DEF Answers
  <2>. QED  BY <2>4, <2>5, <2>6, <2>7
<1>. QED  BY <1>2, <1>3, <1>4, <1>5

\* A set of natural numbers that is not empty has a least one.
LEMMA Least ==
  ASSUME NEW S \in SUBSET Nat, S # {}
  PROVE  \E k \in S : \A l \in S : k <= l
<1>1. \E k \in S : \A l \in S : ~(<<l, k>> \in OpToRel(<, Nat))
  BY NatLessThanWellFounded, WFMin
<1>2. PICK k \in S : \A l \in S : ~(<<l, k>> \in OpToRel(<, Nat))
  BY <1>1
<1>3. ASSUME NEW l \in S PROVE k <= l
  <2>1. k \in Nat /\ l \in Nat
    OBVIOUS
  <2>2. ~(l < k)
    BY <1>2, <2>1 DEF OpToRel
  <2>. QED  BY <2>1, <2>2
<1>. QED  BY <1>2, <1>3

\* What is kept by every step of a path holds along it.
LEMMA Along ==
  ASSUME NEW h, NEW n \in Nat, NEW G, h[0] \in G, \A i \in 1 .. n : h[i - 1] \in G => h[i] \in G
  PROVE  \A i \in 0 .. n : h[i] \in G
<1>. DEFINE bad == {i \in 0 .. n : h[i] \notin G}
<1>1. SUFFICES ASSUME bad # {} PROVE FALSE
  OBVIOUS
<1>2. PICK i \in bad : \A l \in bad : i <= l
  <2>1. bad \in SUBSET Nat
    OBVIOUS
  <2>. HIDE DEF bad
  <2>. QED  BY <1>1, <2>1, Least
<1>3. i \in 0 .. n /\ h[i] \notin G /\ i # 0
  OBVIOUS
<1>4. i - 1 \in 0 .. n /\ ~(i <= i - 1) /\ i \in 1 .. n
  BY <1>3
<1>5. i - 1 \notin bad
  <2>. HIDE DEF bad
  <2>. QED  BY <1>2, <1>4
<1>6. h[i - 1] \in G
  BY <1>4, <1>5
<1>. QED  BY <1>3, <1>4, <1>6

\* A place where what is received is what it was, and replies may have been added. The
\* page buffer does not change unless there is a reply.
Continues(d, q) ==
    /\ q \in PlaceSet /\ q.d.got = d.got
    /\ \E x \in Seq(Nat) : q.d.log = d.log \o x /\ (q.d.f = d.f \/ x # <<>>)

LEMMA SettledTyped ==
  ASSUME Sizes, NEW c \in Commands, NEW a \in Seq(C!Byte), NEW d \in DataSet,
         IF c = 0 THEN a = <<>> ELSE Len(a) <= C!Needs(c),
         c = 20 /\ Len(a) = 1 => a[1] \in 0 .. Count - 1
  PROVE  Continues(d, Settled(c, a, d))
<1>. DEFINE p == Settled(c, a, d)
<1>. SUFFICES Continues(d, p)
  OBVIOUS
<1>. HIDE DEF p
<1>0. d.z \in Nat /\ d.m \in Memory /\ d.f \in PageBuffer /\ d.log \in Seq(Nat) /\ d.got \in Seq(Nat)
  BY DEF DataSet
<1>1. CASE c # 0 /\ Len(a) = C!Needs(c)
  <2>1. Ready(c, a)
    BY <1>1, NeedsFacts DEF Ready, Commands
  <2>. DEFINE x == Answers(c, a, d.z, d.m)
              e == Finish(c, a, d)
  <2>2. /\ NewZ(c, a, d.z) \in Nat /\ NewMemory(c, a, d.z, d.m, d.f) \in Memory
        /\ NewBuffer(c, a, d.z, d.f) \in PageBuffer /\ x \in Seq(Nat)
    BY <1>0, <2>1, FinishTyped
  <2>. HIDE DEF x
  <2>3. d.log \o x \in Seq(Nat)
    BY <1>0, <2>2
  <2>4. e \in DataSet /\ e.log = d.log \o x /\ e.got = d.got
    BY <1>0, <2>2, <2>3 DEF Finish, Data, DataSet, x
  <2>8. e.f = d.f \/ x # <<>>
    <3>1. CASE c = 23
      <4>1. x = <<0>>
        BY <3>1 DEF x, Answers
      <4>. QED  BY <4>1
    <3>2. CASE c # 23
      BY <3>2 DEF NewBuffer, Finish, Data
    <3>. QED  BY <3>1, <3>2
  <2>. HIDE DEF x
  <2>. HIDE DEF e
  <2>5. p = Place(0, <<>>, e)
    BY <1>1 DEF Settled, e, p
  <2>6. p \in PlaceSet
    BY <2>4, <2>5 DEF PlaceSet, Place, Commands, Waiting
  <2>7. p.d = e
    BY <2>5 DEF Place
  <2>. QED  BY <2>2, <2>4, <2>6, <2>7, <2>8 DEF Continues
<1>2. CASE ~(c # 0 /\ Len(a) = C!Needs(c))
  <2>1. p = Place(c, a, d)
    BY <1>2 DEF Settled, p
  <2>2. Waiting(c, a)
    <3>1. Len(a) \in Nat /\ C!Needs(c) \in Nat
      BY NeedsFacts
    <3>. QED  BY <1>2, <3>1 DEF Waiting
  <2>3. p \in PlaceSet
    BY <2>1, <2>2 DEF PlaceSet, Place
  <2>4. d.log = d.log \o <<>> /\ <<>> \in Seq(Nat)
    BY <1>0
  <2>5. p.d = d
    BY <2>1 DEF Place
  <2>. QED  BY <2>3, <2>4, <2>5 DEF Continues
<1>. QED  BY <1>1, <1>2

LEMMA AfterTyped ==
  ASSUME Sizes, NEW p \in PlaceSet, NEW b \in C!Byte, Fits(p, b)
  PROVE  Continues(p.d, After(p, b))
<1>1. p.c \in Commands /\ p.a \in Seq(C!Byte) /\ p.d \in DataSet /\ Waiting(p.c, p.a)
  BY DEF PlaceSet
<1>2. CASE p.c = 0
  <2>1. Command(b) \in Commands /\ <<>> \in Seq(C!Byte) /\ Len(<<>>) = 0
    BY DEF Command, Commands
  <2>2. Len(<<>>) <= C!Needs(Command(b))
    BY <2>1, NeedsFacts
  <2>3. After(p, b) = Settled(Command(b), <<>>, p.d)
    BY <1>2 DEF After
  <2>4. ~(Command(b) = 20 /\ Len(<<>>) = 1)
    BY <2>1
  <2>5. Continues(p.d, Settled(Command(b), <<>>, p.d))
    BY <1>1, <2>1, <2>2, <2>4, SettledTyped
  <2>. QED  BY <2>3, <2>5
<1>3. CASE p.c # 0
  <2>. DEFINE a == Append(p.a, b)
  <2>1. a \in Seq(C!Byte) /\ Len(a) = Len(p.a) + 1 /\ Len(p.a) \in Nat /\ a[Len(p.a) + 1] = b
    BY <1>1
  <2>2. Len(p.a) < C!Needs(p.c) /\ C!Needs(p.c) \in 0 .. 3
    BY <1>1, <1>3, NeedsFacts DEF Waiting
  <2>3. Len(a) <= C!Needs(p.c)
    BY <2>1, <2>2
  <2>4. p.c = 20 /\ Len(a) = 1 => a[1] \in 0 .. Count - 1
    BY <2>1 DEF Fits
  <2>5. After(p, b) = Settled(p.c, a, p.d)
    BY <1>3 DEF After
  <2>. HIDE DEF a
  <2>. QED  BY <1>1, <1>3, <2>1, <2>3, <2>4, <2>5, SettledTyped
<1>. QED  BY <1>2, <1>3

LEMMA TakenTyped ==
  ASSUME NEW d \in DataSet, d.log # <<>>
  PROVE  Taken(d) \in DataSet
<1>1. d.z \in Nat /\ d.m \in Memory /\ d.f \in PageBuffer /\ d.log \in Seq(Nat) /\ d.got \in Seq(Nat)
  BY DEF DataSet
<1>2. Tail(d.log) \in Seq(Nat) /\ Append(d.got, Head(d.log)) \in Seq(Nat)
  BY <1>1
<1>. QED  BY <1>1, <1>2 DEF Taken, Data, DataSet

LEMMA StepTyped ==
  ASSUME Sizes, NEW p \in PlaceSet, NEW x \in Item, NEW q, Leads1(p, x, q)
  PROVE  q \in PlaceSet
<1>1. CASE x.op \in {"send", "heard"}
  <2>1. x.b \in C!Byte /\ Fits(p, x.b) /\ q = After(p, x.b)
    BY <1>1 DEF Leads1, Item
  <2>. QED  BY <2>1, AfterTyped DEF Continues
<1>2. CASE x.op \notin {"send", "heard"}
  <2>1. p.c = 0 /\ p.d.log # <<>> /\ q = Place(0, p.a, Taken(p.d))
    BY <1>2 DEF Leads1
  <2>2. Taken(p.d) \in DataSet
    BY <2>1, TakenTyped DEF PlaceSet
  <2>. HIDE DEF Taken
  <2>. QED  BY <2>1, <2>2 DEF PlaceSet, Place, Commands, Waiting
<1>. QED  BY <1>1, <1>2

LEMMA LeadsTyped ==
  ASSUME Sizes, NEW p \in PlaceSet, NEW s \in Seq(Item), NEW q, Leads(p, s, q)
  PROVE  q \in PlaceSet
<1>1. PICK h : IsPath(h, s, p, q)
  BY DEF Leads
<1>2. h[0] = p /\ h[Len(s)] = q /\ \A i \in 1 .. Len(s) : Leads1(h[i - 1], s[i], h[i])
  BY <1>1 DEF IsPath
<1>3. ASSUME NEW i \in 1 .. Len(s), h[i - 1] \in PlaceSet PROVE h[i] \in PlaceSet
  <2>1. s[i] \in Item
    OBVIOUS
  <2>. QED  BY <1>2, <1>3, <2>1, StepTyped
<1>4. Len(s) \in Nat
  OBVIOUS
<1>5. \A i \in 0 .. Len(s) : h[i] \in PlaceSet
  BY <1>2, <1>3, <1>4, Along
<1>6. Len(s) \in 0 .. Len(s)
  BY <1>4
<1>. QED  BY <1>2, <1>5, <1>6

-----------------------------------------------------------------------------
(* Bytes on the line *)

HeardByte(b) == [op |-> "heard", b |-> b]
Items(line) == [i \in 1 .. Len(line) |-> HeardByte(line[i])]

LEMMA HeardItem ==
  ASSUME NEW b \in C!Byte
  PROVE  HeardByte(b) \in Item /\ \A p, q : Leads1(p, HeardByte(b), q) <=> Fits(p, b) /\ q = After(p, b)
BY DEF HeardByte, Item, Leads1

LEMMA ItemsFacts ==
  ASSUME NEW line \in Seq(C!Byte)
  PROVE  /\ Items(line) \in Seq(Item) /\ Len(Items(line)) = Len(line)
         /\ \A i \in 1 .. Len(line) : Items(line)[i] = HeardByte(line[i])
         /\ \A b \in C!Byte : Items(Append(line, b)) = Items(line) \o <<HeardByte(b)>>
         /\ line # <<>> => /\ Head(Items(line)) = HeardByte(Head(line)) /\ Items(line) # <<>>
                           /\ Tail(Items(line)) = Items(Tail(line))
                           /\ Head(line) \in C!Byte /\ Tail(line) \in Seq(C!Byte)
<1>1. ASSUME NEW l \in Seq(C!Byte)
      PROVE  /\ Items(l) \in Seq(Item) /\ Len(Items(l)) = Len(l)
             /\ \A i \in 1 .. Len(l) : Items(l)[i] = HeardByte(l[i])
  <2>1. \A i \in 1 .. Len(l) : HeardByte(l[i]) \in Item
    BY HeardItem
  <2>2. Len(l) \in Nat
    OBVIOUS
  <2>. QED  BY <2>1, <2>2 DEF Items
<1>2. ASSUME NEW b \in C!Byte PROVE Items(Append(line, b)) = Items(line) \o <<HeardByte(b)>>
  <2>. DEFINE e == Append(line, b)
              n == Len(line)
              t == <<HeardByte(b)>>
              s == Items(line) \o t
  <2>1. /\ e \in Seq(C!Byte) /\ Len(e) = n + 1 /\ n \in Nat /\ e[n + 1] = b
        /\ \A i \in 1 .. n : e[i] = line[i]
    OBVIOUS
  <2>2. t \in Seq(Item) /\ Len(t) = 1 /\ t[1] = HeardByte(b)
    BY HeardItem
  <2>3. Items(line) \in Seq(Item) /\ Len(Items(line)) = n /\ \A i \in 1 .. n : Items(line)[i] = HeardByte(line[i])
    BY <1>1
  <2>. HIDE DEF e, n, t
  <2>4. /\ s \in Seq(Item) /\ Len(s) = n + 1 /\ s[n + 1] = HeardByte(b)
        /\ \A i \in 1 .. n : s[i] = HeardByte(line[i])
    <3>. DEFINE x == Items(line)
    <3>1. x \in Seq(Item) /\ Len(x) = n /\ s = x \o t
      BY <2>3
    <3>2. \A i \in 1 .. n : x[i] = HeardByte(line[i])
      BY <2>3
    <3>. HIDE DEF x, s
    <3>3. x \o t \in Seq(Item) /\ Len(x \o t) = n + 1 /\ (x \o t)[n + 1] = t[1]
      <4>1. n + 1 \in 1 .. Len(x) + Len(t) /\ (n + 1) - Len(x) = 1 /\ n + 1 > Len(x)
        BY <2>1, <2>2, <3>1
      <4>2. /\ x \o t \in Seq(Item) /\ Len(x \o t) = Len(x) + Len(t)
            /\ \A i \in 1 .. Len(x) + Len(t) : (x \o t)[i] = IF i <= Len(x) THEN x[i] ELSE t[i - Len(x)]
        BY <2>2, <3>1, ConcatProperties
      <4>3. (x \o t)[n + 1] = t[(n + 1) - Len(x)]
        BY <4>1, <4>2, <3>1, <2>1
      <4>. QED  BY <2>2, <3>1, <4>1, <4>2, <4>3
    <3>4. \A i \in 1 .. n : (x \o t)[i] = x[i]
      BY <2>1, <2>2, <3>1
    <3>. QED  BY <2>2, <3>1, <3>2, <3>3, <3>4
  <2>5. Items(e) \in Seq(Item) /\ Len(Items(e)) = n + 1 /\ \A i \in 1 .. n + 1 : Items(e)[i] = HeardByte(e[i])
    BY <1>1, <2>1
  <2>. HIDE DEF s
  <2>6. ASSUME NEW i \in 1 .. n + 1 PROVE Items(e)[i] = s[i]
    <3>1. i \in 1 .. n \/ i = n + 1
      BY <2>1
    <3>. QED  BY <2>1, <2>4, <2>5, <3>1
  <2>7. Items(e) = s
    BY <2>4, <2>5, <2>6, SeqEqual
  <2>. QED  BY <2>7 DEF e, s, t
<1>3. ASSUME line # <<>>
      PROVE  /\ Head(Items(line)) = HeardByte(Head(line)) /\ Items(line) # <<>>
             /\ Tail(Items(line)) = Items(Tail(line))
             /\ Head(line) \in C!Byte /\ Tail(line) \in Seq(C!Byte)
  <2>. DEFINE t == Tail(line)
              n == Len(line)
              s == Items(line)
  <2>1. /\ t \in Seq(C!Byte) /\ n \in Nat /\ n >= 1 /\ Len(t) = n - 1 /\ Head(line) = line[1]
        /\ Head(line) \in C!Byte /\ \A i \in 1 .. n - 1 : t[i] = line[i + 1]
    BY <1>3
  <2>2. s \in Seq(Item) /\ Len(s) = n /\ \A i \in 1 .. n : s[i] = HeardByte(line[i])
    BY <1>1
  <2>3. Items(t) \in Seq(Item) /\ Len(Items(t)) = n - 1 /\ \A i \in 1 .. n - 1 : Items(t)[i] = HeardByte(t[i])
    BY <1>1, <2>1
  <2>. HIDE DEF t, n, s
  <2>4. /\ s # <<>> /\ Head(s) = s[1] /\ Tail(s) \in Seq(Item) /\ Len(Tail(s)) = n - 1
        /\ \A i \in 1 .. n - 1 : Tail(s)[i] = s[i + 1]
    BY <2>1, <2>2
  <2>5. ASSUME NEW i \in 1 .. n - 1 PROVE Tail(s)[i] = Items(t)[i]
    <3>1. i + 1 \in 1 .. n
      BY <2>1
    <3>. QED  BY <2>1, <2>2, <2>3, <2>4, <3>1
  <2>6. Tail(s) = Items(t)
    BY <2>3, <2>4, <2>5, SeqEqual
  <2>7. Head(s) = HeardByte(line[1])
    BY <2>1, <2>2, <2>4
  <2>. QED  BY <2>1, <2>4, <2>6, <2>7 DEF s, t
<1>. QED  BY <1>1, <1>2, <1>3

LEMMA HeardTyped ==
  ASSUME Sizes, NEW p \in PlaceSet, NEW b \in C!Byte, NEW q, Leads1(p, HeardByte(b), q)
  PROVE  q \in PlaceSet /\ Fits(p, b) /\ q = After(p, b) /\ Continues(p.d, q)
<1>1. Fits(p, b) /\ q = After(p, b)
  BY HeardItem
<1>2. Continues(p.d, After(p, b))
  BY <1>1, AfterTyped
<1>. QED  BY <1>1, <1>2 DEF Continues

LEMMA NumbersAssociative ==
  ASSUME NEW s1 \in Seq(Nat), NEW s2 \in Seq(Nat), NEW s3 \in Seq(Nat)
  PROVE  (s1 \o s2) \o s3 = s1 \o (s2 \o s3)
<1>1. PICK S : S = Nat
  OBVIOUS
<1>2. s1 \in Seq(S) /\ s2 \in Seq(S) /\ s3 \in Seq(S)
  BY <1>1
<1>. QED  BY <1>2, ConcatAssociative

LEMMA ContinuesTransitive ==
  ASSUME NEW d \in DataSet, NEW p, NEW q, Continues(d, p), Continues(p.d, q)
  PROVE  Continues(d, q)
<1>1. PICK x \in Seq(Nat) : p.d.log = d.log \o x /\ (p.d.f = d.f \/ x # <<>>)
  BY DEF Continues
<1>2. PICK yy \in Seq(Nat) : q.d.log = p.d.log \o yy /\ (q.d.f = p.d.f \/ yy # <<>>)
  BY DEF Continues
<1>3. d.log \in Seq(Nat)
  BY DEF DataSet
<1>4. q.d.log = d.log \o (x \o yy) /\ x \o yy \in Seq(Nat)
  <2>1. q.d.log = (d.log \o x) \o yy
    BY <1>1, <1>2
  <2>2. (d.log \o x) \o yy = d.log \o (x \o yy)
    BY <1>1, <1>2, <1>3, NumbersAssociative
  <2>3. x \o yy \in Seq(Nat)
    BY <1>1, <1>2
  <2>. QED  BY <2>1, <2>2, <2>3
<1>5. x \o yy = <<>> => x = <<>> /\ yy = <<>>
  <2>1. Len(x \o yy) = Len(x) + Len(yy) /\ Len(x) \in Nat /\ Len(yy) \in Nat
    BY ConcatProperties
  <2>. QED  BY <2>1
<1>6. q.d.f = d.f \/ x \o yy # <<>>
  BY <1>1, <1>2, <1>5
<1>. QED  BY <1>4, <1>6 DEF Continues

\* The line takes nothing away from what was answered.
LEMMA LineContinues ==
  ASSUME Sizes, NEW p \in PlaceSet, NEW line \in Seq(C!Byte), NEW q, Leads(p, Items(line), q)
  PROVE  Continues(p.d, q)
<1>. DEFINE n == Len(line)
            G == {r \in PlaceSet : Continues(p.d, r)}
<1>1. PICK h : IsPath(h, Items(line), p, q)
  BY DEF Leads
<1>2. n \in Nat /\ Len(Items(line)) = n /\ \A i \in 1 .. n : Items(line)[i] = HeardByte(line[i])
  BY ItemsFacts
<1>3. h[0] = p /\ h[n] = q /\ \A i \in 1 .. n : Leads1(h[i - 1], HeardByte(line[i]), h[i])
  BY <1>1, <1>2 DEF IsPath
<1>4. p.d \in DataSet
  BY DEF PlaceSet
<1>5. p \in G
  <2>1. p.d.log \in Seq(Nat) /\ <<>> \in Seq(Nat) /\ p.d.log = p.d.log \o <<>>
    BY <1>4, ConcatEmptySeq DEF DataSet
  <2>. QED  BY <2>1 DEF Continues
<1>6. ASSUME NEW i \in 1 .. n, h[i - 1] \in G PROVE h[i] \in G
  <2>1. line[i] \in C!Byte
    OBVIOUS
  <2>2. h[i] \in PlaceSet /\ Continues(h[i - 1].d, h[i])
    BY <1>3, <1>6, <2>1, HeardTyped
  <2>. QED  BY <1>4, <1>6, <2>2, ContinuesTransitive
<1>. HIDE DEF n, G
<1>7. \A i \in 0 .. n : h[i] \in G
  BY <1>2, <1>3, <1>5, <1>6, Along
<1>8. q \in G
  BY <1>2, <1>3, <1>7
<1>. QED  BY <1>8 DEF G

\* A place whose first n answers have been taken away.
Dropped(n, g, p) ==
    Place(p.c, p.a, Data(p.d.z, p.d.m, p.d.f, SubSeq(p.d.log, n + 1, Len(p.d.log)), g))

LEMMA WithoutFirst ==
  ASSUME NEW s \in Seq(Nat), NEW n \in 0 .. Len(s)
  PROVE  /\ SubSeq(s, n + 1, Len(s)) \in Seq(Nat) /\ Len(SubSeq(s, n + 1, Len(s))) = Len(s) - n
         /\ \A i \in 1 .. Len(s) - n : SubSeq(s, n + 1, Len(s))[i] = s[n + i]
<1>1. Len(s) \in Nat /\ n \in Nat /\ n + 1 \in 1 .. Len(s) + 1 /\ Len(s) \in n .. Len(s)
  OBVIOUS
<1>. QED  BY <1>1

LEMMA DropConcat ==
  ASSUME NEW s \in Seq(Nat), NEW t \in Seq(Nat), NEW n \in 0 .. Len(s)
  PROVE  SubSeq(s \o t, n + 1, Len(s \o t)) = SubSeq(s, n + 1, Len(s)) \o t
<1>. DEFINE x == s \o t
            l == Len(s)
            k == Len(t)
            uu == SubSeq(x, n + 1, Len(x))
            v == SubSeq(s, n + 1, l)
            w == v \o t
<1>1. x \in Seq(Nat) /\ Len(x) = l + k /\ \A i \in 1 .. l + k : x[i] = IF i <= l THEN s[i] ELSE t[i - l]
  BY ConcatProperties
<1>2. l \in Nat /\ k \in Nat /\ n \in 0 .. l
  OBVIOUS
<1>3. v \in Seq(Nat) /\ Len(v) = l - n /\ \A i \in 1 .. l - n : v[i] = s[n + i]
  <2>1. n + 1 \in 1 .. l + 1 /\ l \in n .. l
    BY <1>2
  <2>. QED  BY <1>2, <2>1
<1>. HIDE DEF x, l, k, v
<1>4. uu \in Seq(Nat) /\ Len(uu) = l + k - n /\ \A i \in 1 .. l + k - n : uu[i] = x[n + i]
  <2>1. x \in Seq(Nat) /\ Len(x) \in Nat /\ Len(x) = l + k
    BY <1>1
  <2>2. n \in 0 .. Len(x)
    BY <1>2, <2>1
  <2>3. SubSeq(x, n + 1, Len(x)) \in Seq(Nat) /\ Len(SubSeq(x, n + 1, Len(x))) = Len(x) - n
        /\ \A i \in 1 .. Len(x) - n : SubSeq(x, n + 1, Len(x))[i] = x[n + i]
    BY <2>1, <2>2, WithoutFirst
  <2>4. Len(x) - n = l + k - n
    BY <1>2, <2>1
  <2>5. SubSeq(x, n + 1, Len(x)) \in Seq(Nat) /\ Len(SubSeq(x, n + 1, Len(x))) = l + k - n
        /\ \A i \in 1 .. l + k - n : SubSeq(x, n + 1, Len(x))[i] = x[n + i]
    BY <2>3, <2>4
  <2>. QED  BY <2>5
<1>5. /\ w \in Seq(Nat) /\ Len(w) = l + k - n
      /\ \A i \in 1 .. l + k - n : w[i] = IF i <= l - n THEN v[i] ELSE t[i - (l - n)]
  <2>1. w \in Seq(Nat) /\ Len(w) = (l - n) + k
    BY <1>2, <1>3, ConcatProperties DEF k
  <2>2. \A i \in 1 .. (l - n) + k : w[i] = IF i <= l - n THEN v[i] ELSE t[i - (l - n)]
    BY <1>2, <1>3, ConcatProperties DEF k
  <2>3. (l - n) + k = l + k - n
    BY <1>2
  <2>. QED  BY <2>1, <2>2, <2>3
<1>. HIDE DEF uu, w
<1>6. ASSUME NEW i \in 1 .. l + k - n PROVE uu[i] = w[i]
  <2>1. n + i \in 1 .. l + k /\ (n + i) - l = i - (l - n) /\ (n + i <= l <=> i <= l - n)
    BY <1>2
  <2>2. i <= l - n => i \in 1 .. l - n
    BY <1>2
  <2>3. uu[i] = IF n + i <= l THEN s[n + i] ELSE t[(n + i) - l]
    BY <1>1, <1>4, <2>1
  <2>. QED  BY <1>3, <1>5, <2>1, <2>2, <2>3
<1>7. uu = w
  BY <1>4, <1>5, <1>6, SeqEqual
<1>. QED  BY <1>7 DEF uu, w, v, x, l

LEMMA DroppedSettled ==
  ASSUME Sizes, NEW c \in Commands, NEW a \in Seq(C!Byte), NEW d \in DataSet,
         c = 20 /\ Len(a) = 1 => a[1] \in 0 .. Count - 1,
         NEW n \in 0 .. Len(d.log), NEW g
  PROVE  Dropped(n, g, Settled(c, a, d))
           = Settled(c, a, Data(d.z, d.m, d.f, SubSeq(d.log, n + 1, Len(d.log)), g))
<1>. DEFINE rest == SubSeq(d.log, n + 1, Len(d.log))
            e == Data(d.z, d.m, d.f, rest, g)
<1>1. e.z = d.z /\ e.m = d.m /\ e.f = d.f /\ e.log = rest /\ e.got = g
  BY DEF Data
<1>2. CASE c # 0 /\ Len(a) = C!Needs(c)
  <2>. DEFINE x == Answers(c, a, d.z, d.m)
  <2>1. Ready(c, a)
    BY <1>2, NeedsFacts DEF Ready, Commands
  <2>2. d.log \in Seq(Nat) /\ x \in Seq(Nat)
    BY <2>1, FinishTyped DEF DataSet
  <2>. HIDE DEF x
  <2>3. SubSeq(d.log \o x, n + 1, Len(d.log \o x)) = rest \o x
    BY <2>2, DropConcat
  <2>4. Settled(c, a, d) = Place(0, <<>>, Data(NewZ(c, a, d.z), NewMemory(c, a, d.z, d.m, d.f),
                              NewBuffer(c, a, d.z, d.f), d.log \o x, d.got))
    BY <1>2 DEF Settled, Finish, x
  <2>5. Settled(c, a, e) = Place(0, <<>>, Data(NewZ(c, a, d.z), NewMemory(c, a, d.z, d.m, d.f),
                              NewBuffer(c, a, d.z, d.f), rest \o x, g))
    BY <1>1, <1>2 DEF Settled, Finish, x
  <2>. HIDE DEF rest, e
  <2>6. Dropped(n, g, Settled(c, a, d))
          = Place(0, <<>>, Data(NewZ(c, a, d.z), NewMemory(c, a, d.z, d.m, d.f),
                  NewBuffer(c, a, d.z, d.f), SubSeq(d.log \o x, n + 1, Len(d.log \o x)), g))
    <3>. DEFINE zz == NewZ(c, a, d.z)
                m == NewMemory(c, a, d.z, d.m, d.f)
                f == NewBuffer(c, a, d.z, d.f)
                l == d.log \o x
                yy == Data(zz, m, f, l, d.got)
    <3>1. yy.z = zz /\ yy.m = m /\ yy.f = f /\ yy.log = l
      BY DEF Data
    <3>2. Settled(c, a, d) = Place(0, <<>>, yy)
      BY <2>4
    <3>. HIDE DEF zz, m, f, l, yy
    <3>3. Dropped(n, g, Settled(c, a, d)) = Place(0, <<>>, Data(zz, m, f, SubSeq(l, n + 1, Len(l)), g))
      BY <3>1, <3>2 DEF Dropped, Place
    <3>. QED  BY <3>3 DEF zz, m, f, l
  <2>. QED  BY <2>3, <2>5, <2>6 DEF e, rest
<1>3. CASE ~(c # 0 /\ Len(a) = C!Needs(c))
  <2>1. Settled(c, a, d) = Place(c, a, d) /\ Settled(c, a, e) = Place(c, a, e)
    BY <1>3 DEF Settled
  <2>. QED  BY <2>1 DEF Dropped, Place
<1>. QED  BY <1>2, <1>3

LEMMA DroppedAfter ==
  ASSUME Sizes, NEW p \in PlaceSet, NEW b \in C!Byte, Fits(p, b),
         NEW n \in 0 .. Len(p.d.log), NEW g
  PROVE  After(Dropped(n, g, p), b) = Dropped(n, g, After(p, b)) /\ Fits(Dropped(n, g, p), b)
<1>. DEFINE q == Dropped(n, g, p)
            e == Data(p.d.z, p.d.m, p.d.f, SubSeq(p.d.log, n + 1, Len(p.d.log)), g)
<1>1. p.c \in Commands /\ p.a \in Seq(C!Byte) /\ p.d \in DataSet /\ Waiting(p.c, p.a)
  BY DEF PlaceSet
<1>2. q.c = p.c /\ q.a = p.a /\ q.d = e
  BY DEF Dropped, Place
<1>. HIDE DEF q
<1>3. CASE p.c = 0
  <2>1. Command(b) \in Commands /\ <<>> \in Seq(C!Byte) /\ Len(<<>>) = 0
    BY DEF Command, Commands
  <2>2. After(p, b) = Settled(Command(b), <<>>, p.d) /\ After(q, b) = Settled(Command(b), <<>>, e)
    BY <1>2, <1>3 DEF After
  <2>3. Dropped(n, g, Settled(Command(b), <<>>, p.d)) = Settled(Command(b), <<>>, e)
    <3>1. PICK k : k = Command(b)
      OBVIOUS
    <3>2. PICK s : s = <<>>
      OBVIOUS
    <3>3. k \in Commands /\ s \in Seq(C!Byte) /\ ~(Len(s) = 1)
      BY <2>1, <3>1, <3>2
    <3>4. PICK data \in DataSet : data = p.d
      BY <1>1
    <3>5. Dropped(n, g, Settled(k, s, data))
            = Settled(k, s, Data(data.z, data.m, data.f, SubSeq(data.log, n + 1, Len(data.log)), g))
      BY <3>3, <3>4, DroppedSettled
    <3>. QED  BY <3>1, <3>2, <3>4, <3>5
  <2>. QED  BY <1>2, <2>2, <2>3 DEF Fits, q
<1>4. CASE p.c # 0
  <2>. DEFINE a == Append(p.a, b)
  <2>1. a \in Seq(C!Byte) /\ Len(a) = Len(p.a) + 1 /\ Len(p.a) \in Nat /\ a[Len(p.a) + 1] = b
    BY <1>1
  <2>2. p.c = 20 /\ Len(a) = 1 => a[1] \in 0 .. Count - 1
    BY <2>1 DEF Fits
  <2>3. After(p, b) = Settled(p.c, a, p.d) /\ After(q, b) = Settled(p.c, a, e)
    BY <1>2, <1>4 DEF After
  <2>. HIDE DEF a
  <2>4. Dropped(n, g, Settled(p.c, a, p.d)) = Settled(p.c, a, e)
    BY <1>1, <2>1, <2>2, DroppedSettled
  <2>. QED  BY <1>2, <2>3, <2>4 DEF Fits, q
<1>. QED  BY <1>3, <1>4

\* What has been answered does not matter to what will be.
LEMMA DroppedPath ==
  ASSUME Sizes, NEW p \in PlaceSet, NEW line \in Seq(C!Byte), NEW q, NEW h, IsPath(h, Items(line), p, q),
         NEW n \in 0 .. Len(p.d.log), NEW g
  PROVE  \E k : /\ IsPath(k, Items(line), Dropped(n, g, p), Dropped(n, g, q))
                /\ \A i \in 0 .. Len(line) : k[i] = Dropped(n, g, h[i]) /\ Continues(p.d, h[i])
<1>. DEFINE m == Len(line)
            k == [i \in 0 .. m |-> Dropped(n, g, h[i])]
            G == {r \in PlaceSet : n \in 0 .. Len(r.d.log) /\ Continues(p.d, r)}
<1>1. p.d \in DataSet
  BY DEF PlaceSet
<1>2. m \in Nat /\ Len(Items(line)) = m /\ \A i \in 1 .. m : Items(line)[i] = HeardByte(line[i])
  BY ItemsFacts
<1>3. h[0] = p /\ h[m] = q /\ \A i \in 1 .. m : Leads1(h[i - 1], HeardByte(line[i]), h[i])
  BY <1>2 DEF IsPath
<1>4. p \in G
  <2>1. p.d.log \in Seq(Nat) /\ <<>> \in Seq(Nat) /\ p.d.log = p.d.log \o <<>>
    BY <1>1, ConcatEmptySeq DEF DataSet
  <2>. QED  BY <2>1 DEF Continues
<1>5. ASSUME NEW i \in 1 .. m, h[i - 1] \in G
      PROVE  h[i] \in G /\ Leads1(Dropped(n, g, h[i - 1]), HeardByte(line[i]), Dropped(n, g, h[i]))
  <2>1. line[i] \in C!Byte
    OBVIOUS
  <2>2. /\ h[i] \in PlaceSet /\ Fits(h[i - 1], line[i]) /\ h[i] = After(h[i - 1], line[i])
        /\ Continues(h[i - 1].d, h[i])
    BY <1>3, <1>5, <2>1, HeardTyped
  <2>3. n \in 0 .. Len(h[i].d.log)
    <3>1. PICK x \in Seq(Nat) : h[i].d.log = h[i - 1].d.log \o x
      BY <2>2 DEF Continues
    <3>2. h[i - 1].d.log \in Seq(Nat) /\ n \in 0 .. Len(h[i - 1].d.log)
      BY <1>5 DEF PlaceSet, DataSet
    <3>3. Len(h[i].d.log) = Len(h[i - 1].d.log) + Len(x) /\ Len(x) \in Nat /\ Len(h[i - 1].d.log) \in Nat
      <4>1. PICK s \in Seq(Nat) : s = h[i - 1].d.log
        BY <3>2
      <4>2. Len(s \o x) = Len(s) + Len(x) /\ Len(x) \in Nat /\ Len(s) \in Nat
        BY ConcatProperties
      <4>. QED  BY <3>1, <4>1, <4>2
    <3>. QED  BY <3>2, <3>3
  <2>4. After(Dropped(n, g, h[i - 1]), line[i]) = Dropped(n, g, h[i]) /\ Fits(Dropped(n, g, h[i - 1]), line[i])
    BY <1>5, <2>1, <2>2, DroppedAfter
  <2>5. Continues(p.d, h[i])
    BY <1>1, <1>5, <2>2, ContinuesTransitive
  <2>. QED  BY <2>1, <2>2, <2>3, <2>4, <2>5, HeardItem
<1>. HIDE DEF m, k
<1>11. k = [i \in 0 .. m |-> Dropped(n, g, h[i])]
  BY DEF k
<1>. HIDE DEF G
<1>6. \A i \in 0 .. m : h[i] \in G
  BY <1>2, <1>3, <1>4, <1>5, Along
<1>7. \A i \in 1 .. m : i \in 0 .. m /\ i - 1 \in 0 .. m
  BY <1>2
<1>8. k[0] = Dropped(n, g, p) /\ k[m] = Dropped(n, g, q)
  BY <1>2, <1>3, <1>11
<1>9. \A i \in 1 .. m : k[i - 1] = Dropped(n, g, h[i - 1]) /\ k[i] = Dropped(n, g, h[i])
  BY <1>7, <1>11
<1>10. \A i \in 1 .. m : Leads1(k[i - 1], Items(line)[i], k[i])
  BY <1>2, <1>5, <1>6, <1>7, <1>9
<1>12. IsPath(k, Items(line), Dropped(n, g, p), Dropped(n, g, q))
  BY <1>2, <1>8, <1>10 DEF IsPath
<1>13. \A i \in 0 .. m : k[i] = Dropped(n, g, h[i]) /\ Continues(p.d, h[i])
  BY <1>6, <1>11 DEF G
<1>. QED  BY <1>12, <1>13 DEF m

LEMMA DroppedLeads ==
  ASSUME Sizes, NEW p \in PlaceSet, NEW line \in Seq(C!Byte), NEW q, Leads(p, Items(line), q),
         NEW n \in 0 .. Len(p.d.log), NEW g
  PROVE  Leads(Dropped(n, g, p), Items(line), Dropped(n, g, q))
<1>1. PICK h : IsPath(h, Items(line), p, q)
  BY DEF Leads
<1>2. PICK k : IsPath(k, Items(line), Dropped(n, g, p), Dropped(n, g, q))
  BY <1>1, DroppedPath
<1>. QED  BY <1>2 DEF Leads

-----------------------------------------------------------------------------
(* A command and its reply *)

SendItem(b, c) == [op |-> "send", b |-> b, of |-> c]
RecvItem == [op |-> "recv"]
Idle(d) == Place(0, <<>>, d)

LEMMA SendFacts ==
  ASSUME NEW b \in C!Byte, NEW c \in 0 .. 27
  PROVE  /\ SendItem(b, c) \in Item
         /\ \A p, q : Leads1(p, SendItem(b, c), q) <=> c = p.c /\ Fits(p, b) /\ q = After(p, b)
BY DEF SendItem, Item, Leads1

LEMMA RecvFacts ==
  /\ RecvItem \in Item
  /\ \A p, q : Leads1(p, RecvItem, q) <=> p.c = 0 /\ p.d.log # <<>> /\ q = Place(0, p.a, Taken(p.d))
BY DEF RecvItem, Item, Leads1

\* The items that send the arguments of a command, and those of the command with them.
Arguments(c, bytes) == [i \in 1 .. Len(bytes) |-> SendItem(bytes[i], c)]

LEMMA ArgumentsItems ==
  ASSUME NEW c \in 0 .. 27, NEW bytes \in Seq(C!Byte)
  PROVE  /\ Arguments(c, bytes) \in Seq(Item) /\ Len(Arguments(c, bytes)) = Len(bytes)
         /\ \A i \in 1 .. Len(bytes) : Arguments(c, bytes)[i] = SendItem(bytes[i], c)
<1>1. ASSUME NEW i \in 1 .. Len(bytes) PROVE SendItem(bytes[i], c) \in Item
  <2>1. bytes[i] \in C!Byte
    OBVIOUS
  <2>. QED  BY <2>1, SendFacts
<1>2. Len(bytes) \in Nat
  OBVIOUS
<1>. QED  BY <1>1, <1>2 DEF Arguments

LEMMA WithItems ==
  ASSUME NEW c \in 16 .. 27, NEW bytes \in Seq(C!Byte)
  PROVE  /\ C!With(c, bytes) = <<SendItem(c, 0)>> \o Arguments(c, bytes)
         /\ C!Cmd(c) = <<SendItem(c, 0)>> /\ c \in C!Byte
         /\ C!With(c, bytes) \in Seq(Item) /\ <<SendItem(c, 0)>> \in Seq(Item)
<1>1. c \in C!Byte
  BY DEF C!Byte
<1>2. <<SendItem(c, 0)>> \in Seq(Item)
  BY <1>1, SendFacts
<1>3. C!With(c, bytes) = <<SendItem(c, 0)>> \o Arguments(c, bytes) /\ C!Cmd(c) = <<SendItem(c, 0)>>
  BY DEF C!With, C!Cmd, SendItem, Arguments
<1>4. <<SendItem(c, 0)>> \o Arguments(c, bytes) \in Seq(Item)
  <2>1. c \in 0 .. 27
    OBVIOUS
  <2>2. Arguments(c, bytes) \in Seq(Item)
    BY <2>1, ArgumentsItems
  <2>. QED  BY <1>2, <2>2, ConcatProperties
<1>. QED  BY <1>1, <1>2, <1>3, <1>4

\* Prefixes.
LEMMA PrefixFacts ==
  ASSUME NEW S, NEW bytes \in Seq(S), NEW i \in 1 .. Len(bytes)
  PROVE  /\ SubSeq(bytes, 1, i - 1) \in Seq(S) /\ Len(SubSeq(bytes, 1, i - 1)) = i - 1
         /\ Append(SubSeq(bytes, 1, i - 1), bytes[i]) = SubSeq(bytes, 1, i)
<1>. DEFINE n == Len(bytes)
            s == SubSeq(bytes, 1, i - 1)
            t == SubSeq(bytes, 1, i)
            uu == Append(s, bytes[i])
<1>1. n \in Nat /\ i \in 1 .. n /\ bytes[i] \in S
  OBVIOUS
<1>2. /\ s \in Seq(S) /\ Len(s) = i - 1 /\ \A j \in 1 .. i - 1 : s[j] = bytes[j]
      /\ t \in Seq(S) /\ Len(t) = i /\ \A j \in 1 .. i : t[j] = bytes[j]
  BY <1>1
<1>. HIDE DEF n, s, t
<1>3. uu \in Seq(S) /\ Len(uu) = i /\ \A j \in 1 .. i : uu[j] = bytes[j]
  BY <1>1, <1>2
<1>. HIDE DEF uu
<1>4. uu = t
  BY <1>2, <1>3, SeqEqual
<1>. QED  BY <1>2, <1>4 DEF s, t, uu

LEMMA ArgumentsTaken ==
  ASSUME Sizes, NEW c, NEW bytes, Ready(c, bytes), NEW d \in DataSet
  PROVE  Leads(Settled(c, <<>>, d), Arguments(c, bytes), Idle(Finish(c, bytes, d)))
<1>. DEFINE n == Len(bytes)
            h == [i \in 0 .. n |-> Settled(c, SubSeq(bytes, 1, i), d)]
<1>1. c \in 16 .. 27 /\ bytes \in Seq(C!Byte) /\ n = C!Needs(c) /\ n \in Nat /\ c # 0
      /\ (c = 20 => n = 1 /\ bytes[1] \in 0 .. Count - 1) /\ c \in 0 .. 27
  BY NeedsFacts DEF Ready
<1>2. h[0] = Settled(c, <<>>, d)
  <2>1. SubSeq(bytes, 1, 0) = <<>> /\ 0 \in 0 .. n
    BY <1>1
  <2>. QED  BY <2>1
<1>3. h[n] = Idle(Finish(c, bytes, d))
  <2>1. SubSeq(bytes, 1, n) = bytes /\ n \in 0 .. n
    BY <1>1
  <2>2. h[n] = Settled(c, bytes, d)
    BY <2>1
  <2>. QED  BY <1>1, <2>2 DEF Settled, Idle
<1>4. ASSUME NEW i \in 1 .. n PROVE Leads1(h[i - 1], Arguments(c, bytes)[i], h[i])
  <2>. DEFINE s == SubSeq(bytes, 1, i - 1)
  <2>1. s \in Seq(C!Byte) /\ Len(s) = i - 1 /\ Append(s, bytes[i]) = SubSeq(bytes, 1, i)
    BY <1>1, PrefixFacts
  <2>2. h[i - 1] = Settled(c, s, d) /\ h[i] = Settled(c, SubSeq(bytes, 1, i), d)
    <3>1. i - 1 \in 0 .. n /\ i \in 0 .. n
      BY <1>1
    <3>. QED  BY <3>1
  <2>3. Len(s) # C!Needs(c)
    BY <1>1, <2>1
  <2>. HIDE DEF h, s
  <2>4. h[i - 1] = Place(c, s, d)
    BY <2>2, <2>3 DEF Settled
  <2>5. h[i - 1].c = c /\ h[i - 1].a = s /\ h[i - 1].d = d
    BY <2>4 DEF Place
  <2>6. After(h[i - 1], bytes[i]) = h[i]
    BY <1>1, <2>1, <2>2, <2>5 DEF After
  <2>7. Fits(h[i - 1], bytes[i])
    BY <1>1, <2>5 DEF Fits
  <2>8. bytes[i] \in C!Byte /\ c \in 0 .. 27
    BY <1>1
  <2>9. Arguments(c, bytes)[i] = SendItem(bytes[i], c)
    BY <1>1, <2>8, ArgumentsItems
  <2>10. \A p, q : Leads1(p, SendItem(bytes[i], c), q) <=> c = p.c /\ Fits(p, bytes[i]) /\ q = After(p, bytes[i])
    BY <2>8, SendFacts
  <2>11. Leads1(h[i - 1], SendItem(bytes[i], c), h[i])
    BY <2>5, <2>6, <2>7, <2>10
  <2>. QED  BY <2>9, <2>11
<1>. HIDE DEF h
<1>5. Len(Arguments(c, bytes)) = n
  BY <1>1, ArgumentsItems
<1>6. IsPath(h, Arguments(c, bytes), Settled(c, <<>>, d), Idle(Finish(c, bytes, d)))
  BY <1>2, <1>3, <1>4, <1>5 DEF IsPath
<1>. QED  BY <1>6 DEF Leads

\* A command that is sent with all its arguments is executed.
LEMMA Sent ==
  ASSUME Sizes, NEW c, NEW bytes, Ready(c, bytes), NEW d \in DataSet
  PROVE  Leads(Idle(d), C!With(c, bytes), Idle(Finish(c, bytes, d)))
<1>1. c \in 16 .. 27 /\ c \in 0 .. 27 /\ bytes \in Seq(C!Byte)
  BY DEF Ready
<1>2. c \in C!Byte /\ 0 \in 0 .. 27 /\ SendItem(c, 0) \in Item
  <2>1. c \in C!Byte /\ 0 \in 0 .. 27
    BY <1>1 DEF C!Byte
  <2>. QED  BY <2>1, SendFacts
<1>3. Leads1(Idle(d), SendItem(c, 0), Settled(c, <<>>, d))
  <2>. DEFINE p == Idle(d)
  <2>1. p.c = 0 /\ p.d = d
    BY DEF Idle, Place
  <2>2. After(p, c) = Settled(c, <<>>, d)
    BY <1>1, <2>1 DEF After, Command
  <2>3. Fits(p, c)
    BY <2>1 DEF Fits
  <2>. HIDE DEF p
  <2>4. Leads1(p, SendItem(c, 0), Settled(c, <<>>, d))
    BY <1>2, <2>1, <2>2, <2>3, SendFacts
  <2>. QED  BY <2>4 DEF p
<1>4. Leads(Idle(d), <<SendItem(c, 0)>>, Settled(c, <<>>, d))
  BY <1>2, <1>3, LeadsOne
<1>5. Arguments(c, bytes) \in Seq(Item)
  BY <1>1, ArgumentsItems
<1>6. <<SendItem(c, 0)>> \in Seq(Item) /\ C!With(c, bytes) = <<SendItem(c, 0)>> \o Arguments(c, bytes)
  BY <1>1, WithItems
<1>. QED  BY <1>4, <1>5, <1>6, ArgumentsTaken, LeadsThen

LEMMA RecvsItems ==
  ASSUME NEW n \in Nat
  PROVE  /\ C!Recvs(n) \in Seq(Item) /\ Len(C!Recvs(n)) = n
         /\ \A i \in 1 .. n : C!Recvs(n)[i] = RecvItem
<1>1. RecvItem \in Item
  BY RecvFacts
<1>2. C!Recvs(n) = [i \in 1 .. n |-> RecvItem]
  BY DEF C!Recvs, RecvItem
<1>. QED  BY <1>1, <1>2

LEMMA RestFacts ==
  ASSUME NEW S, NEW s \in Seq(S), NEW i \in 1 .. Len(s)
  PROVE  /\ SubSeq(s, i, Len(s)) \in Seq(S) /\ SubSeq(s, i, Len(s)) # <<>>
         /\ Head(SubSeq(s, i, Len(s))) = s[i]
         /\ Tail(SubSeq(s, i, Len(s))) = SubSeq(s, i + 1, Len(s))
<1>. DEFINE n == Len(s)
            t == SubSeq(s, i, n)
            uu == SubSeq(s, i + 1, n)
<1>1. n \in Nat /\ i \in 1 .. n
  OBVIOUS
<1>2. /\ t \in Seq(S) /\ Len(t) = n - i + 1 /\ \A j \in 1 .. n - i + 1 : t[j] = s[i + j - 1]
      /\ uu \in Seq(S) /\ Len(uu) = n - i /\ \A j \in 1 .. n - i : uu[j] = s[i + j]
  <2>1. t \in Seq(S) /\ Len(t) = n - i + 1 /\ \A j \in 1 .. n - i + 1 : t[j] = s[i + j - 1]
    BY <1>1, SubSeqProperties
  <2>2. uu \in Seq(S) /\ Len(uu) = n - i /\ \A j \in 1 .. n - i : uu[j] = s[i + j]
    <3>1. /\ uu \in Seq(S) /\ Len(uu) = n - (i + 1) + 1
          /\ \A j \in 1 .. n - (i + 1) + 1 : uu[j] = s[(i + 1) + j - 1]
      BY <1>1, SubSeqProperties
    <3>2. n - (i + 1) + 1 = n - i /\ \A j \in 1 .. n - i : (i + 1) + j - 1 = i + j
      BY <1>1
    <3>. HIDE DEF uu
    <3>. QED  BY <3>1, <3>2
  <2>. QED  BY <2>1, <2>2
<1>. HIDE DEF n, t, uu
<1>3. t # <<>> /\ Head(t) = t[1] /\ t[1] = s[i]
  <2>1. 1 \in 1 .. n - i + 1 /\ i + 1 - 1 = i /\ n - i + 1 # 0
    BY <1>1
  <2>. QED  BY <1>2, <2>1
<1>4. Tail(t) \in Seq(S) /\ Len(Tail(t)) = n - i /\ \A j \in 1 .. n - i : Tail(t)[j] = t[j + 1]
  <2>1. n - i \in Nat /\ Len(t) = (n - i) + 1
    BY <1>1, <1>2
  <2>. QED  BY <1>2, <1>3, <2>1
<1>5. ASSUME NEW j \in 1 .. n - i PROVE Tail(t)[j] = uu[j]
  <2>1. j + 1 \in 1 .. n - i + 1 /\ i + (j + 1) - 1 = i + j
    BY <1>1
  <2>. QED  BY <1>2, <1>4, <2>1
<1>6. Tail(t) = uu
  BY <1>2, <1>4, <1>5, SeqEqual
<1>. QED  BY <1>2, <1>3, <1>6 DEF t, uu, n

\* The host receives all that has been answered.
LEMMA Received ==
  ASSUME NEW d \in DataSet
  PROVE  Leads(Idle(d), C!Recvs(Len(d.log)), Idle(Data(d.z, d.m, d.f, <<>>, d.got \o d.log)))
<1>. DEFINE n == Len(d.log)
            r == C!Recvs(n)
            g(i) == d.got \o SubSeq(d.log, 1, i)
            h == [i \in 0 .. n |-> Idle(Data(d.z, d.m, d.f, SubSeq(d.log, i + 1, n), g(i)))]
<1>1. d.log \in Seq(Nat) /\ d.got \in Seq(Nat) /\ n \in Nat /\ d = Data(d.z, d.m, d.f, d.log, d.got)
  BY DEF DataSet, Data
<1>2. h[0] = Idle(d)
  <2>1. SubSeq(d.log, 1, n) = d.log /\ 0 + 1 = 1 /\ 0 \in 0 .. n
    BY <1>1
  <2>2. g(0) = d.got
    <3>1. SubSeq(d.log, 1, 0) = <<>>
      BY <1>1
    <3>2. d.got \o <<>> = d.got
      BY <1>1, ConcatEmptySeq
    <3>. QED  BY <3>1, <3>2
  <2>. HIDE DEF n, g
  <2>. QED  BY <1>1, <2>1, <2>2
<1>3. h[n] = Idle(Data(d.z, d.m, d.f, <<>>, d.got \o d.log))
  <2>1. SubSeq(d.log, n + 1, n) = <<>> /\ SubSeq(d.log, 1, n) = d.log /\ n \in 0 .. n
    BY <1>1
  <2>. QED  BY <2>1
<1>4. ASSUME NEW i \in 1 .. n PROVE Leads1(h[i - 1], RecvItem, h[i])
  <2>. DEFINE rest == SubSeq(d.log, i, n)
              e == Data(d.z, d.m, d.f, rest, g(i - 1))
  <2>1. rest # <<>> /\ Head(rest) = d.log[i] /\ Tail(rest) = SubSeq(d.log, i + 1, n)
    BY <1>1, RestFacts
  <2>2. Append(g(i - 1), Head(rest)) = g(i)
    <3>. DEFINE taken == SubSeq(d.log, 1, i - 1)
    <3>1. taken \in Seq(Nat) /\ Append(taken, d.log[i]) = SubSeq(d.log, 1, i) /\ d.log[i] \in Nat
      BY <1>1, PrefixFacts
    <3>. HIDE DEF taken
    <3>. DEFINE e1 == <<d.log[i]>>
    <3>2. e1 \in Seq(Nat) /\ d.got \o taken \in Seq(Nat)
      BY <1>1, <3>1, ConcatProperties
    <3>3. Append(d.got \o taken, d.log[i]) = (d.got \o taken) \o e1
      BY <3>1, <3>2, AppendIsConcat
    <3>4. Append(taken, d.log[i]) = taken \o e1
      BY <3>1, AppendIsConcat
    <3>. HIDE DEF e1
    <3>5. (d.got \o taken) \o e1 = d.got \o (taken \o e1)
      BY <1>1, <3>1, <3>2, NumbersAssociative
    <3>. QED  BY <2>1, <3>1, <3>3, <3>4, <3>5 DEF taken
  <2>3. h[i - 1] = Idle(e) /\ h[i] = Idle(Data(d.z, d.m, d.f, SubSeq(d.log, i + 1, n), g(i)))
    <3>1. i - 1 \in 0 .. n /\ i \in 0 .. n /\ (i - 1) + 1 = i
      BY <1>1
    <3>. QED  BY <3>1
  <2>. HIDE DEF rest, g, h
  <2>4. e.z = d.z /\ e.m = d.m /\ e.f = d.f /\ e.log = rest /\ e.got = g(i - 1)
    BY DEF Data
  <2>. HIDE DEF e, n
  <2>5. Taken(e) = Data(d.z, d.m, d.f, SubSeq(d.log, i + 1, n), g(i))
    BY <2>1, <2>2, <2>4 DEF Taken
  <2>6. Idle(e).c = 0 /\ Idle(e).a = <<>> /\ Idle(e).d = e
    BY DEF Idle, Place
  <2>7. h[i] = Place(0, Idle(e).a, Taken(Idle(e).d))
    BY <2>3, <2>5, <2>6 DEF Idle
  <2>. QED  BY <2>1, <2>3, <2>4, <2>6, <2>7, RecvFacts
<1>5. Len(r) = n /\ \A i \in 1 .. n : r[i] = RecvItem
  BY <1>1, RecvsItems
<1>. HIDE DEF h, r, n
<1>6. IsPath(h, r, Idle(d), Idle(Data(d.z, d.m, d.f, <<>>, d.got \o d.log)))
  BY <1>2, <1>3, <1>4, <1>5 DEF IsPath
<1>7. Leads(Idle(d), r, Idle(Data(d.z, d.m, d.f, <<>>, d.got \o d.log)))
  BY <1>6 DEF Leads
<1>. QED  BY <1>7 DEF r, n

\* What a command makes of things once its reply has been received.
Answered(c, bytes, d) ==
    Data(NewZ(c, bytes, d.z), NewMemory(c, bytes, d.z, d.m, d.f), NewBuffer(c, bytes, d.z, d.f),
         <<>>, d.got \o Answers(c, bytes, d.z, d.m))
Quiet == {d \in DataSet : d.log = <<>>}

LEMMA Asked ==
  ASSUME Sizes, NEW c, NEW bytes, Ready(c, bytes), NEW d \in Quiet
  PROVE  /\ Leads(Idle(d), C!With(c, bytes) \o C!Recvs(Len(Answers(c, bytes, d.z, d.m))),
                  Idle(Answered(c, bytes, d)))
         /\ Answered(c, bytes, d) \in Quiet
<1>. DEFINE x == Answers(c, bytes, d.z, d.m)
            e == Finish(c, bytes, d)
            n == Len(x)
<1>1. d \in DataSet /\ d.log = <<>> /\ d.got \in Seq(Nat)
  BY DEF Quiet, DataSet
<1>2. /\ NewZ(c, bytes, d.z) \in Nat /\ NewMemory(c, bytes, d.z, d.m, d.f) \in Memory
      /\ NewBuffer(c, bytes, d.z, d.f) \in PageBuffer /\ x \in Seq(Nat)
  BY <1>1, FinishTyped DEF DataSet
<1>. HIDE DEF x
<1>3. <<>> \o x = x /\ n \in Nat /\ d.got \o x \in Seq(Nat)
  BY <1>1, <1>2, ConcatEmptySeq
<1>4. /\ e.z = NewZ(c, bytes, d.z) /\ e.m = NewMemory(c, bytes, d.z, d.m, d.f)
      /\ e.f = NewBuffer(c, bytes, d.z, d.f) /\ e.log = x /\ e.got = d.got
  BY <1>1, <1>3 DEF Finish, Data, x
<1>5. e \in DataSet
  BY <1>1, <1>2, <1>3 DEF Finish, Data, DataSet, x
<1>. HIDE DEF e
<1>6. Data(e.z, e.m, e.f, <<>>, e.got \o e.log) = Answered(c, bytes, d)
  BY <1>4 DEF Answered, x
<1>7. Leads(Idle(e), C!Recvs(Len(e.log)), Idle(Answered(c, bytes, d)))
  BY <1>5, <1>6, Received
<1>8. Leads(Idle(e), C!Recvs(n), Idle(Answered(c, bytes, d)))
  BY <1>4, <1>7
<1>9. Leads(Idle(d), C!With(c, bytes), Idle(e))
  BY <1>1, Sent DEF e
<1>10. C!With(c, bytes) \in Seq(Item) /\ C!Recvs(n) \in Seq(Item)
  BY <1>3, WithItems, RecvsItems DEF Ready
<1>11. Leads(Idle(d), C!With(c, bytes) \o C!Recvs(n), Idle(Answered(c, bytes, d)))
  BY <1>8, <1>9, <1>10, LeadsThen
<1>12. Answered(c, bytes, d) \in Quiet
  BY <1>2, <1>3 DEF Answered, Data, Quiet, DataSet, x
<1>. QED  BY <1>11, <1>12 DEF x

-----------------------------------------------------------------------------
(* Words of the host *)

\* A script that finds the peer without a command, and no reply left over, leaves
\* it so.
Deed == {x \in Item : x.op # "heard"}
Whole(s) == /\ s \in Seq(Item) /\ s \in Seq(Deed)
            /\ \A d \in Quiet : \E e \in Quiet : Leads(Idle(d), s, Idle(e))

LEMMA WholeNone == Whole(<<>>)
BY LeadsNone DEF Whole

LEMMA WholeThen ==
  ASSUME NEW s, NEW t, Whole(s), Whole(t)
  PROVE  Whole(s \o t)
<1>1. s \in Seq(Item) /\ t \in Seq(Item) /\ s \in Seq(Deed) /\ t \in Seq(Deed)
  BY DEF Whole
<1>2. s \o t \in Seq(Item) /\ s \o t \in Seq(Deed)
  BY <1>1, ConcatProperties
<1>3. ASSUME NEW d \in Quiet PROVE \E e \in Quiet : Leads(Idle(d), s \o t, Idle(e))
  <2>1. PICK f \in Quiet : Leads(Idle(d), s, Idle(f))
    BY DEF Whole
  <2>2. PICK e \in Quiet : Leads(Idle(f), t, Idle(e))
    BY <2>1 DEF Whole
  <2>. QED  BY <1>1, <2>1, <2>2, LeadsThen
<1>. QED  BY <1>2, <1>3 DEF Whole

\* Nothing that a host does is the hearing of a byte.
LEMMA WithDeeds ==
  ASSUME NEW c \in 16 .. 27, NEW bytes \in Seq(C!Byte), NEW n \in Nat
  PROVE  C!With(c, bytes) \o C!Recvs(n) \in Seq(Deed)
<1>1. \A b \in C!Byte, cc \in 0 .. 27 : SendItem(b, cc) \in Deed
  <2>1. \A b, cc : SendItem(b, cc).op # "heard"
    BY DEF SendItem
  <2>. QED  BY <2>1, SendFacts DEF Deed
<1>2. RecvItem \in Deed
  BY RecvFacts DEF Deed, RecvItem
<1>3. <<SendItem(c, 0)>> \in Seq(Deed)
  <2>1. c \in C!Byte /\ 0 \in 0 .. 27
    BY DEF C!Byte
  <2>2. SendItem(c, 0) \in Deed
    BY <1>1, <2>1
  <2>. QED  BY <2>2
<1>4. Arguments(c, bytes) \in Seq(Deed)
  <2>1. \A i \in 1 .. Len(bytes) : SendItem(bytes[i], c) \in Deed
    <3>1. c \in 0 .. 27 /\ \A i \in 1 .. Len(bytes) : bytes[i] \in C!Byte
      OBVIOUS
    <3>. QED  BY <1>1, <3>1
  <2>2. Len(bytes) \in Nat
    OBVIOUS
  <2>. QED  BY <2>1, <2>2 DEF Arguments
<1>5. C!Recvs(n) \in Seq(Deed)
  <2>1. C!Recvs(n) = [i \in 1 .. n |-> RecvItem]
    BY DEF C!Recvs, RecvItem
  <2>. QED  BY <1>2, <2>1
<1>6. C!With(c, bytes) \in Seq(Deed)
  BY <1>3, <1>4, WithItems, ConcatProperties
<1>. QED  BY <1>5, <1>6, ConcatProperties

\* A command with its arguments and as many replies as it gives.
LEMMA WholeAsk ==
  ASSUME Sizes, NEW c, NEW bytes, Ready(c, bytes), NEW n \in Nat,
         \A zz \in Nat, m \in Memory : Len(Answers(c, bytes, zz, m)) = n
  PROVE  Whole(C!With(c, bytes) \o C!Recvs(n))
<1>1. C!With(c, bytes) \o C!Recvs(n) \in Seq(Item)
  BY WithItems, RecvsItems, ConcatProperties DEF Ready
<1>2. ASSUME NEW d \in Quiet
      PROVE  \E e \in Quiet : Leads(Idle(d), C!With(c, bytes) \o C!Recvs(n), Idle(e))
  <2>1. d.z \in Nat /\ d.m \in Memory
    BY DEF Quiet, DataSet
  <2>2. Len(Answers(c, bytes, d.z, d.m)) = n
    BY <2>1
  <2>. QED  BY <2>2, Asked
<1>3. C!With(c, bytes) \o C!Recvs(n) \in Seq(Deed)
  BY WithDeeds DEF Ready
<1>. QED  BY <1>1, <1>2, <1>3 DEF Whole

\* Commands that are not answered.
LEMMA WholeTell ==
  ASSUME Sizes, NEW c, NEW bytes, Ready(c, bytes), c \in {16, 17, 19, 24, 26, 27}
  PROVE  Whole(C!With(c, bytes))
<1>1. \A zz \in Nat, m \in Memory : Len(Answers(c, bytes, zz, m)) = 0
  BY DEF Answers
<1>2. Whole(C!With(c, bytes) \o C!Recvs(0))
  BY <1>1, WholeAsk
<1>3. C!Recvs(0) = <<>>
  BY DEF C!Recvs
<1>4. C!With(c, bytes) \in Seq(Item)
  BY WithItems DEF Ready
<1>5. C!With(c, bytes) \o <<>> = C!With(c, bytes)
  BY <1>4, ConcatEmptySeq
<1>. QED  BY <1>2, <1>3, <1>5

\* Commands without arguments.
LEMMA CommandAlone ==
  ASSUME NEW c \in {16, 18, 21, 22, 26, 27}
  PROVE  C!Cmd(c) = C!With(c, <<>>) /\ Ready(c, <<>>)
<1>1. Ready(c, <<>>)
  BY NeedsFacts DEF Ready
<1>2. c \in 16 .. 27 /\ <<>> \in Seq(C!Byte)
  OBVIOUS
<1>3. C!With(c, <<>>) = <<SendItem(c, 0)>> \o Arguments(c, <<>>) /\ C!Cmd(c) = <<SendItem(c, 0)>>
      /\ <<SendItem(c, 0)>> \in Seq(Item)
  BY <1>2, WithItems
<1>4. Arguments(c, <<>>) = <<>>
  BY DEF Arguments
<1>5. <<SendItem(c, 0)>> \o <<>> = <<SendItem(c, 0)>>
  BY <1>3, ConcatEmptySeq
<1>. QED  BY <1>1, <1>3, <1>4, <1>5

\* What has been flattened after each of a sequence of scripts, as FlattenSeq has it.
JoinedAt(f, ss, i) == IF i = 1 THEN ss[i] ELSE f[i - 1] \o ss[i]
AreJoined(f, ss, n) == f = [i \in 1 .. n |-> JoinedAt(f, ss, i)]

LEMMA JoinedExist ==
  ASSUME NEW n \in Nat, NEW ss
  PROVE  \E f : AreJoined(f, ss, n)
<1>. DEFINE bad == {m \in Nat : ~\E f : AreJoined(f, ss, m)}
<1>1. SUFFICES ASSUME bad # {} PROVE FALSE
  OBVIOUS
<1>2. PICK m \in bad : \A l \in bad : m <= l
  <2>1. bad \in SUBSET Nat
    OBVIOUS
  <2>. HIDE DEF bad
  <2>. QED  BY <1>1, <2>1, Least
<1>3. CASE m = 0
  <2>. DEFINE v == [k \in 1 .. 0 |-> ss]
  <2>1. v = [k \in 1 .. 0 |-> JoinedAt(v, ss, k)]
    OBVIOUS
  <2>2. AreJoined(v, ss, 0)
    <3>. HIDE DEF v
    <3>. QED  BY <2>1 DEF AreJoined
  <2>. QED  BY <1>3, <2>2
<1>4. CASE m # 0
  <2>1. m - 1 \in Nat /\ m \in Nat /\ m - 1 \notin bad
    <3>1. m \in Nat /\ m - 1 \in Nat /\ ~(m <= m - 1)
      BY <1>4
    <3>. HIDE DEF bad
    <3>. QED  BY <1>2, <3>1
  <2>2. PICK f : AreJoined(f, ss, m - 1)
    BY <2>1
  <2>. DEFINE v == [k \in 1 .. m |-> IF k = m THEN JoinedAt(f, ss, m) ELSE f[k]]
  <2>3. ASSUME NEW k \in 1 .. m PROVE v[k] = JoinedAt(v, ss, k)
    <3>1. k # 1 => v[k - 1] = f[k - 1]
      <4>1. k # 1 => k - 1 \in 1 .. m /\ k - 1 # m
        BY <2>1
      <4>. QED  BY <4>1
    <3>2. JoinedAt(v, ss, k) = JoinedAt(f, ss, k)
      <4>. HIDE DEF v
      <4>. QED  BY <3>1 DEF JoinedAt
    <3>3. CASE k = m
      BY <3>2, <3>3
    <3>4. CASE k # m
      <4>1. k \in 1 .. (m - 1)
        BY <2>1, <3>4
      <4>2. f[k] = JoinedAt(f, ss, k)
        BY <2>2, <4>1 DEF AreJoined
      <4>. QED  BY <3>2, <3>4, <4>2
    <3>. QED  BY <3>3, <3>4
  <2>4. v = [k \in 1 .. m |-> v[k]]
    OBVIOUS
  <2>5. AreJoined(v, ss, m)
    <3>. HIDE DEF v
    <3>. QED  BY <2>3, <2>4 DEF AreJoined
  <2>. QED  BY <1>2, <2>5
<1>. QED  BY <1>3, <1>4

LEMMA Flattened ==
  ASSUME NEW ss, Len(ss) \in Nat \ {0}
  PROVE  \E f : AreJoined(f, ss, Len(ss)) /\ C!FlattenSeq(ss) = f[Len(ss)]
<1>1. \E f : AreJoined(f, ss, Len(ss))
  BY JoinedExist
<1>2. C!FlattenSeq(ss) = (CHOOSE f : AreJoined(f, ss, Len(ss)))[Len(ss)]
  BY DEF C!FlattenSeq, AreJoined, JoinedAt
<1>. QED  BY <1>1, <1>2

\* Whole scripts one after the other make a whole one.
LEMMA WholeFlat ==
  ASSUME NEW n \in Nat, NEW ss, ss = [i \in 1 .. n |-> ss[i]], \A i \in 1 .. n : Whole(ss[i])
  PROVE  Whole(C!FlattenSeq(ss))
<1>1. ss \in Seq(Seq(Item)) /\ Len(ss) = n
  <2>1. \A i \in 1 .. n : ss[i] \in Seq(Item)
    BY DEF Whole
  <2>2. [i \in 1 .. n |-> ss[i]] \in Seq(Seq(Item)) /\ Len([i \in 1 .. n |-> ss[i]]) = n
    BY <2>1
  <2>. QED  BY <2>2
<1>2. CASE n = 0
  <2>1. ss = <<>>
    BY <1>1, <1>2
  <2>2. C!FlattenSeq(ss) = <<>>
    BY <1>1, <1>2, <2>1 DEF C!FlattenSeq
  <2>. QED  BY <2>2, WholeNone
<1>3. CASE n # 0
  <2>1. PICK f : AreJoined(f, ss, n) /\ C!FlattenSeq(ss) = f[n]
    BY <1>1, <1>3, Flattened
  <2>. DEFINE h == [i \in 0 .. n |-> IF i = 0 THEN <<>> ELSE f[i]]
              G == {s \in Seq(Item) : Whole(s)}
  <2>2. h[0] \in G
    <3>1. h[0] = <<>>
      BY <1>3
    <3>2. <<>> \in G
      BY WholeNone DEF Whole
    <3>. HIDE DEF h, G
    <3>. QED  BY <3>1, <3>2
  <2>3. ASSUME NEW i \in 1 .. n, h[i - 1] \in G PROVE h[i] \in G
    <3>1. h[i] = JoinedAt(f, ss, i)
      <4>1. f[i] = JoinedAt(f, ss, i)
        BY <2>1 DEF AreJoined
      <4>2. i \in 0 .. n /\ i # 0
        OBVIOUS
      <4>. QED  BY <4>1, <4>2
    <3>2. Whole(h[i - 1]) /\ Whole(ss[i])
      BY <2>3
    <3>3. CASE i = 1
      <4>1. h[i] = ss[i]
        BY <3>1, <3>3 DEF JoinedAt
      <4>. HIDE DEF h
      <4>. QED  BY <3>2, <4>1 DEF Whole
    <3>4. CASE i # 1
      <4>1. h[i - 1] = f[i - 1]
        <5>1. i - 1 \in 0 .. n /\ i - 1 # 0
          BY <3>4
        <5>. QED  BY <5>1
      <4>2. h[i] = h[i - 1] \o ss[i]
        BY <3>1, <3>4, <4>1 DEF JoinedAt
      <4>. HIDE DEF h
      <4>3. Whole(h[i])
        BY <3>2, <4>2, WholeThen
      <4>. QED  BY <4>3 DEF Whole
    <3>. QED  BY <3>3, <3>4
  <2>4. h[n] = f[n]
    BY <1>3
  <2>. HIDE DEF h
  <2>5. \A i \in 0 .. n : h[i] \in G
    <3>. HIDE DEF G
    <3>. QED  BY <2>2, <2>3, Along
  <2>6. h[n] \in G
    BY <2>5
  <2>. QED  BY <2>1, <2>4, <2>6
<1>. QED  BY <1>2, <1>3

LEMMA AddressBytes ==
  ASSUME NEW a \in C!Address
  PROVE  Ready(17, C!LoHi(a)) /\ Ready(19, C!LoHi(a))
<1>1. a \div 256 \in C!Byte /\ a % 256 \in C!Byte
  BY DEF C!Address, C!Byte
<1>. DEFINE b1 == a % 256
            b2 == a \div 256
<1>. HIDE DEF b1, b2
<1>2. b1 \in C!Byte /\ b2 \in C!Byte
  BY <1>1 DEF b1, b2
<1>3. <<b1, b2>> \in Seq(C!Byte) /\ Len(<<b1, b2>>) = 2
  BY <1>2
<1>4. Ready(17, <<b1, b2>>) /\ Ready(19, <<b1, b2>>)
  BY <1>3, NeedsFacts DEF Ready
<1>. QED  BY <1>4 DEF b1, b2, C!LoHi

LEMMA WholeSetAddr == ASSUME Sizes, NEW a \in C!Address PROVE Whole(C!SetAddr(a))
BY AddressBytes, WholeTell DEF C!SetAddr

LEMMA WholeGetAddr == ASSUME Sizes PROVE Whole(C!GetAddr)
<1>1. \A zz \in Nat, m \in Memory : Len(Answers(18, <<>>, zz, m)) = 2
  BY DEF Answers, C!LoHi
<1>2. C!Cmd(18) = C!With(18, <<>>) /\ Ready(18, <<>>)
  BY CommandAlone
<1>3. Whole(C!With(18, <<>>) \o C!Recvs(2))
  BY <1>1, <1>2, WholeAsk
<1>. QED  BY <1>2, <1>3 DEF C!GetAddr

\* A count of Count, sent as 0, streams Count bytes.
LEMMA StreamedCount ==
  ASSUME Sizes, NEW n \in 1 .. Count
  PROVE  n % Count \in 0 .. Count - 1 /\ n \in Nat /\ Streamed(n % Count) = n
<1>. DEFINE b == n % Count
<1>1. b \in 0 .. Count - 1 /\ Count \in Nat /\ Count >= 1 /\ Count <= 256 /\ n \in Nat
      /\ Streamed(b) = n
  <2>1. Count \in Nat /\ Count >= 1 /\ Count <= 256 /\ n \in Nat /\ n >= 1 /\ n <= Count
    BY SizeFacts
  <2>2. CASE n = Count
    <3>1. Count % Count = 0
      BY <2>1
    <3>. QED  BY <2>1, <2>2, <3>1 DEF Streamed
  <2>3. CASE n # Count
    <3>1. n \in 0 .. Count - 1
      BY <2>1, <2>3
    <3>2. n % Count = n
      BY <2>1, <3>1
    <3>. QED  BY <2>1, <3>1, <3>2 DEF Streamed
  <2>. QED  BY <2>2, <2>3
<1>. QED  BY <1>1

LEMMA WholeReadFlash == ASSUME Sizes, NEW n \in 1 .. Count PROVE Whole(C!ReadFlash(n))
<1>. DEFINE b == n % Count
<1>1. b \in 0 .. Count - 1 /\ Count \in Nat /\ Count >= 1 /\ Count <= 256 /\ n \in Nat
      /\ Streamed(b) = n
  BY SizeFacts, StreamedCount
<1>2. b \in C!Byte
  BY <1>1 DEF C!Byte
<1>3. C!ReadFlash(n) = C!With(20, <<b>>) \o C!Recvs(n)
  BY DEF C!ReadFlash
<1>. HIDE DEF b
<1>4. Ready(20, <<b>>)
  BY <1>1, <1>2, NeedsFacts DEF Ready
<1>5. ASSUME NEW zz \in Nat, NEW m \in Memory PROVE Len(Answers(20, <<b>>, zz, m)) = n
  <2>1. Answers(20, <<b>>, zz, m) = [i \in 1 .. n |-> FlashOf(m, zz + i - 1)]
    BY <1>1 DEF Answers
  <2>. QED  BY <1>1, <2>1
<1>. QED  BY <1>1, <1>3, <1>4, <1>5, WholeAsk

LEMMA WholeCxWriteFlash ==
  ASSUME Sizes, NEW lo \in C!Byte, NEW hi \in C!Byte, NEW c \in C!Byte
  PROVE  Whole(C!CxWriteFlash(lo, hi, c))
<1>1. Ready(23, <<lo, hi, c>>)
  BY NeedsFacts DEF Ready
<1>2. \A zz \in Nat, m \in Memory : Len(Answers(23, <<lo, hi, c>>, zz, m)) = 1
  BY DEF Answers
<1>. QED  BY <1>1, <1>2, WholeAsk DEF C!CxWriteFlash

\* One byte of data or of eeprom.
LEMMA WholeReadByte ==
  ASSUME Sizes, NEW c \in {21, 22}
  PROVE  Whole(C!Cmd(c) \o C!Recvs(1))
<1>1. \A zz \in Nat, m \in Memory : Len(Answers(c, <<>>, zz, m)) = 1
  BY DEF Answers
<1>2. C!Cmd(c) = C!With(c, <<>>) /\ Ready(c, <<>>)
  BY CommandAlone
<1>. QED  BY <1>1, <1>2, WholeAsk

LEMMA WholeWriteByte ==
  ASSUME Sizes, NEW b \in C!Byte
  PROVE  Whole(C!With(24, <<b>>)) /\ Whole(C!With(25, <<b>>) \o C!Recvs(1))
<1>1. Ready(24, <<b>>) /\ Ready(25, <<b>>)
  BY NeedsFacts DEF Ready
<1>2. \A zz \in Nat, m \in Memory : Len(Answers(25, <<b>>, zz, m)) = 1
  BY DEF Answers
<1>. QED  BY <1>1, <1>2, WholeAsk, WholeTell

\* c.read-space
LEMMA WholeReadSpace ==
  ASSUME Sizes, NEW a \in C!Address, NEW n \in Nat, NEW space,
         space = "flash" => n \in 1 .. Count
  PROVE  Whole(C!ReadSpace(a, n, space))
<1>1. CASE space = "flash"
  <2>1. C!ReadSpace(a, n, space) = C!SetAddr(a) \o C!ReadFlash(n)
    BY <1>1 DEF C!ReadSpace
  <2>. QED  BY <1>1, <2>1, WholeSetAddr, WholeReadFlash, WholeThen
<1>2. CASE space # "flash"
  <2>. DEFINE c == IF space = "data" THEN 21 ELSE 22
              s == C!Cmd(c) \o C!Recvs(1)
              ss == [i \in 1 .. n |-> s]
  <2>1. Whole(s)
    BY WholeReadByte
  <2>. HIDE DEF s
  <2>2. Whole(C!FlattenSeq(ss))
    <3>1. ss = [i \in 1 .. n |-> ss[i]] /\ \A i \in 1 .. n : Whole(ss[i])
      BY <2>1
    <3>. HIDE DEF ss
    <3>. QED  BY <3>1, WholeFlat
  <2>3. C!ReadSpace(a, n, space) = C!SetAddr(a) \o C!FlattenSeq(ss)
    BY <1>2 DEF C!ReadSpace, C!Times, s
  <2>. QED  BY <2>2, <2>3, WholeSetAddr, WholeThen
<1>. QED  BY <1>1, <1>2

\* c.write-data, c.write-eeprom
LEMMA WholeWrite ==
  ASSUME Sizes, NEW a \in C!Address, NEW bytes \in Seq(C!Byte)
  PROVE  Whole(C!WriteData(a, bytes)) /\ Whole(C!WriteEeprom(a, bytes))
<1>. DEFINE n == Len(bytes)
            ss == [i \in 1 .. n |-> C!With(24, <<bytes[i]>>)]
            tt == [i \in 1 .. n |-> C!With(25, <<bytes[i]>>) \o C!Recvs(1)]
<1>1. n \in Nat /\ \A i \in 1 .. n : bytes[i] \in C!Byte
  OBVIOUS
<1>2. C!WriteData(a, bytes) = C!SetAddr(a) \o C!FlattenSeq(ss)
      /\ C!WriteEeprom(a, bytes) = C!SetAddr(a) \o C!FlattenSeq(tt)
  BY DEF C!WriteData, C!WriteEeprom
<1>3. ss = [i \in 1 .. n |-> ss[i]] /\ tt = [i \in 1 .. n |-> tt[i]]
  OBVIOUS
<1>4. ASSUME NEW i \in 1 .. n PROVE Whole(ss[i]) /\ Whole(tt[i])
  <2>1. bytes[i] \in C!Byte
    BY <1>1
  <2>2. ss[i] = C!With(24, <<bytes[i]>>) /\ tt[i] = C!With(25, <<bytes[i]>>) \o C!Recvs(1)
    OBVIOUS
  <2>. QED  BY <2>1, <2>2, WholeWriteByte
<1>. HIDE DEF n, ss, tt
<1>5. Whole(C!FlattenSeq(ss)) /\ Whole(C!FlattenSeq(tt))
  BY <1>1, <1>3, <1>4, WholeFlat
<1>. QED  BY <1>2, <1>5, WholeSetAddr, WholeThen

\* c.run
LEMMA WholeRun ==
  ASSUME Sizes, NEW a \in C!Address, NEW dp \in C!Address
  PROVE  Whole(C!Run(a, dp) \o C!GetStatus)
<1>1. Whole(C!With(19, C!LoHi(dp)))
  BY AddressBytes, WholeTell
<1>2. Whole(C!Run(a, dp))
  BY <1>1, WholeSetAddr, WholeThen DEF C!Run
<1>. QED  BY <1>2, WholeGetAddr, WholeThen DEF C!GetStatus

-----------------------------------------------------------------------------
(* flash-image *)

\* The whole chunks of a region, and the rest.
LEMMA RegionFacts ==
  ASSUME Sizes, NEW n \in 1 .. FlashSize
  PROVE  /\ n \div Chunk \in Nat /\ n % Chunk \in 0 .. Chunk - 1
         /\ n = Chunk * (n \div Chunk) + (n % Chunk)
         /\ \A i \in 1 .. n \div Chunk : (i - 1) * Chunk \in Nat /\ (i - 1) * Chunk + Chunk <= FlashSize
         /\ (n \div Chunk) * Chunk \in Nat
         /\ (n \div Chunk) * Chunk + (n % Chunk) <= FlashSize
         /\ C!Rounded(Chunk) = Chunk
         /\ (n \div Chunk) * Chunk + C!Rounded(n % Chunk) <= FlashSize
<1>. DEFINE q == n \div Chunk
            r == n % Chunk
<1>1. Chunk \in Nat /\ Chunk >= 1 /\ FlashSize \in Nat /\ n \in Nat /\ n <= FlashSize /\ Page \in Nat
      /\ Page >= 1
  BY SizeFacts
<1>2. q \in Nat /\ r \in 0 .. Chunk - 1 /\ n = Chunk * q + r
  <2>1. q \in Int /\ r \in 0 .. Chunk - 1 /\ n = Chunk * q + r
    BY <1>1
  <2>2. q >= 0
    BY <1>1
  <2>. QED  BY <2>1, <2>2
<1>3. \E k \in Nat : Chunk = 2 * k
  <2>1. Chunk % 2 = 0
    BY DivideFacts
  <2>2. Chunk = 2 * (Chunk \div 2) /\ Chunk \div 2 \in Nat
    BY <1>1, <2>1
  <2>. QED  BY <2>2
<1>4. PICK half \in Nat : Chunk = 2 * half
  BY <1>3
<1>5. \E k \in Nat : FlashSize = 2 * k
  <2>1. PICK i \in Nat : Page = Chunk * i
    <3>1. Page = Chunk * (Page \div Chunk) + (Page % Chunk) /\ Page \div Chunk \in Nat
      BY <1>1
    <3>2. Page % Chunk = 0
      BY DivideFacts
    <3>3. Page = Chunk * (Page \div Chunk)
      BY <1>1, <3>1, <3>2
    <3>. QED  BY <3>1, <3>3
  <2>2. PICK j \in Nat : FlashSize = Page * j
    <3>1. FlashSize = Page * (FlashSize \div Page) + (FlashSize % Page) /\ FlashSize \div Page \in Nat
      BY <1>1
    <3>2. FlashSize % Page = 0
      BY DivideFacts
    <3>3. FlashSize = Page * (FlashSize \div Page)
      BY <1>1, <3>1, <3>2
    <3>. QED  BY <3>1, <3>3
  <2>3. FlashSize = 2 * (half * i * j) /\ half * i * j \in Nat
    BY <1>4, <2>1, <2>2
  <2>. QED  BY <2>3
<1>. HIDE DEF q, r
<1>6. \A i \in 1 .. q : (i - 1) * Chunk \in Nat /\ (i - 1) * Chunk + Chunk <= FlashSize
  <2>1. ASSUME NEW i \in 1 .. q PROVE (i - 1) * Chunk \in Nat /\ (i - 1) * Chunk + Chunk <= FlashSize
    <3>1. i - 1 \in Nat /\ i \in Nat /\ i <= q
      BY <1>2
    <3>2. (i - 1) * Chunk \in Nat /\ (i - 1) * Chunk + Chunk = i * Chunk
      BY <1>1, <3>1
    <3>3. i * Chunk <= q * Chunk
      BY <1>1, <1>2, <3>1
    <3>4. q * Chunk = Chunk * q /\ i * Chunk \in Nat /\ q * Chunk \in Nat
      BY <1>1, <1>2, <3>1
    <3>. QED  BY <1>1, <1>2, <3>2, <3>3, <3>4
  <2>. QED  BY <2>1
<1>7. q * Chunk \in Nat /\ q * Chunk + r = n
  BY <1>1, <1>2
<1>8. C!Rounded(Chunk) = Chunk
  <2>1. (Chunk + 1) \div 2 = half
    BY <1>4
  <2>. QED  BY <1>4, <2>1 DEF C!Rounded
<1>9. q * Chunk + C!Rounded(r) <= FlashSize
  <2>1. r \in Nat
    BY <1>1, <1>2
  <2>2. C!Rounded(r) = r \/ (C!Rounded(r) = r + 1 /\ r % 2 = 1)
    BY <2>1 DEF C!Rounded
  <2>3. CASE C!Rounded(r) = r
    BY <1>1, <1>7, <2>3
  <2>4. CASE C!Rounded(r) = r + 1 /\ r % 2 = 1
    <3>1. n # FlashSize
      <4>1. SUFFICES ASSUME n = FlashSize PROVE FALSE
        OBVIOUS
      <4>2. PICK k \in Nat : FlashSize = 2 * k
        BY <1>5
      <4>3. q * Chunk = 2 * (half * q) /\ half * q \in Nat
        BY <1>2, <1>4
      <4>4. r = 2 * (k - half * q)
        BY <1>7, <2>1, <4>1, <4>2, <4>3
      <4>5. k - half * q \in Int
        BY <4>3
      <4>. QED  BY <2>1, <2>4, <4>4, <4>5
    <3>. QED  BY <1>1, <1>7, <2>1, <2>4, <3>1
  <2>. QED  BY <2>2, <2>3, <2>4
<1>. QED  BY <1>1, <1>2, <1>6, <1>7, <1>8, <1>9 DEF q, r

LEMMA IsAddress ==
  ASSUME NEW k \in Nat, k <= 65535
  PROVE  k \in C!Address
<1>1. k = 256 * (k \div 256) + (k % 256) /\ k % 256 \in 0 .. 255 /\ k \div 256 \in Int
  OBVIOUS
<1>2. k \div 256 >= 0 /\ k \div 256 <= 255
  BY <1>1
<1>. QED  BY <1>1, <1>2 DEF C!Address, C!Byte

LEMMA SmallBytes == {0, 1, 3, 5, 17} \subseteq C!Byte /\ 0 \in C!Address
<1>1. 0 \in C!Address
  BY IsAddress
<1>. QED  BY <1>1 DEF C!Byte

LEMMA RoundedFacts ==
  ASSUME NEW n \in Nat
  PROVE  /\ C!Rounded(n) \div 2 \in Nat /\ C!Rounded(n) = 2 * (C!Rounded(n) \div 2)
<1>1. C!Rounded(n) = 2 * ((n + 1) \div 2) /\ (n + 1) \div 2 \in Nat
  BY DEF C!Rounded
<1>. DEFINE k == (n + 1) \div 2
<1>. HIDE DEF k
<1>2. (2 * k) \div 2 = k
  BY <1>1 DEF k
<1>. QED  BY <1>1, <1>2 DEF k

\* program-chunk
LEMMA WholeProgram ==
  ASSUME Sizes, NEW image \in [0 .. FlashSize - 1 -> C!Byte], NEW a \in C!Address, NEW n \in Nat,
         a + C!Rounded(n) <= FlashSize
  PROVE  Whole(C!Program(image, a, n))
<1>. DEFINE k == C!Rounded(n) \div 2
            ss == [i \in 1 .. k |-> C!CxWriteFlash(image[a + 2 * i - 2], image[a + 2 * i - 1], 1)]
<1>1. k \in Nat /\ C!Rounded(n) = 2 * k
  BY RoundedFacts
<1>2. a \in Nat /\ FlashSize \in Nat
  BY SizeFacts DEF C!Address
<1>3. ASSUME NEW i \in 1 .. k PROVE Whole(ss[i])
  <2>1. a + 2 * i - 2 \in 0 .. FlashSize - 1 /\ a + 2 * i - 1 \in 0 .. FlashSize - 1
    <3>. HIDE DEF k
    <3>. QED  BY <1>1, <1>2
  <2>2. image[a + 2 * i - 2] \in C!Byte /\ image[a + 2 * i - 1] \in C!Byte /\ 1 \in C!Byte
    BY <2>1, SmallBytes
  <2>3. ss[i] = C!CxWriteFlash(image[a + 2 * i - 2], image[a + 2 * i - 1], 1)
    OBVIOUS
  <2>. QED  BY <2>2, <2>3, WholeCxWriteFlash
<1>4. ss = [i \in 1 .. k |-> ss[i]]
  OBVIOUS
<1>5. C!Program(image, a, n) = C!SetAddr(a) \o C!FlattenSeq(ss) \o C!SetAddr(a) \o C!CxWriteFlash(0, 0, 5)
  BY DEF C!Program
<1>. HIDE DEF k, ss
<1>6. Whole(C!FlattenSeq(ss))
  BY <1>1, <1>3, <1>4, WholeFlat
<1>7. Whole(C!CxWriteFlash(0, 0, 5))
  BY SmallBytes, WholeCxWriteFlash
<1>8. Whole(C!SetAddr(a))
  BY WholeSetAddr
<1>9. Whole(C!SetAddr(a) \o C!FlattenSeq(ss))
  BY <1>6, <1>8, WholeThen
<1>10. Whole(C!SetAddr(a) \o C!FlattenSeq(ss) \o C!SetAddr(a))
  BY <1>8, <1>9, WholeThen
<1>. QED  BY <1>5, <1>7, <1>10, WholeThen

\* erase-program-chunk
LEMMA WholeChunkAt ==
  ASSUME Sizes, NEW image \in [0 .. FlashSize - 1 -> C!Byte], NEW a \in C!Address, NEW n \in Nat,
         a + C!Rounded(n) <= FlashSize
  PROVE  Whole(C!ChunkAt(image, a, n))
<1>1. Whole(C!Program(image, a, n))
  BY WholeProgram
<1>2. Whole(C!CxWriteFlash(0, 0, 3))
  BY SmallBytes, WholeCxWriteFlash
<1>3. Whole(C!Erase(a))
  BY <1>2, WholeSetAddr, WholeThen DEF C!Erase
<1>4. Whole(IF a % Page = 0 THEN C!Erase(a) ELSE <<>>)
  BY <1>3, WholeNone
<1>. QED  BY <1>1, <1>4, WholeThen DEF C!ChunkAt

LEMMA WholeRegions ==
  ASSUME Sizes, NEW image \in [0 .. FlashSize - 1 -> C!Byte], NEW n \in 1 .. FlashSize
  PROVE  Whole(C!Chunks(image, n)) /\ Whole(C!VerifyChunks(n))
<1>. DEFINE q == n \div Chunk
            r == n % Chunk
            ss == [i \in 1 .. q |-> C!ChunkAt(image, (i - 1) * Chunk, Chunk)]
            tt == [i \in 1 .. q |-> C!ReadSpace((i - 1) * Chunk, Chunk, "flash")]
            s1 == IF r = 0 THEN <<>> ELSE C!ChunkAt(image, q * Chunk, r)
            t1 == IF r = 0 THEN <<>> ELSE C!ReadSpace(q * Chunk, r, "flash")
<1>1. /\ q \in Nat /\ r \in 0 .. Chunk - 1
      /\ \A i \in 1 .. q : (i - 1) * Chunk \in Nat /\ (i - 1) * Chunk + Chunk <= FlashSize
      /\ q * Chunk \in Nat /\ q * Chunk + r <= FlashSize
      /\ C!Rounded(Chunk) = Chunk /\ q * Chunk + C!Rounded(r) <= FlashSize
  BY RegionFacts
<1>2. Chunk \in Nat /\ Chunk >= 1 /\ Chunk <= Count /\ FlashSize \in Nat /\ FlashSize <= 65536 /\ Count \in Nat
  BY SizeFacts
<1>3. C!Chunks(image, n) = C!FlattenSeq(ss) \o s1 /\ C!VerifyChunks(n) = C!FlattenSeq(tt) \o t1
  BY DEF C!Chunks, C!VerifyChunks
<1>4. ss = [i \in 1 .. q |-> ss[i]] /\ tt = [i \in 1 .. q |-> tt[i]]
  OBVIOUS
<1>5. ASSUME NEW i \in 1 .. q PROVE Whole(ss[i]) /\ Whole(tt[i])
  <2>. DEFINE a == (i - 1) * Chunk
  <2>1. ss[i] = C!ChunkAt(image, a, Chunk) /\ tt[i] = C!ReadSpace(a, Chunk, "flash")
    OBVIOUS
  <2>2. a \in Nat /\ a + Chunk <= FlashSize
    BY <1>1
  <2>. HIDE DEF a, ss, tt, q, r
  <2>3. a \in C!Address
    <3>1. a <= 65535
      BY <1>2, <2>2
    <3>. QED  BY <2>2, <3>1, IsAddress
  <2>4. a + C!Rounded(Chunk) <= FlashSize /\ Chunk \in 1 .. Count
    BY <1>1, <1>2, <2>2
  <2>5. Whole(C!ChunkAt(image, a, Chunk))
    BY <1>2, <2>3, <2>4, WholeChunkAt
  <2>6. Whole(C!ReadSpace(a, Chunk, "flash"))
    BY <1>2, <2>3, <2>4, WholeReadSpace
  <2>. QED  BY <2>1, <2>5, <2>6
<1>6. Whole(s1) /\ Whole(t1)
  <2>1. CASE r = 0
    BY <2>1, WholeNone
  <2>2. CASE r # 0
    <3>. DEFINE a == q * Chunk
    <3>1. s1 = C!ChunkAt(image, a, r) /\ t1 = C!ReadSpace(a, r, "flash")
      BY <2>2
    <3>2. a \in Nat /\ a + r <= FlashSize /\ a + C!Rounded(r) <= FlashSize
      BY <1>1
    <3>. HIDE DEF a, s1, t1, q, r
    <3>3. r \in 1 .. Count /\ r \in Nat /\ a \in C!Address
      <4>1. r \in 1 .. Count /\ r \in Nat /\ r >= 1
        BY <1>1, <1>2, <2>2
      <4>2. a <= 65535
        BY <1>2, <3>2, <4>1
      <4>. QED  BY <3>2, <4>1, <4>2, IsAddress
    <3>4. Whole(C!ChunkAt(image, a, r))
      BY <3>2, <3>3, WholeChunkAt
    <3>5. Whole(C!ReadSpace(a, r, "flash"))
      BY <3>3, WholeReadSpace
    <3>. QED  BY <3>1, <3>4, <3>5
  <2>. QED  BY <2>1, <2>2
<1>. HIDE DEF q, r, ss, tt, s1, t1
<1>7. Whole(C!FlattenSeq(ss)) /\ Whole(C!FlattenSeq(tt))
  BY <1>1, <1>4, <1>5, WholeFlat
<1>. QED  BY <1>3, <1>6, <1>7, WholeThen

LEMMA WholeFlashImage ==
  ASSUME Sizes, NEW image \in [0 .. FlashSize - 1 -> C!Byte], NEW n \in 1 .. FlashSize
  PROVE  Whole(C!FlashImage(image, n))
<1>1. Whole(C!Cmd(27))
  <2>1. C!Cmd(27) = C!With(27, <<>>) /\ Ready(27, <<>>)
    BY CommandAlone
  <2>. QED  BY <2>1, WholeTell
<1>2. Whole(C!AppStop)
  BY <1>1, WholeGetAddr, WholeThen DEF C!AppStop, C!GetStatus
<1>3. Whole(C!CxWriteFlash(0, 0, 17)) /\ Whole(C!SetAddr(0))
  BY SmallBytes, WholeCxWriteFlash, WholeSetAddr
<1>4. Whole(C!FlashEnd)
  BY <1>3, WholeThen DEF C!FlashEnd
<1>5. Whole(C!AppStop \o C!Chunks(image, n))
  BY <1>2, WholeRegions, WholeThen
<1>6. Whole(C!AppStop \o C!Chunks(image, n) \o C!FlashEnd)
  BY <1>4, <1>5, WholeThen
<1>7. Whole(C!AppStop \o C!Chunks(image, n) \o C!FlashEnd \o C!VerifyChunks(n))
  BY <1>6, WholeRegions, WholeThen
<1>. QED  BY <1>7 DEF C!FlashImage

\* Every word of the host leaves the peer without a command and no reply over.
LEMMA WholeScript ==
  ASSUME Sizes, NEW w \in Words
  PROVE  Whole(C!Script(w))
<1>1. /\ w.word \in {"read", "write", "flash", "run"}
      /\ w.word = "read" => /\ w.space \in {"flash", "data", "eeprom"} /\ w.a \in C!Address /\ w.n \in Nat
                            /\ w.space = "flash" => w.n \in 1 .. Count
      /\ w.word = "write" => w.a \in C!Address /\ w.bytes \in Seq(C!Byte)
      /\ w.word = "flash" => w.n \in 1 .. FlashSize /\ w.image \in [0 .. FlashSize - 1 -> C!Byte]
      /\ w.word = "run" => w.a \in C!Address /\ w.dp \in C!Address
  BY DEF Sizes, C!WordAssumption, C!ReadAssumption, C!WriteAssumption, C!FlashAssumption, C!RunAssumption
<1>2. CASE w.word = "read"
  <2>1. C!Script(w) = C!ReadSpace(w.a, w.n, w.space)
    BY <1>2 DEF C!Script
  <2>. QED  BY <1>1, <1>2, <2>1, WholeReadSpace
<1>3. CASE w.word = "write"
  <2>1. C!Script(w) \in {C!WriteData(w.a, w.bytes), C!WriteEeprom(w.a, w.bytes)}
    BY <1>3 DEF C!Script
  <2>. QED  BY <1>1, <1>3, <2>1, WholeWrite
<1>4. CASE w.word = "flash"
  <2>1. C!Script(w) = C!FlashImage(w.image, w.n)
    BY <1>4 DEF C!Script
  <2>. QED  BY <1>1, <1>4, <2>1, WholeFlashImage
<1>5. CASE w.word = "run"
  <2>1. C!Script(w) = C!Run(w.a, w.dp) \o C!GetStatus
    BY <1>5 DEF C!Script
  <2>. QED  BY <1>1, <1>5, <2>1, WholeRun
<1>. QED  BY <1>1, <1>2, <1>3, <1>4, <1>5

-----------------------------------------------------------------------------
(* What words do. A script of items of S turns data of A into data of B.    *)

Turns(S, s, A, B) ==
    s \in Seq(S) /\ \A d \in A : \E e \in B : Leads(Idle(d), s, Idle(e))

\* What the host does on the line when it only looks: no memory is written.
Writing == {23, 24, 25}
Look == {x \in Deed : x.op = "send" /\ x.of = 0 => x.b \notin Writing}

LEMMA ItemSets == Deed \subseteq Item /\ Look \subseteq Deed /\ Look \subseteq Item
BY DEF Deed, Look

LEMMA TurnsNone == ASSUME NEW S, NEW A PROVE Turns(S, <<>>, A, A)
BY LeadsNone DEF Turns

LEMMA TurnsThen ==
  ASSUME NEW S \in SUBSET Item, NEW s, NEW t, NEW A, NEW B, NEW D, Turns(S, s, A, B), Turns(S, t, B, D)
  PROVE  Turns(S, s \o t, A, D)
<1>1. s \in Seq(S) /\ t \in Seq(S) /\ s \in Seq(Item) /\ t \in Seq(Item)
  BY DEF Turns
<1>2. s \o t \in Seq(S)
  BY <1>1, ConcatProperties
<1>3. ASSUME NEW d \in A PROVE \E e \in D : Leads(Idle(d), s \o t, Idle(e))
  <2>1. PICK f \in B : Leads(Idle(d), s, Idle(f))
    BY DEF Turns
  <2>2. PICK e \in D : Leads(Idle(f), t, Idle(e))
    BY <2>1 DEF Turns
  <2>. QED  BY <1>1, <2>1, <2>2, LeadsThen
<1>. QED  BY <1>2, <1>3 DEF Turns

LEMMA TurnsWider ==
  ASSUME NEW S, NEW R, S \subseteq R, NEW s, NEW A, NEW B, Turns(S, s, A, B),
         NEW A1, NEW B1, A1 \subseteq A, B \subseteq B1
  PROVE  Turns(R, s, A1, B1)
<1>1. s \in Seq(R)
  BY DEF Turns
<1>. QED  BY <1>1 DEF Turns

\* One turn after the other.
LEMMA TurnsFlat ==
  ASSUME NEW S \in SUBSET Item, NEW n \in Nat, NEW ss, ss = [i \in 1 .. n |-> ss[i]], NEW G,
         \A i \in 1 .. n : Turns(S, ss[i], G[i - 1], G[i])
  PROVE  Turns(S, C!FlattenSeq(ss), G[0], G[n])
<1>1. ss \in Seq(Seq(S)) /\ Len(ss) = n
  <2>1. \A i \in 1 .. n : ss[i] \in Seq(S)
    BY DEF Turns
  <2>2. [i \in 1 .. n |-> ss[i]] \in Seq(Seq(S)) /\ Len([i \in 1 .. n |-> ss[i]]) = n
    BY <2>1
  <2>. QED  BY <2>2
<1>2. CASE n = 0
  <2>1. ss = <<>>
    BY <1>1, <1>2
  <2>2. C!FlattenSeq(ss) = <<>>
    BY <1>1, <1>2, <2>1 DEF C!FlattenSeq
  <2>. QED  BY <1>2, <2>2, TurnsNone
<1>3. CASE n # 0
  <2>1. PICK f : AreJoined(f, ss, n) /\ C!FlattenSeq(ss) = f[n]
    BY <1>1, <1>3, Flattened
  <2>2. \A i \in 1 .. n : f[i] = JoinedAt(f, ss, i)
    BY <2>1 DEF AreJoined
  <2>. DEFINE bad == {i \in 1 .. n : ~Turns(S, f[i], G[0], G[i])}
  <2>3. bad = {}
    <3>1. SUFFICES ASSUME bad # {} PROVE FALSE
      OBVIOUS
    <3>2. PICK i \in bad : \A l \in bad : i <= l
      <4>1. bad \in SUBSET Nat
        OBVIOUS
      <4>. HIDE DEF bad
      <4>. QED  BY <3>1, <4>1, Least
    <3>3. i \in 1 .. n /\ ~Turns(S, f[i], G[0], G[i]) /\ f[i] = JoinedAt(f, ss, i)
      BY <2>2
    <3>4. CASE i = 1
      <4>1. f[i] = ss[1] /\ i - 1 = 0 /\ 1 \in 1 .. n
        BY <3>3, <3>4 DEF JoinedAt
      <4>2. Turns(S, ss[1], G[1 - 1], G[1])
        BY <4>1
      <4>. QED  BY <3>3, <3>4, <4>1, <4>2
    <3>5. CASE i # 1
      <4>1. i - 1 \in 1 .. n /\ ~(i <= i - 1)
        BY <3>3, <3>5
      <4>2. i - 1 \notin bad
        <5>. HIDE DEF bad
        <5>. QED  BY <3>2, <4>1
      <4>3. Turns(S, f[i - 1], G[0], G[i - 1]) /\ Turns(S, ss[i], G[i - 1], G[i])
        BY <3>3, <4>1, <4>2
      <4>4. f[i] = f[i - 1] \o ss[i]
        BY <3>3, <3>5 DEF JoinedAt
      <4>. HIDE DEF bad
      <4>. QED  BY <3>3, <4>3, <4>4, TurnsThen
    <3>. QED  BY <3>4, <3>5
  <2>4. Turns(S, f[n], G[0], G[n])
    <3>1. n \in 1 .. n
      BY <1>3
    <3>. QED  BY <2>3, <3>1
  <2>. QED  BY <2>1, <2>4
<1>. QED  BY <1>2, <1>3

\* Peers without a command or replies under way: where they are is known, or not,
\* and what the host has heard so far.
Peers(m, f) == {d \in Quiet : d.m = m /\ d.f = f}
PeersAt(zz, m, f) == {d \in Peers(m, f) : d.z = zz}
Told(m, f, g) == {d \in Peers(m, f) : d.got = g}
ToldAt(zz, m, f, g) == {d \in Told(m, f, g) : d.z = zz}

LEMMA WithLooks ==
  ASSUME NEW c \in (16 .. 27) \ Writing, NEW bytes \in Seq(C!Byte), NEW n \in Nat
  PROVE  C!With(c, bytes) \o C!Recvs(n) \in Seq(Look)
<1>1. \A b \in C!Byte, cc \in 0 .. 27 : SendItem(b, cc) \in Deed
  <2>1. \A b, cc : SendItem(b, cc).op # "heard"
    BY DEF SendItem
  <2>. QED  BY <2>1, SendFacts DEF Deed
<1>2. RecvItem \in Look
  BY RecvFacts DEF Deed, RecvItem, Look
<1>3. <<SendItem(c, 0)>> \in Seq(Look)
  <2>1. c \in C!Byte /\ 0 \in 0 .. 27
    BY DEF C!Byte
  <2>2. SendItem(c, 0) \in Deed /\ SendItem(c, 0).b \notin Writing
    BY <1>1, <2>1 DEF SendItem
  <2>. HIDE DEF Writing
  <2>3. SendItem(c, 0) \in Look
    BY <2>2 DEF Look
  <2>. QED  BY <2>3
<1>4. Arguments(c, bytes) \in Seq(Look)
  <2>1. \A i \in 1 .. Len(bytes) : SendItem(bytes[i], c) \in Look
    <3>1. c \in 0 .. 27 /\ c # 0 /\ \A i \in 1 .. Len(bytes) : bytes[i] \in C!Byte
      OBVIOUS
    <3>2. \A i \in 1 .. Len(bytes) : SendItem(bytes[i], c) \in Deed /\ SendItem(bytes[i], c).of # 0
      BY <1>1, <3>1 DEF SendItem
    <3>. QED  BY <3>2 DEF Look
  <2>2. Len(bytes) \in Nat
    OBVIOUS
  <2>. QED  BY <2>1, <2>2 DEF Arguments
<1>5. C!Recvs(n) \in Seq(Look)
  <2>1. C!Recvs(n) = [i \in 1 .. n |-> RecvItem]
    BY DEF C!Recvs, RecvItem
  <2>. QED  BY <1>2, <2>1
<1>6. C!With(c, bytes) \in Seq(Look)
  BY <1>3, <1>4, WithItems, ConcatProperties
<1>. QED  BY <1>5, <1>6, ConcatProperties

\* A command with its arguments and its reply.
LEMMA TurnsAsk ==
  ASSUME Sizes, NEW c, NEW bytes, Ready(c, bytes), NEW d \in Quiet,
         NEW n, n = Len(Answers(c, bytes, d.z, d.m)), NEW e, e = Answered(c, bytes, d)
  PROVE  /\ Turns(Deed, C!With(c, bytes) \o C!Recvs(n), {d}, {e}) /\ e \in Quiet
         /\ c \notin Writing => Turns(Look, C!With(c, bytes) \o C!Recvs(n), {d}, {e})
<1>1. c \in 16 .. 27 /\ bytes \in Seq(C!Byte) /\ d.z \in Nat /\ d.m \in Memory /\ d.f \in PageBuffer
  BY DEF Ready, Quiet, DataSet
<1>2. n \in Nat
  <2>1. Answers(c, bytes, d.z, d.m) \in Seq(Nat)
    BY <1>1, FinishTyped
  <2>. QED  BY <2>1
<1>. DEFINE s == C!With(c, bytes) \o C!Recvs(n)
<1>3. s \in Seq(Deed) /\ (c \notin Writing => s \in Seq(Look))
  BY <1>1, <1>2, WithDeeds, WithLooks
<1>4. Leads(Idle(d), s, Idle(e)) /\ e \in Quiet
  BY Asked
<1>. HIDE DEF s
<1>5. \A dd \in {d} : \E ee \in {e} : Leads(Idle(dd), s, Idle(ee))
  BY <1>4
<1>6. Turns(Deed, s, {d}, {e}) /\ (c \notin Writing => Turns(Look, s, {d}, {e}))
  BY <1>3, <1>5 DEF Turns
<1>. QED  BY <1>4, <1>6 DEF s

LEMMA TurnsEach ==
  ASSUME NEW S, NEW s \in Seq(S), NEW A, NEW B, \A d \in A : \E e \in B : Turns(S, s, {d}, {e})
  PROVE  Turns(S, s, A, B)
<1>1. ASSUME NEW d \in A PROVE \E e \in B : Leads(Idle(d), s, Idle(e))
  <2>1. PICK e \in B : Turns(S, s, {d}, {e})
    OBVIOUS
  <2>. QED  BY <2>1 DEF Turns
<1>. QED  BY <1>1 DEF Turns

LEMMA PeersFacts ==
  ASSUME NEW d \in Quiet
  PROVE  d.z \in Nat /\ d.m \in Memory /\ d.f \in PageBuffer /\ d.got \in Seq(Nat) /\ d.log = <<>>
BY DEF Quiet, DataSet



\* An address, low byte first.
LEMMA AddressFrom ==
  ASSUME NEW a \in C!Address
  PROVE  C!Word(C!LoHi(a)[1], C!LoHi(a)[2]) = a /\ a \in Nat
<1>1. a \in Nat
  BY DEF C!Address
<1>. QED  BY <1>1 DEF C!Word, C!LoHi

LEMMA TurnsSetAddr ==
  ASSUME Sizes, NEW a \in C!Address, NEW d \in Quiet
  PROVE  /\ Turns(Look, C!SetAddr(a), {d}, ToldAt(a, d.m, d.f, d.got))
         /\ Turns(Deed, C!SetAddr(a), {d}, ToldAt(a, d.m, d.f, d.got))
<1>. DEFINE b == C!LoHi(a)
<1>1. Ready(17, b)
  BY AddressBytes
<1>2. C!Word(b[1], b[2]) = a
  BY AddressFrom
<1>3. b \in Seq(C!Byte)
  BY <1>1 DEF Ready
<1>. HIDE DEF b
<1>4. /\ Answers(17, b, d.z, d.m) = <<>> /\ NewZ(17, b, d.z) = a /\ NewMemory(17, b, d.z, d.m, d.f) = d.m
      /\ NewBuffer(17, b, d.z, d.f) = d.f
  BY <1>2 DEF Answers, NewZ, NewMemory, NewBuffer
<1>5. d.got \o <<>> = d.got
  BY PeersFacts, ConcatEmptySeq
<1>0. PICK e : e = Answered(17, b, d)
  OBVIOUS
<1>6. e.z = a /\ e.m = d.m /\ e.f = d.f /\ e.got = d.got
  <2>1. e = Data(a, d.m, d.f, <<>>, d.got)
    BY <1>0, <1>4, <1>5 DEF Answered
  <2>. QED  BY <2>1 DEF Data
<1>7. C!With(17, b) \o C!Recvs(0) = C!SetAddr(a)
  <2>1. C!With(17, b) \in Seq(Item) /\ C!Recvs(0) = <<>>
    BY <1>3, WithItems DEF C!Recvs
  <2>2. C!With(17, b) \o <<>> = C!With(17, b)
    BY <2>1, ConcatEmptySeq
  <2>. QED  BY <2>1, <2>2 DEF C!SetAddr, b
<1>8. Turns(Look, C!With(17, b) \o C!Recvs(0), {d}, {e}) /\ e \in Quiet
  <2>1. Len(Answers(17, b, d.z, d.m)) = 0 /\ 17 \notin Writing
    BY <1>4 DEF Writing
  <2>. QED  BY <1>0, <1>1, <2>1, TurnsAsk
<1>9. {e} \subseteq ToldAt(a, d.m, d.f, d.got)
  BY <1>6, <1>8 DEF ToldAt, Told, Peers
<1>10. Turns(Look, C!SetAddr(a), {d}, ToldAt(a, d.m, d.f, d.got))
  <2>1. Turns(Look, C!SetAddr(a), {d}, {e})
    BY <1>7, <1>8
  <2>. QED  BY <1>9, <2>1, TurnsWider
<1>. QED  BY <1>10, ItemSets, TurnsWider

\* What is streamed.
LEMMA TurnsReadFlash ==
  ASSUME Sizes, NEW n \in 1 .. Count, NEW d \in Quiet
  PROVE  Turns(Look, C!ReadFlash(n), {d}, Told(d.m, d.f, d.got \o FlashBytes(d.m, d.z, n)))
<1>. DEFINE k == n % Count
            b == <<k>>
<1>1. k \in 0 .. Count - 1 /\ Count <= 256 /\ n \in Nat /\ Streamed(k) = n
  BY SizeFacts, StreamedCount
<1>2. k \in C!Byte
  BY <1>1, SizeFacts DEF C!Byte
<1>3. C!ReadFlash(n) = C!With(20, b) \o C!Recvs(n)
  BY DEF C!ReadFlash
<1>. HIDE DEF k
<1>4. b[1] = k /\ Ready(20, b)
  BY <1>1, <1>2, NeedsFacts DEF Ready
<1>. HIDE DEF b
<1>5. /\ Answers(20, b, d.z, d.m) = FlashBytes(d.m, d.z, n) /\ NewMemory(20, b, d.z, d.m, d.f) = d.m
      /\ NewBuffer(20, b, d.z, d.f) = d.f
  BY <1>1, <1>4 DEF Answers, NewMemory, NewBuffer, FlashBytes
<1>6. Len(FlashBytes(d.m, d.z, n)) = n
  BY <1>1 DEF FlashBytes
<1>0. PICK e : e = Answered(20, b, d)
  OBVIOUS
<1>7. e.m = d.m /\ e.f = d.f /\ e.got = d.got \o FlashBytes(d.m, d.z, n)
  <2>1. e = Data(NewZ(20, b, d.z), d.m, d.f, <<>>, d.got \o FlashBytes(d.m, d.z, n))
    BY <1>0, <1>5 DEF Answered
  <2>. QED  BY <2>1 DEF Data
<1>8. Turns(Look, C!ReadFlash(n), {d}, {e}) /\ e \in Quiet
  <2>1. 20 \notin Writing
    BY DEF Writing
  <2>2. Turns(Look, C!With(20, b) \o C!Recvs(n), {d}, {e}) /\ e \in Quiet
    BY <1>0, <1>4, <1>5, <1>6, <2>1, TurnsAsk
  <2>. QED  BY <1>3, <2>2
<1>9. {e} \subseteq Told(d.m, d.f, d.got \o FlashBytes(d.m, d.z, n))
  BY <1>7, <1>8 DEF Told, Peers
<1>. QED  BY <1>8, <1>9, TurnsWider

\* One byte of data, or of eeprom.
LEMMA TurnsReadByte ==
  ASSUME Sizes, NEW space \in {"data", "eeprom"}, NEW d \in Quiet
  PROVE  Turns(Look, C!Cmd(IF space = "data" THEN 21 ELSE 22) \o C!Recvs(1), {d},
               ToldAt(d.z + 1, d.m, d.f, d.got \o <<d.m[space][d.z % DataSize]>>))
<1>1. PICK c : c = IF space = "data" THEN 21 ELSE 22
  OBVIOUS
<1>2. c \in {21, 22} /\ C!Cmd(c) = C!With(c, <<>>) /\ Ready(c, <<>>)
  BY <1>1, CommandAlone
<1>3. PICK e : e = Answered(c, <<>>, d)
  OBVIOUS
<1>4. /\ Answers(c, <<>>, d.z, d.m) = <<d.m[space][d.z % DataSize]>>
      /\ NewZ(c, <<>>, d.z) = d.z + 1 /\ NewMemory(c, <<>>, d.z, d.m, d.f) = d.m
      /\ NewBuffer(c, <<>>, d.z, d.f) = d.f
  <2>1. CASE space = "data"
    <3>1. c = 21
      BY <1>1, <2>1
    <3>. QED  BY <2>1, <3>1 DEF Answers, NewZ, NewMemory, NewBuffer
  <2>2. CASE space = "eeprom"
    <3>1. c = 22
      BY <1>1, <2>2
    <3>. QED  BY <2>2, <3>1 DEF Answers, NewZ, NewMemory, NewBuffer
  <2>. QED  BY <2>1, <2>2
<1>5. e.z = d.z + 1 /\ e.m = d.m /\ e.f = d.f /\ e.got = d.got \o <<d.m[space][d.z % DataSize]>>
  <2>1. e = Data(d.z + 1, d.m, d.f, <<>>, d.got \o <<d.m[space][d.z % DataSize]>>)
    BY <1>3, <1>4 DEF Answered
  <2>. QED  BY <2>1 DEF Data
<1>6. Turns(Look, C!With(c, <<>>) \o C!Recvs(1), {d}, {e}) /\ e \in Quiet
  <2>1. Len(Answers(c, <<>>, d.z, d.m)) = 1
    BY <1>4
  <2>2. c \notin Writing
    BY <1>2 DEF Writing
  <2>. QED  BY <1>2, <1>3, <2>1, <2>2, TurnsAsk
<1>7. {e} \subseteq ToldAt(d.z + 1, d.m, d.f, d.got \o <<d.m[space][d.z % DataSize]>>)
  BY <1>5, <1>6 DEF ToldAt, Told, Peers
<1>8. Turns(Look, C!Cmd(c) \o C!Recvs(1), {d}, {e})
  BY <1>2, <1>6
<1>. QED  BY <1>1, <1>7, <1>8, TurnsWider

\* A command, what it makes of the peer and what it answers.
LEMMA TurnsTo ==
  ASSUME Sizes, NEW c, NEW bytes, Ready(c, bytes), NEW d \in Quiet,
         NEW zz, zz = NewZ(c, bytes, d.z), NEW m, m = NewMemory(c, bytes, d.z, d.m, d.f),
         NEW f, f = NewBuffer(c, bytes, d.z, d.f), NEW x, x = Answers(c, bytes, d.z, d.m),
         NEW n, n = Len(x)
  PROVE  Turns(Deed, C!With(c, bytes) \o C!Recvs(n), {d}, ToldAt(zz, m, f, d.got \o x))
<1>1. PICK e : e = Answered(c, bytes, d)
  OBVIOUS
<1>2. e = Data(zz, m, f, <<>>, d.got \o x)
  BY <1>1 DEF Answered
<1>3. e.z = zz /\ e.m = m /\ e.f = f /\ e.got = d.got \o x
  BY <1>2 DEF Data
<1>4. Turns(Deed, C!With(c, bytes) \o C!Recvs(n), {d}, {e}) /\ e \in Quiet
  BY <1>1, TurnsAsk
<1>5. {e} \subseteq ToldAt(zz, m, f, d.got \o x)
  BY <1>3, <1>4 DEF ToldAt, Told, Peers
<1>. QED  BY <1>4, <1>5, TurnsWider

LEMMA TurnsQuietly ==
  ASSUME Sizes, NEW c, NEW bytes, Ready(c, bytes), NEW d \in Quiet,
         NEW zz, zz = NewZ(c, bytes, d.z), NEW m, m = NewMemory(c, bytes, d.z, d.m, d.f),
         NEW f, f = NewBuffer(c, bytes, d.z, d.f), Answers(c, bytes, d.z, d.m) = <<>>
  PROVE  Turns(Deed, C!With(c, bytes), {d}, ToldAt(zz, m, f, d.got))
<1>1. Turns(Deed, C!With(c, bytes) \o C!Recvs(0), {d}, ToldAt(zz, m, f, d.got \o <<>>))
  <2>1. Len(<<>>) = 0
    OBVIOUS
  <2>. QED  BY <2>1, TurnsTo
<1>2. d.got \o <<>> = d.got
  BY PeersFacts, ConcatEmptySeq
<1>3. C!With(c, bytes) \o C!Recvs(0) = C!With(c, bytes)
  <2>1. C!With(c, bytes) \in Seq(Item)
    BY WithItems DEF Ready
  <2>2. C!Recvs(0) = <<>>
    BY DEF C!Recvs
  <2>. QED  BY <2>1, <2>2, ConcatEmptySeq
<1>. QED  BY <1>1, <1>2, <1>3

\* One byte into data, or into eeprom.
Put(m, space, a, b) == [m EXCEPT ![space][a] = b]

LEMMA TurnsWriteByte ==
  ASSUME Sizes, NEW b \in C!Byte, NEW d \in Quiet
  PROVE  /\ Turns(Deed, C!With(24, <<b>>), {d},
                  PeersAt(d.z + 1, Put(d.m, "data", d.z % DataSize, b), d.f))
         /\ Turns(Deed, C!With(25, <<b>>) \o C!Recvs(1), {d},
                  PeersAt(d.z + 1, Put(d.m, "eeprom", d.z % DataSize, b), d.f))
<1>1. Ready(24, <<b>>) /\ Ready(25, <<b>>) /\ <<b>>[1] = b
  BY NeedsFacts DEF Ready
<1>2. /\ NewZ(24, <<b>>, d.z) = d.z + 1 /\ NewBuffer(24, <<b>>, d.z, d.f) = d.f
      /\ NewMemory(24, <<b>>, d.z, d.m, d.f) = Put(d.m, "data", d.z % DataSize, b)
      /\ Answers(24, <<b>>, d.z, d.m) = <<>>
  BY <1>1 DEF NewZ, NewMemory, NewBuffer, Answers, Put
<1>3. /\ NewZ(25, <<b>>, d.z) = d.z + 1 /\ NewBuffer(25, <<b>>, d.z, d.f) = d.f
      /\ NewMemory(25, <<b>>, d.z, d.m, d.f) = Put(d.m, "eeprom", d.z % DataSize, b)
      /\ Answers(25, <<b>>, d.z, d.m) = <<0>> /\ Len(<<0>>) = 1
  BY <1>1 DEF NewZ, NewMemory, NewBuffer, Answers, Put
<1>4. ASSUME NEW zz, NEW m, NEW f, NEW g PROVE ToldAt(zz, m, f, g) \subseteq PeersAt(zz, m, f)
  BY DEF ToldAt, Told, PeersAt
<1>5. Turns(Deed, C!With(24, <<b>>), {d},
            ToldAt(d.z + 1, Put(d.m, "data", d.z % DataSize, b), d.f, d.got))
  BY <1>1, <1>2, TurnsQuietly
<1>6. Turns(Deed, C!With(25, <<b>>) \o C!Recvs(1), {d},
            ToldAt(d.z + 1, Put(d.m, "eeprom", d.z % DataSize, b), d.f, d.got \o <<0>>))
  BY <1>1, <1>3, TurnsTo
<1>. QED  BY <1>4, <1>5, <1>6, TurnsWider

\* spm
LEMMA TurnsWriteFlash ==
  ASSUME Sizes, NEW lo \in C!Byte, NEW hi \in C!Byte, NEW c \in C!Byte, NEW d \in Quiet,
         NEW m, m = NewMemory(23, <<lo, hi, c>>, d.z, d.m, d.f),
         NEW f, f = NewBuffer(23, <<lo, hi, c>>, d.z, d.f)
  PROVE  Turns(Deed, C!CxWriteFlash(lo, hi, c), {d}, PeersAt(d.z + 2, m, f))
<1>1. Ready(23, <<lo, hi, c>>)
  BY NeedsFacts DEF Ready
<1>2. /\ NewZ(23, <<lo, hi, c>>, d.z) = d.z + 2 /\ Answers(23, <<lo, hi, c>>, d.z, d.m) = <<0>>
      /\ Len(<<0>>) = 1
  BY DEF NewZ, Answers
<1>3. Turns(Deed, C!With(23, <<lo, hi, c>>) \o C!Recvs(1), {d}, ToldAt(d.z + 2, m, f, d.got \o <<0>>))
  BY <1>1, <1>2, TurnsTo
<1>4. ToldAt(d.z + 2, m, f, d.got \o <<0>>) \subseteq PeersAt(d.z + 2, m, f)
  BY DEF ToldAt, Told, PeersAt
<1>. QED  BY <1>3, <1>4, TurnsWider DEF C!CxWriteFlash

\* The address of the peer, told.
LEMMA TurnsGetAddr ==
  ASSUME Sizes, NEW d \in Quiet
  PROVE  Turns(Deed, C!GetAddr, {d}, ToldAt(d.z, d.m, d.f, d.got \o C!LoHi(d.z)))
<1>1. C!Cmd(18) = C!With(18, <<>>) /\ Ready(18, <<>>)
  BY CommandAlone
<1>2. /\ NewZ(18, <<>>, d.z) = d.z /\ NewBuffer(18, <<>>, d.z, d.f) = d.f
      /\ NewMemory(18, <<>>, d.z, d.m, d.f) = d.m
  BY DEF NewZ, NewMemory, NewBuffer
<1>3. PICK x : x = Answers(18, <<>>, d.z, d.m)
  OBVIOUS
<1>4. x = C!LoHi(d.z)
  BY <1>3 DEF Answers
<1>5. Len(x) = 2
  BY <1>4 DEF C!LoHi
<1>6. Turns(Deed, C!With(18, <<>>) \o C!Recvs(2), {d}, ToldAt(d.z, d.m, d.f, d.got \o x))
  BY <1>1, <1>2, <1>3, <1>5, TurnsTo
<1>7. C!GetAddr = C!With(18, <<>>) \o C!Recvs(2)
  BY <1>1 DEF C!GetAddr
<1>8. Turns(Deed, C!GetAddr, {d}, ToldAt(d.z, d.m, d.f, d.got \o x))
  BY <1>6, <1>7
<1>. QED  BY <1>4, <1>8

\* The tasks are stopped: to memory that is nothing.
LEMMA TurnsAppStop ==
  ASSUME Sizes, NEW d \in Quiet
  PROVE  Turns(Deed, C!AppStop, {d}, Peers(d.m, d.f))
<1>1. C!Cmd(27) = C!With(27, <<>>) /\ Ready(27, <<>>)
  BY CommandAlone
<1>2. /\ NewZ(27, <<>>, d.z) = d.z /\ NewBuffer(27, <<>>, d.z, d.f) = d.f
      /\ NewMemory(27, <<>>, d.z, d.m, d.f) = d.m /\ Answers(27, <<>>, d.z, d.m) = <<>>
  BY DEF NewZ, NewMemory, NewBuffer, Answers
<1>3. Turns(Deed, C!Cmd(27), {d}, ToldAt(d.z, d.m, d.f, d.got))
  BY <1>1, <1>2, TurnsQuietly
<1>4. C!GetAddr \in Seq(Deed)
  BY WholeGetAddr DEF Whole
<1>5. ASSUME NEW e \in ToldAt(d.z, d.m, d.f, d.got)
      PROVE  \E r \in Peers(d.m, d.f) : Turns(Deed, C!GetAddr, {e}, {r})
  <2>1. e \in Quiet /\ e.m = d.m /\ e.f = d.f
    BY DEF ToldAt, Told, Peers
  <2>2. Turns(Deed, C!GetAddr, {e}, ToldAt(e.z, d.m, d.f, e.got \o C!LoHi(e.z)))
    BY <2>1, TurnsGetAddr
  <2>3. PICK r \in ToldAt(e.z, d.m, d.f, e.got \o C!LoHi(e.z)) :
          Leads(Idle(e), C!GetAddr, Idle(r))
    BY <2>2 DEF Turns
  <2>4. r \in Peers(d.m, d.f)
    BY <2>3 DEF ToldAt, Told
  <2>. QED  BY <1>4, <2>3, <2>4 DEF Turns
<1>6. Turns(Deed, C!GetAddr, ToldAt(d.z, d.m, d.f, d.got), Peers(d.m, d.f))
  BY <1>4, <1>5, TurnsEach
<1>. QED  BY <1>3, <1>6, ItemSets, TurnsThen DEF C!AppStop, C!GetStatus

\* One script after the other, whatever the first has made of the peer.
LEMMA TurnsOn ==
  ASSUME NEW S \in SUBSET Item, NEW s, NEW t \in Seq(S), NEW A, NEW B, NEW D,
         Turns(S, s, A, B), \A e \in B : Turns(S, t, {e}, D)
  PROVE  Turns(S, s \o t, A, D)
<1>1. ASSUME NEW e \in B PROVE \E r \in D : Leads(Idle(e), t, Idle(r))
  BY DEF Turns
<1>2. Turns(S, t, B, D)
  BY <1>1 DEF Turns
<1>. QED  BY <1>2, TurnsThen

\* What is read from address a on.
SizeOf(space) == IF space = "flash" THEN FlashSize ELSE DataSize
BytesAt(m, space, a, n) == [i \in 1 .. n |-> m[space][a + i - 1]]
Spaces == {"data", "eeprom", "flash"}

LEMMA SpaceFacts ==
  ASSUME Sizes, NEW m \in Memory, NEW space \in Spaces
  PROVE  /\ SizeOf(space) \in Nat /\ DOMAIN m[space] = 0 .. SizeOf(space) - 1
         /\ m[space] \in [0 .. SizeOf(space) - 1 -> C!Byte]
         /\ \A i \in 0 .. SizeOf(space) - 1 : m[space][i] \in C!Byte /\ m[space][i] \in Nat
<1>1. DataSize \in Nat /\ FlashSize \in Nat
  BY SizeFacts
<1>2. /\ m["data"] \in [0 .. DataSize - 1 -> C!Byte] /\ m["eeprom"] \in [0 .. DataSize - 1 -> C!Byte]
      /\ m["flash"] \in [0 .. FlashSize - 1 -> C!Byte]
  BY DEF Memory
<1>3. m[space] \in [0 .. SizeOf(space) - 1 -> C!Byte] /\ SizeOf(space) \in Nat
  <2>1. CASE space = "data"
    BY <1>1, <1>2, <2>1 DEF SizeOf
  <2>2. CASE space = "eeprom"
    BY <1>1, <1>2, <2>2 DEF SizeOf
  <2>3. CASE space = "flash"
    BY <1>1, <1>2, <2>3 DEF SizeOf
  <2>. QED  BY <2>1, <2>2, <2>3 DEF Spaces
<1>4. DOMAIN m[space] = 0 .. SizeOf(space) - 1
  BY <1>3
<1>5. ASSUME NEW i \in 0 .. SizeOf(space) - 1 PROVE m[space][i] \in C!Byte /\ m[space][i] \in Nat
  <2>1. m[space][i] \in C!Byte
    BY <1>3
  <2>. QED  BY <2>1, ByteFacts
<1>. QED  BY <1>3, <1>4, <1>5

LEMMA BytesFacts ==
  ASSUME Sizes, NEW m \in Memory, NEW space \in Spaces, NEW a \in Nat, NEW n \in Nat,
         a + n <= SizeOf(space)
  PROVE  /\ BytesAt(m, space, a, n) \in Seq(Nat) /\ Len(BytesAt(m, space, a, n)) = n
         /\ \A i \in 1 .. n : BytesAt(m, space, a, n)[i] = m[space][a + i - 1]
<1>1. \A i \in 1 .. n : a + i - 1 \in 0 .. SizeOf(space) - 1
  BY SpaceFacts
<1>2. \A i \in 1 .. n : m[space][a + i - 1] \in Nat
  BY <1>1, SpaceFacts
<1>. QED  BY <1>2 DEF BytesAt

\* Bytes from a on, and those after them.
LEMMA BytesJoin ==
  ASSUME Sizes, NEW m \in Memory, NEW space \in Spaces, NEW a \in Nat, NEW k \in Nat, NEW n \in Nat,
         a + k + n <= SizeOf(space)
  PROVE  BytesAt(m, space, a, k) \o BytesAt(m, space, a + k, n) = BytesAt(m, space, a, k + n)
<1>. DEFINE s == BytesAt(m, space, a, k)
            t == BytesAt(m, space, a + k, n)
            v == BytesAt(m, space, a, k + n)
            w == s \o t
<1>0. SizeOf(space) \in Nat /\ a + k \in Nat /\ k + n \in Nat /\ a + k <= SizeOf(space)
      /\ (a + k) + n <= SizeOf(space) /\ a + (k + n) <= SizeOf(space)
  <2>1. SizeOf(space) \in Nat
    BY SpaceFacts
  <2>. QED  BY <2>1
<1>1. s \in Seq(Nat) /\ Len(s) = k /\ \A i \in 1 .. k : s[i] = m[space][a + i - 1]
  BY <1>0, BytesFacts
<1>2. t \in Seq(Nat) /\ Len(t) = n /\ \A i \in 1 .. n : t[i] = m[space][(a + k) + i - 1]
  BY <1>0, BytesFacts
<1>3. v \in Seq(Nat) /\ Len(v) = k + n /\ \A i \in 1 .. k + n : v[i] = m[space][a + i - 1]
  BY <1>0, BytesFacts
<1>. HIDE DEF s, t, v
<1>4. w \in Seq(Nat) /\ Len(w) = k + n /\ \A i \in 1 .. k + n : w[i] = IF i <= k THEN s[i] ELSE t[i - k]
  <2>1. s \in Seq(Nat) /\ Len(s) = k /\ t \in Seq(Nat) /\ Len(t) = n
    BY <1>1, <1>2
  <2>2. /\ w \in Seq(Nat) /\ Len(w) = Len(s) + Len(t)
        /\ \A i \in 1 .. Len(s) + Len(t) : w[i] = IF i <= Len(s) THEN s[i] ELSE t[i - Len(s)]
    BY <2>1, ConcatProperties
  <2>. HIDE DEF w
  <2>. QED  BY <2>1, <2>2
<1>. HIDE DEF w
<1>5. ASSUME NEW i \in 1 .. k + n PROVE w[i] = v[i]
  <2>1. CASE i <= k
    <3>1. i \in 1 .. k
      BY <2>1
    <3>. QED  BY <1>1, <1>3, <1>4, <2>1, <3>1
  <2>2. CASE ~(i <= k)
    <3>1. i - k \in 1 .. n /\ (a + k) + (i - k) - 1 = a + i - 1
      BY <2>2
    <3>. QED  BY <1>2, <1>3, <1>4, <2>2, <3>1
  <2>. QED  BY <2>1, <2>2
<1>6. w = v
  BY <1>3, <1>4, <1>5, SeqEqual
<1>. QED  BY <1>6 DEF s, t, v, w

LEMMA BytesOne ==
  ASSUME NEW m, NEW space, NEW a \in Nat
  PROVE  BytesAt(m, space, a, 1) = <<m[space][a]>> /\ BytesAt(m, space, a, 0) = <<>>
<1>1. a + 1 - 1 = a
  OBVIOUS
<1>2. [i \in 1 .. 1 |-> m[space][a + i - 1]] = <<m[space][a]>>
  BY <1>1
<1>. QED  BY <1>2 DEF BytesAt

\* What is streamed from the flash of the application is what it holds, if it is open.
LEMMA FlashBytesAt ==
  ASSUME Sizes, NEW m, m.rww = "open", NEW a \in Nat, NEW n \in Nat, a + n <= FlashSize
  PROVE  FlashBytes(m, a, n) = BytesAt(m, "flash", a, n)
<1>1. FlashSize \in Nat
  BY SizeFacts
<1>2. \A i \in 1 .. n : a + i - 1 < FlashSize
  BY <1>1
<1>3. \A i \in 1 .. n : FlashOf(m, a + i - 1) = m["flash"][a + i - 1]
  BY <1>2 DEF FlashOf
<1>. QED  BY <1>3 DEF FlashBytes, BytesAt

\* What is seen of the memory.
Shown(m, space, a, n) == IF space = "flash" THEN FlashBytes(m, a, n) ELSE BytesAt(m, space, a, n)

\* c.read-space
LEMMA TurnsReadSpace ==
  ASSUME Sizes, NEW a \in C!Address, NEW n \in Nat, NEW space \in Spaces,
         space = "flash" => n \in 1 .. Count, a + n <= SizeOf(space), NEW d \in Quiet
  PROVE  Turns(Look, C!ReadSpace(a, n, space), {d},
               Told(d.m, d.f, d.got \o Shown(d.m, space, a, n)))
<1>1. a \in Nat /\ d.m \in Memory /\ d.got \in Seq(Nat)
  BY PeersFacts DEF C!Address
<1>2. Turns(Look, C!SetAddr(a), {d}, ToldAt(a, d.m, d.f, d.got))
  BY TurnsSetAddr
<1>3. CASE space = "flash"
  <2>. DEFINE there == Told(d.m, d.f, d.got \o Shown(d.m, space, a, n))
  <2>1. C!ReadSpace(a, n, space) = C!SetAddr(a) \o C!ReadFlash(n)
    BY <1>3 DEF C!ReadSpace
  <2>2. FlashBytes(d.m, a, n) = Shown(d.m, space, a, n)
    BY <1>3 DEF Shown
  <2>3. ASSUME NEW e \in ToldAt(a, d.m, d.f, d.got) PROVE Turns(Look, C!ReadFlash(n), {e}, there)
    <3>1. e \in Quiet /\ e.z = a /\ e.m = d.m /\ e.f = d.f /\ e.got = d.got
      BY DEF ToldAt, Told, Peers
    <3>2. Turns(Look, C!ReadFlash(n), {e}, Told(e.m, e.f, e.got \o FlashBytes(e.m, e.z, n)))
      BY <1>3, <3>1, TurnsReadFlash
    <3>. QED  BY <2>2, <3>1, <3>2
  <2>4. C!ReadFlash(n) \in Seq(Look)
    <3>1. Turns(Look, C!ReadFlash(n), {d}, Told(d.m, d.f, d.got \o FlashBytes(d.m, d.z, n)))
      BY <1>3, TurnsReadFlash
    <3>. QED  BY <3>1 DEF Turns
  <2>. HIDE DEF there
  <2>5. Turns(Look, C!SetAddr(a) \o C!ReadFlash(n), {d}, there)
    BY <1>2, <2>3, <2>4, ItemSets, TurnsOn
  <2>. QED  BY <2>1, <2>5 DEF there
<1>4. CASE space # "flash"
  <2>. DEFINE c == IF space = "data" THEN 21 ELSE 22
              s == C!Cmd(c) \o C!Recvs(1)
              ss == [i \in 1 .. n |-> s]
              G == [i \in 0 .. n |-> ToldAt(a + i, d.m, d.f, d.got \o BytesAt(d.m, space, a, i))]
  <2>1. space \in {"data", "eeprom"} /\ SizeOf(space) = DataSize /\ DataSize \in Nat
    BY <1>4, SizeFacts DEF Spaces, SizeOf
  <2>2. ASSUME NEW i \in 1 .. n, NEW e \in G[i - 1] PROVE Turns(Look, s, {e}, G[i])
    <3>. DEFINE x == BytesAt(d.m, space, a, i - 1)
                v == BytesAt(d.m, space, a, i)
                b == <<d.m[space][a + (i - 1)]>>
    <3>1. i - 1 \in 0 .. n /\ i \in 0 .. n /\ i - 1 \in Nat
      OBVIOUS
    <3>2. e \in ToldAt(a + (i - 1), d.m, d.f, d.got \o x)
      BY <3>1
    <3>3. G[i] = ToldAt(a + i, d.m, d.f, d.got \o v)
      BY <3>1
    <3>. HIDE DEF G
    <3>4. e \in Quiet /\ e.z = a + (i - 1) /\ e.m = d.m /\ e.f = d.f /\ e.got = d.got \o x
      BY <3>2 DEF ToldAt, Told, Peers
    <3>5. Turns(Look, s, {e}, ToldAt(e.z + 1, e.m, e.f, e.got \o <<e.m[space][e.z % DataSize]>>))
      BY <2>1, <3>4, TurnsReadByte
    <3>6. e.z % DataSize = a + (i - 1) /\ e.z + 1 = a + i
      <4>1. a + (i - 1) \in 0 .. DataSize - 1 /\ DataSize \in Nat /\ DataSize > 0
        BY <1>1, <2>1
      <4>2. (a + (i - 1)) % DataSize = a + (i - 1)
        BY <4>1, SmallRemainder
      <4>. QED  BY <1>1, <3>4, <4>2
    <3>7. x \o b = v
      <4>1. a + (i - 1) \in Nat /\ (i - 1) + 1 = i /\ a + (i - 1) + 1 <= SizeOf(space)
        BY <1>1, <2>1, <3>1
      <4>2. BytesAt(d.m, space, a, i - 1) \o BytesAt(d.m, space, a + (i - 1), 1)
              = BytesAt(d.m, space, a, (i - 1) + 1)
        <5>1. PICK k : k = i - 1
          OBVIOUS
        <5>2. k \in Nat /\ 1 \in Nat /\ a + k + 1 <= SizeOf(space)
          BY <4>1, <5>1
        <5>3. BytesAt(d.m, space, a, k) \o BytesAt(d.m, space, a + k, 1) = BytesAt(d.m, space, a, k + 1)
          <6>1. PICK mem \in Memory : mem = d.m
            BY <1>1
          <6>2. a \in Nat
            BY <1>1
          <6>3. BytesAt(mem, space, a, k) \o BytesAt(mem, space, a + k, 1) = BytesAt(mem, space, a, k + 1)
            BY <5>2, <6>2, BytesJoin
          <6>. QED  BY <6>1, <6>3
        <5>. QED  BY <5>1, <5>3
      <4>3. BytesAt(d.m, space, a + (i - 1), 1) = b
        BY <4>1, BytesOne
      <4>. QED  BY <4>1, <4>2, <4>3
    <3>8. (d.got \o x) \o b = d.got \o (x \o b)
      <4>1. x \in Seq(Nat)
        BY <1>1, <2>1, <3>1, BytesFacts
      <4>2. a + (i - 1) \in 0 .. SizeOf(space) - 1
        BY <1>1, <2>1
      <4>3. b \in Seq(Nat)
        BY <1>1, <4>2, SpaceFacts
      <4>. HIDE DEF x, b
      <4>. QED  BY <1>1, <4>1, <4>3, NumbersAssociative
    <3>. HIDE DEF x, v
    <3>9. ToldAt(e.z + 1, e.m, e.f, e.got \o <<e.m[space][e.z % DataSize]>>) = G[i]
      BY <3>3, <3>4, <3>6, <3>7, <3>8
    <3>. QED  BY <3>5, <3>9
  <2>3. s \in Seq(Look)
    <3>1. Turns(Look, s, {d}, ToldAt(d.z + 1, d.m, d.f, d.got \o <<d.m[space][d.z % DataSize]>>))
      BY <2>1, TurnsReadByte
    <3>. HIDE DEF s
    <3>. QED  BY <3>1 DEF Turns
  <2>4. G[0] = ToldAt(a, d.m, d.f, d.got)
    <3>1. a + 0 = a /\ BytesAt(d.m, space, a, 0) = <<>> /\ 0 \in 0 .. n
      BY <1>1, BytesOne
    <3>2. d.got \o <<>> = d.got
      BY <1>1, ConcatEmptySeq
    <3>. QED  BY <3>1, <3>2
  <2>5. G[n] \subseteq Told(d.m, d.f, d.got \o Shown(d.m, space, a, n))
    <3>1. n \in 0 .. n /\ Shown(d.m, space, a, n) = BytesAt(d.m, space, a, n)
      BY <1>4 DEF Shown
    <3>. QED  BY <3>1 DEF ToldAt
  <2>6. C!ReadSpace(a, n, space) = C!SetAddr(a) \o C!FlattenSeq(ss)
    BY <1>4 DEF C!ReadSpace, C!Times
  <2>7. ss = [i \in 1 .. n |-> ss[i]] /\ \A i \in 1 .. n : ss[i] = s
    OBVIOUS
  <2>. HIDE DEF s, ss, G
  <2>8. \A i \in 1 .. n : Turns(Look, ss[i], G[i - 1], G[i])
    <3>1. ASSUME NEW i \in 1 .. n PROVE Turns(Look, s, G[i - 1], G[i])
      <4>1. ASSUME NEW e \in G[i - 1] PROVE \E r \in G[i] : Leads(Idle(e), s, Idle(r))
        <5>1. Turns(Look, s, {e}, G[i])
          BY <2>2
        <5>. QED  BY <5>1 DEF Turns
      <4>. QED  BY <2>3, <4>1 DEF Turns
    <3>. QED  BY <2>7, <3>1
  <2>9. Turns(Look, C!FlattenSeq(ss), G[0], G[n])
    BY <2>7, <2>8, ItemSets, TurnsFlat
  <2>10. Turns(Look, C!SetAddr(a) \o C!FlattenSeq(ss), {d}, G[n])
    BY <1>2, <2>4, <2>9, ItemSets, TurnsThen
  <2>. QED  BY <2>5, <2>6, <2>10, TurnsWider
<1>. QED  BY <1>3, <1>4

\* Memory into which the first n of some bytes have been written, from address a on.
Written(m, space, a, bytes, n) ==
    [m EXCEPT ![space] = [x \in DOMAIN @ |->
        IF x \in a .. a + n - 1 THEN bytes[x - a + 1] ELSE @[x]]]

LEMMA WrittenNone ==
  ASSUME Sizes, NEW m \in Memory, NEW space \in {"data", "eeprom"}, NEW a \in Nat, NEW bytes
  PROVE  Written(m, space, a, bytes, 0) = m
<1>1. a .. a + 0 - 1 = {}
  OBVIOUS
<1>2. space \in Spaces
  BY DEF Spaces
<1>3. m[space] \in [0 .. SizeOf(space) - 1 -> C!Byte]
  BY <1>2, SpaceFacts
<1>4. [x \in DOMAIN m[space] |-> IF x \in a .. a + 0 - 1 THEN bytes[x - a + 1] ELSE m[space][x]] = m[space]
  BY <1>1, <1>3
<1>5. Written(m, space, a, bytes, 0) = [m EXCEPT ![space] = m[space]]
  BY <1>4 DEF Written
<1>6. [m EXCEPT ![space] = m[space]] = m
  BY DEF Memory
<1>. QED  BY <1>5, <1>6

LEMMA WrittenMore ==
  ASSUME Sizes, NEW m \in Memory, NEW space \in {"data", "eeprom"}, NEW a \in Nat, NEW bytes \in Seq(C!Byte),
         a + Len(bytes) <= DataSize, NEW i \in 1 .. Len(bytes)
  PROVE  Put(Written(m, space, a, bytes, i - 1), space, a + (i - 1), bytes[i]) = Written(m, space, a, bytes, i)
<1>. DEFINE dom == 0 .. DataSize - 1
            f == m[space]
            g == [x \in dom |-> IF x \in a .. a + (i - 1) - 1 THEN bytes[x - a + 1] ELSE f[x]]
            h == [x \in dom |-> IF x \in a .. a + i - 1 THEN bytes[x - a + 1] ELSE f[x]]
<1>1. space \in Spaces /\ SizeOf(space) = DataSize /\ DataSize \in Nat
  BY SizeFacts DEF Spaces, SizeOf
<1>2. DOMAIN f = dom /\ f \in [dom -> C!Byte]
  BY <1>1, SpaceFacts
<1>3. Written(m, space, a, bytes, i - 1) = [m EXCEPT ![space] = g]
      /\ Written(m, space, a, bytes, i) = [m EXCEPT ![space] = h]
  BY <1>2 DEF Written
<1>4. [g EXCEPT ![a + (i - 1)] = bytes[i]] = h
  <2>1. a + (i - 1) \in dom
    BY <1>1
  <2>2. ASSUME NEW x \in dom PROVE [g EXCEPT ![a + (i - 1)] = bytes[i]][x] = h[x]
    <3>1. CASE x = a + (i - 1)
      <4>1. x - a + 1 = i /\ x \in a .. a + i - 1
        BY <3>1
      <4>. QED  BY <2>1, <3>1, <4>1
    <3>2. CASE x # a + (i - 1)
      <4>1. x \in a .. a + (i - 1) - 1 <=> x \in a .. a + i - 1
        BY <1>1, <3>2
      <4>. QED  BY <3>2, <4>1
    <3>. QED  BY <3>1, <3>2
  <2>. QED  BY <2>2
<1>. HIDE DEF g, h, f, dom
<1>5. m = [data |-> m.data, eeprom |-> m.eeprom, flash |-> m.flash, rww |-> m.rww]
  BY DEF Memory
<1>6. Put([m EXCEPT ![space] = g], space, a + (i - 1), bytes[i])
        = [m EXCEPT ![space] = [g EXCEPT ![a + (i - 1)] = bytes[i]]]
  <2>1. CASE space = "data"
    BY <1>5, <2>1 DEF Put
  <2>2. CASE space = "eeprom"
    BY <1>5, <2>2 DEF Put
  <2>. QED  BY <2>1, <2>2
<1>. QED  BY <1>3, <1>4, <1>6

\* Bytes, one after the other, by a command that writes one.
LEMMA TurnsPuts ==
  ASSUME Sizes, NEW a \in C!Address, NEW bytes \in Seq(C!Byte), NEW space \in {"data", "eeprom"},
         a + Len(bytes) <= DataSize, NEW d \in Quiet,
         NEW ss, ss = [i \in 1 .. Len(bytes) |-> ss[i]],
         \A i \in 1 .. Len(bytes) : \A e \in Quiet :
            Turns(Deed, ss[i], {e}, PeersAt(e.z + 1, Put(e.m, space, e.z % DataSize, bytes[i]), e.f))
  PROVE  Turns(Deed, C!SetAddr(a) \o C!FlattenSeq(ss), {d},
               Peers(Written(d.m, space, a, bytes, Len(bytes)), d.f))
<1>. DEFINE n == Len(bytes)
            G == [i \in 0 .. n |-> PeersAt(a + i, Written(d.m, space, a, bytes, i), d.f)]
<1>1. n \in Nat /\ a \in Nat /\ DataSize \in Nat /\ d.m \in Memory
  BY SizeFacts, PeersFacts DEF C!Address
<1>2. Turns(Deed, C!SetAddr(a), {d}, G[0])
  <2>1. Turns(Deed, C!SetAddr(a), {d}, ToldAt(a, d.m, d.f, d.got))
    BY TurnsSetAddr
  <2>2. a + 0 = a /\ 0 \in 0 .. n /\ Written(d.m, space, a, bytes, 0) = d.m
    BY <1>1, WrittenNone
  <2>3. G[0] = PeersAt(a, d.m, d.f)
    BY <2>2
  <2>4. ToldAt(a, d.m, d.f, d.got) \subseteq PeersAt(a, d.m, d.f)
    BY DEF ToldAt, Told, PeersAt
  <2>. HIDE DEF G
  <2>. QED  BY <2>1, <2>3, <2>4, TurnsWider
<1>3. ASSUME NEW i \in 1 .. n PROVE Turns(Deed, ss[i], G[i - 1], G[i])
  <2>1. i - 1 \in 0 .. n /\ i \in 0 .. n
    BY <1>1
  <2>2. G[i - 1] = PeersAt(a + (i - 1), Written(d.m, space, a, bytes, i - 1), d.f)
        /\ G[i] = PeersAt(a + i, Written(d.m, space, a, bytes, i), d.f)
    BY <2>1
  <2>. HIDE DEF G
  <2>3. ASSUME NEW e \in G[i - 1] PROVE Turns(Deed, ss[i], {e}, G[i])
    <3>1. e \in Quiet /\ e.z = a + (i - 1) /\ e.m = Written(d.m, space, a, bytes, i - 1) /\ e.f = d.f
      BY <2>2 DEF PeersAt, Peers
    <3>2. Turns(Deed, ss[i], {e}, PeersAt(e.z + 1, Put(e.m, space, e.z % DataSize, bytes[i]), e.f))
      BY <3>1
    <3>3. e.z % DataSize = a + (i - 1) /\ e.z + 1 = a + i
      <4>1. a + (i - 1) \in 0 .. DataSize - 1 /\ DataSize \in Nat /\ DataSize > 0
        BY <1>1
      <4>2. (a + (i - 1)) % DataSize = a + (i - 1)
        BY <4>1, SmallRemainder
      <4>. QED  BY <1>1, <3>1, <4>2
    <3>4. Put(e.m, space, e.z % DataSize, bytes[i]) = Written(d.m, space, a, bytes, i)
      <4>1. Put(Written(d.m, space, a, bytes, i - 1), space, a + (i - 1), bytes[i])
              = Written(d.m, space, a, bytes, i)
        BY <1>1, WrittenMore
      <4>. QED  BY <3>1, <3>3, <4>1
    <3>. QED  BY <2>2, <3>1, <3>2, <3>3, <3>4
  <2>4. ss[i] \in Seq(Deed)
    BY DEF Turns
  <2>5. ASSUME NEW e \in G[i - 1] PROVE \E r \in G[i] : Turns(Deed, ss[i], {e}, {r})
    <3>1. PICK r \in G[i] : Leads(Idle(e), ss[i], Idle(r))
      BY <2>3 DEF Turns
    <3>. QED  BY <2>4, <3>1 DEF Turns
  <2>. QED  BY <2>4, <2>5, TurnsEach
<1>4. G[n] \subseteq Peers(Written(d.m, space, a, bytes, n), d.f)
  <2>1. n \in 0 .. n
    BY <1>1
  <2>. QED  BY <2>1 DEF PeersAt
<1>. HIDE DEF n, G
<1>5. Turns(Deed, C!FlattenSeq(ss), G[0], G[n])
  BY <1>1, <1>3, ItemSets, TurnsFlat DEF n
<1>6. Turns(Deed, C!SetAddr(a) \o C!FlattenSeq(ss), {d}, G[n])
  BY <1>2, <1>5, ItemSets, TurnsThen
<1>. QED  BY <1>4, <1>6, TurnsWider DEF n

\* c.write-data, c.write-eeprom
LEMMA TurnsWrite ==
  ASSUME Sizes, NEW a \in C!Address, NEW bytes \in Seq(C!Byte), a + Len(bytes) <= DataSize, NEW d \in Quiet
  PROVE  /\ Turns(Deed, C!WriteData(a, bytes), {d}, Peers(Written(d.m, "data", a, bytes, Len(bytes)), d.f))
         /\ Turns(Deed, C!WriteEeprom(a, bytes), {d}, Peers(Written(d.m, "eeprom", a, bytes, Len(bytes)), d.f))
<1>. DEFINE n == Len(bytes)
            ss == [i \in 1 .. n |-> C!With(24, <<bytes[i]>>)]
            tt == [i \in 1 .. n |-> C!With(25, <<bytes[i]>>) \o C!Recvs(1)]
<1>1. \A i \in 1 .. n : bytes[i] \in C!Byte
  OBVIOUS
<1>2. C!WriteData(a, bytes) = C!SetAddr(a) \o C!FlattenSeq(ss)
      /\ C!WriteEeprom(a, bytes) = C!SetAddr(a) \o C!FlattenSeq(tt)
  BY DEF C!WriteData, C!WriteEeprom
<1>3. ss = [i \in 1 .. n |-> ss[i]] /\ tt = [i \in 1 .. n |-> tt[i]]
  OBVIOUS
<1>4. \A i \in 1 .. n : ss[i] = C!With(24, <<bytes[i]>>) /\ tt[i] = C!With(25, <<bytes[i]>>) \o C!Recvs(1)
  OBVIOUS
<1>. HIDE DEF ss, tt
<1>5. \A i \in 1 .. n : \A e \in Quiet :
        Turns(Deed, ss[i], {e}, PeersAt(e.z + 1, Put(e.m, "data", e.z % DataSize, bytes[i]), e.f))
  BY <1>1, <1>4, TurnsWriteByte
<1>6. \A i \in 1 .. n : \A e \in Quiet :
        Turns(Deed, tt[i], {e}, PeersAt(e.z + 1, Put(e.m, "eeprom", e.z % DataSize, bytes[i]), e.f))
  BY <1>1, <1>4, TurnsWriteByte
<1>7. Turns(Deed, C!SetAddr(a) \o C!FlattenSeq(ss), {d}, Peers(Written(d.m, "data", a, bytes, n), d.f))
  BY <1>3, <1>5, TurnsPuts
<1>8. Turns(Deed, C!SetAddr(a) \o C!FlattenSeq(tt), {d}, Peers(Written(d.m, "eeprom", a, bytes, n), d.f))
  BY <1>3, <1>6, TurnsPuts
<1>. QED  BY <1>2, <1>7, <1>8

\* c.run and c.get-status: the address that the code leaves is the one it was given.
LEMMA TurnsRun ==
  ASSUME Sizes, NEW a \in C!Address, NEW dp \in C!Address, NEW d \in Quiet
  PROVE  Turns(Deed, C!Run(a, dp) \o C!GetStatus, {d},
               Told(d.m, d.f, d.got \o C!LoHi(dp)))
<1>. DEFINE b == C!LoHi(dp)
            there == Told(d.m, d.f, d.got \o b)
            s == C!With(19, b)
<1>1. Ready(19, b)
  BY AddressBytes
<1>2. C!Word(b[1], b[2]) = dp
  BY AddressFrom
<1>3. Turns(Deed, C!SetAddr(a), {d}, ToldAt(a, d.m, d.f, d.got))
  BY TurnsSetAddr
<1>4. C!Run(a, dp) = C!SetAddr(a) \o s
  BY DEF C!Run
<1>. HIDE DEF b
<1>5. ASSUME NEW e \in ToldAt(a, d.m, d.f, d.got)
      PROVE  Turns(Deed, s, {e}, ToldAt(dp, d.m, d.f, d.got))
  <2>1. e \in Quiet /\ e.m = d.m /\ e.f = d.f /\ e.got = d.got
    BY DEF ToldAt, Told, Peers
  <2>2. /\ NewZ(19, b, e.z) = dp /\ NewMemory(19, b, e.z, e.m, e.f) = e.m
        /\ NewBuffer(19, b, e.z, e.f) = e.f /\ Answers(19, b, e.z, e.m) = <<>>
    BY <1>2 DEF NewZ, NewMemory, NewBuffer, Answers
  <2>3. Turns(Deed, s, {e}, ToldAt(dp, e.m, e.f, e.got))
    BY <1>1, <2>1, <2>2, TurnsQuietly
  <2>. QED  BY <2>1, <2>3
<1>6. s \in Seq(Deed) /\ C!GetAddr \in Seq(Deed)
  <2>1. Whole(s) /\ Whole(C!GetAddr)
    BY <1>1, WholeTell, WholeGetAddr
  <2>. HIDE DEF s
  <2>. QED  BY <2>1 DEF Whole
<1>. HIDE DEF s
<1>7. Turns(Deed, C!Run(a, dp), {d}, ToldAt(dp, d.m, d.f, d.got))
  BY <1>3, <1>4, <1>5, <1>6, ItemSets, TurnsOn
<1>8. ASSUME NEW e \in ToldAt(dp, d.m, d.f, d.got) PROVE Turns(Deed, C!GetAddr, {e}, there)
  <2>1. e \in Quiet /\ e.m = d.m /\ e.f = d.f /\ e.got = d.got /\ e.z = dp
    BY DEF ToldAt, Told, Peers
  <2>2. Turns(Deed, C!GetAddr, {e}, ToldAt(dp, d.m, d.f, d.got \o b))
    <3>1. PICK v : v = C!LoHi(e.z)
      OBVIOUS
    <3>2. v = b
      BY <2>1, <3>1 DEF b
    <3>3. Turns(Deed, C!GetAddr, {e}, ToldAt(e.z, e.m, e.f, e.got \o v))
      BY <2>1, <3>1, TurnsGetAddr
    <3>. QED  BY <2>1, <3>2, <3>3
  <2>3. ToldAt(dp, d.m, d.f, d.got \o b) \subseteq there
    BY DEF ToldAt
  <2>. HIDE DEF there
  <2>. QED  BY <2>2, <2>3, TurnsWider
<1>. HIDE DEF there
<1>9. Turns(Deed, C!Run(a, dp) \o C!GetStatus, {d}, there)
  BY <1>6, <1>7, <1>8, ItemSets, TurnsOn DEF C!GetStatus
<1>. QED  BY <1>9 DEF there, b

-----------------------------------------------------------------------------
(* What flash-image makes of the flash *)

LEMMA PageSplit ==
  ASSUME Sizes, NEW x \in Nat
  PROVE  x \div Page \in Nat /\ x % Page \in 0 .. Page - 1 /\ x = Page * (x \div Page) + (x % Page)
<1>1. Page \in Nat /\ Page >= 1
  BY SizeFacts
<1>2. x \div Page \in Int /\ x % Page \in 0 .. Page - 1 /\ x = Page * (x \div Page) + (x % Page)
  BY <1>1
<1>3. x \div Page >= 0
  BY <1>1
<1>. QED  BY <1>2, <1>3

LEMMA PageIs ==
  ASSUME Sizes, NEW q \in Nat, NEW r \in 0 .. Page - 1
  PROVE  (Page * q + r) \div Page = q /\ (Page * q + r) % Page = r
<1>1. Page \in Nat /\ Page >= 1
  BY SizeFacts
<1>2. Page * q \in Nat
  BY <1>1
<1>3. (Page * q + r) \div Page = q
  BY <1>1, <1>2
<1>4. (Page * q + r) % Page = r
  BY <1>1, <1>2
<1>. QED  BY <1>3, <1>4

\* An address is before the end of a page, or not, as its page is.
LEMMA PageBefore ==
  ASSUME Sizes, NEW x \in Nat, NEW q \in Nat
  PROVE  (x \div Page <= q <=> x < Page * (q + 1)) /\ (x \div Page < q <=> x < Page * q)
<1>. DEFINE p == x \div Page
            r == x % Page
<1>0. Page \in Nat /\ Page >= 1
  BY SizeFacts
<1>1. Page \in Nat /\ Page >= 1 /\ p \in Nat /\ r \in 0 .. Page - 1 /\ x = Page * p + r
  <2>1. p \in Nat /\ r \in 0 .. Page - 1 /\ x = Page * p + r
    BY PageSplit
  <2>. HIDE DEF p, r
  <2>. QED  BY <1>0, <2>1
<1>. HIDE DEF p, r
<1>2. ASSUME NEW k \in Nat PROVE p < k <=> x < Page * k
  <2>1. CASE p < k
    <3>1. Page * (p + 1) <= Page * k
      <4>1. k = (p + 1) + (k - (p + 1)) /\ k - (p + 1) \in Nat
        BY <1>1, <2>1
      <4>2. Page * (k - (p + 1)) \in Nat
        BY <1>1, <4>1
      <4>3. Page * k = Page * (p + 1) + Page * (k - (p + 1))
        BY <1>1, <4>1
      <4>4. Page * k \in Nat /\ Page * (p + 1) \in Nat
        BY <1>1
      <4>. QED  BY <4>2, <4>3, <4>4
    <3>2. Page * (p + 1) = Page * p + Page /\ Page * p \in Nat /\ Page * k \in Nat
      BY <1>1
    <3>. QED  BY <1>1, <2>1, <3>1, <3>2
  <2>2. CASE ~(p < k)
    <3>1. Page * k <= Page * p
      <4>1. p = k + (p - k) /\ p - k \in Nat
        BY <1>1, <2>2
      <4>2. Page * (p - k) \in Nat /\ Page * p = Page * k + Page * (p - k)
        BY <1>1, <4>1
      <4>3. Page * k \in Nat /\ Page * p \in Nat
        BY <1>1
      <4>. QED  BY <4>2, <4>3
    <3>2. Page * p \in Nat /\ Page * k \in Nat
      BY <1>1
    <3>. QED  BY <1>1, <2>2, <3>1, <3>2
  <2>. QED  BY <2>1, <2>2
<1>3. p < q + 1 <=> x < Page * (q + 1)
  BY <1>2
<1>4. p < q <=> x < Page * q
  BY <1>2
<1>. QED  BY <1>1, <1>3, <1>4 DEF p

\* Flash that holds an image up to address a, and is erased from there to l.
Section(m, l) == IF l = 0 THEN m.rww ELSE "closed"
Filled(m, image, a, l) ==
    [m EXCEPT !.flash = [x \in DOMAIN m.flash |->
        IF x < a THEN image[x] ELSE IF x < l THEN C!Blank ELSE m.flash[x]],
              !.rww = Section(m, l)]

LEMMA FlashDomain ==
  ASSUME Sizes, NEW m \in Memory
  PROVE  /\ DOMAIN m.flash = 0 .. FlashSize - 1 /\ FlashSize \in Nat
         /\ m.flash \in [0 .. FlashSize - 1 -> C!Byte]
         /\ m = [data |-> m.data, eeprom |-> m.eeprom, flash |-> m.flash, rww |-> m.rww]
<1>1. m.flash \in [0 .. FlashSize - 1 -> C!Byte] /\ m = [data |-> m.data, eeprom |-> m.eeprom, flash |-> m.flash, rww |-> m.rww]
  BY DEF Memory
<1>. QED  BY <1>1, SizeFacts

\* Memory with another flash, open or closed.
Reflashed(m, f, o) == [data |-> m.data, eeprom |-> m.eeprom, flash |-> f, rww |-> o]

Opened(m) == [m EXCEPT !.rww = "open"]

LEMMA OpenedFacts ==
  ASSUME NEW m \in Memory
  PROVE  Opened(m) \in Memory /\ Opened(m).rww = "open"
BY DEF Opened, Memory

LEMMA OpenedIs ==
  ASSUME NEW m, NEW f, NEW o
  PROVE  Opened(Reflashed(m, f, o)) = Reflashed(m, f, "open")
BY DEF Opened, Reflashed

LEMMA OtherFlash ==
  ASSUME NEW m, NEW f, NEW o, m = [data |-> m.data, eeprom |-> m.eeprom, flash |-> m.flash, rww |-> m.rww]
  PROVE  [m EXCEPT !.flash = f, !.rww = o] = Reflashed(m, f, o)
<1>1. PICK a, b, c, r : m = [data |-> a, eeprom |-> b, flash |-> c, rww |-> r]
  OBVIOUS
<1>2. [m EXCEPT !.flash = f, !.rww = o] = [data |-> a, eeprom |-> b, flash |-> f, rww |-> o]
  <2>1. [m EXCEPT !.flash = f, !.rww = o] = [[m EXCEPT !.flash = f] EXCEPT !.rww = o]
    OBVIOUS
  <2>2. [m EXCEPT !.flash = f] = [data |-> a, eeprom |-> b, flash |-> f, rww |-> r]
    BY <1>1
  <2>3. [[data |-> a, eeprom |-> b, flash |-> f, rww |-> r] EXCEPT !.rww = o]
          = [data |-> a, eeprom |-> b, flash |-> f, rww |-> o]
    OBVIOUS
  <2>. QED  BY <2>1, <2>2, <2>3
<1>3. m.data = a /\ m.eeprom = b
  BY <1>1
<1>. QED  BY <1>2, <1>3 DEF Reflashed

LEMMA FilledIs ==
  ASSUME Sizes, NEW m \in Memory, NEW image, NEW a, NEW l,
         NEW f, f = [x \in 0 .. FlashSize - 1 |->
                       IF x < a THEN image[x] ELSE IF x < l THEN C!Blank ELSE m.flash[x]]
  PROVE  Filled(m, image, a, l) = Reflashed(m, f, Section(m, l))
<1>1. DOMAIN m.flash = 0 .. FlashSize - 1 /\ m = [data |-> m.data, eeprom |-> m.eeprom, flash |-> m.flash, rww |-> m.rww]
  BY FlashDomain
<1>2. Filled(m, image, a, l) = [m EXCEPT !.flash = f, !.rww = Section(m, l)]
  BY <1>1 DEF Filled
<1>. HIDE DEF Memory
<1>3. [m EXCEPT !.flash = f, !.rww = Section(m, l)] = Reflashed(m, f, Section(m, l))
  BY <1>1, OtherFlash, Zenon
<1>. QED  BY <1>2, <1>3

LEMMA FilledFlash ==
  ASSUME Sizes, NEW m \in Memory, NEW image, NEW a, NEW l
  PROVE  Filled(m, image, a, l).flash = [x \in 0 .. FlashSize - 1 |->
              IF x < a THEN image[x] ELSE IF x < l THEN C!Blank ELSE m.flash[x]]
<1>1. PICK f : f = [x \in 0 .. FlashSize - 1 |->
                      IF x < a THEN image[x] ELSE IF x < l THEN C!Blank ELSE m.flash[x]]
  OBVIOUS
<1>2. Filled(m, image, a, l) = Reflashed(m, f, Section(m, l))
  BY <1>1, FilledIs
<1>3. Filled(m, image, a, l).flash = f
  BY <1>2 DEF Reflashed
<1>. QED  BY <1>1, <1>3

LEMMA FilledOpens ==
  ASSUME Sizes, NEW m \in Memory, NEW image, NEW a, NEW l
  PROVE  Opened(Filled(m, image, a, l)).rww = "open"
<1>1. PICK f : f = [x \in 0 .. FlashSize - 1 |->
                      IF x < a THEN image[x] ELSE IF x < l THEN C!Blank ELSE m.flash[x]]
  OBVIOUS
<1>2. Filled(m, image, a, l) = Reflashed(m, f, Section(m, l))
  BY <1>1, FilledIs
<1>3. Opened(Filled(m, image, a, l)) = Reflashed(m, f, "open")
  BY <1>2, OpenedIs
<1>. QED  BY <1>3 DEF Reflashed

LEMMA FilledNone ==
  ASSUME Sizes, NEW m \in Memory, NEW image
  PROVE  Filled(m, image, 0, 0) = m
<1>1. /\ DOMAIN m.flash = 0 .. FlashSize - 1 /\ m.flash \in [0 .. FlashSize - 1 -> C!Byte]
      /\ m = [data |-> m.data, eeprom |-> m.eeprom, flash |-> m.flash, rww |-> m.rww]
  BY FlashDomain
<1>2. \A x \in 0 .. FlashSize - 1 : ~(x < 0)
  OBVIOUS
<1>3. m.flash = [x \in 0 .. FlashSize - 1 |-> IF x < 0 THEN image[x] ELSE IF x < 0 THEN C!Blank ELSE m.flash[x]]
  BY <1>1, <1>2
<1>4. Filled(m, image, 0, 0) = Reflashed(m, m.flash, m.rww)
  <2>1. PICK f : f = m.flash
    OBVIOUS
  <2>2. f = [x \in 0 .. FlashSize - 1 |-> IF x < 0 THEN image[x] ELSE IF x < 0 THEN C!Blank ELSE m.flash[x]]
    BY <1>3, <2>1
  <2>3. Filled(m, image, 0, 0) = Reflashed(m, f, Section(m, 0))
    BY <2>2, FilledIs
  <2>4. Section(m, 0) = m.rww
    BY DEF Section
  <2>. QED  BY <2>1, <2>3, <2>4
<1>. QED  BY <1>1, <1>4 DEF Reflashed

\* The words of a chunk in the page buffer, as they arrive.
Held(image, a, n) ==
    [w \in 0 .. Page - 1 |-> IF w \in (a % Page) .. (a % Page) + n - 1 THEN image[a + (w - (a % Page))]
                                                                        ELSE C!Blank]

\* A chunk lies within a page, and a page within the flash.
LEMMA ChunkPlace ==
  ASSUME Sizes, NEW j \in Nat, Chunk * j < FlashSize
  PROVE  \E p \in Nat, o \in Nat :
            /\ Chunk * j = Page * p + o /\ (Chunk * j) \div Page = p /\ (Chunk * j) % Page = o
            /\ o + Chunk <= Page /\ Page * (p + 1) <= FlashSize
            /\ \E h \in Nat : o = 2 * h
<1>1. Page \in Nat /\ Page >= 1 /\ Chunk \in Nat /\ Chunk >= 1 /\ FlashSize \in Nat
  BY SizeFacts
<1>2. PICK k \in Nat : Page = Chunk * k
  <2>1. Page = Chunk * (Page \div Chunk) + (Page % Chunk) /\ Page \div Chunk \in Nat
    BY <1>1
  <2>2. Page = Chunk * (Page \div Chunk)
    BY <1>1, <2>1, DivideFacts
  <2>. QED  BY <2>1, <2>2
<1>3. PICK l \in Nat : FlashSize = Page * l
  <2>1. FlashSize = Page * (FlashSize \div Page) + (FlashSize % Page) /\ FlashSize \div Page \in Nat
    BY <1>1
  <2>2. FlashSize = Page * (FlashSize \div Page)
    BY <1>1, <2>1, DivideFacts
  <2>. QED  BY <2>1, <2>2
<1>4. PICK half \in Nat : Chunk = 2 * half
  <2>1. Chunk = 2 * (Chunk \div 2) /\ Chunk \div 2 \in Nat
    BY <1>1, DivideFacts
  <2>. QED  BY <2>1
<1>5. Chunk * j \in Nat
  BY <1>1
<1>6. PICK a \in Nat : a = Chunk * j
  BY <1>5
<1>7. PICK p \in Nat, o \in Nat : p = a \div Page /\ o = a % Page /\ o <= Page - 1 /\ a = Page * p + o
  <2>1. a \div Page \in Nat /\ a % Page \in 0 .. Page - 1 /\ a = Page * (a \div Page) + (a % Page)
    BY PageSplit
  <2>. QED  BY <1>1, <2>1
<1>8. PICK i \in Nat : i = j - k * p /\ o = Chunk * i
  <2>1. Page * p = Chunk * (k * p) /\ k * p \in Nat
    BY <1>1, <1>2
  <2>2. o = Chunk * (j - k * p)
    BY <1>1, <1>6, <1>7, <2>1
  <2>3. j - k * p >= 0
    <3>1. SUFFICES ASSUME j - k * p <= -1 PROVE FALSE
      BY <2>1
    <3>2. Chunk * (j - k * p) <= Chunk * (-1)
      BY <1>1, <2>1, <3>1
    <3>. QED  BY <1>1, <1>7, <2>2, <3>2
  <2>. QED  BY <2>1, <2>2, <2>3
<1>9. o + Chunk <= Page
  <2>1. i + 1 <= k
    <3>1. SUFFICES ASSUME k <= i PROVE FALSE
      OBVIOUS
    <3>2. i = k + (i - k) /\ i - k \in Nat
      BY <3>1
    <3>3. Chunk * i = Chunk * k + Chunk * (i - k) /\ Chunk * (i - k) \in Nat
      BY <1>1, <3>2
    <3>. QED  BY <1>1, <1>2, <1>7, <1>8, <3>3
  <2>2. k = (i + 1) + (k - (i + 1)) /\ k - (i + 1) \in Nat
    BY <2>1
  <2>3. Chunk * k = Chunk * (i + 1) + Chunk * (k - (i + 1)) /\ Chunk * (k - (i + 1)) \in Nat
    BY <1>1, <2>2
  <2>4. Chunk * (i + 1) = Chunk * i + Chunk
    BY <1>1
  <2>. QED  BY <1>1, <1>2, <1>8, <2>3, <2>4
<1>10. Page * (p + 1) <= FlashSize
  <2>1. a < Page * l
    BY <1>3, <1>6
  <2>2. p < l
    BY <1>7, <2>1, PageBefore
  <2>3. l = (p + 1) + (l - (p + 1)) /\ l - (p + 1) \in Nat
    BY <2>2
  <2>4. Page * l = Page * (p + 1) + Page * (l - (p + 1)) /\ Page * (l - (p + 1)) \in Nat
        /\ Page * (p + 1) \in Nat
    BY <1>1, <2>3
  <2>. QED  BY <1>1, <1>3, <2>4
<1>11. o = 2 * (half * i) /\ half * i \in Nat
  BY <1>4, <1>8
<1>. QED  BY <1>6, <1>7, <1>9, <1>10, <1>11

\* The end of the last page that the first n bytes of flash reach into.
Upto(n) == IF n = 0 THEN 0 ELSE Page * ((n - 1) \div Page + 1)

\* A chunk on page p, o bytes into it, of r bytes.
OnPage(a, p, o, r) ==
    /\ a \in Nat /\ p \in Nat /\ o \in Nat /\ r \in Nat
    /\ a = Page * p + o /\ a \div Page = p /\ a % Page = o /\ o + r <= Page
    /\ Page * (p + 1) <= FlashSize /\ \E h \in Nat : o = 2 * h

\* It ends within the flash.
LEMMA PageEnds ==
  ASSUME Sizes, NEW a, NEW p, NEW o, NEW r \in Nat, OnPage(a, p, o, r)
  PROVE  a + r <= FlashSize
<1>1. PICK x, e : x = Page * p /\ e = Page * (p + 1)
  OBVIOUS
<1>2. p \in Nat /\ o \in Nat /\ Page \in Nat /\ FlashSize \in Nat
  BY SizeFacts DEF OnPage
<1>3. x \in Nat /\ e = x + Page
  BY <1>1, <1>2
<1>4. a = x + o /\ o + r <= Page /\ e <= FlashSize
  BY <1>1 DEF OnPage
<1>5. x + Page <= FlashSize
  BY <1>3, <1>4
<1>6. \A i, j, k, l, n \in Nat : i + k <= n /\ j + l <= k => (i + j) + l <= n
  OBVIOUS
<1>. QED  BY <1>2, <1>3, <1>4, <1>5, <1>6

LEMMA UptoFacts ==
  ASSUME Sizes, NEW a, NEW p, NEW o, NEW r, OnPage(a, p, o, r)
  PROVE  /\ \A l \in 1 .. r : Upto(a + l) = Page * (p + 1)
         /\ Upto(a) = IF o = 0 THEN Page * p ELSE Page * (p + 1)
<1>. USE DEF OnPage
<1>1. Page \in Nat /\ Page >= 1
  BY SizeFacts
<1>2. ASSUME NEW l \in 1 .. r PROVE Upto(a + l) = Page * (p + 1)
  <2>1. o + l - 1 \in 0 .. Page - 1 /\ a + l # 0
    BY <1>1
  <2>2. (Page * p + (o + l - 1)) \div Page = p
    BY <2>1, PageIs
  <2>3. (a + l) - 1 = Page * p + (o + l - 1)
    BY <1>1
  <2>. QED  BY <2>1, <2>2, <2>3 DEF Upto
<1>3. ASSUME o = 0 PROVE Upto(a) = Page * p
  <2>1. CASE p = 0
    BY <1>1, <1>3, <2>1 DEF Upto
  <2>2. CASE p # 0
    <3>1. p - 1 \in Nat /\ Page - 1 \in 0 .. Page - 1
      BY <1>1, <2>2
    <3>2. (Page * (p - 1) + (Page - 1)) \div Page = p - 1
      BY <3>1, PageIs
    <3>3. a - 1 = Page * (p - 1) + (Page - 1)
      BY <1>1, <1>3, <3>1
    <3>4. a # 0
      <4>1. Page * (p - 1) \in Nat
        BY <1>1, <3>1
      <4>. QED  BY <1>1, <3>3, <4>1
    <3>5. Upto(a) = Page * ((p - 1) + 1)
      BY <3>2, <3>3, <3>4 DEF Upto
    <3>6. (p - 1) + 1 = p
      BY <3>1
    <3>. QED  BY <3>5, <3>6, Zenon
  <2>. QED  BY <2>1, <2>2
<1>4. ASSUME o # 0 PROVE Upto(a) = Page * (p + 1)
  <2>1. o - 1 \in 0 .. Page - 1
    BY <1>1, <1>4
  <2>2. (Page * p + (o - 1)) \div Page = p
    BY <2>1, PageIs
  <2>3. a - 1 = Page * p + (o - 1) /\ a # 0
    <3>1. Page * p \in Nat
      BY <1>1
    <3>. QED  BY <1>1, <1>4, <3>1
  <2>4. Upto(a) = Page * ((a - 1) \div Page + 1)
    BY <2>3 DEF Upto
  <2>. QED  BY <2>2, <2>3, <2>4, Zenon
<1>. QED  BY <1>2, <1>3, <1>4

\* The bytes of a page.
LEMMA PageBytes ==
  ASSUME Sizes, NEW a, NEW p, NEW o, NEW r, OnPage(a, p, o, r), NEW x \in 0 .. FlashSize - 1
  PROVE  x \in C!PageOf(a) <=> Page * p <= x /\ x < Page * (p + 1)
<1>1. x \in Nat /\ p \in Nat /\ a \div Page = p /\ x \div Page \in Nat
  BY SizeFacts, PageSplit DEF OnPage
<1>2. x \in C!PageOf(a) <=> x \div Page = p
  BY <1>1 DEF C!PageOf
<1>3. (x \div Page <= p <=> x < Page * (p + 1)) /\ (x \div Page < p <=> x < Page * p)
  BY <1>1, PageBefore
<1>4. Page * p \in Nat /\ Page * (p + 1) \in Nat
  BY <1>1, SizeFacts
<1>. QED  BY <1>1, <1>2, <1>3, <1>4

LEMMA ReflashedFacts ==
  ASSUME NEW m, NEW f, NEW o, NEW e, e = Reflashed(m, f, o)
  PROVE  /\ e.flash = f /\ e.data = m.data /\ e.eeprom = m.eeprom
         /\ e = [data |-> e.data, eeprom |-> e.eeprom, flash |-> e.flash, rww |-> e.rww]
BY DEF Reflashed

LEMMA BothFacts ==
  ASSUME NEW b \in 0 .. 255
  PROVE  C!Both(255, b) = b /\ C!Both(b, 255) = b
BY DEF C!Both

\* A page is erased.
LEMMA EraseFills ==
  ASSUME Sizes, NEW m \in Memory, NEW image, NEW a, NEW p, NEW o, NEW r, OnPage(a, p, o, r), o = 0
  PROVE  NewMemory(23, <<0, 0, 3>>, a, Filled(m, image, a, Page * p), C!Erased)
            = Filled(m, image, a, Page * (p + 1))
<1>. DEFINE e == Filled(m, image, a, Page * p)
            dom == 0 .. FlashSize - 1
<1>1. a \in Nat /\ p \in Nat /\ a = Page * p /\ Page \in Nat /\ FlashSize \in Nat /\ Page >= 1
  BY SizeFacts DEF OnPage
<1>2. PICK f : f = [x \in dom |-> IF x < a THEN image[x] ELSE IF x < Page * p THEN C!Blank ELSE m.flash[x]]
  OBVIOUS
<1>3. PICK g : g = [x \in dom |-> IF x < a THEN image[x] ELSE IF x < Page * (p + 1) THEN C!Blank ELSE m.flash[x]]
  OBVIOUS
<1>4. e = Reflashed(m, f, Section(m, Page * p)) /\ Filled(m, image, a, Page * (p + 1)) = Reflashed(m, g, "closed")
  <2>1. Section(m, Page * (p + 1)) = "closed"
    BY <1>1 DEF Section
  <2>. QED  BY <1>2, <1>3, <2>1, FilledIs
<1>5. e.flash = f /\ DOMAIN f = dom /\ e = [data |-> e.data, eeprom |-> e.eeprom, flash |-> e.flash, rww |-> e.rww]
      /\ e.data = m.data /\ e.eeprom = m.eeprom
  <2>1. DOMAIN f = dom
    BY <1>2
  <2>. HIDE DEF e
  <2>. QED  BY <1>4, <2>1, ReflashedFacts
<1>. HIDE DEF e
<1>6. PICK k : k = [x \in dom |-> IF x \in C!PageOf(a) THEN C!Blank ELSE f[x]]
  OBVIOUS
<1>7. NewMemory(23, <<0, 0, 3>>, a, e, C!Erased)
        = [e EXCEPT !.flash = [x \in dom |-> IF x \in C!PageOf(a) THEN C!Blank ELSE e.flash[x]],
                    !.rww = "closed"]
  BY DEF NewMemory
<1>8. NewMemory(23, <<0, 0, 3>>, a, e, C!Erased) = [e EXCEPT !.flash = k, !.rww = "closed"]
  BY <1>5, <1>6, <1>7
<1>9. [e EXCEPT !.flash = k, !.rww = "closed"] = Reflashed(e, k, "closed")
  BY <1>5, OtherFlash, Zenon
<1>10. k = g
  <2>1. ASSUME NEW x \in dom
        PROVE  (IF x \in C!PageOf(a) THEN C!Blank ELSE f[x])
                 = IF x < a THEN image[x] ELSE IF x < Page * (p + 1) THEN C!Blank ELSE m.flash[x]
    <3>1. x \in C!PageOf(a) <=> Page * p <= x /\ x < Page * (p + 1)
      BY PageBytes
    <3>2. f[x] = IF x < a THEN image[x] ELSE IF x < Page * p THEN C!Blank ELSE m.flash[x]
      BY <1>2
    <3>3. x \in Nat /\ Page * (p + 1) \in Nat /\ Page * p \in Nat /\ Page * p <= Page * (p + 1)
      BY <1>1
    <3>. QED  BY <1>1, <3>1, <3>2, <3>3
  <2>. QED  BY <1>3, <1>6, <2>1
<1>11. Reflashed(e, k, "closed") = Reflashed(m, g, "closed")
  BY <1>5, <1>10 DEF Reflashed
<1>. QED  BY <1>4, <1>8, <1>9, <1>11 DEF e

\* The page buffer is filled, word by word.
LEMMA HeldNone ==
  ASSUME Sizes, NEW image, NEW a \in Nat
  PROVE  Held(image, a, 0) = C!Erased
<1>1. a % Page \in Nat
  <2>1. a % Page \in 0 .. Page - 1
    BY PageSplit
  <2>2. Page \in Nat
    BY SizeFacts
  <2>. QED  BY <2>1, <2>2
<1>2. (a % Page) .. (a % Page) + 0 - 1 = {}
  BY <1>1
<1>. QED  BY <1>2 DEF Held, C!Erased

LEMMA HeldMore ==
  ASSUME Sizes, NEW image \in [0 .. FlashSize - 1 -> C!Byte], NEW a, NEW p, NEW o, NEW r, OnPage(a, p, o, r),
         NEW i \in Nat, 2 * (i + 1) <= r
  PROVE  NewBuffer(23, <<image[a + 2 * i], image[a + 2 * i + 1], 1>>, a + 2 * i, Held(image, a, 2 * i))
            = Held(image, a, 2 * (i + 1))
<1>1. Page \in Nat /\ Page >= 1 /\ a \in Nat /\ o \in Nat /\ p \in Nat /\ r \in Nat /\ o + r <= Page
      /\ a = Page * p + o /\ a % Page = o
  BY SizeFacts DEF OnPage
<1>2. PICK h \in Nat : o = 2 * h
  BY DEF OnPage
<1>3. (a + 2 * i) % Page = o + 2 * i
  <2>1. o + 2 * i \in 0 .. Page - 1
    BY <1>1
  <2>2. (Page * p + (o + 2 * i)) % Page = o + 2 * i
    BY <1>1, <2>1, PageIs
  <2>3. a + 2 * i = Page * p + (o + 2 * i)
    BY <1>1
  <2>. QED  BY <2>2, <2>3
<1>4. 2 * (((a + 2 * i) % Page) \div 2) = o + 2 * i
  <2>1. o + 2 * i = 2 * (h + i) /\ h + i \in Nat
    BY <1>2
  <2>2. (2 * (h + i)) \div 2 = h + i
    BY <2>1
  <2>. QED  BY <1>3, <2>1, <2>2
<1>. DEFINE lo == image[a + 2 * i]
            hi == image[a + 2 * i + 1]
            w == o + 2 * i
            f == Held(image, a, 2 * i)
            g == Held(image, a, 2 * (i + 1))
            dom == 0 .. Page - 1
<1>5. NewBuffer(23, <<lo, hi, 1>>, a + 2 * i, f) = [f EXCEPT ![w] = lo, ![w + 1] = hi]
  <2>. HIDE DEF f, lo, hi, w
  <2>1. PICK v : v = 2 * (((a + 2 * i) % Page) \div 2)
    OBVIOUS
  <2>2. NewBuffer(23, <<lo, hi, 1>>, a + 2 * i, f) = [f EXCEPT ![v] = lo, ![v + 1] = hi]
    BY <2>1 DEF NewBuffer
  <2>3. v = w
    BY <1>4, <2>1 DEF w
  <2>. QED  BY <2>2, <2>3
<1>6. f = [x \in dom |-> IF x \in o .. o + 2 * i - 1 THEN image[a + (x - o)] ELSE C!Blank]
  BY <1>1 DEF Held
<1>7. g = [x \in dom |-> IF x \in o .. o + 2 * (i + 1) - 1 THEN image[a + (x - o)] ELSE C!Blank]
  BY <1>1 DEF Held
<1>8. ASSUME NEW x \in dom PROVE [f EXCEPT ![w] = lo, ![w + 1] = hi][x] = g[x]
  <2>1. x \in Nat /\ w \in dom /\ w + 1 \in dom
    BY <1>1
  <2>2. CASE x = w
    <3>1. a + (x - o) = a + 2 * i /\ x \in o .. o + 2 * (i + 1) - 1
      BY <1>1, <2>2
    <3>2. g[x] = lo
      BY <1>7, <3>1
    <3>. HIDE DEF g, lo, hi, f
    <3>. QED  BY <1>6, <2>1, <2>2, <3>2
  <2>3. CASE x = w + 1
    <3>1. a + (x - o) = a + 2 * i + 1 /\ x \in o .. o + 2 * (i + 1) - 1
      BY <1>1, <2>3
    <3>2. g[x] = hi
      BY <1>7, <3>1
    <3>. HIDE DEF g, lo, hi, f
    <3>. QED  BY <1>6, <2>1, <2>3, <3>2
  <2>4. CASE x # w /\ x # w + 1
    <3>1. x \in o .. o + 2 * i - 1 <=> x \in o .. o + 2 * (i + 1) - 1
      BY <1>1, <2>1, <2>4
    <3>2. f[x] = g[x]
      BY <1>6, <1>7, <3>1
    <3>. HIDE DEF g, lo, hi, f
    <3>. QED  BY <1>6, <2>1, <2>4, <3>2
  <2>. QED  BY <2>2, <2>3, <2>4
<1>9. [f EXCEPT ![w] = lo, ![w + 1] = hi] = g
  <2>. HIDE DEF lo, hi, w
  <2>. QED  BY <1>6, <1>7, <1>8
<1>. QED  BY <1>5, <1>9

\* A page is programmed with what the buffer holds.
Bytes(image) == \A x \in 0 .. FlashSize - 1 : image[x] \in 0 .. 255

LEMMA ProgramFills ==
  ASSUME Sizes, NEW m \in Memory, NEW image, Bytes(image),
         NEW a, NEW p, NEW o, NEW r, OnPage(a, p, o, r)
  PROVE  NewMemory(23, <<0, 0, 5>>, a, Filled(m, image, a, Page * (p + 1)), Held(image, a, r))
            = Filled(m, image, a + r, Page * (p + 1))
<1>. DEFINE e == Filled(m, image, a, Page * (p + 1))
            dom == 0 .. FlashSize - 1
            b == Held(image, a, r)
<1>1. a \in Nat /\ p \in Nat /\ o \in Nat /\ r \in Nat /\ a = Page * p + o /\ a % Page = o /\ o + r <= Page
      /\ Page \in Nat /\ FlashSize \in Nat /\ Page >= 1
  BY SizeFacts DEF OnPage
<1>2. PICK f : f = [x \in dom |-> IF x < a THEN image[x] ELSE IF x < Page * (p + 1) THEN C!Blank ELSE m.flash[x]]
  OBVIOUS
<1>3. PICK g : g = [x \in dom |-> IF x < a + r THEN image[x]
                                  ELSE IF x < Page * (p + 1) THEN C!Blank ELSE m.flash[x]]
  OBVIOUS
<1>0. Section(m, Page * (p + 1)) = "closed"
  <2>1. Page * (p + 1) # 0
    BY <1>1
  <2>. QED  BY <2>1 DEF Section
<1>4. e = Reflashed(m, f, "closed") /\ Filled(m, image, a + r, Page * (p + 1)) = Reflashed(m, g, "closed")
  <2>1. e = Reflashed(m, f, "closed")
    BY <1>0, <1>2, FilledIs
  <2>2. Filled(m, image, a + r, Page * (p + 1)) = Reflashed(m, g, "closed")
    <3>1. PICK a2 : a2 = a + r
      OBVIOUS
    <3>2. g = [x \in dom |-> IF x < a2 THEN image[x] ELSE IF x < Page * (p + 1) THEN C!Blank ELSE m.flash[x]]
      BY <1>3, <3>1
    <3>3. Filled(m, image, a2, Page * (p + 1)) = Reflashed(m, g, "closed")
      BY <1>0, <3>2, FilledIs
    <3>. QED  BY <3>1, <3>3
  <2>. QED  BY <2>1, <2>2
<1>5. e.flash = f /\ DOMAIN f = dom /\ e = [data |-> e.data, eeprom |-> e.eeprom, flash |-> e.flash, rww |-> e.rww]
      /\ e.data = m.data /\ e.eeprom = m.eeprom
  <2>1. DOMAIN f = dom
    BY <1>2
  <2>. HIDE DEF e
  <2>. QED  BY <1>4, <2>1, ReflashedFacts
<1>. HIDE DEF e
<1>6. PICK k : k = [x \in dom |-> IF x \in C!PageOf(a) THEN C!Both(f[x], b[x % Page]) ELSE f[x]]
  OBVIOUS
<1>. HIDE DEF b
<1>7. NewMemory(23, <<0, 0, 5>>, a, e, b)
        = [e EXCEPT !.flash = [x \in dom |-> IF x \in C!PageOf(a) THEN C!Both(e.flash[x], b[x % Page])
                                                            ELSE e.flash[x]],
                    !.rww = "closed"]
  BY DEF NewMemory
<1>8. NewMemory(23, <<0, 0, 5>>, a, e, b) = [e EXCEPT !.flash = k, !.rww = "closed"]
  BY <1>5, <1>6, <1>7
<1>9. [e EXCEPT !.flash = k, !.rww = "closed"] = Reflashed(e, k, "closed")
  BY <1>5, OtherFlash, Zenon
<1>10. k = g
  <2>1. ASSUME NEW x \in dom
        PROVE  (IF x \in C!PageOf(a) THEN C!Both(f[x], b[x % Page]) ELSE f[x])
                 = IF x < a + r THEN image[x] ELSE IF x < Page * (p + 1) THEN C!Blank ELSE m.flash[x]
    <3>1. x \in C!PageOf(a) <=> Page * p <= x /\ x < Page * (p + 1)
      BY PageBytes
    <3>2. f[x] = IF x < a THEN image[x] ELSE IF x < Page * (p + 1) THEN C!Blank ELSE m.flash[x]
      BY <1>2
    <3>3. x \in Nat /\ Page * (p + 1) = Page * p + Page /\ Page * p \in Nat
      BY <1>1
    <3>4. image[x] \in 0 .. 255 /\ C!Blank = 255
      BY DEF Bytes, C!Blank
    <3>5. CASE x \in C!PageOf(a)
      <4>1. x - Page * p \in 0 .. Page - 1 /\ x = Page * p + (x - Page * p)
        BY <1>1, <3>1, <3>3, <3>5
      <4>2. x % Page = x - Page * p
        <5>1. (Page * p + (x - Page * p)) % Page = x - Page * p
          BY <1>1, <4>1, PageIs
        <5>. QED  BY <4>1, <5>1
      <4>3. b[x % Page] = IF x % Page \in o .. o + r - 1 THEN image[a + ((x % Page) - o)] ELSE C!Blank
        BY <1>1, <4>1, <4>2 DEF b, Held
      <4>4. x % Page \in o .. o + r - 1 <=> a <= x /\ x < a + r
        BY <1>1, <3>3, <4>2
      <4>5. a + ((x % Page) - o) = x
        BY <1>1, <3>3, <4>2
      <4>6. CASE a <= x /\ x < a + r
        <5>1. b[x % Page] = image[x] /\ f[x] = 255
          BY <1>1, <3>1, <3>2, <3>3, <3>4, <3>5, <4>3, <4>4, <4>5, <4>6
        <5>2. C!Both(f[x], b[x % Page]) = image[x]
          <6>1. PICK v \in 0 .. 255 : v = image[x]
            BY <3>4
          <6>2. C!Both(255, v) = v
            BY BothFacts
          <6>. QED  BY <5>1, <6>1, <6>2
        <5>. QED  BY <3>5, <4>6, <5>2
      <4>7. CASE ~(a <= x /\ x < a + r)
        <5>1. b[x % Page] = 255 /\ f[x] \in 0 .. 255
          BY <1>1, <3>1, <3>2, <3>3, <3>4, <3>5, <4>3, <4>4, <4>7
        <5>2. C!Both(f[x], b[x % Page]) = f[x]
          <6>1. PICK v \in 0 .. 255 : v = f[x]
            BY <5>1
          <6>2. C!Both(v, 255) = v
            BY BothFacts
          <6>. QED  BY <5>1, <6>1, <6>2
        <5>3. f[x] = IF x < a + r THEN image[x] ELSE IF x < Page * (p + 1) THEN C!Blank ELSE m.flash[x]
          BY <1>1, <3>1, <3>2, <3>3, <3>5, <4>7
        <5>. QED  BY <3>5, <5>2, <5>3
      <4>. QED  BY <4>6, <4>7
    <3>6. CASE x \notin C!PageOf(a)
      <4>1. x < a <=> x < a + r
        BY <1>1, <3>1, <3>3, <3>6
      <4>. QED  BY <3>2, <3>6, <4>1
    <3>. QED  BY <3>5, <3>6
  <2>. QED  BY <1>3, <1>6, <2>1
<1>11. Reflashed(e, k, "closed") = Reflashed(m, g, "closed")
  BY <1>5, <1>10 DEF Reflashed
<1>. QED  BY <1>4, <1>8, <1>9, <1>11 DEF e, b

\* spm at the address that has been set.
LEMMA TurnsSpm ==
  ASSUME Sizes, NEW a \in C!Address, NEW c \in C!Byte, NEW d \in Quiet,
         NEW m, m = NewMemory(23, <<0, 0, c>>, a, d.m, d.f), NEW f, f = NewBuffer(23, <<0, 0, c>>, a, d.f)
  PROVE  Turns(Deed, C!SetAddr(a) \o C!CxWriteFlash(0, 0, c), {d}, Peers(m, f))
<1>1. Turns(Deed, C!SetAddr(a), {d}, ToldAt(a, d.m, d.f, d.got))
  BY TurnsSetAddr
<1>2. 0 \in C!Byte
  BY ByteFacts
<1>3. ASSUME NEW e \in ToldAt(a, d.m, d.f, d.got) PROVE Turns(Deed, C!CxWriteFlash(0, 0, c), {e}, Peers(m, f))
  <2>1. e \in Quiet /\ e.z = a /\ e.m = d.m /\ e.f = d.f
    BY DEF ToldAt, Told, Peers
  <2>2. m = NewMemory(23, <<0, 0, c>>, e.z, e.m, e.f) /\ f = NewBuffer(23, <<0, 0, c>>, e.z, e.f)
    BY <2>1
  <2>3. Turns(Deed, C!CxWriteFlash(0, 0, c), {e}, PeersAt(e.z + 2, m, f))
    BY <1>2, <2>1, <2>2, TurnsWriteFlash
  <2>4. PeersAt(e.z + 2, m, f) \subseteq Peers(m, f)
    BY DEF PeersAt
  <2>. QED  BY <2>3, <2>4, TurnsWider
<1>4. C!CxWriteFlash(0, 0, c) \in Seq(Deed)
  <2>1. Whole(C!CxWriteFlash(0, 0, c))
    BY <1>2, WholeCxWriteFlash
  <2>. QED  BY <2>1 DEF Whole
<1>. QED  BY <1>1, <1>3, <1>4, ItemSets, TurnsOn

LEMMA TurnsErase ==
  ASSUME Sizes, NEW a \in C!Address, NEW p, NEW o, NEW r, OnPage(a, p, o, r), o = 0,
         NEW m \in Memory, NEW image, NEW d \in Peers(Filled(m, image, a, Page * p), C!Erased)
  PROVE  Turns(Deed, C!Erase(a), {d}, Peers(Filled(m, image, a, Page * (p + 1)), C!Erased))
<1>1. d \in Quiet /\ d.m = Filled(m, image, a, Page * p) /\ d.f = C!Erased
  BY DEF Peers
<1>2. 3 \in C!Byte
  BY SmallBytes
<1>3. PICK e : e = Filled(m, image, a, Page * (p + 1))
  OBVIOUS
<1>4. NewMemory(23, <<0, 0, 3>>, a, Filled(m, image, a, Page * p), C!Erased) = Filled(m, image, a, Page * (p + 1))
  BY EraseFills
<1>5. e = NewMemory(23, <<0, 0, 3>>, a, d.m, d.f)
  BY <1>1, <1>3, <1>4
<1>6. C!Erased = NewBuffer(23, <<0, 0, 3>>, a, d.f)
  BY <1>1 DEF NewBuffer
<1>7. Turns(Deed, C!SetAddr(a) \o C!CxWriteFlash(0, 0, 3), {d}, Peers(e, C!Erased))
  BY <1>1, <1>2, <1>5, <1>6, TurnsSpm
<1>. QED  BY <1>3, <1>7 DEF C!Erase

\* Where the bytes of a word are.
LEMMA WordPlaces ==
  ASSUME NEW a \in Nat, NEW n \in Nat, NEW k \in Nat, NEW j \in Nat, NEW i, i = j + 1, j + 1 <= k,
         a + 2 * k <= n
  PROVE  /\ a + 2 * i - 2 = a + 2 * j /\ a + 2 * i - 1 = a + 2 * j + 1
         /\ a + 2 * j \in 0 .. n - 1 /\ a + 2 * j + 1 \in 0 .. n - 1
OBVIOUS

\* The words of a chunk, into the page buffer.
LEMMA TurnsHold ==
  ASSUME Sizes, NEW image \in [0 .. FlashSize - 1 -> C!Byte], NEW a \in C!Address,
         NEW p, NEW o, NEW k \in Nat, OnPage(a, p, o, 2 * k), NEW m,
         NEW ss, ss = [i \in 1 .. k |-> ss[i]],
         \A i \in 1 .. k : ss[i] = C!CxWriteFlash(image[a + 2 * i - 2], image[a + 2 * i - 1], 1)
  PROVE  Turns(Deed, C!FlattenSeq(ss), PeersAt(a, m, C!Erased), Peers(m, Held(image, a, 2 * k)))
<1>. DEFINE G == [i \in 0 .. k |-> PeersAt(a + 2 * i, m, Held(image, a, 2 * i))]
<1>1. a \in Nat /\ FlashSize \in Nat /\ 2 * k \in Nat
  BY SizeFacts DEF OnPage
<1>2. a + 2 * k <= FlashSize
  BY <1>1, PageEnds
<1>3. ASSUME NEW i \in 1 .. k PROVE Turns(Deed, ss[i], G[i - 1], G[i])
  <2>. DEFINE lo == image[a + 2 * i - 2]
              hi == image[a + 2 * i - 1]
  <2>1. PICK j \in Nat : j = i - 1 /\ j \in 0 .. k /\ i \in 0 .. k /\ i = j + 1 /\ 2 * (j + 1) <= 2 * k
    OBVIOUS
  <2>2. G[i - 1] = PeersAt(a + 2 * j, m, Held(image, a, 2 * j))
        /\ G[i] = PeersAt(a + 2 * (j + 1), m, Held(image, a, 2 * (j + 1)))
    BY <2>1
  <2>. HIDE DEF G
  <2>3. a + 2 * i - 2 = a + 2 * j /\ a + 2 * i - 1 = a + 2 * j + 1
        /\ a + 2 * j \in 0 .. FlashSize - 1 /\ a + 2 * j + 1 \in 0 .. FlashSize - 1
    <3>1. a \in Nat /\ FlashSize \in Nat /\ i = j + 1 /\ j + 1 <= k
      BY <1>1, <2>1
    <3>. QED  BY <1>2, <3>1, WordPlaces
  <2>4. lo = image[a + 2 * j] /\ hi = image[a + 2 * j + 1]
    BY <2>3
  <2>5. lo \in C!Byte /\ hi \in C!Byte /\ 1 \in C!Byte
    BY <2>3, <2>4, SmallBytes
  <2>6. ss[i] = C!CxWriteFlash(lo, hi, 1)
    OBVIOUS
  <2>7. NewBuffer(23, <<image[a + 2 * j], image[a + 2 * j + 1], 1>>, a + 2 * j, Held(image, a, 2 * j))
          = Held(image, a, 2 * (j + 1))
    BY <2>1, HeldMore
  <2>. HIDE DEF lo, hi
  <2>8. ASSUME NEW e \in G[i - 1] PROVE \E q \in G[i] : Turns(Deed, ss[i], {e}, {q})
    <3>1. e \in Quiet /\ e.z = a + 2 * j /\ e.m = m /\ e.f = Held(image, a, 2 * j)
      BY <2>2 DEF PeersAt, Peers
    <3>2. PICK f : f = Held(image, a, 2 * (j + 1))
      OBVIOUS
    <3>3. f = NewBuffer(23, <<lo, hi, 1>>, e.z, e.f)
      BY <2>4, <2>7, <3>1, <3>2
    <3>4. m = NewMemory(23, <<lo, hi, 1>>, e.z, e.m, e.f)
      BY <3>1 DEF NewMemory
    <3>5. Turns(Deed, C!CxWriteFlash(lo, hi, 1), {e}, PeersAt(e.z + 2, m, f))
      <4>1. PICK one \in C!Byte : one = 1
        BY <2>5
      <4>2. PICK l \in C!Byte, g \in C!Byte : l = lo /\ g = hi
        BY <2>5
      <4>3. m = NewMemory(23, <<l, g, one>>, e.z, e.m, e.f) /\ f = NewBuffer(23, <<l, g, one>>, e.z, e.f)
        BY <3>3, <3>4, <4>1, <4>2
      <4>4. e \in Quiet
        BY <3>1
      <4>5. Turns(Deed, C!CxWriteFlash(l, g, one), {e}, PeersAt(e.z + 2, m, f))
        BY <4>3, <4>4, TurnsWriteFlash
      <4>. QED  BY <4>1, <4>2, <4>5
    <3>6. e.z + 2 = a + 2 * (j + 1)
      <4>1. a \in Nat
        BY <1>1
      <4>. QED  BY <3>1, <4>1
    <3>7. Turns(Deed, ss[i], {e}, G[i])
      BY <2>2, <2>6, <3>2, <3>5, <3>6
    <3>8. PICK q \in G[i] : Leads(Idle(e), ss[i], Idle(q))
      BY <3>7 DEF Turns
    <3>. QED  BY <3>7, <3>8 DEF Turns
  <2>9. ss[i] \in Seq(Deed)
    <3>1. Whole(C!CxWriteFlash(lo, hi, 1))
      BY <2>5, WholeCxWriteFlash
    <3>. QED  BY <2>6, <3>1 DEF Whole
  <2>. QED  BY <2>8, <2>9, TurnsEach
<1>4. G[0] = PeersAt(a, m, C!Erased)
  <2>1. a + 2 * 0 = a /\ 2 * 0 = 0 /\ 0 \in 0 .. k
    BY <1>1
  <2>2. Held(image, a, 0) = C!Erased
    BY <1>1, HeldNone
  <2>. QED  BY <2>1, <2>2
<1>5. G[k] \subseteq Peers(m, Held(image, a, 2 * k))
  <2>1. k \in 0 .. k
    OBVIOUS
  <2>. QED  BY <2>1 DEF PeersAt
<1>. HIDE DEF G
<1>6. Turns(Deed, C!FlattenSeq(ss), G[0], G[k])
  BY <1>3, ItemSets, TurnsFlat
<1>. QED  BY <1>4, <1>5, <1>6, TurnsWider

\* program-chunk
LEMMA TurnsProgram ==
  ASSUME Sizes, NEW image \in [0 .. FlashSize - 1 -> C!Byte], NEW a \in C!Address, NEW n \in Nat,
         NEW p, NEW o, OnPage(a, p, o, C!Rounded(n)),
         NEW m \in Memory, NEW d \in Peers(Filled(m, image, a, Page * (p + 1)), C!Erased)
  PROVE  Turns(Deed, C!Program(image, a, n), {d},
               Peers(Filled(m, image, a + C!Rounded(n), Page * (p + 1)), C!Erased))
<1>. DEFINE k == C!Rounded(n) \div 2
            ss == [i \in 1 .. k |-> C!CxWriteFlash(image[a + 2 * i - 2], image[a + 2 * i - 1], 1)]
            s == C!FlattenSeq(ss)
            t == C!SetAddr(a) \o C!CxWriteFlash(0, 0, 5)
<1>1. k \in Nat /\ C!Rounded(n) = 2 * k
  BY RoundedFacts
<1>2. ss = [i \in 1 .. k |-> ss[i]]
      /\ \A i \in 1 .. k : ss[i] = C!CxWriteFlash(image[a + 2 * i - 2], image[a + 2 * i - 1], 1)
  OBVIOUS
<1>3. C!Program(image, a, n) = C!SetAddr(a) \o s \o C!SetAddr(a) \o C!CxWriteFlash(0, 0, 5)
  BY DEF C!Program
<1>. HIDE DEF k, ss
<1>4. PICK b : b = Filled(m, image, a, Page * (p + 1))
  OBVIOUS
<1>5. PICK e : e = Filled(m, image, a + C!Rounded(n), Page * (p + 1))
  OBVIOUS
<1>6. d \in Quiet /\ d.m = b /\ d.f = C!Erased
  BY <1>4 DEF Peers
<1>7. Turns(Deed, C!SetAddr(a), {d}, PeersAt(a, b, C!Erased))
  <2>1. Turns(Deed, C!SetAddr(a), {d}, ToldAt(a, d.m, d.f, d.got))
    BY <1>6, TurnsSetAddr
  <2>2. ToldAt(a, d.m, d.f, d.got) \subseteq PeersAt(a, b, C!Erased)
    BY <1>6 DEF ToldAt, Told, PeersAt
  <2>. QED  BY <2>1, <2>2, TurnsWider
<1>8. OnPage(a, p, o, 2 * k)
  BY <1>1
<1>9. Turns(Deed, s, PeersAt(a, b, C!Erased), Peers(b, Held(image, a, 2 * k)))
  BY <1>1, <1>2, <1>8, TurnsHold
<1>10. Bytes(image)
  BY DEF Bytes, C!Byte
<1>11. ASSUME NEW g \in Peers(b, Held(image, a, 2 * k)) PROVE Turns(Deed, t, {g}, Peers(e, C!Erased))
  <2>1. g \in Quiet /\ g.m = b /\ g.f = Held(image, a, 2 * k)
    BY DEF Peers
  <2>2. NewMemory(23, <<0, 0, 5>>, a, Filled(m, image, a, Page * (p + 1)), Held(image, a, C!Rounded(n)))
          = Filled(m, image, a + C!Rounded(n), Page * (p + 1))
    <3>1. PICK r : r = C!Rounded(n)
      OBVIOUS
    <3>2. OnPage(a, p, o, r)
      BY <3>1
    <3>3. NewMemory(23, <<0, 0, 5>>, a, Filled(m, image, a, Page * (p + 1)), Held(image, a, r))
            = Filled(m, image, a + r, Page * (p + 1))
      BY <1>10, <3>2, ProgramFills
    <3>. QED  BY <3>1, <3>3
  <2>3. e = NewMemory(23, <<0, 0, 5>>, a, g.m, g.f)
    BY <1>1, <1>4, <1>5, <2>1, <2>2
  <2>4. C!Erased = NewBuffer(23, <<0, 0, 5>>, a, g.f)
    BY DEF NewBuffer
  <2>5. 5 \in C!Byte
    BY SmallBytes
  <2>. QED  BY <2>1, <2>3, <2>4, <2>5, TurnsSpm
<1>12. Turns(Deed, C!SetAddr(a) \o s, {d}, Peers(b, Held(image, a, 2 * k)))
  <2>. HIDE DEF s
  <2>. QED  BY <1>7, <1>9, ItemSets, TurnsThen
<1>13. t \in Seq(Deed) /\ C!SetAddr(a) \in Seq(Item) /\ C!CxWriteFlash(0, 0, 5) \in Seq(Item) /\ s \in Seq(Item)
  <2>1. Whole(C!SetAddr(a)) /\ Whole(C!CxWriteFlash(0, 0, 5))
    BY SmallBytes, WholeSetAddr, WholeCxWriteFlash
  <2>2. Whole(t)
    BY <2>1, WholeThen
  <2>3. s \in Seq(Deed)
    BY <1>9 DEF Turns
  <2>4. s \in Seq(Item)
    BY <2>3, ItemSets
  <2>. HIDE DEF t, s
  <2>. QED  BY <2>1, <2>2, <2>4 DEF Whole
<1>14. Turns(Deed, (C!SetAddr(a) \o s) \o t, {d}, Peers(e, C!Erased))
  <2>. HIDE DEF s, t
  <2>. QED  BY <1>11, <1>12, <1>13, ItemSets, TurnsOn
<1>15. C!Program(image, a, n) = (C!SetAddr(a) \o s) \o t
  <2>. HIDE DEF s
  <2>1. \A s1, s2, s3 \in Seq(Item) : (s1 \o s2) \o s3 = s1 \o (s2 \o s3)
    OBVIOUS
  <2>2. C!SetAddr(a) \o s \in Seq(Item)
    BY <1>13
  <2>. QED  BY <1>3, <1>13, <2>1, <2>2
<1>. QED  BY <1>5, <1>14, <1>15

LEMMA ChunkEven == ASSUME Sizes PROVE \E h \in Nat : Chunk = 2 * h
<1>1. Chunk \in Nat /\ Chunk % 2 = 0
  BY SizeFacts, DivideFacts
<1>2. Chunk = 2 * (Chunk \div 2) /\ Chunk \div 2 \in Nat
  BY <1>1
<1>. QED  BY <1>2

LEMMA RoundedChunk ==
  ASSUME Sizes, NEW l \in 0 .. Chunk
  PROVE  C!Rounded(l) \in Nat /\ l <= C!Rounded(l) /\ C!Rounded(l) <= Chunk
<1>1. PICK h \in Nat : Chunk = 2 * h
  BY ChunkEven
<1>2. l \in Nat /\ l <= 2 * h
  BY <1>1
<1>3. PICK k \in Nat : k = (l + 1) \div 2 /\ C!Rounded(l) = 2 * k
  <2>1. (l + 1) \div 2 \in Nat
    BY <1>2
  <2>. QED  BY <2>1 DEF C!Rounded
<1>4. l <= 2 * k /\ 2 * k <= l + 1
  BY <1>2, <1>3
<1>5. 2 * k <= 2 * h
  BY <1>2, <1>4
<1>. QED  BY <1>1, <1>3, <1>4, <1>5

LEMMA RoundedSum ==
  ASSUME Sizes, NEW q \in Nat, NEW r \in Nat
  PROVE  C!Rounded(Chunk * q + r) = Chunk * q + C!Rounded(r)
<1>1. PICK h \in Nat : Chunk = 2 * h
  BY ChunkEven
<1>2. PICK j \in Nat : Chunk * q = 2 * j
  <2>1. Chunk * q = 2 * (h * q) /\ h * q \in Nat
    BY <1>1
  <2>. QED  BY <2>1
<1>3. (2 * j + r + 1) \div 2 = j + ((r + 1) \div 2)
  OBVIOUS
<1>. QED  BY <1>2, <1>3 DEF C!Rounded

\* erase-program-chunk
LEMMA TurnsChunk ==
  ASSUME Sizes, NEW image \in [0 .. FlashSize - 1 -> C!Byte], NEW a \in C!Address, NEW j \in Nat, a = Chunk * j,
         a < FlashSize, NEW l \in 1 .. Chunk,
         NEW m \in Memory, NEW d \in Peers(Filled(m, image, a, Upto(a)), C!Erased)
  PROVE  Turns(Deed, C!ChunkAt(image, a, l), {d},
               Peers(Filled(m, image, a + C!Rounded(l), Upto(a + l)), C!Erased))
<1>1. Chunk \in Nat /\ Page \in Nat
  BY SizeFacts
<1>2. C!Rounded(l) \in Nat /\ l <= C!Rounded(l) /\ C!Rounded(l) <= Chunk /\ l \in Nat
  <2>1. l \in 0 .. Chunk
    BY <1>1
  <2>. QED  BY <2>1, RoundedChunk
<1>3. Chunk * j < FlashSize
  OBVIOUS
<1>4. PICK p \in Nat, o \in Nat :
            /\ Chunk * j = Page * p + o /\ (Chunk * j) \div Page = p /\ (Chunk * j) % Page = o
            /\ o + Chunk <= Page /\ Page * (p + 1) <= FlashSize
            /\ \E h \in Nat : o = 2 * h
  BY <1>3, ChunkPlace
<1>5. OnPage(a, p, o, C!Rounded(l))
  <2>1. o + C!Rounded(l) <= Page
    BY <1>1, <1>2, <1>4
  <2>2. a \in Nat
    BY DEF C!Address
  <2>. QED  BY <1>2, <1>4, <2>1, <2>2 DEF OnPage
<1>6. Upto(a + l) = Page * (p + 1) /\ Upto(a) = IF o = 0 THEN Page * p ELSE Page * (p + 1)
  <2>1. l \in 1 .. C!Rounded(l)
    BY <1>2
  <2>2. PICK r : r = C!Rounded(l)
    OBVIOUS
  <2>3. OnPage(a, p, o, r) /\ l \in 1 .. r
    BY <1>5, <2>1, <2>2
  <2>. QED  BY <2>3, UptoFacts
<1>7. PICK there : there = Peers(Filled(m, image, a + C!Rounded(l), Page * (p + 1)), C!Erased)
  OBVIOUS
<1>8. ASSUME NEW e \in Peers(Filled(m, image, a, Page * (p + 1)), C!Erased)
      PROVE  Turns(Deed, C!Program(image, a, l), {e}, there)
  BY <1>2, <1>5, <1>7, TurnsProgram
<1>9. CASE o = 0
  <2>1. d \in Peers(Filled(m, image, a, Page * p), C!Erased)
    BY <1>6, <1>9
  <2>2. Turns(Deed, C!Erase(a), {d}, Peers(Filled(m, image, a, Page * (p + 1)), C!Erased))
    <3>1. PICK r : r = C!Rounded(l)
      OBVIOUS
    <3>2. OnPage(a, p, o, r)
      BY <1>5, <3>1
    <3>. QED  BY <1>9, <2>1, <3>2, TurnsErase
  <2>3. C!Program(image, a, l) \in Seq(Deed)
    <3>1. \E e \in Peers(Filled(m, image, a, Page * (p + 1)), C!Erased) : TRUE
      BY <2>2 DEF Turns
    <3>. QED  BY <1>8, <3>1 DEF Turns
  <2>4. Turns(Deed, C!Erase(a) \o C!Program(image, a, l), {d}, there)
    BY <1>8, <2>2, <2>3, ItemSets, TurnsOn
  <2>5. C!ChunkAt(image, a, l) = C!Erase(a) \o C!Program(image, a, l)
    BY <1>4, <1>9 DEF C!ChunkAt
  <2>. QED  BY <1>6, <1>7, <2>4, <2>5
<1>10. CASE o # 0
  <2>1. d \in Peers(Filled(m, image, a, Page * (p + 1)), C!Erased)
    BY <1>6, <1>10
  <2>2. Turns(Deed, C!Program(image, a, l), {d}, there)
    BY <1>8, <2>1
  <2>3. C!ChunkAt(image, a, l) = <<>> \o C!Program(image, a, l)
    BY <1>4, <1>10 DEF C!ChunkAt
  <2>4. <<>> \o C!Program(image, a, l) = C!Program(image, a, l)
    <3>1. C!Program(image, a, l) \in Seq(Deed)
      BY <2>2 DEF Turns
    <3>. QED  BY <3>1, ConcatEmptySeq
  <2>. QED  BY <1>6, <1>7, <2>2, <2>3, <2>4
<1>. QED  BY <1>9, <1>10

\* flash-region, programming
LEMMA TurnsChunks ==
  ASSUME Sizes, NEW image \in [0 .. FlashSize - 1 -> C!Byte], NEW n \in 1 .. FlashSize,
         NEW m \in Memory, NEW d \in Peers(m, C!Erased)
  PROVE  Turns(Deed, C!Chunks(image, n), {d}, Peers(Filled(m, image, C!Rounded(n), Upto(n)), C!Erased))
<1>. DEFINE q == n \div Chunk
            r == n % Chunk
            ss == [i \in 1 .. q |-> C!ChunkAt(image, (i - 1) * Chunk, Chunk)]
            s1 == IF r = 0 THEN <<>> ELSE C!ChunkAt(image, q * Chunk, r)
            G == [i \in 0 .. q |-> Peers(Filled(m, image, Chunk * i, Upto(Chunk * i)), C!Erased)]
            there == Peers(Filled(m, image, C!Rounded(n), Upto(n)), C!Erased)
<1>1. /\ q \in Nat /\ r \in 0 .. Chunk - 1 /\ n = Chunk * q + r
      /\ \A i \in 1 .. q : (i - 1) * Chunk \in Nat /\ (i - 1) * Chunk + Chunk <= FlashSize
      /\ q * Chunk \in Nat /\ q * Chunk + r <= FlashSize
      /\ C!Rounded(Chunk) = Chunk
  BY RegionFacts
<1>2. Chunk \in Nat /\ Chunk >= 1 /\ FlashSize \in Nat /\ FlashSize <= 65536
  BY SizeFacts
<1>3. C!Chunks(image, n) = C!FlattenSeq(ss) \o s1
  BY DEF C!Chunks
<1>4. ss = [i \in 1 .. q |-> ss[i]] /\ \A i \in 1 .. q : ss[i] = C!ChunkAt(image, (i - 1) * Chunk, Chunk)
  OBVIOUS
<1>5. \A i \in 0 .. q : G[i] = Peers(Filled(m, image, Chunk * i, Upto(Chunk * i)), C!Erased)
  OBVIOUS
<1>. HIDE DEF q, r, ss, G
<1>6. C!Rounded(n) = Chunk * q + C!Rounded(r)
  <2>1. r \in Nat
    BY <1>1, <1>2
  <2>. QED  BY <1>1, <2>1, RoundedSum
<1>7. ASSUME NEW i \in 1 .. q PROVE Turns(Deed, ss[i], G[i - 1], G[i])
  <2>1. PICK j \in Nat : j = i - 1 /\ j \in 0 .. q /\ i \in 0 .. q
    BY <1>1
  <2>2. PICK a \in Nat : a = Chunk * j /\ a = (i - 1) * Chunk /\ a + Chunk <= FlashSize /\ a + Chunk = Chunk * i
    <3>1. Chunk * j \in Nat /\ Chunk * j = (i - 1) * Chunk /\ Chunk * j + Chunk = Chunk * i
      BY <1>2, <2>1
    <3>. QED  BY <1>1, <3>1
  <2>3. a \in C!Address /\ a < FlashSize /\ Chunk \in 1 .. Chunk
    <3>1. a <= 65535 /\ a < FlashSize /\ Chunk \in 1 .. Chunk
      BY <1>2, <2>2
    <3>. QED  BY <3>1, IsAddress
  <2>4. G[i - 1] = Peers(Filled(m, image, a, Upto(a)), C!Erased)
    BY <1>5, <2>1, <2>2
  <2>5. G[i] = Peers(Filled(m, image, a + C!Rounded(Chunk), Upto(a + Chunk)), C!Erased)
    BY <1>1, <1>5, <2>1, <2>2
  <2>6. ss[i] = C!ChunkAt(image, a, Chunk)
    BY <1>4, <2>2
  <2>7. ASSUME NEW e \in G[i - 1] PROVE \E g \in G[i] : Turns(Deed, ss[i], {e}, {g})
    <3>1. Turns(Deed, C!ChunkAt(image, a, Chunk), {e}, Peers(Filled(m, image, a + C!Rounded(Chunk), Upto(a + Chunk)), C!Erased))
      BY <2>2, <2>3, <2>4, <2>7, TurnsChunk
    <3>2. Turns(Deed, ss[i], {e}, G[i])
      BY <2>5, <2>6, <3>1
    <3>3. PICK g \in G[i] : Leads(Idle(e), ss[i], Idle(g))
      BY <3>2 DEF Turns
    <3>. QED  BY <3>2, <3>3 DEF Turns
  <2>8. ss[i] \in Seq(Deed)
    <3>1. a + C!Rounded(Chunk) <= FlashSize
      BY <1>1, <2>2
    <3>2. Whole(C!ChunkAt(image, a, Chunk))
      BY <1>2, <2>3, <3>1, WholeChunkAt
    <3>. QED  BY <2>6, <3>2 DEF Whole
  <2>. QED  BY <2>7, <2>8, TurnsEach
<1>8. Turns(Deed, C!FlattenSeq(ss), G[0], G[q])
  BY <1>1, <1>4, <1>7, ItemSets, TurnsFlat
<1>9. d \in G[0]
  <2>1. 0 \in 0 .. q /\ Chunk * 0 = 0 /\ Upto(0) = 0
    BY <1>1, <1>2 DEF Upto
  <2>2. Filled(m, image, 0, 0) = m
    BY FilledNone
  <2>. QED  BY <1>5, <2>1, <2>2
<1>10. Turns(Deed, C!FlattenSeq(ss), {d}, G[q])
  BY <1>8, <1>9, TurnsWider
<1>11. PICK a \in Nat : a = Chunk * q /\ a = q * Chunk /\ a + r <= FlashSize /\ n = a + r
  <2>1. Chunk * q = q * Chunk
    BY <1>1, <1>2
  <2>. QED  BY <1>1, <2>1
<1>12. G[q] = Peers(Filled(m, image, a, Upto(a)), C!Erased)
  <2>1. q \in 0 .. q
    BY <1>1
  <2>. QED  BY <1>5, <1>11, <2>1
<1>13. CASE r = 0
  <2>1. C!Rounded(n) = a /\ n = a
    <3>1. C!Rounded(0) = 0
      BY DEF C!Rounded
    <3>. QED  BY <1>6, <1>11, <1>13, <3>1
  <2>2. G[q] = there
    BY <1>12, <2>1
  <2>3. C!Chunks(image, n) = C!FlattenSeq(ss)
    <3>1. C!FlattenSeq(ss) \in Seq(Deed)
      BY <1>10 DEF Turns
    <3>2. C!FlattenSeq(ss) \o <<>> = C!FlattenSeq(ss)
      BY <3>1, ConcatEmptySeq
    <3>. QED  BY <1>3, <1>13, <3>2
  <2>. QED  BY <1>10, <2>2, <2>3
<1>14. CASE r # 0
  <2>1. r \in 1 .. Chunk /\ a < FlashSize /\ a <= 65535 /\ r \in Nat
    BY <1>1, <1>2, <1>11, <1>14
  <2>2. a \in C!Address
    BY <2>1, IsAddress
  <2>3. Peers(Filled(m, image, a + C!Rounded(r), Upto(a + r)), C!Erased) = there
    BY <1>6, <1>11
  <2>4. s1 = C!ChunkAt(image, a, r)
    BY <1>11, <1>14
  <2>. HIDE DEF s1, there
  <2>5. ASSUME NEW e \in G[q] PROVE Turns(Deed, s1, {e}, there)
    <3>1. e \in Peers(Filled(m, image, a, Upto(a)), C!Erased)
      BY <1>12, <2>5
    <3>2. a = Chunk * q /\ q \in Nat
      BY <1>1, <1>11
    <3>3. PICK l : l = r /\ l \in 1 .. Chunk
      BY <2>1
    <3>4. Turns(Deed, C!ChunkAt(image, a, l), {e}, Peers(Filled(m, image, a + C!Rounded(l), Upto(a + l)), C!Erased))
      BY <2>1, <2>2, <3>1, <3>2, <3>3, TurnsChunk
    <3>. QED  BY <2>3, <2>4, <3>3, <3>4
  <2>6. s1 \in Seq(Deed)
    <3>1. a + C!Rounded(r) <= FlashSize
      <4>1. (n \div Chunk) * Chunk + C!Rounded(n % Chunk) <= FlashSize
        BY RegionFacts
      <4>. QED  BY <1>11, <4>1 DEF q, r
    <3>2. Whole(C!ChunkAt(image, a, r))
      BY <2>1, <2>2, <3>1, WholeChunkAt
    <3>. QED  BY <2>4, <3>2 DEF Whole
  <2>7. Turns(Deed, C!FlattenSeq(ss) \o s1, {d}, there)
    BY <1>10, <2>5, <2>6, ItemSets, TurnsOn
  <2>. QED  BY <1>3, <2>7 DEF there
<1>. QED  BY <1>13, <1>14

\* flash-end
LEMMA TurnsFlashEnd ==
  ASSUME Sizes, NEW d \in Quiet
  PROVE  Turns(Deed, C!FlashEnd, {d}, Peers(Opened(d.m), C!Erased))
<1>1. 0 \in C!Address /\ 17 \in C!Byte
  BY SmallBytes
<1>2. Opened(d.m) = NewMemory(23, <<0, 0, 17>>, 0, d.m, d.f) /\ C!Erased = NewBuffer(23, <<0, 0, 17>>, 0, d.f)
  BY DEF NewMemory, NewBuffer, Opened
<1>3. PICK m : m = Opened(d.m)
  OBVIOUS
<1>4. Turns(Deed, C!SetAddr(0) \o C!CxWriteFlash(0, 0, 17), {d}, Peers(m, C!Erased))
  BY <1>1, <1>2, <1>3, TurnsSpm
<1>. QED  BY <1>3, <1>4 DEF C!FlashEnd

LEMMA TurnsReadChunk ==
  ASSUME Sizes, NEW a \in C!Address, NEW n \in 1 .. Count, NEW d \in Quiet, d.m.rww = "open", a + n <= FlashSize
  PROVE  Turns(Look, C!ReadSpace(a, n, "flash"), {d}, Told(d.m, d.f, d.got \o BytesAt(d.m, "flash", a, n)))
<1>1. n \in Nat /\ a \in Nat /\ "flash" \in Spaces /\ a + n <= SizeOf("flash")
  BY SizeFacts DEF SizeOf, Spaces, C!Address
<1>2. Shown(d.m, "flash", a, n) = BytesAt(d.m, "flash", a, n)
  BY <1>1, FlashBytesAt DEF Shown
<1>3. Turns(Look, C!ReadSpace(a, n, "flash"), {d}, Told(d.m, d.f, d.got \o Shown(d.m, "flash", a, n)))
  BY <1>1, TurnsReadSpace
<1>. QED  BY <1>2, <1>3

\* verify-region
LEMMA TurnsVerify ==
  ASSUME Sizes, NEW n \in 1 .. FlashSize, NEW d \in Quiet, d.m.rww = "open"
  PROVE  Turns(Look, C!VerifyChunks(n), {d}, Told(d.m, d.f, d.got \o BytesAt(d.m, "flash", 0, n)))
<1>. DEFINE q == n \div Chunk
            r == n % Chunk
            tt == [i \in 1 .. q |-> C!ReadSpace((i - 1) * Chunk, Chunk, "flash")]
            t1 == IF r = 0 THEN <<>> ELSE C!ReadSpace(q * Chunk, r, "flash")
            B(k) == BytesAt(d.m, "flash", 0, k)
            G == [i \in 0 .. q |-> Told(d.m, d.f, d.got \o B(Chunk * i))]
            there == Told(d.m, d.f, d.got \o B(n))
<1>1. /\ q \in Nat /\ r \in 0 .. Chunk - 1 /\ n = Chunk * q + r
      /\ \A i \in 1 .. q : (i - 1) * Chunk \in Nat /\ (i - 1) * Chunk + Chunk <= FlashSize
      /\ q * Chunk \in Nat /\ q * Chunk + r <= FlashSize
  BY RegionFacts
<1>2. Chunk \in Nat /\ Chunk >= 1 /\ FlashSize \in Nat /\ FlashSize <= 65536 /\ Chunk <= Count /\ Count \in Nat
  BY SizeFacts
<1>3. C!VerifyChunks(n) = C!FlattenSeq(tt) \o t1
  BY DEF C!VerifyChunks
<1>4. tt = [i \in 1 .. q |-> tt[i]] /\ \A i \in 1 .. q : tt[i] = C!ReadSpace((i - 1) * Chunk, Chunk, "flash")
  OBVIOUS
<1>5. \A i \in 0 .. q : G[i] = Told(d.m, d.f, d.got \o B(Chunk * i))
  OBVIOUS
<1>6. d.m \in Memory /\ d.got \in Seq(Nat) /\ SizeOf("flash") = FlashSize /\ "flash" \in Spaces
  BY PeersFacts DEF SizeOf, Spaces
<1>. HIDE DEF q, r, tt, G
<1>7. ASSUME NEW a \in Nat, NEW k \in 1 .. Chunk, a + k <= FlashSize,
             NEW e \in Told(d.m, d.f, d.got \o B(a))
      PROVE  Turns(Look, C!ReadSpace(a, k, "flash"), {e}, Told(d.m, d.f, d.got \o B(a + k)))
  <2>1. e \in Quiet /\ e.m = d.m /\ e.f = d.f /\ e.got = d.got \o B(a)
    BY DEF Told, Peers
  <2>2. k \in Nat /\ k \in 1 .. Count /\ a <= 65535
    BY <1>2, <1>7
  <2>3. a \in C!Address
    BY <2>2, IsAddress
  <2>4. a + k <= SizeOf("flash")
    BY <1>6, <1>7
  <2>5. Turns(Look, C!ReadSpace(a, k, "flash"), {e}, Told(e.m, e.f, e.got \o BytesAt(e.m, "flash", a, k)))
    <3>1. PICK l \in 1 .. Count : l = k /\ a + l <= FlashSize
      BY <1>7, <2>2
    <3>2. Turns(Look, C!ReadSpace(a, l, "flash"), {e}, Told(e.m, e.f, e.got \o BytesAt(e.m, "flash", a, l)))
      BY <2>1, <2>3, <3>1, TurnsReadChunk
    <3>. QED  BY <3>1, <3>2
  <2>6. (d.got \o B(a)) \o BytesAt(d.m, "flash", a, k) = d.got \o B(a + k)
    <3>1. B(a) \in Seq(Nat) /\ BytesAt(d.m, "flash", a, k) \in Seq(Nat)
      <4>1. 0 + a <= SizeOf("flash") /\ a + k <= SizeOf("flash")
        BY <1>2, <1>6, <1>7, <2>2
      <4>. QED  BY <1>6, <2>2, <4>1, BytesFacts
    <3>2. B(a) \o BytesAt(d.m, "flash", 0 + a, k) = B(a + k)
      <4>1. 0 + a + k <= SizeOf("flash") /\ 0 \in Nat
        BY <1>6, <1>7, <2>2
      <4>2. PICK m \in Memory : m = d.m
        BY <1>6
      <4>3. BytesAt(m, "flash", 0, a) \o BytesAt(m, "flash", 0 + a, k) = BytesAt(m, "flash", 0, a + k)
        BY <1>6, <2>2, <4>1, BytesJoin
      <4>. QED  BY <4>2, <4>3
    <3>3. 0 + a = a
      OBVIOUS
    <3>. HIDE DEF B
    <3>4. PICK v \in Seq(Nat) : v = BytesAt(d.m, "flash", a, k)
      BY <3>1
    <3>5. (d.got \o B(a)) \o v = d.got \o (B(a) \o v)
      BY <1>6, <3>1, NumbersAssociative
    <3>6. B(a) \o v = B(a + k)
      BY <3>2, <3>3, <3>4
    <3>. QED  BY <3>4, <3>5, <3>6
  <2>. QED  BY <2>1, <2>5, <2>6
<1>. HIDE DEF B
<1>8. ASSUME NEW i \in 1 .. q PROVE Turns(Look, tt[i], G[i - 1], G[i])
  <2>1. PICK j \in Nat : j = i - 1 /\ j \in 0 .. q /\ i \in 0 .. q
    BY <1>1
  <2>2. PICK a \in Nat : a = Chunk * j /\ a = (i - 1) * Chunk /\ a + Chunk <= FlashSize /\ a + Chunk = Chunk * i
    <3>1. Chunk * j \in Nat /\ Chunk * j = (i - 1) * Chunk /\ Chunk * j + Chunk = Chunk * i
      BY <1>2, <2>1
    <3>. QED  BY <1>1, <3>1
  <2>3. Chunk \in 1 .. Chunk
    BY <1>2
  <2>4. G[i - 1] = Told(d.m, d.f, d.got \o B(a)) /\ G[i] = Told(d.m, d.f, d.got \o B(a + Chunk))
    BY <1>5, <2>1, <2>2
  <2>5. tt[i] = C!ReadSpace(a, Chunk, "flash")
    BY <1>4, <2>2
  <2>6. ASSUME NEW e \in G[i - 1] PROVE \E g \in G[i] : Turns(Look, tt[i], {e}, {g})
    <3>1. Turns(Look, C!ReadSpace(a, Chunk, "flash"), {e}, Told(d.m, d.f, d.got \o B(a + Chunk)))
      BY <1>7, <2>2, <2>3, <2>4, <2>6
    <3>2. Turns(Look, tt[i], {e}, G[i])
      BY <2>4, <2>5, <3>1
    <3>3. PICK g \in G[i] : Leads(Idle(e), tt[i], Idle(g))
      BY <3>2 DEF Turns
    <3>. QED  BY <3>2, <3>3 DEF Turns
  <2>7. tt[i] \in Seq(Look)
    <3>1. Chunk \in 1 .. Count /\ a + Chunk <= SizeOf("flash") /\ a \in C!Address /\ Chunk \in Nat
      <4>1. a <= 65535
        BY <1>2, <2>2
      <4>. QED  BY <1>2, <1>6, <2>2, <4>1, IsAddress
    <3>2. Turns(Look, C!ReadSpace(a, Chunk, "flash"), {d}, Told(d.m, d.f, d.got \o Shown(d.m, "flash", a, Chunk)))
      BY <1>6, <3>1, TurnsReadSpace
    <3>. QED  BY <2>5, <3>2 DEF Turns
  <2>. QED  BY <2>6, <2>7, TurnsEach
<1>9. Turns(Look, C!FlattenSeq(tt), G[0], G[q])
  BY <1>1, <1>4, <1>8, ItemSets, TurnsFlat
<1>10. d \in G[0]
  <2>1. 0 \in 0 .. q /\ Chunk * 0 = 0
    BY <1>1, <1>2
  <2>2. B(0) = <<>>
    BY BytesOne DEF B
  <2>3. d.got \o <<>> = d.got
    BY <1>6, ConcatEmptySeq
  <2>4. G[0] = Told(d.m, d.f, d.got \o B(0))
    BY <1>5, <2>1
  <2>5. G[0] = Told(d.m, d.f, d.got)
    BY <2>2, <2>3, <2>4
  <2>6. d \in Told(d.m, d.f, d.got)
    BY DEF Told, Peers
  <2>. QED  BY <2>5, <2>6
<1>11. Turns(Look, C!FlattenSeq(tt), {d}, G[q])
  BY <1>9, <1>10, TurnsWider
<1>12. PICK a \in Nat : a = Chunk * q /\ a = q * Chunk /\ a + r <= FlashSize /\ n = a + r
  <2>1. Chunk * q = q * Chunk
    BY <1>1, <1>2
  <2>. QED  BY <1>1, <2>1
<1>13. G[q] = Told(d.m, d.f, d.got \o B(a))
  <2>1. q \in 0 .. q
    BY <1>1
  <2>. QED  BY <1>5, <1>12, <2>1
<1>14. CASE r = 0
  <2>1. n = a
    BY <1>12, <1>14
  <2>2. C!VerifyChunks(n) = C!FlattenSeq(tt)
    <3>1. C!FlattenSeq(tt) \in Seq(Look)
      BY <1>11 DEF Turns
    <3>2. C!FlattenSeq(tt) \o <<>> = C!FlattenSeq(tt)
      BY <3>1, ConcatEmptySeq
    <3>. QED  BY <1>3, <1>14, <3>2
  <2>. QED  BY <1>11, <1>13, <2>1, <2>2 DEF B
<1>15. CASE r # 0
  <2>1. PICK k : k = r /\ k \in 1 .. Chunk /\ k \in 1 .. Count /\ k \in Nat
    BY <1>1, <1>2, <1>15
  <2>2. t1 = C!ReadSpace(a, k, "flash")
    BY <1>12, <1>15, <2>1
  <2>3. a + k <= FlashSize /\ n = a + k
    BY <1>12, <2>1
  <2>4. ASSUME NEW e \in G[q] PROVE Turns(Look, t1, {e}, there)
    <3>1. Turns(Look, C!ReadSpace(a, k, "flash"), {e}, Told(d.m, d.f, d.got \o B(a + k)))
      BY <1>7, <1>13, <2>1, <2>3, <2>4
    <3>. QED  BY <2>2, <2>3, <3>1
  <2>5. t1 \in Seq(Look)
    <3>1. a + k <= SizeOf("flash") /\ a \in C!Address
      <4>1. a <= 65535
        BY <1>2, <2>1, <2>3
      <4>. QED  BY <1>2, <1>6, <2>3, <4>1, IsAddress
    <3>2. Turns(Look, C!ReadSpace(a, k, "flash"), {d}, Told(d.m, d.f, d.got \o Shown(d.m, "flash", a, k)))
      BY <1>6, <2>1, <3>1, TurnsReadSpace
    <3>. QED  BY <2>2, <3>2 DEF Turns
  <2>. HIDE DEF t1, there
  <2>6. Turns(Look, C!FlattenSeq(tt) \o t1, {d}, there)
    BY <1>11, <2>4, <2>5, ItemSets, TurnsOn
  <2>. QED  BY <1>3, <2>6 DEF there, B
<1>. QED  BY <1>14, <1>15

-----------------------------------------------------------------------------
(* What the words do is what they are for *)

LEMMA SuffixOf ==
  ASSUME NEW s \in Seq(Nat), NEW x \in Seq(Nat)
  PROVE  C!IsSuffix(s, x \o s)
<1>. DEFINE t == x \o s
            n == Len(s)
            k == Len(x)
            f == C!Reverse(s)
            g == C!Reverse(t)
<1>1. n \in Nat /\ k \in Nat /\ t \in Seq(Nat) /\ Len(t) = k + n
      /\ \A i \in 1 .. k + n : t[i] = IF i <= k THEN x[i] ELSE s[i - k]
  BY ConcatProperties
<1>. HIDE DEF t
<1>2. f \in Seq(Nat) /\ Len(f) = n /\ \A i \in 1 .. n : f[i] = s[n - i + 1]
  <2>1. \A i \in 1 .. n : n - i + 1 \in 1 .. n
    BY <1>1
  <2>2. f = [i \in 1 .. n |-> s[(n - i) + 1]]
    BY DEF C!Reverse
  <2>3. \A i \in 1 .. n : s[n - i + 1] \in Nat
    BY <2>1
  <2>. HIDE DEF f, n
  <2>. QED  BY <1>1, <2>2, <2>3
<1>3. g \in Seq(Nat) /\ Len(g) = k + n /\ \A i \in 1 .. k + n : g[i] = t[k + n - i + 1]
  <2>1. \A i \in 1 .. k + n : k + n - i + 1 \in 1 .. k + n
    BY <1>1
  <2>2. g = [i \in 1 .. k + n |-> t[((k + n) - i) + 1]]
    BY <1>1 DEF C!Reverse
  <2>3. \A i \in 1 .. k + n : t[k + n - i + 1] \in Nat
    BY <1>1, <2>1
  <2>. HIDE DEF g, n, k
  <2>. QED  BY <1>1, <2>2, <2>3
<1>. HIDE DEF f, g, n, k
<1>4. \A i \in 1 .. n : f[i] = g[i]
  <2>1. ASSUME NEW i \in 1 .. n PROVE f[i] = g[i]
    <3>1. k + n - i + 1 \in 1 .. k + n /\ ~(k + n - i + 1 <= k) /\ (k + n - i + 1) - k = n - i + 1 /\ i \in 1 .. k + n
      BY <1>1
    <3>. QED  BY <1>1, <1>2, <1>3, <3>1
  <2>. QED  BY <2>1
<1>5. SubSeq(f, 1, n) = SubSeq(g, 1, n)
  <2>1. SubSeq(f, 1, n) = [i \in 1 .. n |-> f[i]]
    BY <1>1, <1>2
  <2>2. SubSeq(g, 1, n) = [i \in 1 .. n |-> g[i]]
    BY <1>1, <1>3
  <2>. QED  BY <1>4, <2>1, <2>2
<1>6. n <= k + n
  BY <1>1
<1>. QED  BY <1>2, <1>3, <1>5, <1>6 DEF C!IsSuffix, C!IsPrefix, f, g, t

\* What the words are given.
LEMMA WordFacts ==
  ASSUME Sizes, NEW w \in Words
  PROVE  /\ w.word \in {"read", "write", "flash", "run"}
         /\ w.word = "read" => /\ w.space \in Spaces /\ w.a \in C!Address /\ w.n \in Nat
                               /\ w.a + w.n <= SizeOf(w.space)
                               /\ w.space = "flash" => w.n \in 1 .. Count
         /\ w.word = "write" => /\ w.space \in {"data", "eeprom"} /\ w.a \in C!Address
                                /\ w.bytes \in Seq(C!Byte) /\ w.a + Len(w.bytes) <= DataSize
         /\ w.word = "flash" => w.n \in 1 .. FlashSize /\ w.image \in [0 .. FlashSize - 1 -> C!Byte]
         /\ w.word = "run" => w.a \in C!Address /\ w.dp \in C!Address
<1>1. C!ReadAssumption /\ C!WriteAssumption /\ C!FlashAssumption /\ C!RunAssumption
      /\ w.word \in {"read", "write", "flash", "run"}
  BY DEF Sizes, C!WordAssumption
<1>2. ASSUME w.word = "read"
      PROVE  /\ w.space \in Spaces /\ w.a \in C!Address /\ w.n \in Nat /\ w.a + w.n <= SizeOf(w.space)
             /\ w.space = "flash" => w.n \in 1 .. Count
  BY <1>1, <1>2 DEF C!ReadAssumption, Spaces, SizeOf
<1>. QED  BY <1>1, <1>2 DEF C!WriteAssumption, C!FlashAssumption, C!RunAssumption

\* A peer that has done what a word is for.
Served(w, m) == {e \in Quiet : e.m = C!Effect(w, m) /\ C!IsSuffix(C!Returns(w, m), e.got)}

LEMMA BytesNone == \A m, space : BytesAt(m, space, 0, 0) = <<>>
BY DEF BytesAt

LEMMA NothingIsSuffix ==
  ASSUME NEW x \in Seq(Nat)
  PROVE  C!IsSuffix(<<>>, x)
<1>1. <<>> \in Seq(Nat) /\ x \o <<>> = x
  BY ConcatEmptySeq
<1>2. C!IsSuffix(<<>>, x \o <<>>)
  BY <1>1, SuffixOf
<1>. QED  BY <1>1, <1>2

LEMMA ReadDone ==
  ASSUME Sizes, NEW w \in Words, w.word = "read", NEW d \in Quiet
  PROVE  Turns(Deed, C!Script(w), {d}, Served(w, d.m))
<1>1. /\ w.space \in Spaces /\ w.a \in C!Address /\ w.n \in Nat /\ w.a + w.n <= SizeOf(w.space)
      /\ w.space = "flash" => w.n \in 1 .. Count
  BY WordFacts
<1>2. C!Script(w) = C!ReadSpace(w.a, w.n, w.space)
  BY DEF C!Script
<1>0. w.a \in Nat /\ d.m \in Memory /\ d.got \in Seq(Nat)
  BY <1>1, PeersFacts DEF C!Address
<1>4. PICK x : x = Shown(d.m, w.space, w.a, w.n)
  OBVIOUS
<1>3. (C!Returns(w, d.m) = <<>> \/ C!Returns(w, d.m) = x) /\ C!Effect(w, d.m) = d.m
  <2>1. C!Effect(w, d.m) = d.m
    BY DEF C!Effect
  <2>2. C!Returns(w, d.m) = IF w.space = "flash" /\ d.m.rww = "closed" THEN <<>>
                            ELSE BytesAt(d.m, w.space, w.a, w.n)
    BY DEF C!Returns, BytesAt
  <2>3. CASE w.space = "flash" /\ d.m.rww = "closed"
    BY <2>1, <2>2, <2>3
  <2>4. CASE w.space = "flash" /\ d.m.rww # "closed"
    <3>1. d.m.rww = "open"
      BY <1>0, <2>4 DEF Memory
    <3>2. w.a + w.n <= FlashSize
      BY <1>1, <2>4 DEF SizeOf
    <3>3. FlashBytes(d.m, w.a, w.n) = BytesAt(d.m, "flash", w.a, w.n)
      BY <1>0, <1>1, <3>1, <3>2, FlashBytesAt
    <3>. QED  BY <1>4, <2>1, <2>2, <2>4, <3>3 DEF Shown
  <2>5. CASE w.space # "flash"
    BY <1>4, <2>1, <2>2, <2>5 DEF Shown
  <2>. QED  BY <2>3, <2>4, <2>5
<1>5. x \in Seq(Nat) /\ d.got \in Seq(Nat)
  <2>1. CASE w.space = "flash"
    <3>1. \A i \in 1 .. w.n : FlashOf(d.m, w.a + i - 1) \in Nat
      <4>1. \A b \in Nat : FlashOf(d.m, b) \in Nat
        BY <1>0, FlashByte
      <4>2. \A i \in 1 .. w.n : w.a + i - 1 \in Nat
        BY <1>0, <1>1
      <4>. QED  BY <4>1, <4>2
    <3>2. FlashBytes(d.m, w.a, w.n) \in Seq(Nat)
      BY <1>1, <3>1 DEF FlashBytes
    <3>. QED  BY <1>0, <1>4, <2>1, <3>2 DEF Shown
  <2>2. CASE w.space # "flash"
    <3>1. BytesAt(d.m, w.space, w.a, w.n) \in Seq(Nat)
      BY <1>0, <1>1, BytesFacts
    <3>. QED  BY <1>0, <1>4, <2>2, <3>1 DEF Shown
  <2>. QED  BY <2>1, <2>2
<1>6. Turns(Look, C!Script(w), {d}, Told(d.m, d.f, d.got \o x))
  BY <1>1, <1>2, <1>4, TurnsReadSpace
<1>7. Told(d.m, d.f, d.got \o x) \subseteq Served(w, d.m)
  <2>1. C!IsSuffix(x, d.got \o x)
    BY <1>5, SuffixOf
  <2>2. C!IsSuffix(<<>>, d.got \o x)
    <3>1. d.got \o x \in Seq(Nat)
      BY <1>5
    <3>. QED  BY <3>1, NothingIsSuffix
  <2>. QED  BY <1>3, <2>1, <2>2 DEF Served, Told, Peers
<1>. QED  BY <1>6, <1>7, ItemSets, TurnsWider

LEMMA WriteDone ==
  ASSUME Sizes, NEW w \in Words, w.word = "write", NEW d \in Quiet
  PROVE  Turns(Deed, C!Script(w), {d}, Served(w, d.m))
<1>1. /\ w.space \in {"data", "eeprom"} /\ w.a \in C!Address
      /\ w.bytes \in Seq(C!Byte) /\ w.a + Len(w.bytes) <= DataSize
  BY WordFacts
<1>2. C!Returns(w, d.m) = <<>>
  BY DEF C!Returns
<1>3. C!Effect(w, d.m) = Written(d.m, w.space, w.a, w.bytes, Len(w.bytes))
  BY DEF C!Effect, Written
<1>4. C!Script(w) = IF w.space = "data" THEN C!WriteData(w.a, w.bytes) ELSE C!WriteEeprom(w.a, w.bytes)
  BY DEF C!Script
<1>5. PICK m : m = Written(d.m, w.space, w.a, w.bytes, Len(w.bytes))
  OBVIOUS
<1>6. Turns(Deed, C!Script(w), {d}, Peers(m, d.f))
  <2>1. CASE w.space = "data"
    BY <1>1, <1>4, <1>5, <2>1, TurnsWrite
  <2>2. CASE w.space = "eeprom"
    BY <1>1, <1>4, <1>5, <2>2, TurnsWrite
  <2>. QED  BY <1>1, <2>1, <2>2
<1>7. Peers(m, d.f) \subseteq Served(w, d.m)
  <2>1. \A e \in Quiet : C!IsSuffix(<<>>, e.got)
    BY PeersFacts, NothingIsSuffix
  <2>. QED  BY <1>2, <1>3, <1>5, <2>1 DEF Served, Peers
<1>. QED  BY <1>6, <1>7, TurnsWider

LEMMA RunDone ==
  ASSUME Sizes, NEW w \in Words, w.word = "run", NEW d \in Quiet
  PROVE  Turns(Deed, C!Script(w), {d}, Served(w, d.m))
<1>1. w.a \in C!Address /\ w.dp \in C!Address
  BY WordFacts
<1>2. C!Returns(w, d.m) = C!LoHi(w.dp) /\ C!Effect(w, d.m) = d.m
  BY DEF C!Returns, C!Effect
<1>3. C!Script(w) = C!Run(w.a, w.dp) \o C!GetStatus
  BY DEF C!Script
<1>4. PICK x : x = C!LoHi(w.dp)
  OBVIOUS
<1>5. x \in Seq(Nat) /\ d.got \in Seq(Nat)
  <2>1. w.dp \div 256 \in Nat /\ w.dp % 256 \in Nat
    BY <1>1 DEF C!Address
  <2>. QED  BY <1>4, <2>1, PeersFacts DEF C!LoHi
<1>6. Turns(Deed, C!Script(w), {d}, Told(d.m, d.f, d.got \o x))
  <2>1. PICK a \in C!Address, dp \in C!Address : a = w.a /\ dp = w.dp
    BY <1>1
  <2>2. Turns(Deed, C!Run(a, dp) \o C!GetStatus, {d}, Told(d.m, d.f, d.got \o x))
    <3>1. Turns(Deed, C!Run(a, dp) \o C!GetStatus, {d},
                Told(d.m, d.f, d.got \o C!LoHi(dp)))
      BY TurnsRun
    <3>2. C!LoHi(dp) = x
      BY <1>4, <2>1
    <3>. QED  BY <3>1, <3>2
  <2>. QED  BY <1>3, <1>4, <2>1, <2>2
<1>7. Told(d.m, d.f, d.got \o x) \subseteq Served(w, d.m)
  <2>1. C!IsSuffix(x, d.got \o x)
    BY <1>5, SuffixOf
  <2>. QED  BY <1>2, <1>4, <2>1 DEF Served, Told, Peers
<1>. QED  BY <1>6, <1>7, TurnsWider

\* flash-image up to the point where it verifies.
Burn(image, n) == C!AppStop \o C!Chunks(image, n) \o C!FlashEnd

LEMMA TurnsBurn ==
  ASSUME Sizes, NEW image \in [0 .. FlashSize - 1 -> C!Byte], NEW n \in 1 .. FlashSize,
         NEW d \in Quiet, d.f = C!Erased
  PROVE  Turns(Deed, Burn(image, n), {d},
               Peers(Opened(Filled(d.m, image, C!Rounded(n), Upto(n))), C!Erased))
<1>1. PICK m \in Memory : m = d.m
  BY PeersFacts
<1>2. PICK e : e = Filled(m, image, C!Rounded(n), Upto(n))
  OBVIOUS
<1>3. Turns(Deed, C!AppStop, {d}, Peers(m, C!Erased))
  BY <1>1, TurnsAppStop
<1>4. Whole(C!Chunks(image, n)) /\ Whole(C!FlashEnd)
  <2>1. Whole(C!CxWriteFlash(0, 0, 17)) /\ Whole(C!SetAddr(0))
    BY SmallBytes, WholeCxWriteFlash, WholeSetAddr
  <2>2. Whole(C!FlashEnd)
    BY <2>1, WholeThen DEF C!FlashEnd
  <2>. QED  BY <2>2, WholeRegions
<1>5. ASSUME NEW g \in Peers(m, C!Erased) PROVE Turns(Deed, C!Chunks(image, n), {g}, Peers(e, C!Erased))
  BY <1>2, TurnsChunks
<1>6. ASSUME NEW g \in Peers(e, C!Erased) PROVE Turns(Deed, C!FlashEnd, {g}, Peers(Opened(e), C!Erased))
  <2>1. g \in Quiet /\ g.m = e
    BY DEF Peers
  <2>. QED  BY <2>1, TurnsFlashEnd
<1>7. C!Chunks(image, n) \in Seq(Deed) /\ C!FlashEnd \in Seq(Deed)
  BY <1>4 DEF Whole
<1>8. Turns(Deed, C!AppStop \o C!Chunks(image, n), {d}, Peers(e, C!Erased))
  BY <1>3, <1>5, <1>7, ItemSets, TurnsOn
<1>9. Turns(Deed, (C!AppStop \o C!Chunks(image, n)) \o C!FlashEnd, {d}, Peers(Opened(e), C!Erased))
  BY <1>6, <1>7, <1>8, ItemSets, TurnsOn
<1>. QED  BY <1>1, <1>2, <1>9 DEF Burn

LEMMA FlashEffect ==
  ASSUME Sizes, NEW w \in Words, w.word = "flash", NEW m \in Memory
  PROVE  C!Effect(w, m) = Opened(Filled(m, w.image, C!Rounded(w.n), Upto(w.n)))
<1>1. w.n \in 1 .. FlashSize /\ FlashSize \in Nat
  BY WordFacts, SizeFacts
<1>2. PICK q \in Nat : q = (w.n - 1) \div Page /\ Upto(w.n) = Page * (q + 1)
  <2>1. w.n - 1 \in Nat /\ w.n # 0
    BY <1>1
  <2>2. (w.n - 1) \div Page \in Nat
    BY <2>1, PageSplit
  <2>. QED  BY <2>1, <2>2 DEF Upto
<1>3. DOMAIN m.flash = 0 .. FlashSize - 1
  BY FlashDomain
<1>4. \A a \in 0 .. FlashSize - 1 : a \div Page <= q <=> a < Page * (q + 1)
  <2>1. \A a \in 0 .. FlashSize - 1 : a \in Nat
    BY <1>1
  <2>. QED  BY <2>1, PageBefore
<1>5. C!Effect(w, m) = [m EXCEPT !.flash = [a \in DOMAIN m.flash |->
                IF a < C!Rounded(w.n) THEN w.image[a]
                ELSE IF a \div Page <= (w.n - 1) \div Page THEN C!Blank
                ELSE m.flash[a]], !.rww = "open"]
  BY DEF C!Effect
<1>6. [a \in DOMAIN m.flash |-> IF a < C!Rounded(w.n) THEN w.image[a]
                                ELSE IF a \div Page <= (w.n - 1) \div Page THEN C!Blank ELSE m.flash[a]]
        = [a \in DOMAIN m.flash |-> IF a < C!Rounded(w.n) THEN w.image[a]
                                    ELSE IF a < Upto(w.n) THEN C!Blank ELSE m.flash[a]]
  BY <1>2, <1>3, <1>4
<1>7. PICK f, l : /\ l = Upto(w.n)
                  /\ f = [x \in 0 .. FlashSize - 1 |-> IF x < C!Rounded(w.n) THEN w.image[x]
                                                       ELSE IF x < l THEN C!Blank ELSE m.flash[x]]
  OBVIOUS
<1>8. C!Effect(w, m) = [m EXCEPT !.flash = f, !.rww = "open"]
  BY <1>3, <1>5, <1>6, <1>7
<1>9. [m EXCEPT !.flash = f, !.rww = "open"] = Reflashed(m, f, "open")
  BY FlashDomain, OtherFlash, Zenon
<1>10. Filled(m, w.image, C!Rounded(w.n), l) = Reflashed(m, f, Section(m, l))
  BY <1>7, FilledIs
<1>. QED  BY <1>7, <1>8, <1>9, <1>10, OpenedIs

LEMMA ImageRead ==
  ASSUME Sizes, NEW m \in Memory, NEW image, NEW n \in 1 .. FlashSize, NEW l,
         NEW e, e = Opened(Filled(m, image, C!Rounded(n), l)), NEW r, r = [i \in 1 .. n |-> image[i - 1]]
  PROVE  BytesAt(e, "flash", 0, n) = r
<1>1. n \in Nat /\ FlashSize \in Nat /\ n <= FlashSize
  BY SizeFacts
<1>2. n <= C!Rounded(n) /\ C!Rounded(n) \in Nat
  <2>1. n <= 2 * ((n + 1) \div 2) /\ (n + 1) \div 2 \in Nat
    BY <1>1
  <2>. QED  BY <2>1 DEF C!Rounded
<1>4. PICK k \in Nat : k = C!Rounded(n)
  BY <1>2
<1>5. e.flash = [x \in 0 .. FlashSize - 1 |-> IF x < k THEN image[x] ELSE IF x < l THEN C!Blank ELSE m.flash[x]]
  <2>1. PICK f : f = [x \in 0 .. FlashSize - 1 |->
                        IF x < k THEN image[x] ELSE IF x < l THEN C!Blank ELSE m.flash[x]]
    OBVIOUS
  <2>2. Filled(m, image, k, l) = Reflashed(m, f, Section(m, l))
    BY <2>1, FilledIs
  <2>3. e = Reflashed(m, f, "open")
    BY <1>4, <2>2, OpenedIs
  <2>4. e.flash = f
    BY <2>3, ReflashedFacts
  <2>. QED  BY <2>1, <2>4
<1>6. ASSUME NEW i \in 1 .. n PROVE e["flash"][0 + i - 1] = image[i - 1]
  <2>1. PICK x \in 0 .. FlashSize - 1 : x = i - 1 /\ 0 + i - 1 = x /\ x < k
    BY <1>1, <1>2, <1>4
  <2>2. e.flash[x] = image[x]
    BY <1>5, <2>1
  <2>. QED  BY <2>1, <2>2
<1>7. BytesAt(e, "flash", 0, n) = [i \in 1 .. n |-> image[i - 1]]
  BY <1>6 DEF BytesAt
<1>. QED  BY <1>7

LEMMA ImageBurnt ==
  ASSUME Sizes, NEW image, NEW n
  PROVE  C!FlashImage(image, n) = Burn(image, n) \o C!VerifyChunks(n)
BY DEF C!FlashImage, Burn

LEMMA FlashReturns ==
  ASSUME Sizes, NEW w \in Words, w.word = "flash", NEW m \in Memory, NEW n, n = w.n
  PROVE  C!Returns(w, m) = BytesAt(C!Effect(w, m), "flash", 0, n)
<1>1. PICK image : image = w.image
  OBVIOUS
<1>2. PICK r : r = [i \in 1 .. n |-> image[i - 1]]
  OBVIOUS
<1>3. PICK l : l = Upto(n)
  OBVIOUS
<1>4. PICK e : e = C!Effect(w, m)
  OBVIOUS
<1>5. e = Opened(Filled(m, image, C!Rounded(n), l)) /\ n \in 1 .. FlashSize
  BY <1>1, <1>3, <1>4, FlashEffect, WordFacts
<1>6. BytesAt(e, "flash", 0, n) = r
  BY <1>2, <1>5, ImageRead
<1>. QED  BY <1>1, <1>2, <1>4, <1>6 DEF C!Returns

\* Every word of the host but flash-image does what it is for.
LEMMA WordDone ==
  ASSUME Sizes, NEW w \in Words, w.word # "flash", NEW d \in Quiet
  PROVE  Turns(Deed, C!Script(w), {d}, Served(w, d.m))
<1>1. w.word \in {"read", "write", "flash", "run"}
  BY WordFacts
<1>. QED  BY <1>1, ReadDone, WriteDone, RunDone

-----------------------------------------------------------------------------
(* What the host can be sure of. A reply that it has received was given     *)
(* after all that was sent before. Replies are never taken back, so that    *)
(* their number, received or not, tells how far the peer is.                *)

Total(d) == Len(d.log) + Len(d.got)

\* A path that stays in a set of places.
Within(G, p, s, q) == \E h : IsPath(h, s, p, q) /\ \A i \in 0 .. Len(s) : h[i] \in G

\* Until the peer has given all the replies that d has, or else its memory is d's.
Sure(e, d) == Total(e) < Total(d) \/ e.m = d.m
Sures(d) == {p \in PlaceSet : Sure(p.d, d)}

LEMMA WithinNone ==
  ASSUME NEW G, NEW p \in G
  PROVE  Within(G, p, <<>>, p)
<1>. DEFINE h == [i \in 0 .. 0 |-> p]
<1>1. IsPath(h, <<>>, p, p) /\ \A i \in 0 .. Len(<<>>) : h[i] \in G
  BY DEF IsPath
<1>. QED  BY <1>1 DEF Within

LEMMA WithinOne ==
  ASSUME NEW G, NEW p \in G, NEW x \in Item, NEW q \in G, Leads1(p, x, q)
  PROVE  Within(G, p, <<x>>, q)
<1>. DEFINE h == [i \in 0 .. 1 |-> IF i = 0 THEN p ELSE q]
<1>1. Len(<<x>>) = 1 /\ <<x>>[1] = x /\ h[0] = p /\ h[1] = q
  OBVIOUS
<1>. HIDE DEF h
<1>2. IsPath(h, <<x>>, p, q)
  <2>1. \A i \in 1 .. 1 : i = 1 /\ i - 1 = 0
    OBVIOUS
  <2>. QED  BY <1>1, <2>1 DEF IsPath
<1>3. \A i \in 0 .. Len(<<x>>) : h[i] \in G
  <2>1. \A i \in 0 .. 1 : i = 0 \/ i = 1
    OBVIOUS
  <2>. QED  BY <1>1, <2>1
<1>. QED  BY <1>2, <1>3 DEF Within

LEMMA WithinThen ==
  ASSUME NEW G, NEW p, NEW s \in Seq(Item), NEW q, NEW t \in Seq(Item), NEW r,
         Within(G, p, s, q), Within(G, q, t, r)
  PROVE  Within(G, p, s \o t, r)
<1>1. PICK h : IsPath(h, s, p, q) /\ \A i \in 0 .. Len(s) : h[i] \in G
  BY DEF Within
<1>2. PICK k : IsPath(k, t, q, r) /\ \A i \in 0 .. Len(t) : k[i] \in G
  BY DEF Within
<1>. DEFINE m == Len(s)
            n == Len(t)
            e == [i \in 0 .. m + n |-> IF i <= m THEN h[i] ELSE k[i - m]]
<1>3. /\ m \in Nat /\ n \in Nat /\ Len(s \o t) = m + n
      /\ \A i \in 1 .. m : (s \o t)[i] = s[i]
      /\ \A i \in (m + 1) .. (m + n) : (s \o t)[i] = t[i - m]
  OBVIOUS
<1>4. /\ h[0] = p /\ h[m] = q /\ \A i \in 1 .. m : Leads1(h[i - 1], s[i], h[i])
      /\ k[0] = q /\ k[n] = r /\ \A i \in 1 .. n : Leads1(k[i - 1], t[i], k[i])
      /\ \A i \in 0 .. m : h[i] \in G
      /\ \A i \in 0 .. n : k[i] \in G
  BY <1>1, <1>2 DEF IsPath
<1>. HIDE DEF m, n
<1>5. /\ \A i \in 0 .. m : e[i] = h[i]
      /\ \A i \in m .. (m + n) : e[i] = k[i - m]
  <2>1. \A i \in 0 .. m : i \in 0 .. m + n /\ i <= m
    BY <1>3
  <2>2. ASSUME NEW i \in m .. (m + n) PROVE e[i] = k[i - m]
    <3>1. CASE i = m
      BY <1>3, <1>4, <3>1
    <3>2. CASE i # m
      BY <1>3, <3>2
    <3>. QED  BY <3>1, <3>2
  <2>. QED  BY <2>1, <2>2
<1>. HIDE DEF e
<1>6. e[0] = p /\ e[m + n] = r
  BY <1>3, <1>4, <1>5
<1>7. ASSUME NEW i \in 1 .. (m + n) PROVE Leads1(e[i - 1], (s \o t)[i], e[i])
  <2>1. CASE i <= m
    <3>1. i \in 1 .. m /\ i - 1 \in 0 .. m /\ i \in 0 .. m
      BY <1>3, <2>1
    <3>. QED  BY <1>3, <1>4, <1>5, <3>1
  <2>2. CASE ~(i <= m)
    <3>1. /\ i \in (m + 1) .. (m + n) /\ i \in m .. (m + n) /\ i - 1 \in m .. (m + n)
          /\ i - m \in 1 .. n /\ (i - 1) - m = (i - m) - 1
      BY <1>3, <2>2
    <3>2. e[i - 1] = k[(i - m) - 1] /\ e[i] = k[i - m] /\ (s \o t)[i] = t[i - m]
      BY <1>3, <1>5, <3>1
    <3>. QED  BY <1>4, <3>1, <3>2
  <2>. QED  BY <2>1, <2>2
<1>8. ASSUME NEW i \in 0 .. (m + n) PROVE e[i] \in G
  <2>1. CASE i <= m
    <3>1. i \in 0 .. m
      BY <1>3, <2>1
    <3>. QED  BY <1>4, <1>5, <3>1
  <2>2. CASE ~(i <= m)
    <3>1. i \in m .. (m + n) /\ i - m \in 0 .. n
      BY <1>3, <2>2
    <3>. QED  BY <1>4, <1>5, <3>1
  <2>. QED  BY <2>1, <2>2
<1>9. IsPath(e, s \o t, p, r)
  BY <1>3, <1>6, <1>7 DEF IsPath
<1>. QED  BY <1>3, <1>8, <1>9 DEF Within

LEMMA WithinHead ==
  ASSUME NEW G, NEW p, NEW s \in Seq(Item), NEW r, s # <<>>, Within(G, p, s, r)
  PROVE  p \in G /\ \E q : Leads1(p, Head(s), q) /\ Within(G, q, Tail(s), r)
<1>1. PICK h : IsPath(h, s, p, r) /\ \A i \in 0 .. Len(s) : h[i] \in G
  BY DEF Within
<1>. DEFINE n == Len(s)
            e == [i \in 0 .. n - 1 |-> h[i + 1]]
<1>2. /\ n \in Nat /\ n >= 1 /\ Head(s) = s[1] /\ Len(Tail(s)) = n - 1
      /\ \A i \in 1 .. n - 1 : Tail(s)[i] = s[i + 1]
  OBVIOUS
<1>3. /\ h[0] = p /\ h[n] = r /\ \A i \in 1 .. n : Leads1(h[i - 1], s[i], h[i])
      /\ \A i \in 0 .. n : h[i] \in G
  BY <1>1 DEF IsPath
<1>. HIDE DEF n
<1>4. \A i \in 0 .. n - 1 : e[i] = h[i + 1] /\ e[i] \in G
  <2>1. \A i \in 0 .. n - 1 : e[i] = h[i + 1] /\ i + 1 \in 0 .. n
    BY <1>2
  <2>. QED  BY <1>3, <2>1
<1>. HIDE DEF e
<1>5. Leads1(p, Head(s), h[1])
  <2>1. 1 \in 1 .. n /\ 1 - 1 = 0
    BY <1>2
  <2>. QED  BY <1>2, <1>3, <2>1
<1>6. ASSUME NEW i \in 1 .. n - 1 PROVE Leads1(e[i - 1], Tail(s)[i], e[i])
  <2>1. /\ i - 1 \in 0 .. n - 1 /\ i \in 0 .. n - 1 /\ i + 1 \in 1 .. n
        /\ (i - 1) + 1 = (i + 1) - 1
    BY <1>2
  <2>. QED  BY <1>2, <1>3, <1>4, <2>1
<1>7. e[0] = h[1] /\ e[n - 1] = r
  <2>1. 0 \in 0 .. n - 1 /\ n - 1 \in 0 .. n - 1 /\ 0 + 1 = 1 /\ (n - 1) + 1 = n
    BY <1>2
  <2>. QED  BY <1>3, <1>4, <2>1
<1>8. IsPath(e, Tail(s), h[1], r)
  BY <1>2, <1>6, <1>7 DEF IsPath
<1>9. Within(G, h[1], Tail(s), r)
  BY <1>2, <1>4, <1>8 DEF Within
<1>10. p \in G
  <2>1. 0 \in 0 .. n
    BY <1>2
  <2>. QED  BY <1>3, <2>1
<1>. QED  BY <1>5, <1>9, <1>10

LEMMA WithinHolds ==
  ASSUME NEW G, NEW p, NEW s \in Seq(Item), NEW q, Within(G, p, s, q)
  PROVE  p \in G /\ q \in G /\ Leads(p, s, q)
<1>1. PICK h : IsPath(h, s, p, q) /\ \A i \in 0 .. Len(s) : h[i] \in G
  BY DEF Within
<1>2. 0 \in 0 .. Len(s) /\ Len(s) \in 0 .. Len(s)
  OBVIOUS
<1>. QED  BY <1>1, <1>2 DEF IsPath, Leads

\* An item leads to one place only.
LEMMA LeadsAlone ==
  ASSUME NEW p, NEW x, NEW q, NEW r, Leads1(p, x, q), Leads1(p, x, r)
  PROVE  q = r
BY DEF Leads1

LEMMA TotalIs ==
  ASSUME NEW d \in DataSet
  PROVE  Total(d) \in Nat /\ Total(d) = Len(d.log) + Len(d.got) /\ Len(d.log) \in Nat /\ Len(d.got) \in Nat
BY DEF Total, DataSet

\* Along a path there are never fewer replies.
LEMMA ContinuesGrows ==
  ASSUME NEW d \in DataSet, NEW q, Continues(d, q)
  PROVE  q.d \in DataSet /\ Total(d) <= Total(q.d)
<1>1. PICK x \in Seq(Nat) : q.d.log = d.log \o x
  BY DEF Continues
<1>2. q.d \in DataSet /\ q.d.got = d.got
  BY DEF Continues, PlaceSet
<1>3. Len(d.log \o x) = Len(d.log) + Len(x) /\ Len(x) \in Nat
  BY ConcatProperties DEF DataSet
<1>4. Total(d) = Len(d.log) + Len(d.got) /\ Len(d.log) \in Nat /\ Len(d.got) \in Nat
  BY TotalIs
<1>5. Total(q.d) = Len(q.d.log) + Len(q.d.got)
  BY DEF Total
<1>6. Len(q.d.log) = Len(d.log) + Len(x) /\ Len(q.d.got) = Len(d.got)
  BY <1>1, <1>2, <1>3
<1>7. \A a, b, c \in Nat : a + b <= (a + c) + b
  OBVIOUS
<1>8. Total(d) <= Total(q.d)
  BY <1>3, <1>4, <1>5, <1>6, <1>7
<1>. QED  BY <1>2, <1>8

\* The oldest of the replies, taken.
LEMMA TakeOne ==
  ASSUME NEW l \in Seq(Nat), NEW g \in Seq(Nat), l # <<>>
  PROVE  /\ Head(l) \in Nat /\ Len(Tail(l)) = Len(l) - 1 /\ Len(Append(g, Head(l))) = Len(g) + 1
         /\ Len(l) \in Nat /\ Len(g) \in Nat /\ Append(g, Head(l)) \in Seq(Nat)
OBVIOUS

LEMMA StepGrows ==
  ASSUME Sizes, NEW p \in PlaceSet, NEW x \in Item, NEW q, Leads1(p, x, q)
  PROVE  q \in PlaceSet /\ Total(p.d) <= Total(q.d)
<1>1. q \in PlaceSet /\ p.d \in DataSet
  BY StepTyped DEF PlaceSet
<1>2. CASE x.op \in {"send", "heard"}
  <2>1. x.b \in C!Byte /\ Fits(p, x.b) /\ q = After(p, x.b)
    BY <1>2 DEF Leads1, Item
  <2>2. Continues(p.d, q)
    BY <2>1, AfterTyped
  <2>. QED  BY <1>1, <2>2, ContinuesGrows
<1>3. CASE x.op \notin {"send", "heard"}
  <2>1. p.d.log # <<>> /\ q = Place(0, p.a, Taken(p.d))
    BY <1>3 DEF Leads1
  <2>2. q.d.log = Tail(p.d.log) /\ q.d.got = Append(p.d.got, Head(p.d.log))
    BY <2>1 DEF Place, Taken, Data
  <2>3. p.d.log \in Seq(Nat) /\ p.d.got \in Seq(Nat) /\ q.d \in DataSet
    BY <1>1 DEF DataSet, PlaceSet
  <2>4. Len(q.d.log) = Len(p.d.log) - 1 /\ Len(q.d.got) = Len(p.d.got) + 1
    <3>1. PICK l \in Seq(Nat), g \in Seq(Nat) : l = p.d.log /\ g = p.d.got
      BY <2>3
    <3>2. Len(Tail(l)) = Len(l) - 1 /\ Len(Append(g, Head(l))) = Len(g) + 1
      BY <2>1, <3>1, TakeOne
    <3>. QED  BY <2>2, <3>1, <3>2
  <2>5. Total(p.d) = Len(p.d.log) + Len(p.d.got) /\ Len(p.d.log) \in Nat /\ Len(p.d.got) \in Nat
    BY <1>1, TotalIs
  <2>6. Total(q.d) = Len(q.d.log) + Len(q.d.got)
    BY DEF Total
  <2>7. \A a, b \in Nat : a + b <= (a - 1) + (b + 1)
    OBVIOUS
  <2>8. Total(p.d) <= Total(q.d)
    BY <2>4, <2>5, <2>6, <2>7
  <2>. QED  BY <1>1, <2>8
<1>. QED  BY <1>1, <1>2, <1>3

LEMMA LeadsGrows ==
  ASSUME Sizes, NEW p \in PlaceSet, NEW s \in Seq(Item), NEW q, Leads(p, s, q)
  PROVE  Within({r \in PlaceSet : Total(r.d) <= Total(q.d)}, p, s, q)
<1>. DEFINE n == Len(s)
            G == {r \in PlaceSet : Total(r.d) <= Total(q.d)}
<1>1. PICK h : IsPath(h, s, p, q)
  BY DEF Leads
<1>2. h[0] = p /\ h[n] = q /\ \A i \in 1 .. n : Leads1(h[i - 1], s[i], h[i])
  BY <1>1 DEF IsPath
<1>3. n \in Nat
  OBVIOUS
<1>4. ASSUME NEW i \in 1 .. n, h[i - 1] \in PlaceSet PROVE h[i] \in PlaceSet /\ Total(h[i - 1].d) <= Total(h[i].d)
  <2>1. s[i] \in Item
    OBVIOUS
  <2>. QED  BY <1>2, <1>4, <2>1, StepGrows
<1>. HIDE DEF n
<1>5. \A i \in 0 .. n : h[i] \in PlaceSet
  BY <1>2, <1>3, <1>4, Along
<1>6. PICK k : k = [i \in 0 .. n |-> h[n - i]]
  OBVIOUS
<1>7. \A i \in 0 .. n : k[i] = h[n - i] /\ n - i \in 0 .. n /\ n - (n - i) = i
  BY <1>3, <1>6
<1>8. k[0] \in G
  <2>1. 0 \in 0 .. n /\ n - 0 = n /\ n \in 0 .. n
    BY <1>3
  <2>2. k[0] = q /\ q \in PlaceSet
    BY <1>2, <1>5, <1>7, <2>1
  <2>3. Total(q.d) \in Nat
    BY <2>2, TotalIs DEF PlaceSet
  <2>. QED  BY <2>2, <2>3
<1>9. ASSUME NEW i \in 1 .. n, k[i - 1] \in G PROVE k[i] \in G
  <2>1. i \in 0 .. n /\ i - 1 \in 0 .. n /\ n - (i - 1) \in 1 .. n /\ (n - (i - 1)) - 1 = n - i /\ n - i \in 0 .. n
    BY <1>3
  <2>2. PICK j : j = n - (i - 1) /\ j \in 1 .. n /\ j - 1 = n - i
    BY <2>1
  <2>3. k[i - 1] = h[j] /\ k[i] = h[j - 1]
    BY <1>7, <2>1, <2>2
  <2>4. h[j - 1] \in PlaceSet /\ h[j] \in PlaceSet
    BY <1>3, <1>5, <2>1, <2>2
  <2>5. Total(h[j - 1].d) <= Total(h[j].d)
    BY <1>4, <2>2, <2>4
  <2>6. Total(h[j].d) <= Total(q.d) /\ q \in PlaceSet
    BY <1>8, <1>9, <2>3, <1>5, <1>2, <1>3
  <2>7. Total(h[j - 1].d) \in Nat /\ Total(h[j].d) \in Nat /\ Total(q.d) \in Nat
    BY <2>4, <2>6, TotalIs DEF PlaceSet
  <2>8. Total(h[j - 1].d) <= Total(q.d)
    BY <2>5, <2>6, <2>7
  <2>. QED  BY <2>3, <2>4, <2>8
<1>. HIDE DEF G
<1>10. \A i \in 0 .. n : k[i] \in G
  BY <1>3, <1>8, <1>9, Along
<1>11. \A i \in 0 .. n : h[i] \in G
  <2>1. ASSUME NEW i \in 0 .. n PROVE h[i] \in G
    <3>1. k[n - i] = h[n - (n - i)] /\ n - i \in 0 .. n /\ n - (n - i) = i
      BY <1>7
    <3>. QED  BY <1>10, <3>1
  <2>. QED  BY <2>1
<1>12. Within(G, p, s, q)
  BY <1>1, <1>11 DEF Within, n
<1>. QED  BY <1>12 DEF G

\* The host is sure of a place from which more replies are still to come.
LEMMA SureBefore ==
  ASSUME Sizes, NEW p \in PlaceSet, NEW s \in Seq(Item), NEW q, Leads(p, s, q),
         NEW d \in DataSet, Total(q.d) < Total(d)
  PROVE  Within(Sures(d), p, s, q)
<1>. DEFINE G == {r \in PlaceSet : Total(r.d) <= Total(q.d)}
<1>1. Within(G, p, s, q)
  BY LeadsGrows
<1>2. G \subseteq Sures(d)
  <2>1. q \in PlaceSet
    BY LeadsTyped
  <2>2. ASSUME NEW r \in G PROVE r \in Sures(d)
    <3>1. Total(r.d) \in Nat /\ Total(q.d) \in Nat /\ Total(d) \in Nat
      BY <2>1, TotalIs DEF PlaceSet
    <3>2. Total(r.d) < Total(d)
      BY <3>1
    <3>. QED  BY <3>2 DEF Sures, Sure
  <2>. QED  BY <2>2
<1>. HIDE DEF G
<1>. QED  BY <1>1, <1>2 DEF Within

\* The host only looks: the memory stays as it is.
LEMMA SettledLooks ==
  ASSUME NEW c \in Commands \ Writing, NEW a, NEW d
  PROVE  Settled(c, a, d).c \notin Writing /\ Settled(c, a, d).d.m = d.m
<1>1. c \notin {23, 24, 25} /\ 0 \notin Writing
  BY DEF Writing
<1>2. NewMemory(c, a, d.z, d.m, d.f) = d.m
  BY <1>1 DEF NewMemory
<1>. QED  BY <1>1, <1>2 DEF Settled, Place, Finish, Data

LEMMA StepLooks ==
  ASSUME Sizes, NEW p \in PlaceSet, p.c \notin Writing, NEW x \in Look, NEW q, Leads1(p, x, q)
  PROVE  q \in PlaceSet /\ q.c \notin Writing /\ q.d.m = p.d.m
<1>1. q \in PlaceSet /\ p.c \in Commands
  BY ItemSets, StepTyped DEF PlaceSet
<1>2. CASE x.op = "send"
  <2>1. x.of = p.c /\ q = After(p, x.b)
    BY <1>2 DEF Leads1
  <2>2. CASE p.c = 0
    <3>1. x.b \notin Writing
      BY <1>2, <2>1, <2>2 DEF Look
    <3>2. Command(x.b) \in Commands \ Writing
      BY <3>1 DEF Command, Commands, Writing
    <3>3. q = Settled(Command(x.b), <<>>, p.d)
      BY <2>1, <2>2 DEF After
    <3>. QED  BY <1>1, <3>2, <3>3, SettledLooks
  <2>3. CASE p.c # 0
    <3>1. q = Settled(p.c, Append(p.a, x.b), p.d)
      BY <2>1, <2>3 DEF After
    <3>. QED  BY <1>1, <3>1, SettledLooks
  <2>. QED  BY <2>2, <2>3
<1>3. CASE x.op # "send"
  <2>1. x.op # "heard"
    BY DEF Look, Deed
  <2>2. q = Place(0, p.a, Taken(p.d))
    BY <1>3, <2>1 DEF Leads1
  <2>. QED  BY <1>1, <2>2 DEF Place, Taken, Data, Writing
<1>. QED  BY <1>2, <1>3

LEMMA SureLooking ==
  ASSUME Sizes, NEW p \in PlaceSet, p.c \notin Writing, NEW s \in Seq(Look), NEW q, Leads(p, s, q),
         NEW d, d.m = q.d.m
  PROVE  Within(Sures(d), p, s, q) /\ q.d.m = p.d.m
<1>. DEFINE n == Len(s)
            G == {r \in PlaceSet : r.c \notin Writing /\ r.d.m = p.d.m}
<1>1. PICK h : IsPath(h, s, p, q)
  BY DEF Leads
<1>2. h[0] = p /\ h[n] = q /\ \A i \in 1 .. n : Leads1(h[i - 1], s[i], h[i])
  BY <1>1 DEF IsPath
<1>3. n \in Nat
  OBVIOUS
<1>4. ASSUME NEW i \in 1 .. n, h[i - 1] \in G PROVE h[i] \in G
  <2>1. s[i] \in Look
    OBVIOUS
  <2>2. h[i - 1] \in PlaceSet /\ h[i - 1].c \notin Writing /\ h[i - 1].d.m = p.d.m
    BY <1>4
  <2>3. h[i] \in PlaceSet /\ h[i].c \notin Writing /\ h[i].d.m = h[i - 1].d.m
    BY <1>2, <2>1, <2>2, StepLooks
  <2>. QED  BY <2>2, <2>3
<1>5. h[0] \in G
  BY <1>2
<1>. HIDE DEF n, G
<1>6. \A i \in 0 .. n : h[i] \in G
  BY <1>3, <1>4, <1>5, Along
<1>7. q.d.m = p.d.m
  <2>1. h[n] \in G
    BY <1>3, <1>6
  <2>. QED  BY <1>2, <2>1 DEF G
<1>8. \A i \in 0 .. n : h[i] \in Sures(d)
  BY <1>6, <1>7 DEF G, Sures, Sure
<1>. QED  BY <1>1, <1>7, <1>8 DEF Within, n

\* That the host takes a reply changes nothing of this.
LEMMA SureTaking ==
  ASSUME Sizes, NEW p \in PlaceSet, p.d.log # <<>>, NEW line \in Seq(C!Byte), NEW q, NEW d,
         Within(Sures(d), p, Items(line), q), NEW g, g = Append(p.d.got, Head(p.d.log))
  PROVE  Within(Sures(d), Dropped(1, g, p), Items(line), Dropped(1, g, q))
<1>. DEFINE n == Len(line)
<1>1. PICK h : IsPath(h, Items(line), p, q) /\ \A i \in 0 .. Len(Items(line)) : h[i] \in Sures(d)
  BY DEF Within
<1>2. n \in Nat /\ Len(Items(line)) = n
  BY ItemsFacts
<1>3. p.d.log \in Seq(Nat) /\ p.d.got \in Seq(Nat) /\ 1 \in 0 .. Len(p.d.log) /\ Head(p.d.log) \in Nat
      /\ Len(p.d.log) \in Nat /\ Len(p.d.log) >= 1
  <2>1. p.d.log \in Seq(Nat) /\ p.d.got \in Seq(Nat)
    BY DEF PlaceSet, DataSet
  <2>2. PICK l \in Seq(Nat) : l = p.d.log /\ l # <<>>
    BY <2>1
  <2>3. Len(l) \in Nat /\ Len(l) >= 1 /\ Head(l) \in Nat
    BY <2>2
  <2>4. 1 \in 0 .. Len(l)
    BY <2>3
  <2>. QED  BY <2>1, <2>2, <2>3, <2>4
<1>4. g \in Seq(Nat) /\ Len(g) = Len(p.d.got) + 1
  BY <1>3
<1>6. PICK k : /\ IsPath(k, Items(line), Dropped(1, g, p), Dropped(1, g, q))
               /\ \A i \in 0 .. n : k[i] = Dropped(1, g, h[i]) /\ Continues(p.d, h[i])
  BY <1>1, <1>3, DroppedPath
<1>7. ASSUME NEW i \in 0 .. n PROVE k[i] \in Sures(d)
  <2>1. PICK r : r = h[i]
    OBVIOUS
  <2>2. r \in PlaceSet /\ Sure(r.d, d) /\ Continues(p.d, r)
    BY <1>1, <1>2, <1>6, <2>1 DEF Sures
  <2>3. PICK x \in Seq(Nat) : r.d.log = p.d.log \o x
    BY <2>2 DEF Continues
  <2>4. r.d \in DataSet /\ r.d.log \in Seq(Nat) /\ r.d.got = p.d.got
    BY <2>2 DEF Continues, PlaceSet, DataSet
  <2>5. Len(r.d.log) \in Nat /\ Len(r.d.log) >= 1
    <3>1. Len(p.d.log \o x) = Len(p.d.log) + Len(x) /\ Len(x) \in Nat
      BY <1>3, ConcatProperties
    <3>2. Len(r.d.log) = Len(p.d.log) + Len(x)
      BY <2>3, <3>1
    <3>3. \A a, b \in Nat : a >= 1 => a + b \in Nat /\ a + b >= 1
      OBVIOUS
    <3>. QED  BY <1>3, <3>1, <3>2, <3>3
  <2>6. PICK l : l = SubSeq(r.d.log, 1 + 1, Len(r.d.log))
    OBVIOUS
  <2>7. l \in Seq(Nat) /\ Len(l) = Len(r.d.log) - 1
    <3>1. PICK t \in Seq(Nat) : t = r.d.log
      BY <2>4
    <3>2. l = SubSeq(t, 1 + 1, Len(t)) /\ Len(t) \in Nat /\ Len(t) >= 1
      BY <2>5, <2>6, <3>1
    <3>3. SubSeq(t, 1, Len(t)) = t /\ 1 \in 1 .. Len(t) /\ t # <<>>
      BY <3>2
    <3>4. l = Tail(t)
      BY <3>2, <3>3, RestFacts
    <3>5. l \in Seq(Nat) /\ Len(l) = Len(t) - 1
      BY <3>3, <3>4
    <3>. QED  BY <3>1, <3>5
  <2>8. k[i] = Place(r.c, r.a, Data(r.d.z, r.d.m, r.d.f, l, g))
    BY <1>6, <2>1, <2>6 DEF Dropped
  <2>9. Data(r.d.z, r.d.m, r.d.f, l, g) \in DataSet
    BY <1>4, <2>4, <2>7 DEF Data, DataSet
  <2>10. k[i] \in PlaceSet /\ k[i].d = Data(r.d.z, r.d.m, r.d.f, l, g)
    BY <2>2, <2>8, <2>9 DEF PlaceSet, Place
  <2>11. k[i].d.m = r.d.m /\ Total(k[i].d) = Total(r.d)
    <3>1. k[i].d.m = r.d.m /\ k[i].d.log = l /\ k[i].d.got = g
      BY <2>10 DEF Data
    <3>2. Len(r.d.got) = Len(p.d.got) /\ Len(p.d.got) \in Nat
      BY <1>3, <2>4
    <3>3. Total(k[i].d) = Len(l) + Len(g) /\ Total(r.d) = Len(r.d.log) + Len(r.d.got)
      BY <3>1 DEF Total
    <3>4. \A a, b \in Nat : (a - 1) + (b + 1) = a + b
      OBVIOUS
    <3>5. Len(l) + Len(g) = (Len(r.d.log) - 1) + (Len(r.d.got) + 1) /\ Len(r.d.got) \in Nat
      BY <1>4, <2>7, <3>2
    <3>. QED  BY <2>5, <3>1, <3>3, <3>4, <3>5
  <2>. QED  BY <2>2, <2>10, <2>11 DEF Sures, Sure
<1>. QED  BY <1>2, <1>6, <1>7 DEF Within

LEMMA MemoryIsKnown == \A m \in Memory : m # <<>>
<1>1. SUFFICES ASSUME NEW m \in Memory, m = <<>> PROVE FALSE
  OBVIOUS
<1>2. DOMAIN m = {"data", "eeprom", "flash", "rww"}
  BY DEF Memory
<1>3. DOMAIN <<>> = {}
  OBVIOUS
<1>. QED  BY <1>1, <1>2, <1>3

\* A byte that is sent is the next on the line.
LEMMA LineSure ==
  ASSUME NEW G, NEW p, NEW line \in Seq(C!Byte), NEW mid \in G, Within(G, p, Items(line), mid),
         NEW b \in C!Byte, Fits(mid, b), After(mid, b) \in G
  PROVE  Within(G, p, Items(Append(line, b)), After(mid, b))
<1>1. HeardByte(b) \in Item /\ Leads1(mid, HeardByte(b), After(mid, b))
  BY HeardItem
<1>2. Within(G, mid, <<HeardByte(b)>>, After(mid, b))
  BY <1>1, WithinOne
<1>3. Items(line) \in Seq(Item) /\ Items(Append(line, b)) = Items(line) \o <<HeardByte(b)>>
  BY ItemsFacts
<1>4. <<HeardByte(b)>> \in Seq(Item)
  BY <1>1
<1>. QED  BY <1>2, <1>3, <1>4, WithinThen

\* c.hello asks for the version.
LEMMA TurnsVersion ==
  ASSUME Sizes, NEW d \in Quiet
  PROVE  Turns(Look, C!Cmd(16), {d}, ToldAt(FlashSize, d.m, d.f, d.got))
<1>1. C!Cmd(16) = C!With(16, <<>>) /\ Ready(16, <<>>)
  BY CommandAlone
<1>2. /\ Answers(16, <<>>, d.z, d.m) = <<>> /\ NewZ(16, <<>>, d.z) = FlashSize
      /\ NewMemory(16, <<>>, d.z, d.m, d.f) = d.m /\ NewBuffer(16, <<>>, d.z, d.f) = d.f
  BY DEF Answers, NewZ, NewMemory, NewBuffer
<1>3. d.got \o <<>> = d.got
  BY PeersFacts, ConcatEmptySeq
<1>4. PICK e : e = Answered(16, <<>>, d)
  OBVIOUS
<1>5. e.z = FlashSize /\ e.m = d.m /\ e.f = d.f /\ e.got = d.got
  <2>1. e = Data(FlashSize, d.m, d.f, <<>>, d.got)
    BY <1>2, <1>3, <1>4 DEF Answered
  <2>. QED  BY <2>1 DEF Data
<1>6. C!With(16, <<>>) \o C!Recvs(0) = C!Cmd(16)
  <2>1. 16 \in 16 .. 27 /\ <<>> \in Seq(C!Byte)
    OBVIOUS
  <2>2. C!With(16, <<>>) \in Seq(Item) /\ C!Recvs(0) = <<>>
    <3>1. C!With(16, <<>>) \in Seq(Item)
      BY <2>1, WithItems
    <3>2. C!Recvs(0) = <<>>
      BY DEF C!Recvs
    <3>. QED  BY <3>1, <3>2
  <2>3. C!With(16, <<>>) \o <<>> = C!With(16, <<>>)
    BY <2>2, ConcatEmptySeq
  <2>. QED  BY <1>1, <2>2, <2>3
<1>7. Turns(Look, C!With(16, <<>>) \o C!Recvs(0), {d}, {e}) /\ e \in Quiet
  <2>1. Len(Answers(16, <<>>, d.z, d.m)) = 0 /\ 16 \notin Writing
    BY <1>2 DEF Writing
  <2>. QED  BY <1>1, <1>4, <2>1, TurnsAsk
<1>8. {e} \subseteq ToldAt(FlashSize, d.m, d.f, d.got)
  BY <1>5, <1>7 DEF ToldAt, Told, Peers
<1>9. Turns(Look, C!Cmd(16), {d}, {e})
  BY <1>6, <1>7
<1>. QED  BY <1>8, <1>9, TurnsWider

LEMMA VersionBytes ==
  ASSUME Sizes, NEW m
  PROVE  FlashBytes(m, FlashSize, Len(Version)) = Version
<1>1. Version \in Seq(C!Byte) /\ Len(Version) \in Nat /\ FlashSize \in Nat
  BY VersionFacts, SizeFacts
<1>2. ASSUME NEW i \in 1 .. Len(Version) PROVE FlashOf(m, FlashSize + i - 1) = Version[i]
  <2>1. PICK x : x = FlashSize + i - 1
    OBVIOUS
  <2>2. ~(x < FlashSize) /\ x < FlashSize + Len(Version) /\ x - FlashSize + 1 = i
    BY <1>1, <2>1
  <2>3. FlashOf(m, x) = Version[x - FlashSize + 1]
    BY <2>2 DEF FlashOf
  <2>. QED  BY <2>1, <2>2, <2>3
<1>3. FlashBytes(m, FlashSize, Len(Version)) = [i \in 1 .. Len(Version) |-> Version[i]]
  BY <1>2 DEF FlashBytes
<1>. QED  BY <1>1, <1>3

\* Places from which a script leads on, and of whose end the host is sure.
Surely(d, s, e) == Within(Sures(e), Idle(d), s, Idle(e)) /\ Total(d) < Total(e)

LEMMA IdlePlace ==
  ASSUME NEW d \in Quiet
  PROVE  Idle(d) \in PlaceSet /\ Idle(d).c \notin Writing /\ Idle(d).d = d /\ d \in DataSet
         /\ Total(d) = Len(d.got) /\ Len(d.got) \in Nat
<1>1. d \in DataSet /\ d.log = <<>> /\ d.got \in Seq(Nat)
  BY DEF Quiet, DataSet
<1>2. Idle(d).c = 0 /\ Idle(d).a = <<>> /\ Idle(d).d = d
  BY DEF Idle, Place
<1>3. Idle(d) \in PlaceSet
  BY <1>1 DEF Idle, Place, PlaceSet, Commands, Waiting
<1>4. Total(d) = 0 + Len(d.got) /\ Len(d.got) \in Nat
  BY <1>1 DEF Total
<1>. QED  BY <1>1, <1>2, <1>3, <1>4 DEF Writing

Ask == C!Cmd(16) \o C!ReadFlash(Len(Version))

\* The version that is received comes from a peer that has done all it was sent before.
LEMMA AskDone ==
  ASSUME Sizes, NEW d \in Quiet
  PROVE  \E e \in Quiet : Surely(d, Ask, e) /\ C!IsSuffix(Version, e.got)
<1>1. Len(Version) \in 1 .. Count /\ Version \in Seq(Nat) /\ d.got \in Seq(Nat)
  <2>1. Version \in Seq(C!Byte) /\ Len(Version) \in 1 .. Count /\ \A b \in C!Byte : b \in Nat
    BY VersionFacts DEF C!Byte
  <2>2. Version \in Seq(Nat)
    BY <2>1
  <2>. QED  BY <2>1, <2>2, PeersFacts
<1>2. PICK g : g = d.got \o Version
  OBVIOUS
<1>3. Turns(Look, C!Cmd(16), {d}, ToldAt(FlashSize, d.m, d.f, d.got))
  BY TurnsVersion
<1>4. ASSUME NEW e \in ToldAt(FlashSize, d.m, d.f, d.got)
      PROVE  Turns(Look, C!ReadFlash(Len(Version)), {e}, Told(d.m, d.f, g))
  <2>1. e \in Quiet /\ e.m = d.m /\ e.f = d.f /\ e.got = d.got /\ e.z = FlashSize
    BY DEF ToldAt, Told, Peers
  <2>2. Turns(Look, C!ReadFlash(Len(Version)), {e},
              Told(e.m, e.f, e.got \o FlashBytes(e.m, e.z, Len(Version))))
    BY <1>1, <2>1, TurnsReadFlash
  <2>. QED  BY <1>2, <2>1, <2>2, VersionBytes
<1>5. C!ReadFlash(Len(Version)) \in Seq(Look) /\ Look \in SUBSET Item
  BY <1>1, TurnsReadFlash, ItemSets DEF Turns
<1>6. Turns(Look, Ask, {d}, Told(d.m, d.f, g))
  BY <1>3, <1>4, <1>5, TurnsOn DEF Ask
<1>7. PICK e \in Told(d.m, d.f, g) : Leads(Idle(d), Ask, Idle(e)) /\ Ask \in Seq(Look)
  BY <1>6 DEF Turns
<1>8. e \in Quiet /\ e.got = g
  BY DEF Told, Peers
<1>9. Within(Sures(e), Idle(d), Ask, Idle(e))
  BY <1>7, <1>8, IdlePlace, SureLooking
<1>10. Total(d) < Total(e)
  <2>1. Len(g) = Len(d.got) + Len(Version) /\ Len(d.got) \in Nat /\ Len(Version) \in Nat /\ Len(Version) >= 1
    BY <1>1, <1>2, ConcatProperties
  <2>2. Total(d) = Len(d.got) /\ Total(e) = Len(e.got)
    BY <1>8, IdlePlace
  <2>3. Len(d.got) < Len(g)
    BY <2>1
  <2>. QED  BY <1>8, <2>2, <2>3
<1>11. C!IsSuffix(Version, e.got)
  BY <1>1, <1>2, <1>8, SuffixOf
<1>. QED  BY <1>8, <1>9, <1>10, <1>11 DEF Surely

\* When verify-region has read a byte, the image has been programmed: the image or,
\* if the page buffer held words of another, what they made of it.
LEMMA WholeBurn ==
  ASSUME Sizes, NEW image \in [0 .. FlashSize - 1 -> C!Byte], NEW n \in 1 .. FlashSize
  PROVE  Whole(Burn(image, n)) /\ Whole(C!AppStop) /\ Whole(C!Chunks(image, n))
<1>1. Whole(C!Chunks(image, n))
  BY WholeRegions
<1>2. Whole(C!FlashEnd)
  <2>1. Whole(C!CxWriteFlash(0, 0, 17)) /\ Whole(C!SetAddr(0))
    BY SmallBytes, WholeCxWriteFlash, WholeSetAddr
  <2>. QED  BY <2>1, WholeThen DEF C!FlashEnd
<1>3. Whole(C!AppStop)
  <2>1. C!Cmd(27) = C!With(27, <<>>) /\ Ready(27, <<>>)
    BY CommandAlone
  <2>2. Whole(C!Cmd(27))
    BY <2>1, WholeTell
  <2>. QED  BY <2>2, WholeGetAddr, WholeThen DEF C!AppStop, C!GetStatus
<1>4. Whole(C!AppStop \o C!Chunks(image, n))
  BY <1>1, <1>3, WholeThen
<1>. QED  BY <1>1, <1>2, <1>3, <1>4, WholeThen DEF Burn

LEMMA BurnSurely ==
  ASSUME Sizes, NEW s \in Seq(Item), NEW n \in 1 .. FlashSize, NEW d \in Quiet, NEW r \in Quiet,
         Leads(Idle(d), s, Idle(r)), r.m.rww = "open"
  PROVE  \E e \in Quiet : /\ Surely(d, s \o C!VerifyChunks(n), e) /\ e.m = r.m
                          /\ C!IsSuffix(BytesAt(e.m, "flash", 0, n), e.got)
<1>1. PICK t, x, g : t = C!VerifyChunks(n) /\ x = BytesAt(r.m, "flash", 0, n) /\ g = r.got \o x
  OBVIOUS
<1>2. Turns(Look, t, {r}, Told(r.m, r.f, g))
  BY <1>1, TurnsVerify
<1>3. PICK e \in Told(r.m, r.f, g) : Leads(Idle(r), t, Idle(e)) /\ t \in Seq(Look)
  BY <1>2 DEF Turns
<1>4. e \in Quiet /\ e.got = g /\ e.m = r.m
  BY DEF Told, Peers
<1>5. Len(r.got) < Len(g) /\ Len(r.got) \in Nat /\ Len(g) \in Nat /\ C!IsSuffix(x, g)
  <2>1. "flash" \in Spaces /\ 0 + n <= SizeOf("flash") /\ n \in Nat /\ 0 \in Nat /\ n >= 1
    BY SizeFacts DEF Spaces, SizeOf
  <2>2. r.m \in Memory /\ r.got \in Seq(Nat)
    BY PeersFacts
  <2>3. x \in Seq(Nat) /\ Len(x) = n
    BY <1>1, <2>1, <2>2, BytesFacts
  <2>4. Len(g) = Len(r.got) + Len(x) /\ Len(r.got) \in Nat
    BY <1>1, <2>2, <2>3, ConcatProperties
  <2>5. C!IsSuffix(x, g)
    BY <1>1, <2>2, <2>3, SuffixOf
  <2>. QED  BY <2>1, <2>3, <2>4, <2>5
<1>6. Total(r) < Total(e) /\ Total(r) \in Nat /\ Total(e) \in Nat
  <2>1. Total(r) = Len(r.got) /\ Total(e) = Len(e.got)
    BY <1>4, IdlePlace
  <2>. QED  BY <1>4, <1>5, <2>1
<1>7. Within(Sures(e), Idle(d), s, Idle(r))
  BY <1>4, <1>6, IdlePlace, SureBefore
<1>8. Within(Sures(e), Idle(r), t, Idle(e))
  BY <1>3, <1>4, IdlePlace, SureLooking
<1>9. Within(Sures(e), Idle(d), s \o t, Idle(e))
  <2>1. t \in Seq(Item)
    BY <1>3, ItemSets
  <2>. QED  BY <1>7, <1>8, <2>1, WithinThen
<1>10. Total(d) < Total(e)
  <2>1. Idle(d) \in {p \in PlaceSet : Total(p.d) <= Total(Idle(r).d)}
    <3>1. Idle(d) \in PlaceSet
      BY IdlePlace
    <3>2. Within({p \in PlaceSet : Total(p.d) <= Total(Idle(r).d)}, Idle(d), s, Idle(r))
      BY <3>1, LeadsGrows
    <3>. QED  BY <3>2, WithinHolds
  <2>2. Total(d) <= Total(r)
    BY <2>1, IdlePlace
  <2>3. Total(d) \in Nat
    BY IdlePlace
  <2>. QED  BY <1>6, <2>2, <2>3
<1>. QED  BY <1>1, <1>4, <1>5, <1>9, <1>10 DEF Surely

\* Whatever was in the page buffer, flash-image has verified the flash that there is, and
\* if it found the buffer empty it has done what it is for.
LEMMA BurnOpens ==
  ASSUME Sizes, NEW image \in [0 .. FlashSize - 1 -> C!Byte], NEW n \in 1 .. FlashSize, NEW d \in Quiet
  PROVE  \E r \in Quiet : /\ Leads(Idle(d), Burn(image, n), Idle(r)) /\ r.m.rww = "open"
                          /\ d.f = C!Erased => r.m = Opened(Filled(d.m, image, C!Rounded(n), Upto(n)))
<1>1. CASE d.f = C!Erased
  <2>1. PICK m : m = Opened(Filled(d.m, image, C!Rounded(n), Upto(n)))
    OBVIOUS
  <2>2. Turns(Deed, Burn(image, n), {d}, Peers(m, C!Erased))
    BY <1>1, <2>1, TurnsBurn
  <2>3. PICK r \in Peers(m, C!Erased) : Leads(Idle(d), Burn(image, n), Idle(r))
    BY <2>2 DEF Turns
  <2>4. r \in Quiet /\ r.m = m
    BY DEF Peers
  <2>5. m.rww = "open"
    BY <2>1, PeersFacts, FilledOpens
  <2>. QED  BY <2>1, <2>3, <2>4, <2>5
<1>2. CASE d.f # C!Erased
  <2>1. PICK s, t : s = C!AppStop \o C!Chunks(image, n) /\ t = C!FlashEnd
    OBVIOUS
  <2>2. Whole(s)
    <3>1. Whole(C!AppStop) /\ Whole(C!Chunks(image, n))
      BY WholeBurn
    <3>. QED  BY <2>1, <3>1, WholeThen
  <2>3. PICK g \in Quiet : Leads(Idle(d), s, Idle(g))
    BY <2>2 DEF Whole
  <2>4. Turns(Deed, t, {g}, Peers(Opened(g.m), C!Erased))
    BY <2>1, TurnsFlashEnd
  <2>5. PICK r \in Peers(Opened(g.m), C!Erased) : Leads(Idle(g), t, Idle(r)) /\ t \in Seq(Deed)
    BY <2>4 DEF Turns
  <2>6. r \in Quiet /\ r.m.rww = "open"
    <3>1. g.m \in Memory
      BY PeersFacts
    <3>2. r \in Quiet /\ r.m = Opened(g.m)
      BY DEF Peers
    <3>. QED  BY <3>1, <3>2, OpenedFacts
  <2>7. Leads(Idle(d), s \o t, Idle(r))
    <3>1. s \in Seq(Item) /\ t \in Seq(Item)
      BY <2>2, <2>5, ItemSets DEF Whole
    <3>. QED  BY <2>3, <2>5, <3>1, LeadsThen
  <2>8. Burn(image, n) = s \o t
    BY <2>1 DEF Burn
  <2>. QED  BY <1>2, <2>6, <2>7, <2>8
<1>. QED  BY <1>1, <1>2

LEMMA FlashSurely ==
  ASSUME Sizes, NEW w \in Words, w.word = "flash", NEW d \in Quiet
  PROVE  \E e \in Quiet : /\ Surely(d, C!Script(w), e)
                          /\ C!IsSuffix(BytesAt(e.m, "flash", 0, w.n), e.got)
                          /\ d.f = C!Erased => e \in Served(w, d.m)
<1>1. PICK n \in 1 .. FlashSize, image \in [0 .. FlashSize - 1 -> C!Byte] : n = w.n /\ image = w.image
  BY WordFacts
<1>2. PICK s : s = Burn(image, n)
  OBVIOUS
<1>3. s \in Seq(Item)
  BY <1>2, WholeBurn DEF Whole
<1>4. PICK r \in Quiet : /\ Leads(Idle(d), s, Idle(r)) /\ r.m.rww = "open"
                         /\ d.f = C!Erased => r.m = Opened(Filled(d.m, image, C!Rounded(n), Upto(n)))
  BY <1>2, BurnOpens
<1>5. C!Script(w) = s \o C!VerifyChunks(n)
  <2>1. C!Script(w) = C!FlashImage(image, n)
    BY <1>1 DEF C!Script
  <2>. QED  BY <1>2, <2>1, ImageBurnt
<1>6. PICK e \in Quiet : /\ Surely(d, s \o C!VerifyChunks(n), e) /\ e.m = r.m
                         /\ C!IsSuffix(BytesAt(e.m, "flash", 0, n), e.got)
  <2>1. Leads(Idle(d), s, Idle(r)) /\ r.m.rww = "open"
    BY <1>4
  <2>. QED  BY <1>3, <2>1, BurnSurely
<1>7. ASSUME d.f = C!Erased PROVE e \in Served(w, d.m)
  <2>1. d.m \in Memory
    BY PeersFacts
  <2>2. e.m = C!Effect(w, d.m)
    <3>1. C!Effect(w, d.m) = Opened(Filled(d.m, image, C!Rounded(n), Upto(n)))
      BY <1>1, <2>1, FlashEffect
    <3>. QED  BY <1>4, <1>6, <1>7, <3>1
  <2>3. C!Returns(w, d.m) = BytesAt(C!Effect(w, d.m), "flash", 0, n)
    BY <1>1, <2>1, FlashReturns
  <2>. QED  BY <1>6, <2>2, <2>3 DEF Served
<1>. QED  BY <1>1, <1>5, <1>6, <1>7

-----------------------------------------------------------------------------
(* The conversation. Where the peer will be when it has taken all bytes on  *)
(* the line is a place from which the rest of the script leads to a peer    *)
(* without a command and a host with no reply left over. A host that was    *)
(* killed leaves such a place, or an unfinished command of those that two   *)
(* zeros finish, which is what a new host begins with. At the end of its    *)
(* script the host has received what it wanted, and the memory is what it   *)
(* believes; if it knows nothing of it, or has verified an image, no byte   *)
(* is still to be written when the last reply has come, and of an image it  *)
(* has received what the flash then holds. Of images that are flashed over  *)
(* words left in the page buffer, and of what is read of closed flash, no   *)
(* more is said.                                                            *)

Here == Data(z, memory, buffer, toHost, got)
Now == Settled(cmd, args, Here)

PeerTyped ==
    /\ toPeer \in Seq(C!Byte) /\ cmd \in Commands /\ args \in Seq(C!Byte)
    /\ IF cmd = 0 THEN args = <<>> ELSE Len(args) <= C!Needs(cmd)
    /\ cmd = 20 /\ Len(args) = 1 => args[1] \in 0 .. Count - 1
    /\ Here \in DataSet

\* Commands that may be cut short.
Cuttable == Cut \cup {0}
CutAssumption == Cut \subseteq {17, 19, 24}

Zero == SendItem(0, 0)
DrainItem == [op |-> "drain"]
FlushItem == [op |-> "flush"]
FlushAsk == <<FlushItem>> \o Ask
DrainAsk == <<DrainItem>> \o FlushAsk
ZeroAsk == <<Zero>> \o DrainAsk
Greet == <<Zero>> \o ZeroAsk

Verified(d) == C!IsSuffix(BytesAt(d.m, "flash", 0, burnt), d.got)
Kept(d) == C!IsSuffix(wanted, d.got) /\ (C!Known => d.m = believed) /\ Verified(d)
Relied == C!Known /\ burnt = 0
Assured(mid, d) ==
    /\ Sure(Here, d)
    /\ Within(Sures(d), Now, Items(toPeer), mid)
    /\ Within(Sures(d), mid, script, Idle(d))
Ends(mid, d) == Leads(mid, script, Idle(d)) /\ Kept(d) /\ (Relied \/ Assured(mid, d))

Talking(mid) ==
    /\ running /\ script \in Seq(Item) /\ script \in Seq(Deed)
    /\ \E d \in Quiet : Ends(mid, d)
Silent(mid) == ~running /\ ~C!Known /\ burnt = 0 /\ script = <<>> /\ mid.c \in Cuttable
Greeting(mid) ==
    /\ running /\ ~C!Known /\ burnt = 0 /\ wanted = Version /\ Len(mid.d.log) <= Len(toHost)
    /\ \/ script = Greet /\ mid.c \in Cuttable
       \/ script = ZeroAsk /\ mid.c \in Cuttable /\ After(mid, 0).c = 0
       \/ script = DrainAsk /\ mid.c = 0
       \/ script = FlushAsk /\ mid.c = 0 /\ toPeer = <<>>

Mode(mid) == Talking(mid) \/ Silent(mid) \/ Greeting(mid)
Onward(mid) == mid \in PlaceSet /\ Leads(Now, Items(toPeer), mid) /\ Mode(mid)
LineInv == PeerTyped /\ \E mid : Onward(mid)

LEMMA HereFacts ==
  /\ Here.z = z /\ Here.m = memory /\ Here.f = buffer /\ Here.log = toHost /\ Here.got = got
  /\ Here \in DataSet <=> /\ z \in Nat /\ memory \in Memory /\ buffer \in PageBuffer
                          /\ toHost \in Seq(Nat) /\ got \in Seq(Nat)
BY DEF Here, Data, DataSet

LEMMA NowFacts ==
  ASSUME Sizes, PeerTyped
  PROVE  Now \in PlaceSet /\ Continues(Here, Now)
<1>1. Continues(Here, Settled(cmd, args, Here))
  BY SettledTyped DEF PeerTyped
<1>. QED  BY <1>1 DEF Now, Continues

\* What matters to the host when nothing of its own has changed.
LEMMA ModeStays ==
  ASSUME NEW mid, Mode(mid), running' = running, script' = script,
         wanted' = wanted, believed' = believed, burnt' = burnt,
         toPeer = <<>> => toPeer' = <<>>,
         Len(mid.d.log) <= Len(toHost) => Len(mid.d.log) <= Len(toHost'),
         \A d \in Quiet : Assured(mid, d) => Assured(mid, d)'
  PROVE  Mode(mid)'
<1>1. CASE Talking(mid)
  <2>1. PICK d \in Quiet : Ends(mid, d)
    BY <1>1 DEF Talking
  <2>2. Kept(d)' /\ Leads(mid, script, Idle(d))' /\ (Relied \/ Assured(mid, d))'
    BY <2>1 DEF Ends, Kept, Verified, Relied, C!Known
  <2>3. Ends(mid, d)'
    BY <2>2 DEF Ends
  <2>. QED  BY <1>1, <2>3 DEF Talking, Mode
<1>2. CASE Silent(mid)
  BY <1>2 DEF Silent, Mode, C!Known
<1>3. CASE Greeting(mid)
  BY <1>3 DEF Greeting, Mode, C!Known
<1>. QED  BY <1>1, <1>2, <1>3 DEF Mode

-----------------------------------------------------------------------------
(* The peer *)

\* The peer takes a byte.
LEMMA PeerHears ==
  ASSUME Sizes, LineInv, C!Process \/ C!RecvByte
  PROVE  LineInv'
<1>1. PICK mid : Onward(mid)
  BY DEF LineInv
<1>. DEFINE b == Head(toPeer)
<1>2. PeerTyped /\ toPeer \in Seq(C!Byte) /\ toPeer # <<>> /\ toPeer' = Tail(toPeer)
      /\ Here' = Here /\ script' = script /\ running' = running /\ toHost' = toHost
      /\ wanted' = wanted /\ believed' = believed /\ burnt' = burnt
  BY DEF LineInv, PeerTyped, C!Process, C!RecvByte, C!host, Here
<1>3. /\ Items(toPeer) \in Seq(Item) /\ Items(toPeer) # <<>> /\ Head(Items(toPeer)) = HeardByte(b)
      /\ Tail(Items(toPeer)) = Items(toPeer') /\ b \in C!Byte /\ toPeer' \in Seq(C!Byte)
  BY <1>2, ItemsFacts
<1>. HIDE DEF b
<1>4. mid \in PlaceSet /\ Leads(Now, Items(toPeer), mid) /\ Mode(mid) /\ Now \in PlaceSet
  BY <1>1, <1>2, NowFacts DEF Onward
<1>5. PICK q : Leads1(Now, HeardByte(b), q) /\ Leads(q, Items(toPeer'), mid)
  BY <1>3, <1>4, LeadsHead
<1>6. Fits(Now, b) /\ q = After(Now, b)
  BY <1>3, <1>4, <1>5, HeardTyped
<1>7. PeerTyped' /\ Now' = After(Now, b)
  <2>1. CASE C!Process
    <3>1. cmd = 0 /\ args = <<>> /\ cmd' = Command(b) /\ args' = <<>>
      BY <1>2, <2>1 DEF C!Process, PeerTyped, Command, b
    <3>2. Now = Place(0, <<>>, Here)
      BY <3>1 DEF Now, Settled
    <3>3. Now.c = 0 /\ Now.d = Here
      BY <3>2 DEF Place
    <3>4. Now' = After(Now, b)
      BY <1>2, <3>1, <3>3 DEF Now, After
    <3>5. Command(b) \in Commands /\ <<>> \in Seq(C!Byte) /\ Len(<<>>) = 0
      BY DEF Command, Commands
    <3>6. Len(<<>>) <= C!Needs(Command(b)) /\ ~(Len(<<>>) = 1)
      BY <3>5, NeedsFacts
    <3>7. PeerTyped'
      BY <1>2, <1>3, <3>1, <3>5, <3>6 DEF PeerTyped
    <3>. QED  BY <3>4, <3>7
  <2>2. CASE C!RecvByte
    <3>1. cmd # 0 /\ Len(args) < C!Needs(cmd) /\ cmd' = cmd /\ args' = Append(args, b)
      BY <2>2 DEF C!RecvByte, b
    <3>2. args \in Seq(C!Byte) /\ cmd \in Commands /\ C!Needs(cmd) \in 0 .. 3 /\ Here \in DataSet
      BY <1>2, NeedsFacts DEF PeerTyped
    <3>3. Len(args) # C!Needs(cmd)
      BY <3>1, <3>2
    <3>4. Now = Place(cmd, args, Here)
      BY <3>3 DEF Now, Settled
    <3>5. Now.c = cmd /\ Now.a = args /\ Now.d = Here
      BY <3>4 DEF Place
    <3>6. Now' = After(Now, b)
      BY <1>2, <3>1, <3>5 DEF Now, After
    <3>7. args' \in Seq(C!Byte) /\ Len(args') = Len(args) + 1 /\ args'[Len(args) + 1] = b /\ Len(args) \in Nat
      BY <1>3, <3>1, <3>2
    <3>8. Len(args') <= C!Needs(cmd)
      BY <3>1, <3>2, <3>7
    <3>9. cmd = 20 /\ Len(args') = 1 => args'[1] \in 0 .. Count - 1
      BY <1>6, <3>5, <3>7 DEF Fits
    <3>10. PeerTyped'
      BY <1>2, <1>3, <3>1, <3>2, <3>7, <3>8, <3>9 DEF PeerTyped
    <3>. QED  BY <3>6, <3>10
  <2>. QED  BY <2>1, <2>2
<1>8. ASSUME NEW d \in Quiet, Assured(mid, d) PROVE Assured(mid, d)'
  <2>1. Within(Sures(d), Now, Items(toPeer), mid) /\ Sure(Here, d) /\ Within(Sures(d), mid, script, Idle(d))
    BY <1>8 DEF Assured
  <2>2. PICK r : Leads1(Now, HeardByte(b), r) /\ Within(Sures(d), r, Items(toPeer'), mid)
    BY <1>3, <2>1, WithinHead
  <2>3. r = Now'
    BY <1>5, <1>6, <1>7, <2>2, LeadsAlone
  <2>4. Within(Sures(d), Now', Items(toPeer'), mid)
    BY <2>2, <2>3
  <2>. QED  BY <1>2, <2>1, <2>4 DEF Assured
<1>9. Mode(mid)'
  BY <1>2, <1>4, <1>8, ModeStays
<1>10. Onward(mid)'
  BY <1>4, <1>5, <1>6, <1>7, <1>9 DEF Onward
<1>. QED  BY <1>7, <1>10 DEF LineInv

\* A step that brings the peer no further than it was as good as.
LEMMA NowStays ==
  ASSUME Sizes, LineInv, PeerTyped', Now' = Now, toPeer' = toPeer, script' = script, running' = running,
         wanted' = wanted, believed' = believed, burnt' = burnt, memory' = Now.d.m,
         NEW x \in Seq(Nat), toHost' = toHost \o x
  PROVE  LineInv'
<1>1. PICK mid : Onward(mid)
  BY DEF LineInv
<1>2. Len(toHost') >= Len(toHost)
  <2>1. toHost \in Seq(Nat)
    BY HereFacts DEF LineInv, PeerTyped
  <2>2. Len(toHost \o x) = Len(toHost) + Len(x) /\ Len(x) \in Nat /\ Len(toHost) \in Nat
    BY <2>1, ConcatProperties
  <2>. QED  BY <2>2
<1>3. Len(mid.d.log) <= Len(toHost) => Len(mid.d.log) <= Len(toHost')
  <2>1. Len(mid.d.log) \in Nat /\ Len(toHost) \in Nat /\ Len(toHost') \in Nat
    <3>1. mid.d.log \in Seq(Nat) /\ toHost \in Seq(Nat) /\ toHost' \in Seq(Nat)
      BY <1>1, HereFacts, ConcatProperties DEF LineInv, PeerTyped, Onward, PlaceSet, DataSet
    <3>. QED  BY <3>1
  <2>. QED  BY <1>2, <2>1
<1>4. Now' \in PlaceSet /\ Here' \in DataSet /\ Total(Here') <= Total(Now'.d)
  <2>1. Now' \in PlaceSet /\ Continues(Here', Now')
    <3>1. /\ cmd' \in Commands /\ args' \in Seq(C!Byte) /\ Here' \in DataSet
          /\ IF cmd' = 0 THEN args' = <<>> ELSE Len(args') <= C!Needs(cmd')
          /\ cmd' = 20 /\ Len(args') = 1 => args'[1] \in 0 .. Count - 1
      BY DEF PeerTyped
    <3>2. Continues(Here', Settled(cmd', args', Here'))
      BY <3>1, SettledTyped
    <3>. QED  BY <3>2 DEF Now, Continues
  <2>2. Here' \in DataSet
    BY DEF PeerTyped
  <2>. QED  BY <2>1, <2>2, ContinuesGrows
<1>5. ASSUME NEW d \in Quiet, Assured(mid, d) PROVE Assured(mid, d)'
  <2>1. Within(Sures(d), Now, Items(toPeer), mid) /\ Within(Sures(d), mid, script, Idle(d))
    BY <1>5 DEF Assured
  <2>2. Now \in Sures(d)
    <3>1. Items(toPeer) \in Seq(Item)
      BY ItemsFacts DEF LineInv, PeerTyped
    <3>. QED  BY <2>1, <3>1, WithinHolds
  <2>3. Sure(Here', d)
    <3>1. Here'.m = Now.d.m
      BY DEF Here, Data
    <3>2. d \in DataSet /\ Now'.d \in DataSet
      BY <1>4 DEF Quiet, PlaceSet
    <3>3. Total(Here') \in Nat /\ Total(Now.d) \in Nat /\ Total(d) \in Nat
      BY <1>4, <3>2, TotalIs
    <3>4. CASE Now.d.m = d.m
      BY <3>1, <3>4 DEF Sure
    <3>5. CASE Total(Now.d) < Total(d)
      <4>1. Total(Here') < Total(d)
        BY <1>4, <3>3, <3>5
      <4>. QED  BY <4>1 DEF Sure
    <3>. QED  BY <2>2, <3>4, <3>5 DEF Sures, Sure
  <2>. QED  BY <2>1, <2>3 DEF Assured
<1>6. Mode(mid)'
  BY <1>1, <1>3, <1>5, ModeStays DEF Onward
<1>7. Onward(mid)'
  BY <1>1, <1>6 DEF Onward
<1>. QED  BY <1>7 DEF LineInv

\* A command is executed at once.
Performs(c) ==
    /\ C!Executes(c) /\ C!Returned
    /\ z' = NewZ(c, args, z) /\ memory' = NewMemory(c, args, z, memory, buffer)
    /\ buffer' = NewBuffer(c, args, z, buffer)
    /\ toHost' = toHost \o Answers(c, args, z, memory)
    /\ got' = got /\ toPeer' = toPeer /\ script' = script /\ running' = running
    /\ wanted' = wanted /\ believed' = believed /\ burnt' = burnt

LEMMA PeerExecutes ==
  ASSUME Sizes, LineInv, NEW c \in 16 .. 27, Performs(c)
  PROVE  LineInv'
<1>. USE DEF Performs
<1>1. PeerTyped /\ cmd = c /\ Len(args) = C!Needs(c) /\ cmd' = 0 /\ args' = <<>> /\ c # 0
  BY DEF LineInv, C!Executes, C!Returned
<1>2. Ready(c, args)
  BY <1>1, NeedsFacts DEF PeerTyped, Ready
<1>3. Here' = Finish(c, args, Here)
  BY HereFacts DEF Here, Finish
<1>4. Here' \in DataSet /\ Answers(c, args, z, memory) \in Seq(Nat)
  <2>1. z \in Nat /\ memory \in Memory /\ buffer \in PageBuffer /\ toHost \in Seq(Nat) /\ got \in Seq(Nat)
    BY <1>1, HereFacts DEF PeerTyped
  <2>2. /\ z' \in Nat /\ memory' \in Memory /\ buffer' \in PageBuffer /\ got' \in Seq(Nat)
        /\ Answers(c, args, z, memory) \in Seq(Nat)
    BY <1>2, <2>1, FinishTyped
  <2>3. toHost' \in Seq(Nat)
    BY <2>1, <2>2, ConcatProperties
  <2>. QED  BY <2>2, <2>3 DEF Here, Data, DataSet
<1>5. Now = Place(0, <<>>, Finish(c, args, Here))
  BY <1>1 DEF Now, Settled
<1>6. Now' = Place(0, <<>>, Here')
  BY <1>1 DEF Now, Settled
<1>7. PeerTyped'
  <2>1. 0 \in Commands /\ <<>> \in Seq(C!Byte)
    BY DEF Commands
  <2>. QED  BY <1>1, <1>4, <2>1 DEF PeerTyped
<1>8. Now' = Now /\ memory' = Now.d.m
  <2>1. Now' = Now
    BY <1>3, <1>5, <1>6
  <2>2. Here'.m = memory'
    BY DEF Here, Data
  <2>3. Now'.d = Here'
    BY <1>6 DEF Place
  <2>. QED  BY <2>1, <2>2, <2>3
<1>. QED  BY <1>4, <1>7, <1>8, NowStays

\* The commands but for the stream.
LEMMA PeerCommand ==
  ASSUME Sizes, LineInv,
         \/ C!VersionCmd \/ C!SetAddrCmd \/ C!GetAddrCmd \/ C!RunCmd \/ C!ReadDataCmd \/ C!ReadEepromCmd
         \/ C!WriteDataCmd \/ C!WriteEepromCmd \/ C!WriteFlashCmd \/ C!AppCmd
  PROVE  LineInv'
<1>1. toHost = toHost \o <<>>
  <2>1. toHost \in Seq(Nat)
    BY HereFacts DEF LineInv, PeerTyped
  <2>. QED  BY <2>1, ConcatEmptySeq
<1>2. CASE C!VersionCmd
  <2>1. /\ NewZ(16, args, z) = FlashSize /\ NewMemory(16, args, z, memory, buffer) = memory
        /\ NewBuffer(16, args, z, buffer) = buffer /\ Answers(16, args, z, memory) = <<>>
    BY DEF NewZ, NewMemory, NewBuffer, Answers
  <2>2. Performs(16)
    BY <1>1, <1>2, <2>1 DEF Performs, C!VersionCmd, C!host
  <2>. QED  BY <2>2, PeerExecutes
<1>3. CASE C!SetAddrCmd
  <2>1. /\ NewZ(17, args, z) = C!Word(args[1], args[2])
        /\ NewMemory(17, args, z, memory, buffer) = memory
        /\ NewBuffer(17, args, z, buffer) = buffer /\ Answers(17, args, z, memory) = <<>>
    BY DEF NewZ, NewMemory, NewBuffer, Answers
  <2>2. Performs(17)
    BY <1>1, <1>3, <2>1 DEF Performs, C!SetAddrCmd, C!host
  <2>. QED  BY <2>2, PeerExecutes
<1>4. CASE C!GetAddrCmd
  <2>1. /\ NewZ(18, args, z) = z /\ NewMemory(18, args, z, memory, buffer) = memory
        /\ NewBuffer(18, args, z, buffer) = buffer
        /\ Answers(18, args, z, memory) = C!LoHi(z)
    BY DEF NewZ, NewMemory, NewBuffer, Answers
  <2>2. Performs(18)
    BY <1>1, <1>4, <2>1 DEF Performs, C!GetAddrCmd, C!Reply, C!host
  <2>. QED  BY <2>2, PeerExecutes
<1>5. CASE C!RunCmd
  <2>1. /\ NewZ(19, args, z) = C!Word(args[1], args[2])
        /\ NewMemory(19, args, z, memory, buffer) = memory
        /\ NewBuffer(19, args, z, buffer) = buffer /\ Answers(19, args, z, memory) = <<>>
    BY DEF NewZ, NewMemory, NewBuffer, Answers
  <2>2. Performs(19)
    BY <1>1, <1>5, <2>1 DEF Performs, C!RunCmd, C!host
  <2>. QED  BY <2>2, PeerExecutes
<1>6. CASE C!ReadDataCmd
  <2>1. /\ NewZ(21, args, z) = z + 1 /\ NewMemory(21, args, z, memory, buffer) = memory
        /\ NewBuffer(21, args, z, buffer) = buffer
        /\ Answers(21, args, z, memory) = <<memory["data"][z % DataSize]>>
    BY DEF NewZ, NewMemory, NewBuffer, Answers
  <2>2. Performs(21)
    BY <1>1, <1>6, <2>1 DEF Performs, C!ReadDataCmd, C!ReadByte, C!Reply, C!host
  <2>. QED  BY <2>2, PeerExecutes
<1>7. CASE C!ReadEepromCmd
  <2>1. /\ NewZ(22, args, z) = z + 1 /\ NewMemory(22, args, z, memory, buffer) = memory
        /\ NewBuffer(22, args, z, buffer) = buffer
        /\ Answers(22, args, z, memory) = <<memory["eeprom"][z % DataSize]>>
    BY DEF NewZ, NewMemory, NewBuffer, Answers
  <2>2. Performs(22)
    BY <1>1, <1>7, <2>1 DEF Performs, C!ReadEepromCmd, C!ReadByte, C!Reply, C!host
  <2>. QED  BY <2>2, PeerExecutes
<1>8. CASE C!WriteDataCmd
  <2>1. /\ NewZ(24, args, z) = z + 1
        /\ NewMemory(24, args, z, memory, buffer) = [memory EXCEPT !["data"][z % DataSize] = args[1]]
        /\ NewBuffer(24, args, z, buffer) = buffer /\ Answers(24, args, z, memory) = <<>>
    BY DEF NewZ, NewMemory, NewBuffer, Answers
  <2>2. Performs(24)
    BY <1>1, <1>8, <2>1 DEF Performs, C!WriteDataCmd, C!WriteByte, C!host
  <2>. QED  BY <2>2, PeerExecutes
<1>9. CASE C!WriteEepromCmd
  <2>1. /\ NewZ(25, args, z) = z + 1
        /\ NewMemory(25, args, z, memory, buffer) = [memory EXCEPT !["eeprom"][z % DataSize] = args[1]]
        /\ NewBuffer(25, args, z, buffer) = buffer /\ Answers(25, args, z, memory) = <<0>>
    BY DEF NewZ, NewMemory, NewBuffer, Answers
  <2>2. Performs(25)
    BY <1>1, <1>9, <2>1 DEF Performs, C!WriteEepromCmd, C!WriteByte, C!Reply, C!host
  <2>. QED  BY <2>2, PeerExecutes
<1>10. CASE C!WriteFlashCmd
  <2>1. NewZ(23, args, z) = z + 2 /\ Answers(23, args, z, memory) = <<0>>
    BY DEF NewZ, Answers
  <2>2. C!Executes(23) /\ C!Returned /\ C!Spm(args[3], args[1], args[2]) /\ z' = z + 2
        /\ toHost' = toHost \o <<0>> /\ toPeer' = toPeer /\ script' = script /\ got' = got /\ running' = running
        /\ wanted' = wanted /\ believed' = believed /\ burnt' = burnt
    BY <1>10 DEF C!WriteFlashCmd, C!Reply, C!host
  <2>3. memory' = NewMemory(23, args, z, memory, buffer) /\ buffer' = NewBuffer(23, args, z, buffer)
    <3>1. CASE args[3] = 3
      BY <2>2, <3>1 DEF C!Spm, C!Reflash, NewMemory, NewBuffer
    <3>2. CASE args[3] = 1
      BY <2>2, <3>2 DEF C!Spm, C!Reflash, NewMemory, NewBuffer
    <3>3. CASE args[3] = 5
      BY <2>2, <3>3 DEF C!Spm, C!Reflash, NewMemory, NewBuffer
    <3>4. CASE args[3] = 17
      BY <2>2, <3>4 DEF C!Spm, C!Reflash, NewMemory, NewBuffer
    <3>5. CASE args[3] \notin {1, 3, 5, 17}
      BY <2>2, <3>5 DEF C!Spm, NewMemory, NewBuffer
    <3>. QED  BY <3>1, <3>2, <3>3, <3>4, <3>5
  <2>4. Performs(23)
    BY <2>1, <2>2, <2>3 DEF Performs
  <2>. QED  BY <2>4, PeerExecutes
<1>11. CASE C!AppCmd
  <2>1. ASSUME NEW c \in {26, 27}
        PROVE  /\ NewZ(c, args, z) = z /\ NewMemory(c, args, z, memory, buffer) = memory
               /\ NewBuffer(c, args, z, buffer) = buffer /\ Answers(c, args, z, memory) = <<>>
    BY DEF NewZ, NewMemory, NewBuffer, Answers
  <2>2. PICK c \in {26, 27} : C!Executes(c)
    BY <1>11 DEF C!AppCmd
  <2>3. Performs(c)
    BY <1>1, <1>11, <2>1, <2>2 DEF Performs, C!AppCmd, C!host
  <2>. QED  BY <2>3, PeerExecutes
<1>. QED  BY <1>2, <1>3, <1>4, <1>5, <1>6, <1>7, <1>8, <1>9, <1>10, <1>11

\* What is left of a stream after its first byte.
LEMMA StreamedLess ==
  ASSUME Sizes, NEW k \in 0 .. Count - 1
  PROVE  LET left == (k + Count - 1) % Count
         IN  /\ left \in 0 .. Count - 1 /\ Streamed(k) \in Nat
             /\ left = 0 => Streamed(k) = 1
             /\ left # 0 => Streamed(left) = Streamed(k) - 1 /\ Streamed(k) - 1 \in Nat
<1>. DEFINE left == (k + Count - 1) % Count
<1>1. Count \in Nat /\ Count >= 1 /\ k \in Nat /\ k <= Count - 1
  BY SizeFacts
<1>2. CASE k = 0
  <2>1. k + Count - 1 = Count - 1 /\ Count - 1 \in 0 .. Count - 1
    BY <1>1, <1>2
  <2>2. left = Count - 1
    BY <1>1, <2>1
  <2>. QED  BY <1>1, <1>2, <2>2 DEF Streamed
<1>3. CASE k # 0
  <2>1. k + Count - 1 = Count * 1 + (k - 1) /\ k - 1 \in 0 .. Count - 1
    BY <1>1, <1>3
  <2>2. left = k - 1
    BY <1>1, <2>1
  <2>. QED  BY <1>1, <1>3, <2>2 DEF Streamed
<1>. QED  BY <1>2, <1>3

LEMMA FirstOfStream ==
  ASSUME NEW m, NEW x \in Nat, NEW n \in Nat, n >= 1,
         \A i \in Nat : FlashOf(m, i) \in Nat
  PROVE  <<FlashOf(m, x)>> \o FlashBytes(m, x + 1, n - 1) = FlashBytes(m, x, n)
<1>. DEFINE s == <<FlashOf(m, x)>>
            t == [i \in 1 .. n - 1 |-> FlashOf(m, (x + 1) + i - 1)]
            v == [i \in 1 .. n |-> FlashOf(m, x + i - 1)]
            w == s \o t
<1>1. s \in Seq(Nat) /\ Len(s) = 1 /\ s[1] = FlashOf(m, x)
  OBVIOUS
<1>2. t \in Seq(Nat) /\ Len(t) = n - 1 /\ \A i \in 1 .. n - 1 : t[i] = FlashOf(m, (x + 1) + i - 1)
  <2>1. \A i \in 1 .. n - 1 : (x + 1) + i - 1 \in Nat
    OBVIOUS
  <2>. QED  BY <2>1
<1>3. v \in Seq(Nat) /\ Len(v) = n /\ \A i \in 1 .. n : v[i] = FlashOf(m, x + i - 1)
  <2>1. \A i \in 1 .. n : x + i - 1 \in Nat
    OBVIOUS
  <2>. QED  BY <2>1
<1>. HIDE DEF s, t, v
<1>4. w \in Seq(Nat) /\ Len(w) = n /\ \A i \in 1 .. n : w[i] = IF i <= 1 THEN s[i] ELSE t[i - 1]
  <2>1. w \in Seq(Nat) /\ Len(w) = Len(s) + Len(t)
        /\ \A i \in 1 .. Len(s) + Len(t) : w[i] = IF i <= Len(s) THEN s[i] ELSE t[i - Len(s)]
    BY <1>1, <1>2, ConcatProperties
  <2>2. Len(s) + Len(t) = n
    BY <1>1, <1>2
  <2>. QED  BY <1>1, <2>1, <2>2
<1>. HIDE DEF w
<1>5. ASSUME NEW i \in 1 .. n PROVE w[i] = v[i]
  <2>1. CASE i = 1
    <3>1. x + 1 - 1 = x /\ 1 <= 1
      OBVIOUS
    <3>. QED  BY <1>1, <1>3, <1>4, <2>1, <3>1
  <2>2. CASE i # 1
    <3>1. ~(i <= 1) /\ i - 1 \in 1 .. n - 1 /\ (x + 1) + (i - 1) - 1 = x + i - 1
      BY <2>2
    <3>. QED  BY <1>2, <1>3, <1>4, <3>1
  <2>. QED  BY <2>1, <2>2
<1>6. w = v
  BY <1>3, <1>4, <1>5, SeqEqual
<1>. QED  BY <1>6 DEF s, t, v, w, FlashBytes

\* The stream: each byte of it has as good as been sent already.
LEMMA PeerStreams ==
  ASSUME Sizes, LineInv, C!ReadFlashCmd
  PROVE  LineInv'
<1>. DEFINE k == args[1]
            left == (k + Count - 1) % Count
            byte == FlashOf(memory, z)
<1>1. /\ C!Executes(20) /\ toHost' = toHost \o <<C!FlashAt(z)>> /\ z' = z + 1
      /\ IF left = 0 THEN C!Returned ELSE args' = <<left>> /\ cmd' = cmd
      /\ toPeer' = toPeer /\ script' = script /\ running' = running /\ got' = got
      /\ memory' = memory /\ buffer' = buffer /\ wanted' = wanted /\ believed' = believed /\ burnt' = burnt
  BY DEF C!ReadFlashCmd, C!Reply, C!host
<1>2. /\ PeerTyped /\ z \in Nat /\ memory \in Memory /\ buffer \in PageBuffer
      /\ toHost \in Seq(Nat) /\ got \in Seq(Nat)
  BY HereFacts DEF LineInv, PeerTyped
<1>3. cmd = 20 /\ args \in Seq(C!Byte) /\ Len(args) = 1 /\ C!Needs(20) = 1 /\ k \in 0 .. Count - 1
  BY <1>1, <1>2, NeedsFacts DEF PeerTyped, C!Executes, C!Needs
<1>4. C!FlashAt(z) = byte /\ byte \in Nat
  <2>1. byte \in Nat
    BY <1>2, FlashByte
  <2>. QED  BY <2>1 DEF C!FlashAt, FlashOf
<1>. HIDE DEF byte
<1>5. /\ left \in 0 .. Count - 1 /\ Streamed(k) \in Nat
      /\ left = 0 => Streamed(k) = 1
      /\ left # 0 => Streamed(left) = Streamed(k) - 1 /\ Streamed(k) - 1 \in Nat
  BY <1>3, StreamedLess
<1>. HIDE DEF k, left
<1>6. /\ Answers(20, args, z, memory) = [i \in 1 .. Streamed(k) |-> FlashOf(memory, z + i - 1)]
      /\ NewZ(20, args, z) = z + Streamed(k)
      /\ NewMemory(20, args, z, memory, buffer) = memory /\ NewBuffer(20, args, z, buffer) = buffer
  BY DEF Answers, NewZ, NewMemory, NewBuffer, k
<1>7. CASE left = 0
  <2>1. [i \in 1 .. 1 |-> FlashOf(memory, z + i - 1)] = <<byte>>
    <3>1. z + 1 - 1 = z
      BY <1>2
    <3>. QED  BY <3>1 DEF byte
  <2>2. Performs(20)
    BY <1>1, <1>4, <1>5, <1>6, <1>7, <2>1 DEF Performs
  <2>. QED  BY <2>2, PeerExecutes
<1>8. CASE left # 0
  <2>. DEFINE there == Here'
              rest == [i \in 1 .. Streamed(k) - 1 |-> FlashOf(memory, (z + 1) + i - 1)]
  <2>1. cmd' = 20 /\ args' = <<left>> /\ toHost' = toHost \o <<byte>>
    BY <1>1, <1>3, <1>4, <1>8
  <2>2. Here' = Data(z + 1, memory, buffer, toHost \o <<byte>>, got) /\ Here' \in DataSet
    <3>1. <<byte>> \in Seq(Nat)
      BY <1>4
    <3>2. toHost \o <<byte>> \in Seq(Nat)
      BY <1>2, <3>1, ConcatProperties
    <3>3. Here' = Data(z + 1, memory, buffer, toHost \o <<byte>>, got)
      BY <1>1, <2>1 DEF Here
    <3>. QED  BY <1>2, <3>2, <3>3 DEF Data, DataSet
  <2>3. Now = Place(0, <<>>, Finish(20, args, Here))
    BY <1>3 DEF Now, Settled
  <2>4. Now' = Place(0, <<>>, Finish(20, <<left>>, Here'))
    <3>1. Len(args') = C!Needs(cmd') /\ cmd' # 0
      BY <1>3, <2>1
    <3>. QED  BY <2>1, <3>1 DEF Now, Settled
  <2>5. /\ Answers(20, <<left>>, z + 1, memory) = rest
        /\ NewZ(20, <<left>>, z + 1) = (z + 1) + (Streamed(k) - 1)
        /\ NewMemory(20, <<left>>, z + 1, memory, buffer) = memory
        /\ NewBuffer(20, <<left>>, z + 1, buffer) = buffer
    BY <1>5, <1>8 DEF Answers, NewZ, NewMemory, NewBuffer
  <2>6. (toHost \o <<byte>>) \o rest = toHost \o Answers(20, args, z, memory)
    <3>1. rest \in Seq(Nat)
      <4>1. \A i \in 1 .. Streamed(k) - 1 : (z + 1) + i - 1 \in Nat
        BY <1>2, <1>5
      <4>2. \A i \in 1 .. Streamed(k) - 1 : FlashOf(memory, (z + 1) + i - 1) \in Nat
        BY <1>2, <4>1, FlashByte
      <4>. QED  BY <1>5, <1>8, <4>2
    <3>2. <<byte>> \o rest = [i \in 1 .. Streamed(k) |-> FlashOf(memory, z + i - 1)]
      <4>1. Streamed(k) \in Nat /\ Streamed(k) >= 1
        BY <1>5, <1>8
      <4>2. \A i \in Nat : FlashOf(memory, i) \in Nat
        BY <1>2, FlashByte
      <4>3. byte = FlashOf(memory, z) /\ z \in Nat
        BY <1>2 DEF byte
      <4>. HIDE DEF byte
      <4>4. <<FlashOf(memory, z)>> \o rest = [i \in 1 .. Streamed(k) |-> FlashOf(memory, z + i - 1)]
        <5>1. <<FlashOf(memory, z)>> \o FlashBytes(memory, z + 1, Streamed(k) - 1)
                = FlashBytes(memory, z, Streamed(k))
          BY <4>1, <4>2, <4>3, FirstOfStream
        <5>. QED  BY <5>1 DEF FlashBytes
      <4>. QED  BY <4>3, <4>4
    <3>3. <<byte>> \in Seq(Nat)
      BY <1>4
    <3>. HIDE DEF rest
    <3>4. (toHost \o <<byte>>) \o rest = toHost \o (<<byte>> \o rest)
      <4>1. toHost \in Seq(Nat)
        BY <1>2
      <4>. HIDE DEF byte
      <4>. QED  BY <3>1, <3>3, <4>1, NumbersAssociative
    <3>. QED  BY <1>6, <3>2, <3>4
  <2>7. (z + 1) + (Streamed(k) - 1) = z + Streamed(k)
    BY <1>2, <1>5
  <2>. HIDE DEF rest
  <2>8. Finish(20, args, Here) = Data(z + Streamed(k), memory, buffer,
                                      toHost \o Answers(20, args, z, memory), got)
    BY <1>6, HereFacts DEF Finish
  <2>9. /\ there.z = z + 1 /\ there.m = memory /\ there.f = buffer
        /\ there.log = toHost \o <<byte>> /\ there.got = got
    BY <2>2 DEF Data
  <2>10. Finish(20, <<left>>, there) = Data((z + 1) + (Streamed(k) - 1), memory, buffer,
                                            (toHost \o <<byte>>) \o rest, got)
    <3>. HIDE DEF there
    <3>. QED  BY <2>5, <2>9 DEF Finish
  <2>11. Now' = Now
    BY <2>3, <2>4, <2>6, <2>7, <2>8, <2>10
  <2>12. PeerTyped'
    <3>1. 20 \in Commands /\ left \in C!Byte
      BY <1>5, SizeFacts DEF Commands, C!Byte
    <3>2. <<left>> \in Seq(C!Byte) /\ Len(<<left>>) = 1 /\ <<left>>[1] = left
      BY <3>1
    <3>3. args' \in Seq(C!Byte) /\ Len(args') <= C!Needs(20) /\ args'[1] \in 0 .. Count - 1
      BY <1>3, <1>5, <2>1, <3>2
    <3>. HIDE DEF there
    <3>4. toPeer' \in Seq(C!Byte) /\ cmd' \in Commands /\ cmd' = 20 /\ cmd' # 0
      <4>1. toPeer \in Seq(C!Byte)
        BY <1>2 DEF PeerTyped
      <4>. QED  BY <1>1, <2>1, <3>1, <4>1
    <3>. QED  BY <2>2, <3>3, <3>4 DEF PeerTyped
  <2>13. <<byte>> \in Seq(Nat)
    BY <1>4
  <2>14. Now.d.m = memory
    BY <2>3, <2>8 DEF Place, Data
  <2>. QED  BY <1>1, <2>1, <2>11, <2>12, <2>13, <2>14, NowStays
<1>. QED  BY <1>7, <1>8

-----------------------------------------------------------------------------
(* The host *)

LEMMA FirstOf ==
  ASSUME NEW S, NEW x \in S, NEW t \in Seq(S)
  PROVE  LET s == <<x>> \o t IN s \in Seq(S) /\ s # <<>> /\ Head(s) = x /\ Tail(s) = t
<1>. DEFINE s == <<x>> \o t
            n == Len(t)
<1>1. /\ s \in Seq(S) /\ n \in Nat /\ Len(s) = n + 1
      /\ \A i \in 1 .. n + 1 : s[i] = IF i <= 1 THEN x ELSE t[i - 1]
  <2>. DEFINE e == <<x>>
  <2>1. e \in Seq(S) /\ Len(e) = 1 /\ e[1] = x
    OBVIOUS
  <2>. HIDE DEF e
  <2>2. e \o t \in Seq(S) /\ Len(e \o t) = Len(e) + n
        /\ \A i \in 1 .. Len(e) + n : (e \o t)[i] = IF i <= Len(e) THEN e[i] ELSE t[i - Len(e)]
    BY <2>1, ConcatProperties
  <2>3. n \in Nat
    OBVIOUS
  <2>. HIDE DEF n
  <2>4. Len(e) + n = n + 1 /\ \A i \in 1 .. n + 1 : i <= 1 => i = 1
    BY <2>1, <2>3
  <2>. QED  BY <2>1, <2>2, <2>3, <2>4 DEF e
<1>. HIDE DEF s
<1>2. s # <<>> /\ Head(s) = s[1] /\ s[1] = x
  <2>1. 1 \in 1 .. n + 1 /\ n + 1 # 0
    BY <1>1
  <2>. QED  BY <1>1, <2>1
<1>3. Tail(s) \in Seq(S) /\ Len(Tail(s)) = n /\ \A i \in 1 .. n : Tail(s)[i] = s[i + 1]
  BY <1>1, <1>2
<1>4. ASSUME NEW i \in 1 .. n PROVE Tail(s)[i] = t[i]
  <2>1. i + 1 \in 1 .. n + 1 /\ ~(i + 1 <= 1) /\ (i + 1) - 1 = i
    BY <1>1
  <2>. QED  BY <1>1, <1>3, <2>1
<1>5. Tail(s) = t
  BY <1>3, <1>4, SeqEqual
<1>. QED  BY <1>1, <1>2, <1>5 DEF s

LEMMA WholeGreetingAsk == ASSUME Sizes PROVE Whole(Ask)
<1>1. C!Cmd(16) = C!With(16, <<>>) /\ Ready(16, <<>>)
  BY CommandAlone
<1>2. Whole(C!Cmd(16))
  BY <1>1, WholeTell
<1>3. Whole(C!ReadFlash(Len(Version)))
  BY VersionFacts, WholeReadFlash
<1>. QED  BY <1>2, <1>3, WholeThen DEF Ask

LEMMA GreetFacts ==
  ASSUME Sizes
  PROVE  /\ Ask \in Seq(Item) /\ FlushAsk \in Seq(Item) /\ DrainAsk \in Seq(Item)
         /\ ZeroAsk \in Seq(Item) /\ Greet \in Seq(Item)
         /\ FlushAsk # <<>> /\ Head(FlushAsk) = FlushItem /\ Tail(FlushAsk) = Ask
         /\ DrainAsk # <<>> /\ Head(DrainAsk) = DrainItem /\ Tail(DrainAsk) = FlushAsk
         /\ ZeroAsk # <<>> /\ Head(ZeroAsk) = Zero /\ Tail(ZeroAsk) = DrainAsk
         /\ Greet # <<>> /\ Head(Greet) = Zero /\ Tail(Greet) = ZeroAsk
<1>1. Zero \in Item /\ DrainItem \in Item /\ FlushItem \in Item
  BY DEF Zero, SendItem, DrainItem, FlushItem, Item, C!Byte
<1>2. Ask \in Seq(Item)
  BY WholeGreetingAsk DEF Whole
<1>3. FlushAsk \in Seq(Item) /\ FlushAsk # <<>> /\ Head(FlushAsk) = FlushItem /\ Tail(FlushAsk) = Ask
  BY <1>1, <1>2, FirstOf DEF FlushAsk
<1>4. DrainAsk \in Seq(Item) /\ DrainAsk # <<>> /\ Head(DrainAsk) = DrainItem /\ Tail(DrainAsk) = FlushAsk
  BY <1>1, <1>3, FirstOf DEF DrainAsk
<1>5. ZeroAsk \in Seq(Item) /\ ZeroAsk # <<>> /\ Head(ZeroAsk) = Zero /\ Tail(ZeroAsk) = DrainAsk
  BY <1>1, <1>4, FirstOf DEF ZeroAsk
<1>6. Greet \in Seq(Item) /\ Greet # <<>> /\ Head(Greet) = Zero /\ Tail(Greet) = ZeroAsk
  BY <1>1, <1>5, FirstOf DEF Greet
<1>. QED  BY <1>2, <1>3, <1>4, <1>5, <1>6

LEMMA HelloIsGreet == ASSUME Sizes PROVE C!Hello = Greet
<1>. DEFINE a == <<Zero>>
            b == <<DrainItem, FlushItem>>
            d == <<DrainItem>>
            f == <<FlushItem>>
            m == C!Cmd(16)
            r == C!ReadFlash(Len(Version))
<1>1. Zero \in Item /\ DrainItem \in Item /\ FlushItem \in Item
  BY DEF Zero, SendItem, DrainItem, FlushItem, Item, C!Byte
<1>2. a \in Seq(Item) /\ d \in Seq(Item) /\ f \in Seq(Item) /\ b \in Seq(Item) /\ b = d \o f
  <2>1. a \in Seq(Item) /\ d \in Seq(Item) /\ f \in Seq(Item) /\ b \in Seq(Item)
    BY <1>1
  <2>2. Append(d, FlushItem) = d \o f
    BY <1>1, <2>1, AppendIsConcat
  <2>3. Append(d, FlushItem) = b
    <3>. DEFINE e == Append(d, FlushItem)
    <3>1. Len(d) = 1 /\ d[1] = DrainItem /\ Len(b) = 2 /\ b[1] = DrainItem /\ b[2] = FlushItem
      OBVIOUS
    <3>. HIDE DEF d, b
    <3>2. e \in Seq(Item) /\ Len(e) = 2 /\ e[1] = DrainItem /\ e[2] = FlushItem
      <4>1. /\ e \in Seq(Item) /\ Len(e) = Len(d) + 1 /\ e[Len(d) + 1] = FlushItem
            /\ \A i \in 1 .. Len(d) : e[i] = d[i]
        BY <1>1, <2>1, AppendProperties
      <4>. HIDE DEF e
      <4>2. Len(d) + 1 = 2 /\ 1 \in 1 .. Len(d)
        BY <3>1
      <4>. QED  BY <3>1, <4>1, <4>2
    <3>. HIDE DEF e
    <3>3. e = b
      <4>1. \A i \in 1 .. 2 : i = 1 \/ i = 2
        OBVIOUS
      <4>. QED  BY <2>1, <3>1, <3>2, <4>1, SeqEqual
    <3>. QED  BY <3>3 DEF e
  <2>. QED  BY <2>1, <2>2, <2>3
<1>3. m \in Seq(Item) /\ r \in Seq(Item)
  <2>1. m = <<SendItem(16, 0)>> /\ SendItem(16, 0) \in Item
    BY DEF C!Cmd, SendItem, Item, C!Byte
  <2>2. Whole(r)
    BY VersionFacts, WholeReadFlash
  <2>3. m \in Seq(Item)
    <3>. HIDE DEF m
    <3>. QED  BY <2>1
  <2>. QED  BY <2>2, <2>3 DEF Whole
<1>4. C!Hello = (((a \o a) \o b) \o m) \o r
  <2>1. C!Cmd(0) = a
    BY DEF C!Cmd, Zero, SendItem
  <2>. QED  BY <2>1 DEF C!Hello, C!Resync, DrainItem, FlushItem
<1>5. Greet = a \o (a \o (d \o (f \o (m \o r))))
  BY DEF Greet, ZeroAsk, DrainAsk, FlushAsk, Ask
<1>. HIDE DEF a, b, d, f, m, r
<1>6. \A s1, s2, s3 \in Seq(Item) : (s1 \o s2) \o s3 = s1 \o (s2 \o s3)
  BY ConcatAssociative
<1>7. \A s1, s2 \in Seq(Item) : s1 \o s2 \in Seq(Item)
  BY ConcatProperties
<1>8. d \o (f \o (m \o r)) = b \o (m \o r)
  <2>1. PICK x \in Seq(Item) : x = m \o r
    BY <1>3, <1>7
  <2>2. PICK v \in Seq(Item), h \in Seq(Item) : v = d /\ h = f /\ b = v \o h
    BY <1>2
  <2>3. (v \o h) \o x = v \o (h \o x)
    BY ConcatAssociative
  <2>. QED  BY <2>1, <2>2, <2>3
<1>9. (((a \o a) \o b) \o m) \o r = ((a \o a) \o b) \o (m \o r)
  <2>1. PICK x \in Seq(Item) : x = (a \o a) \o b
    BY <1>2, <1>7
  <2>2. (x \o m) \o r = x \o (m \o r)
    BY <1>3, ConcatAssociative
  <2>. QED  BY <2>1, <2>2
<1>10. ((a \o a) \o b) \o (m \o r) = a \o (a \o (b \o (m \o r)))
  <2>1. m \o r \in Seq(Item) /\ a \o a \in Seq(Item)
    BY <1>2, <1>3, <1>7
  <2>2. ((a \o a) \o b) \o (m \o r) = (a \o a) \o (b \o (m \o r))
    <3>1. PICK x \in Seq(Item), v \in Seq(Item) : x = m \o r /\ v = a \o a
      BY <2>1
    <3>2. (v \o b) \o x = v \o (b \o x)
      <4>1. b \in Seq(Item)
        BY <1>2
      <4>. QED  BY <4>1, ConcatAssociative
    <3>. QED  BY <3>1, <3>2
  <2>3. b \o (m \o r) \in Seq(Item)
    BY <1>2, <1>7, <2>1
  <2>4. (a \o a) \o (b \o (m \o r)) = a \o (a \o (b \o (m \o r)))
    <3>. DEFINE t == b \o (m \o r)
    <3>1. t \in Seq(Item) /\ a \in Seq(Item)
      BY <1>2, <2>3
    <3>. HIDE DEF t
    <3>2. (a \o a) \o t = a \o (a \o t)
      BY <1>6, <3>1
    <3>. QED  BY <3>2 DEF t
  <2>. QED  BY <2>2, <2>4
<1>. QED  BY <1>4, <1>5, <1>8, <1>9, <1>10

\* Two zeros finish the commands that may be cut short.
LEMMA TwoZeros ==
  ASSUME Sizes, CutAssumption, NEW p \in PlaceSet, p.c \in Cuttable
  PROVE  /\ Fits(p, 0) /\ After(p, 0) \in PlaceSet /\ After(p, 0).c \in Cuttable
         /\ After(After(p, 0), 0).c = 0 /\ After(p, 0).d.log = p.d.log
<1>. DEFINE q == After(p, 0)
<1>1. p.c \in {0, 17, 19, 24} /\ p.a \in Seq(C!Byte) /\ Waiting(p.c, p.a) /\ 0 \in C!Byte /\ p.d \in DataSet
  BY SmallBytes DEF Cuttable, CutAssumption, PlaceSet
<1>2. Fits(p, 0) /\ q \in PlaceSet
  <2>1. Fits(p, 0)
    BY <1>1 DEF Fits
  <2>. QED  BY <1>1, <2>1, AfterTyped DEF Continues
<1>3. /\ \A dd : Settled(0, <<>>, dd) = Place(0, <<>>, dd)
      /\ \A cc, aa, dd : Place(cc, aa, dd).c = cc /\ Place(cc, aa, dd).a = aa /\ Place(cc, aa, dd).d = dd
      /\ Command(0) = 0
  BY DEF Settled, Place, Command
<1>. HIDE DEF q
<1>4. CASE p.c = 0
  <2>1. q.c = 0 /\ q.d = p.d
    BY <1>3, <1>4 DEF q, After
  <2>2. After(q, 0).c = 0
    BY <1>3, <2>1 DEF After
  <2>. QED  BY <1>2, <2>1, <2>2 DEF q, Cuttable
<1>5. CASE p.c # 0
  <2>. DEFINE a == Append(p.a, 0)
  <2>1. a \in Seq(C!Byte) /\ Len(a) = Len(p.a) + 1 /\ Len(p.a) \in Nat /\ Len(p.a) < C!Needs(p.c)
    BY <1>1, <1>5 DEF Waiting
  <2>. HIDE DEF a
  <2>2. q = Settled(p.c, a, p.d)
    BY <1>5 DEF q, After, a
  <2>3. CASE Len(a) = C!Needs(p.c)
    <3>1. q.c = 0 /\ q.d = Finish(p.c, a, p.d)
      BY <1>3, <1>5, <2>2, <2>3 DEF Settled
    <3>2. After(q, 0).c = 0
      BY <1>3, <3>1 DEF After
    <3>3. Answers(p.c, a, p.d.z, p.d.m) = <<>>
      BY <1>1, <1>5 DEF Answers
    <3>4. Finish(p.c, a, p.d).log = p.d.log \o <<>>
      BY <3>3 DEF Finish, Data
    <3>5. p.d.log \o <<>> = p.d.log
      <4>1. p.d.log \in Seq(Nat)
        BY <1>1 DEF DataSet
      <4>. QED  BY <4>1, ConcatEmptySeq
    <3>. QED  BY <1>2, <3>1, <3>2, <3>4, <3>5 DEF q, Cuttable
  <2>4. CASE Len(a) # C!Needs(p.c)
    <3>1. q.c = p.c /\ q.a = a /\ q.c # 0 /\ q.d = p.d
      BY <1>3, <1>5, <2>2, <2>4 DEF Settled
    <3>2. p.c \in {17, 19} /\ C!Needs(p.c) = 2 /\ Len(a) = 1
      <4>1. C!Needs(17) = 2 /\ C!Needs(19) = 2 /\ C!Needs(24) = 1
        BY NeedsFacts
      <4>. QED  BY <1>1, <1>5, <2>1, <2>4, <4>1
    <3>3. Len(Append(a, 0)) = 2
      <4>1. Len(Append(a, 0)) = Len(a) + 1
        BY <1>1, <2>1, AppendProperties
      <4>. QED  BY <3>2, <4>1
    <3>4. After(q, 0) = Settled(p.c, Append(a, 0), q.d)
      BY <3>1 DEF After
    <3>5. After(q, 0).c = 0
      BY <1>3, <1>5, <3>2, <3>3, <3>4 DEF Settled
    <3>. QED  BY <1>2, <3>1, <3>5 DEF q
  <2>. QED  BY <2>3, <2>4
<1>. QED  BY <1>4, <1>5

\* A byte that is sent lengthens the path along the line.
LEMMA LineGrows ==
  ASSUME Sizes, PeerTyped, NEW mid \in PlaceSet, Leads(Now, Items(toPeer), mid),
         NEW b \in C!Byte, Fits(mid, b)
  PROVE  /\ After(mid, b) \in PlaceSet
         /\ Leads(Now, Items(Append(toPeer, b)), After(mid, b))
<1>1. After(mid, b) \in PlaceSet
  BY AfterTyped DEF Continues
<1>2. HeardByte(b) \in Item /\ Leads1(mid, HeardByte(b), After(mid, b))
  BY HeardItem
<1>3. Leads(mid, <<HeardByte(b)>>, After(mid, b))
  BY <1>2, LeadsOne
<1>4. toPeer \in Seq(C!Byte)
  BY DEF PeerTyped
<1>5. Items(toPeer) \in Seq(Item) /\ Items(Append(toPeer, b)) = Items(toPeer) \o <<HeardByte(b)>>
  BY <1>4, ItemsFacts
<1>6. <<HeardByte(b)>> \in Seq(Item)
  BY <1>2
<1>7. Leads(Now, Items(toPeer) \o <<HeardByte(b)>>, After(mid, b))
  BY <1>3, <1>5, <1>6, LeadsThen
<1>. QED  BY <1>1, <1>5, <1>7

\* What the host does leaves the peer as it is.
LEMMA PeerUntouched ==
  ASSUME PeerTyped, toPeer' \in Seq(C!Byte), toHost' \in Seq(Nat), got' \in Seq(Nat),
         UNCHANGED <<cmd, args, z, memory, buffer>>
  PROVE  PeerTyped'
<1>1. Here' \in DataSet
  <2>1. z \in Nat /\ memory \in Memory /\ buffer \in PageBuffer
    BY HereFacts DEF PeerTyped
  <2>. QED  BY <2>1 DEF Here, Data, DataSet
<1>. QED  BY <1>1 DEF PeerTyped

LEMMA HostSendsKeeps ==
  ASSUME Sizes, CutAssumption, LineInv, C!HostSends
  PROVE  LineInv'
<1>. DEFINE x == Head(script)
            b == x.b
<1>1. /\ running /\ script # <<>> /\ x.op = "send"
      /\ toPeer' = Append(toPeer, b) /\ script' = Tail(script) /\ running' = running
      /\ toHost' = toHost /\ got' = got /\ UNCHANGED <<cmd, args, z, memory, buffer>>
      /\ wanted' = wanted /\ believed' = believed /\ burnt' = burnt
  BY DEF C!HostSends, C!Does, C!Done, C!peer
<1>2. PICK mid : Onward(mid)
  BY DEF LineInv
<1>3. PeerTyped /\ mid \in PlaceSet /\ Leads(Now, Items(toPeer), mid) /\ Mode(mid) /\ toPeer \in Seq(C!Byte)
  BY <1>2 DEF LineInv, Onward, PeerTyped
<1>4. Now' = Now /\ Here' = Here
  BY <1>1 DEF Now, Here
<1>. HIDE DEF x
<1>5. \E q : /\ b \in C!Byte /\ Fits(mid, b) /\ q = After(mid, b)
             /\ q \in PlaceSet => Mode(q)'
  <2>1. CASE Talking(mid)
    <3>1. PICK d \in Quiet : Ends(mid, d)
      BY <2>1 DEF Talking
    <3>2. script \in Seq(Item) /\ Leads(mid, script, Idle(d)) /\ Kept(d)
      BY <2>1, <3>1 DEF Talking, Ends
    <3>3. PICK q : Leads1(mid, x, q) /\ Leads(q, Tail(script), Idle(d))
      BY <1>1, <3>2, LeadsHead DEF x
    <3>4. x \in Item /\ Tail(script) \in Seq(Item)
      BY <1>1, <3>2 DEF x
    <3>5. b \in C!Byte
      BY <1>1, <3>4 DEF Item
    <3>6. Fits(mid, b) /\ q = After(mid, b)
      BY <1>1, <3>3 DEF Leads1
    <3>7. Tail(script) \in Seq(Deed)
      BY <1>1, <2>1 DEF Talking
    <3>8. ASSUME Assured(mid, d) PROVE Assured(q, d)'
      <4>1. Sure(Here, d) /\ Within(Sures(d), Now, Items(toPeer), mid) /\ Within(Sures(d), mid, script, Idle(d))
        BY <3>8 DEF Assured
      <4>2. mid \in Sures(d) /\ \E r : Leads1(mid, x, r) /\ Within(Sures(d), r, Tail(script), Idle(d))
        BY <1>1, <3>2, <4>1, WithinHead DEF x
      <4>3. Within(Sures(d), q, Tail(script), Idle(d))
        BY <3>3, <4>2, LeadsAlone
      <4>4. q \in Sures(d)
        BY <3>4, <4>3, WithinHolds
      <4>5. Within(Sures(d), Now, Items(Append(toPeer, b)), q)
        <5>. HIDE DEF b
        <5>. QED  BY <1>3, <3>5, <3>6, <4>1, <4>2, <4>4, LineSure
      <4>. QED  BY <1>1, <1>4, <4>1, <4>3, <4>5 DEF Assured
    <3>9. Ends(q, d)'
      BY <1>1, <3>1, <3>2, <3>3, <3>8 DEF Ends, Kept, Verified, Relied, C!Known
    <3>10. Talking(q)'
      BY <1>1, <3>4, <3>7, <3>9 DEF Talking
    <3>. QED  BY <3>5, <3>6, <3>10 DEF Mode
  <2>2. CASE Greeting(mid)
    <3>. DEFINE q == After(mid, 0)
    <3>1. DrainItem.op # "send" /\ FlushItem.op # "send" /\ Zero.b = 0
      BY DEF DrainItem, FlushItem, Zero, SendItem
    <3>2. \/ script = Greet /\ mid.c \in Cuttable
          \/ script = ZeroAsk /\ mid.c \in Cuttable /\ q.c = 0
      BY <1>1, <2>2, <3>1, GreetFacts DEF Greeting, x
    <3>3. b = 0 /\ 0 \in C!Byte
      BY <3>1, <3>2, GreetFacts, SmallBytes DEF x
    <3>4. Fits(mid, 0) /\ q.c \in Cuttable /\ After(q, 0).c = 0 /\ q.d.log = mid.d.log
      <4>1. mid.c \in Cuttable
        BY <3>2
      <4>. QED  BY <1>3, <4>1, TwoZeros
    <3>. HIDE DEF q
    <3>5. Greeting(q)'
      BY <1>1, <2>2, <3>2, <3>4, GreetFacts DEF Greeting, C!Known
    <3>. QED  BY <3>3, <3>4, <3>5 DEF Mode, q
  <2>3. CASE Silent(mid)
    BY <1>1, <2>3 DEF Silent
  <2>. QED  BY <1>3, <2>1, <2>2, <2>3 DEF Mode
<1>6. PICK q : b \in C!Byte /\ Fits(mid, b) /\ q = After(mid, b) /\ (q \in PlaceSet => Mode(q)')
  BY <1>5
<1>. HIDE DEF b
<1>7. q \in PlaceSet /\ Leads(Now, Items(toPeer'), q)
  BY <1>1, <1>3, <1>6, LineGrows
<1>8. PeerTyped'
  <2>1. toPeer' \in Seq(C!Byte)
    BY <1>1, <1>3, <1>6
  <2>2. toHost' \in Seq(Nat) /\ got' \in Seq(Nat)
    BY <1>1, <1>3, HereFacts DEF PeerTyped
  <2>. QED  BY <1>1, <1>3, <2>1, <2>2, PeerUntouched
<1>9. Onward(q)'
  BY <1>4, <1>6, <1>7 DEF Onward
<1>. QED  BY <1>8, <1>9 DEF LineInv

\* Replies that the host takes, or throws away, do not matter to what is to come.
Takes(n, g) ==
    /\ n \in 0 .. Len(toHost) /\ g \in Seq(Nat)
    /\ toHost' = SubSeq(toHost, n + 1, Len(toHost)) /\ got' = g
    /\ toPeer' = toPeer /\ UNCHANGED <<cmd, args, z, memory, buffer>>

LEMMA HostTakes ==
  ASSUME Sizes, PeerTyped, NEW mid \in PlaceSet, Leads(Now, Items(toPeer), mid),
         NEW n, NEW g, Takes(n, g)
  PROVE  /\ PeerTyped' /\ Dropped(n, g, mid) \in PlaceSet
         /\ Leads(Now', Items(toPeer'), Dropped(n, g, mid)) /\ Now' = Dropped(n, g, Now)
<1>1. /\ cmd \in Commands /\ args \in Seq(C!Byte) /\ Here \in DataSet /\ toPeer \in Seq(C!Byte)
      /\ cmd = 20 /\ Len(args) = 1 => args[1] \in 0 .. Count - 1
      /\ toHost \in Seq(Nat) /\ n \in 0 .. Len(toHost) /\ g \in Seq(Nat)
  BY HereFacts DEF PeerTyped, Takes
<1>2. toHost' \in Seq(Nat)
  <2>1. toHost' = SubSeq(toHost, n + 1, Len(toHost))
    BY DEF Takes
  <2>2. PICK s \in Seq(Nat) : s = toHost
    BY <1>1
  <2>3. n + 1 >= 1 /\ n + 1 \in Int /\ Len(s) \in Nat
    BY <1>1, <2>2
  <2>4. SubSeq(s, n + 1, Len(s)) \in Seq(Nat)
    BY <2>3
  <2>. QED  BY <2>1, <2>2, <2>4
<1>3. PeerTyped'
  BY <1>1, <1>2, PeerUntouched DEF Takes
<1>4. Now' = Dropped(n, g, Now)
  <2>1. Here' = Data(Here.z, Here.m, Here.f, SubSeq(Here.log, n + 1, Len(Here.log)), g)
    BY HereFacts DEF Here, Takes
  <2>2. n \in 0 .. Len(Here.log)
    BY <1>1, HereFacts
  <2>3. Dropped(n, g, Settled(cmd, args, Here)) = Settled(cmd, args, Here')
    BY <1>1, <2>1, <2>2, DroppedSettled
  <2>4. cmd' = cmd /\ args' = args
    BY DEF Takes
  <2>. QED  BY <2>3, <2>4 DEF Now
<1>5. Now \in PlaceSet /\ n \in 0 .. Len(Now.d.log)
  <2>1. Now \in PlaceSet /\ Continues(Here, Now)
    BY NowFacts
  <2>2. PICK x \in Seq(Nat) : Now.d.log = toHost \o x
    BY <2>1, HereFacts DEF Continues
  <2>3. Len(Now.d.log) = Len(toHost) + Len(x) /\ Len(x) \in Nat /\ Len(toHost) \in Nat
    BY <1>1, <2>2, ConcatProperties
  <2>. QED  BY <1>1, <2>1, <2>3
<1>6. Leads(Now', Items(toPeer'), Dropped(n, g, mid))
  <2>1. Leads(Dropped(n, g, Now), Items(toPeer), Dropped(n, g, mid))
    BY <1>1, <1>5, DroppedLeads
  <2>. QED  BY <1>4, <2>1 DEF Takes
<1>7. Now' \in PlaceSet
  <2>1. cmd' = cmd /\ args' = args
    BY DEF Takes
  <2>2. IF cmd = 0 THEN args = <<>> ELSE Len(args) <= C!Needs(cmd)
    BY DEF PeerTyped
  <2>3. Here' \in DataSet
    BY <1>3 DEF PeerTyped
  <2>4. Continues(Here', Settled(cmd, args, Here'))
    BY <1>1, <2>2, <2>3, SettledTyped
  <2>. QED  BY <2>1, <2>4 DEF Now, Continues
<1>8. Dropped(n, g, mid) \in PlaceSet
  <2>1. Items(toPeer') \in Seq(Item)
    BY <1>1, ItemsFacts DEF Takes
  <2>. QED  BY <1>6, <1>7, <2>1, LeadsTyped
<1>. QED  BY <1>3, <1>4, <1>6, <1>8

LEMMA DroppedFacts ==
  ASSUME NEW n, NEW g, NEW p
  PROVE  /\ Dropped(n, g, p).c = p.c /\ Dropped(n, g, p).a = p.a
         /\ Dropped(n, g, p).d.log = SubSeq(p.d.log, n + 1, Len(p.d.log))
         /\ Dropped(n, g, p).d.got = g
         /\ Dropped(n, g, p).d.m = p.d.m /\ Dropped(n, g, p).d.f = p.d.f
BY DEF Dropped, Place, Data

\* What the peer will have answered begins with what it has.
LEMMA MidContinues ==
  ASSUME Sizes, PeerTyped, NEW mid \in PlaceSet, Leads(Now, Items(toPeer), mid)
  PROVE  /\ mid.d.got = got /\ toHost \in Seq(Nat)
         /\ \E x \in Seq(Nat) : mid.d.log = toHost \o x /\ (mid.d.f = buffer \/ x # <<>>)
<1>1. Now \in PlaceSet /\ Continues(Here, Now) /\ Here \in DataSet /\ toPeer \in Seq(C!Byte)
  BY NowFacts DEF PeerTyped
<1>2. Continues(Now.d, mid)
  BY <1>1, LineContinues
<1>3. Continues(Here, mid)
  BY <1>1, <1>2, ContinuesTransitive
<1>. QED  BY <1>1, <1>3, HereFacts DEF Continues

\* The oldest reply of all is the oldest that has come.
LEMMA HeadOfMore ==
  ASSUME NEW s \in Seq(Nat), s # <<>>, NEW e \in Seq(Nat), NEW l, l = s \o e
  PROVE  l # <<>> /\ Head(l) = Head(s) /\ Tail(l) = SubSeq(l, 1 + 1, Len(l))
<1>1. s \o e \in Seq(Nat) /\ Len(s \o e) = Len(s) + Len(e)
      /\ \A i \in 1 .. Len(s) + Len(e) : (s \o e)[i] = IF i <= Len(s) THEN s[i] ELSE e[i - Len(s)]
  BY ConcatProperties
<1>2. Len(s) \in Nat /\ Len(s) >= 1 /\ Len(e) \in Nat /\ Head(s) = s[1]
  OBVIOUS
<1>3. l \in Seq(Nat) /\ Len(l) >= 1 /\ Len(l) \in Nat /\ l[1] = s[1]
  <2>1. 1 \in 1 .. Len(s) + Len(e) /\ 1 <= Len(s)
    BY <1>2
  <2>. QED  BY <1>1, <1>2, <2>1
<1>4. l # <<>> /\ Head(l) = l[1] /\ 1 \in 1 .. Len(l) /\ SubSeq(l, 1, Len(l)) = l
  BY <1>3
<1>5. Tail(l) = SubSeq(l, 1 + 1, Len(l))
  BY <1>3, <1>4, RestFacts
<1>. QED  BY <1>2, <1>3, <1>4, <1>5

LEMMA HostReceivesKeeps ==
  ASSUME Sizes, LineInv, C!HostReceives
  PROVE  LineInv'
<1>. DEFINE x == Head(script)
            g == Append(got, Head(toHost))
<1>1. /\ running /\ script # <<>> /\ x.op = "recv" /\ toHost # <<>>
      /\ script' = Tail(script) /\ running' = running /\ got' = g
      /\ toHost' = Tail(toHost) /\ toPeer' = toPeer /\ UNCHANGED <<cmd, args, z, memory, buffer>>
      /\ wanted' = wanted /\ believed' = believed /\ burnt' = burnt
  BY DEF C!HostReceives, C!Does, C!Done, C!peer
<1>2. PICK mid : Onward(mid)
  BY DEF LineInv
<1>3. PeerTyped /\ mid \in PlaceSet /\ Leads(Now, Items(toPeer), mid) /\ Mode(mid)
      /\ toHost \in Seq(Nat) /\ got \in Seq(Nat)
  BY <1>2, HereFacts DEF LineInv, Onward, PeerTyped
<1>4. Takes(1, g)
  <2>1. toHost' = SubSeq(toHost, 1 + 1, Len(toHost)) /\ 1 \in 0 .. Len(toHost)
    <3>1. 1 \in 1 .. Len(toHost) /\ SubSeq(toHost, 1, Len(toHost)) = toHost
      BY <1>1, <1>3
    <3>2. Tail(toHost) = SubSeq(toHost, 1 + 1, Len(toHost))
      BY <1>3, <3>1, RestFacts
    <3>. QED  BY <1>1, <3>1, <3>2
  <2>2. g \in Seq(Nat)
    BY <1>1, <1>3
  <2>. QED  BY <1>1, <2>1, <2>2 DEF Takes
<1>. HIDE DEF x, g
<1>5. PICK e \in Seq(Nat) : mid.d.log = toHost \o e
  BY <1>3, MidContinues
<1>6. mid.d.got = got
  BY <1>3, MidContinues
<1>7. /\ PeerTyped' /\ Dropped(1, g, mid) \in PlaceSet
      /\ Leads(Now', Items(toPeer'), Dropped(1, g, mid)) /\ Now' = Dropped(1, g, Now)
  BY <1>3, <1>4, HostTakes
<1>8. Talking(mid)
  <2>1. DrainItem.op # "recv" /\ FlushItem.op # "recv" /\ Zero.op # "recv"
    BY DEF DrainItem, FlushItem, Zero, SendItem
  <2>2. ~Greeting(mid)
    BY <1>1, <2>1, GreetFacts DEF Greeting, x
  <2>. QED  BY <1>1, <1>3, <2>2 DEF Mode, Silent
<1>9. PICK d \in Quiet : Ends(mid, d)
  BY <1>8 DEF Talking
<1>10. PICK r : Leads1(mid, x, r) /\ Leads(r, Tail(script), Idle(d))
  BY <1>1, <1>8, <1>9, LeadsHead DEF Talking, Ends, x
<1>11. mid.c = 0 /\ r = Place(0, mid.a, Taken(mid.d))
  BY <1>1, <1>10 DEF Leads1
<1>12. Head(mid.d.log) = Head(toHost) /\ Tail(mid.d.log) = SubSeq(mid.d.log, 1 + 1, Len(mid.d.log))
  BY <1>1, <1>3, <1>5, HeadOfMore
<1>13. r = Dropped(1, g, mid)
  BY <1>6, <1>11, <1>12 DEF Dropped, Taken, g
<1>14. Tail(script) \in Seq(Item) /\ Tail(script) \in Seq(Deed)
  BY <1>1, <1>8 DEF Talking
<1>15. ASSUME Assured(mid, d) PROVE Assured(r, d)'
  <2>1. Sure(Here, d) /\ Within(Sures(d), Now, Items(toPeer), mid) /\ Within(Sures(d), mid, script, Idle(d))
    BY <1>15 DEF Assured
  <2>2. Total(Here') = Total(Here) /\ Here'.m = Here.m
    <3>1. Total(Here) = Len(toHost) + Len(got) /\ Total(Here') = Len(toHost') + Len(got')
      BY DEF Total, Here, Data
    <3>2. Len(toHost') = Len(toHost) - 1 /\ Len(got') = Len(got) + 1 /\ Len(toHost) \in Nat /\ Len(got) \in Nat
      BY <1>1, <1>3, TakeOne DEF g
    <3>. QED  BY <1>1, <3>1, <3>2 DEF Here, Data
  <2>3. Sure(Here', d)
    BY <2>1, <2>2 DEF Sure
  <2>4. Now \in PlaceSet /\ Now.d.got = got /\ \E v \in Seq(Nat) : Now.d.log = toHost \o v
    BY <1>3, NowFacts, HereFacts DEF Continues
  <2>5. Now.d.log # <<>> /\ g = Append(Now.d.got, Head(Now.d.log))
    BY <1>1, <1>3, <2>4, HeadOfMore DEF g
  <2>6. toPeer \in Seq(C!Byte)
    BY <1>3 DEF PeerTyped
  <2>7. Within(Sures(d), Dropped(1, g, Now), Items(toPeer), Dropped(1, g, mid))
    BY <2>1, <2>4, <2>5, <2>6, SureTaking
  <2>8. Within(Sures(d), Now', Items(toPeer'), r)
    BY <1>1, <1>7, <1>13, <2>7
  <2>9. \E p : Leads1(mid, x, p) /\ Within(Sures(d), p, Tail(script), Idle(d))
    BY <1>1, <1>8, <2>1, WithinHead DEF Talking, x
  <2>10. Within(Sures(d), r, Tail(script), Idle(d))
    BY <1>10, <2>9, LeadsAlone
  <2>. QED  BY <1>1, <2>3, <2>8, <2>10 DEF Assured
<1>16. Ends(r, d)'
  BY <1>1, <1>9, <1>10, <1>15 DEF Ends, Kept, Verified, Relied, C!Known
<1>17. Talking(r)'
  BY <1>1, <1>14, <1>16 DEF Talking
<1>18. Onward(r)'
  BY <1>7, <1>13, <1>17 DEF Onward, Mode
<1>. QED  BY <1>7, <1>18 DEF LineInv

\* Whatever the host was doing, a command that it leaves is one that may be cut short.
LEMMA LeavesCuttable ==
  ASSUME NEW mid, Mode(mid), running, script # <<>>,
         C!Does("send") => Head(script).of \in Cuttable
  PROVE  mid.c \in Cuttable
<1>1. 0 \in Cuttable
  BY DEF Cuttable
<1>2. CASE Talking(mid)
  <2>1. script \in Seq(Item) /\ script \in Seq(Deed)
    BY <1>2 DEF Talking
  <2>2. PICK d \in Quiet : Leads(mid, script, Idle(d))
    BY <1>2 DEF Talking, Ends
  <2>3. PICK r : Leads1(mid, Head(script), r)
    BY <2>1, <2>2, LeadsHead
  <2>4. Head(script).op # "heard"
    <3>1. Head(script) \in Deed
      BY <2>1
    <3>. QED  BY <3>1 DEF Deed
  <2>. QED  BY <1>1, <2>3, <2>4 DEF Leads1, C!Does
<1>3. CASE Greeting(mid)
  BY <1>1, <1>3 DEF Greeting
<1>4. CASE Silent(mid)
  BY <1>4 DEF Silent
<1>. QED  BY <1>2, <1>3, <1>4 DEF Mode


LEMMA TakesNone ==
  ASSUME PeerTyped, UNCHANGED <<toPeer, toHost, cmd, args, z, memory, buffer>>, got' = <<>>
  PROVE  Takes(0, <<>>)
<1>1. toHost \in Seq(Nat)
  BY HereFacts DEF PeerTyped
<1>2. SubSeq(toHost, 0 + 1, Len(toHost)) = toHost /\ 0 \in 0 .. Len(toHost)
  BY <1>1
<1>. QED  BY <1>2 DEF Takes

LEMMA KillKeeps ==
  ASSUME Sizes, LineInv, C!Kill
  PROVE  LineInv'
<1>1. /\ running /\ script # <<>> /\ running' = FALSE /\ script' = <<>> /\ got' = <<>>
      /\ UNCHANGED <<toPeer, toHost, cmd, args, z, memory, buffer>> /\ believed' = <<>> /\ burnt' = 0
      /\ C!Does("send") => Head(script).of \in Cuttable
  BY DEF C!Kill, C!peer, Cuttable
<1>2. PICK mid : Onward(mid)
  BY DEF LineInv
<1>3. PeerTyped /\ mid \in PlaceSet /\ Leads(Now, Items(toPeer), mid) /\ Mode(mid)
  BY <1>2 DEF LineInv, Onward
<1>4. Takes(0, <<>>)
  BY <1>1, <1>3, TakesNone
<1>5. PICK q : q = Dropped(0, <<>>, mid)
  OBVIOUS
<1>6. PeerTyped' /\ q \in PlaceSet /\ Leads(Now', Items(toPeer'), q)
  BY <1>3, <1>4, <1>5, HostTakes
<1>7. mid.c \in Cuttable
  BY <1>1, <1>3, LeavesCuttable
<1>8. q.c \in Cuttable
  BY <1>5, <1>7, DroppedFacts
<1>9. Onward(q)'
  BY <1>1, <1>6, <1>8 DEF Onward, Mode, Silent, C!Known
<1>. QED  BY <1>6, <1>9 DEF LineInv

\* A new host finds a quiet line.
LEMMA RestartKeeps ==
  ASSUME Sizes, LineInv, C!Restart
  PROVE  LineInv'
<1>1. /\ ~running /\ running' /\ script' = C!Hello /\ got' = <<>> /\ toHost' = toHost
      /\ UNCHANGED <<toPeer, toHost, cmd, args, z, memory, buffer>>
      /\ wanted' = Version /\ believed' = believed /\ burnt' = burnt
      /\ toPeer = <<>> /\ ~(cmd # 0 /\ Len(args) = C!Needs(cmd))
  BY DEF C!Restart, C!Working, C!peer
<1>2. PICK mid : Onward(mid)
  BY DEF LineInv
<1>3. PeerTyped /\ mid \in PlaceSet /\ Leads(Now, Items(toPeer), mid) /\ Mode(mid)
  BY <1>2 DEF LineInv, Onward
<1>4. Silent(mid)
  BY <1>1, <1>3 DEF Mode, Talking, Greeting
<1>5. mid = Now
  <2>1. Items(toPeer) = <<>>
    BY <1>1 DEF Items
  <2>. QED  BY <1>3, <2>1, LeadsEmpty
<1>6. Now = Place(cmd, args, Here)
  BY <1>1 DEF Now, Settled
<1>7. mid.d.log = toHost
  BY <1>5, <1>6, HereFacts DEF Place
<1>8. Takes(0, <<>>)
  BY <1>1, <1>3, TakesNone
<1>9. PICK q : q = Dropped(0, <<>>, mid)
  OBVIOUS
<1>10. PeerTyped' /\ q \in PlaceSet /\ Leads(Now', Items(toPeer'), q)
  BY <1>3, <1>8, <1>9, HostTakes
<1>11. q.c \in Cuttable
  BY <1>4, <1>9, DroppedFacts DEF Silent
<1>12. Len(q.d.log) <= Len(toHost')
  <2>1. toHost \in Seq(Nat)
    BY <1>3, HereFacts DEF PeerTyped
  <2>2. SubSeq(toHost, 0 + 1, Len(toHost)) = toHost /\ Len(toHost) \in Nat
    BY <2>1
  <2>3. q.d.log = SubSeq(mid.d.log, 0 + 1, Len(mid.d.log))
    <3>1. Dropped(0, <<>>, mid).d.log = SubSeq(mid.d.log, 0 + 1, Len(mid.d.log))
      BY DEF Dropped, Place, Data
    <3>. QED  BY <1>9, <3>1
  <2>4. q.d.log = toHost
    BY <1>7, <2>2, <2>3
  <2>. QED  BY <1>1, <2>2, <2>4
<1>13. Greeting(q)'
  BY <1>1, <1>4, <1>11, <1>12, HelloIsGreet DEF Greeting, Silent, C!Known
<1>14. Onward(q)'
  BY <1>10, <1>13 DEF Onward, Mode
<1>. QED  BY <1>10, <1>14 DEF LineInv

\* Between two words nothing is under way.
AtRest(d) ==
    /\ Leads(Now, Items(toPeer), Idle(d)) /\ Idle(d) \in PlaceSet
    /\ Kept(d) /\ d.got = got /\ d.f = buffer
    /\ d.m = IF C!Known THEN believed ELSE memory
    /\ burnt # 0 => d.m = memory

LEMMA AtPrompt ==
  ASSUME Sizes, LineInv, C!Prompt
  PROVE  toHost = <<>> /\ \E d \in Quiet : AtRest(d)
<1>1. PICK mid : Onward(mid)
  BY DEF LineInv
<1>2. running /\ script = <<>>
  BY DEF C!Prompt
<1>3. Talking(mid)
  BY <1>1, <1>2, GreetFacts DEF Onward, Mode, Silent, Greeting
<1>4. PICK d \in Quiet : Ends(mid, d)
  BY <1>3 DEF Talking
<1>5. mid = Idle(d)
  <2>1. Leads(mid, <<>>, Idle(d))
    BY <1>2, <1>4 DEF Ends
  <2>. QED  BY <2>1, LeadsEmpty
<1>6. PeerTyped /\ mid \in PlaceSet /\ Leads(Now, Items(toPeer), mid) /\ mid.d = d /\ d.log = <<>>
  BY <1>1, <1>5, IdlePlace DEF LineInv, Onward, Quiet
<1>7. PICK x \in Seq(Nat) : d.log = toHost \o x /\ (d.f = buffer \/ x # <<>>)
  BY <1>6, MidContinues
<1>8. d.got = got /\ toHost \in Seq(Nat)
  BY <1>6, MidContinues
<1>9. toHost = <<>> /\ x = <<>>
  <2>1. Len(toHost \o x) = Len(toHost) + Len(x) /\ Len(x) \in Nat /\ Len(toHost) \in Nat
    BY <1>8, ConcatProperties
  <2>2. Len(toHost \o x) = 0
    BY <1>6, <1>7
  <2>3. Len(toHost) = 0 /\ Len(x) = 0
    BY <2>1, <2>2
  <2>. QED  BY <1>8, <2>3
<1>10. (C!Known => d.m = believed) /\ (~Relied => d.m = memory)
  <2>1. C!Known => d.m = believed
    BY <1>4 DEF Ends, Kept
  <2>2. CASE ~Relied
    <3>1. Total(Here) < Total(d) \/ memory = d.m
      BY <1>4, <2>2, HereFacts DEF Ends, Assured, Sure
    <3>2. Total(Here) = Len(toHost) + Len(got) /\ Total(d) = Len(d.log) + Len(d.got)
      BY HereFacts DEF Total
    <3>3. Total(d) = Total(Here)
      BY <1>6, <1>8, <1>9, <3>2
    <3>4. Total(d) \in Nat
      BY IdlePlace
    <3>5. ~(Total(Here) < Total(d))
      BY <3>3, <3>4
    <3>. QED  BY <2>1, <2>2, <3>1, <3>5
  <2>. QED  BY <2>1, <2>2
<1>11. AtRest(d)
  BY <1>4, <1>5, <1>6, <1>7, <1>8, <1>9, <1>10 DEF AtRest, Ends, Relied
<1>. QED  BY <1>9, <1>11

\* The host is sure of an end that is still to be answered.
LEMMA AssuredBy ==
  ASSUME Sizes, PeerTyped', NEW q \in PlaceSet, Leads(Now', Items(toPeer'), q), NEW e \in Quiet,
         Total(q.d) < Total(e), Within(Sures(e), q, script', Idle(e))
  PROVE  Assured(q, e)'
<1>1. Now' \in PlaceSet /\ Continues(Here', Now') /\ Here' \in DataSet /\ toPeer' \in Seq(C!Byte)
  <2>1. /\ cmd' \in Commands /\ args' \in Seq(C!Byte) /\ Here' \in DataSet /\ toPeer' \in Seq(C!Byte)
        /\ IF cmd' = 0 THEN args' = <<>> ELSE Len(args') <= C!Needs(cmd')
        /\ cmd' = 20 /\ Len(args') = 1 => args'[1] \in 0 .. Count - 1
    BY DEF PeerTyped
  <2>2. Continues(Here', Settled(cmd', args', Here'))
    BY <2>1, SettledTyped
  <2>. QED  BY <2>1, <2>2 DEF Now, Continues
<1>2. Continues(Now'.d, q)
  BY <1>1, LineContinues
<1>3. Continues(Here', q)
  BY <1>1, <1>2, ContinuesTransitive
<1>4. Sure(Here', e)
  <2>1. Total(Here') <= Total(q.d) /\ q.d \in DataSet
    BY <1>1, <1>3, ContinuesGrows
  <2>2. Total(Here') \in Nat /\ Total(q.d) \in Nat /\ Total(e) \in Nat
    BY <1>1, <2>1, TotalIs, IdlePlace
  <2>3. Total(Here') < Total(e)
    BY <2>1, <2>2
  <2>. QED  BY <2>3 DEF Sure
<1>5. Within(Sures(e), Now', Items(toPeer'), q)
  <2>1. Items(toPeer') \in Seq(Item) /\ e \in DataSet
    BY <1>1, ItemsFacts, IdlePlace
  <2>. QED  BY <1>1, <2>1, SureBefore
<1>. QED  BY <1>4, <1>5 DEF Assured

LEMMA BeginKeeps ==
  ASSUME Sizes, LineInv, NEW w \in Words, C!Begin(w)
  PROVE  LineInv'
<1>. DEFINE mixed == w.word = "flash" /\ buffer # C!Erased
            m == IF C!Known THEN believed ELSE memory
<1>1. /\ C!Prompt /\ script' = C!Script(w) /\ got' = <<>> /\ running' = running /\ running
      /\ UNCHANGED <<toPeer, toHost, cmd, args, z, memory, buffer>>
      /\ burnt' = IF w.word = "flash" THEN w.n ELSE 0
      /\ wanted' = IF mixed THEN <<>> ELSE C!Returns(w, m)
      /\ believed' = IF mixed THEN <<>> ELSE C!Effect(w, m)
  BY DEF C!Begin, C!Prompt, C!peer
<1>2. PICK d \in Quiet : AtRest(d)
  BY <1>1, AtPrompt
<1>3. PeerTyped
  BY DEF LineInv
<1>4. Takes(0, <<>>)
  BY <1>1, <1>3, TakesNone
<1>5. PICK q : q = Dropped(0, <<>>, Idle(d))
  OBVIOUS
<1>6. PeerTyped' /\ q \in PlaceSet /\ Leads(Now', Items(toPeer'), q)
  BY <1>2, <1>3, <1>4, <1>5, HostTakes DEF AtRest
<1>7. q = Idle(q.d) /\ q.d \in Quiet
  <2>1. d.log = <<>> /\ Idle(d).c = 0 /\ Idle(d).a = <<>> /\ Idle(d).d = d
    BY DEF Quiet, Idle, Place
  <2>2. SubSeq(<<>>, 0 + 1, Len(<<>>)) = <<>>
    OBVIOUS
  <2>3. q = Place(0, <<>>, q.d) /\ q.d.log = <<>>
    BY <1>5, <2>1, <2>2 DEF Dropped, Place, Data
  <2>4. q.d \in DataSet
    BY <1>6 DEF PlaceSet
  <2>. QED  BY <2>3, <2>4 DEF Idle, Quiet
<1>8. Whole(C!Script(w))
  BY WholeScript
<1>9. q.d.m = m /\ q.d.f = buffer
  <2>1. q.d.m = d.m /\ q.d.f = d.f
    BY <1>5, DroppedFacts, IdlePlace
  <2>. QED  BY <1>2, <2>1 DEF AtRest
<1>. HIDE DEF m, mixed
<1>10. ASSUME w.word # "flash" PROVE \E e \in Quiet : Ends(q, e)'
  <2>1. Turns(Deed, C!Script(w), {q.d}, Served(w, q.d.m))
    BY <1>7, <1>10, WordDone
  <2>2. PICK e \in Served(w, m) : Leads(Idle(q.d), C!Script(w), Idle(e))
    BY <1>9, <2>1 DEF Turns
  <2>3. e \in Quiet /\ e.m = believed' /\ C!IsSuffix(wanted', e.got) /\ burnt' = 0
    BY <1>1, <1>10, <2>2 DEF Served, mixed
  <2>4. e.m \in Memory /\ e.got \in Seq(Nat)
    BY <2>3, PeersFacts
  <2>5. believed' # <<>>
    BY <2>3, <2>4, MemoryIsKnown
  <2>6. C!IsSuffix(BytesAt(e.m, "flash", 0, burnt'), e.got)
    BY <2>3, <2>4, BytesNone, NothingIsSuffix
  <2>7. Ends(q, e)'
    BY <1>1, <1>7, <2>2, <2>3, <2>5, <2>6 DEF Ends, Kept, Verified, Relied, C!Known
  <2>. QED  BY <2>3, <2>7
<1>11. ASSUME w.word = "flash" PROVE \E e \in Quiet : Ends(q, e)'
  <2>1. PICK e \in Quiet : /\ Surely(q.d, C!Script(w), e)
                           /\ C!IsSuffix(BytesAt(e.m, "flash", 0, w.n), e.got)
                           /\ q.d.f = C!Erased => e \in Served(w, q.d.m)
    BY <1>7, <1>11, FlashSurely
  <2>2. Within(Sures(e), q, script', Idle(e)) /\ Total(q.d) < Total(e)
    BY <1>1, <1>7, <2>1 DEF Surely
  <2>3. Leads(q, script', Idle(e))
    BY <1>1, <1>8, <2>2, WithinHolds DEF Whole
  <2>4. Assured(q, e)'
    BY <1>6, <2>2, AssuredBy
  <2>5. C!IsSuffix(BytesAt(e.m, "flash", 0, burnt'), e.got)
    BY <1>1, <1>11, <2>1
  <2>6. C!IsSuffix(wanted', e.got) /\ (believed' # <<>> => e.m = believed')
    <3>1. CASE mixed
      <4>1. wanted' = <<>> /\ believed' = <<>>
        BY <1>1, <3>1
      <4>2. e.got \in Seq(Nat)
        BY PeersFacts
      <4>. QED  BY <4>1, <4>2, NothingIsSuffix
    <3>2. CASE ~mixed
      <4>1. e \in Served(w, m)
        BY <1>9, <1>11, <2>1, <3>2 DEF mixed
      <4>. QED  BY <1>1, <3>2, <4>1 DEF Served
    <3>. QED  BY <3>1, <3>2
  <2>7. Ends(q, e)'
    BY <2>3, <2>4, <2>5, <2>6 DEF Ends, Kept, Verified, C!Known
  <2>. QED  BY <2>7
<1>12. Talking(q)'
  BY <1>1, <1>8, <1>10, <1>11 DEF Talking, Whole
<1>13. Onward(q)'
  BY <1>6, <1>12 DEF Onward, Mode
<1>. QED  BY <1>6, <1>13 DEF LineInv

\* A host that drains or flushes is greeting.
LEMMA OnlyGreeting ==
  ASSUME NEW mid, Mode(mid), C!Does("drain") \/ C!Does("flush")
  PROVE  Greeting(mid)
<1>1. CASE Talking(mid)
  <2>1. script \in Seq(Item) /\ script # <<>> /\ Head(script).op \in {"drain", "flush"}
    BY <1>1 DEF Talking, C!Does
  <2>2. PICK d \in Quiet : Leads(mid, script, Idle(d))
    BY <1>1 DEF Talking, Ends
  <2>3. PICK r : Leads1(mid, Head(script), r)
    BY <2>1, <2>2, LeadsHead
  <2>. QED  BY <2>1, <2>3 DEF Leads1
<1>2. CASE Silent(mid)
  BY <1>2 DEF Silent, C!Does
<1>. QED  BY <1>1, <1>2 DEF Mode

LEMMA GreetOps ==
  /\ Zero.op = "send" /\ DrainItem.op = "drain" /\ FlushItem.op = "flush"
BY DEF Zero, SendItem, DrainItem, FlushItem

LEMMA DrainKeeps ==
  ASSUME Sizes, LineInv, C!Drain
  PROVE  LineInv'
<1>1. /\ C!Does("drain") /\ script # <<>> /\ Head(script).op = "drain" /\ toPeer = <<>>
      /\ script' = Tail(script) /\ running' = running
      /\ UNCHANGED <<toPeer, toHost, got, cmd, args, z, memory, buffer, wanted, believed, burnt>>
  BY DEF C!Drain, C!Does, C!Done, C!peer
<1>2. PICK mid : Onward(mid)
  BY DEF LineInv
<1>3. PeerTyped /\ mid \in PlaceSet /\ Leads(Now, Items(toPeer), mid) /\ Greeting(mid)
  BY <1>1, <1>2, OnlyGreeting DEF LineInv, Onward
<1>4. script = DrainAsk /\ mid.c = 0
  BY <1>1, <1>3, GreetFacts, GreetOps DEF Greeting
<1>5. Greeting(mid)'
  BY <1>1, <1>3, <1>4, GreetFacts DEF Greeting, C!Known
<1>6. PeerTyped' /\ Now' = Now
  BY <1>1, <1>3 DEF PeerTyped, Now, Here
<1>7. Onward(mid)'
  BY <1>1, <1>3, <1>5, <1>6 DEF Onward, Mode
<1>. QED  BY <1>6, <1>7 DEF LineInv

\* After the flush nothing is under way.
LEMMA FlushKeeps ==
  ASSUME Sizes, LineInv, C!Flush
  PROVE  LineInv'
<1>1. /\ C!Does("flush") /\ script # <<>> /\ Head(script).op = "flush" /\ toHost' = <<>>
      /\ script' = Tail(script) /\ running' = running /\ running
      /\ UNCHANGED <<toPeer, got, cmd, args, z, memory, buffer, wanted, believed, burnt>>
  BY DEF C!Flush, C!Does, C!Done, C!peer
<1>2. PICK mid : Onward(mid)
  BY DEF LineInv
<1>3. PeerTyped /\ mid \in PlaceSet /\ Leads(Now, Items(toPeer), mid) /\ Greeting(mid)
      /\ toHost \in Seq(Nat) /\ got \in Seq(Nat)
  BY <1>1, <1>2, OnlyGreeting, HereFacts DEF LineInv, Onward, PeerTyped
<1>4. script = FlushAsk /\ mid.c = 0 /\ toPeer = <<>> /\ Len(mid.d.log) <= Len(toHost)
  BY <1>1, <1>3, GreetFacts, GreetOps DEF Greeting
<1>5. Len(mid.d.log) = Len(toHost)
  <2>1. PICK x \in Seq(Nat) : mid.d.log = toHost \o x
    BY <1>3, MidContinues
  <2>2. Len(mid.d.log) = Len(toHost) + Len(x) /\ Len(x) \in Nat /\ Len(toHost) \in Nat
    BY <1>3, <2>1, ConcatProperties
  <2>. QED  BY <1>4, <2>2
<1>. DEFINE n == Len(toHost)
<1>6. Takes(n, got)
  <2>1. n \in 0 .. Len(toHost) /\ SubSeq(toHost, n + 1, Len(toHost)) = <<>>
    BY <1>3
  <2>. QED  BY <1>1, <1>3, <2>1 DEF Takes
<1>7. PICK q : q = Dropped(n, got, mid)
  OBVIOUS
<1>8. PeerTyped' /\ q \in PlaceSet /\ Leads(Now', Items(toPeer'), q)
  <2>. HIDE DEF n
  <2>. QED  BY <1>3, <1>6, <1>7, HostTakes
<1>9. q.c = 0 /\ q.d.log = <<>>
  <2>1. q.c = mid.c /\ q.d.log = SubSeq(mid.d.log, n + 1, Len(mid.d.log))
    <3>. HIDE DEF n
    <3>. QED  BY <1>7, DroppedFacts
  <2>2. mid.d.log \in Seq(Nat)
    BY <1>3 DEF PlaceSet, DataSet
  <2>3. SubSeq(mid.d.log, n + 1, Len(mid.d.log)) = <<>>
    BY <1>5, <2>2
  <2>. QED  BY <1>4, <2>1, <2>3
<1>10. q = Idle(q.d) /\ q.d \in Quiet
  <2>1. q.a = <<>> /\ q.d \in DataSet
    BY <1>8, <1>9 DEF PlaceSet, Waiting
  <2>2. q = Place(q.c, q.a, q.d)
    BY <1>8 DEF PlaceSet, Place
  <2>. QED  BY <1>9, <2>1, <2>2 DEF Idle, Quiet
<1>11. Whole(Ask) /\ script' = Ask
  BY <1>1, <1>4, GreetFacts, WholeGreetingAsk
<1>12. PICK e \in Quiet : Surely(q.d, Ask, e) /\ C!IsSuffix(Version, e.got)
  BY <1>10, AskDone
<1>13. Within(Sures(e), q, script', Idle(e)) /\ Total(q.d) < Total(e)
  BY <1>10, <1>11, <1>12 DEF Surely
<1>14. Ends(q, e)'
  <2>1. Leads(q, script', Idle(e))
    BY <1>11, <1>13, WithinHolds DEF Whole
  <2>2. Assured(q, e)'
    BY <1>8, <1>13, AssuredBy
  <2>3. wanted' = Version /\ believed' = <<>> /\ burnt' = 0
    BY <1>1, <1>3 DEF Greeting, C!Known
  <2>4. C!IsSuffix(BytesAt(e.m, "flash", 0, burnt'), e.got)
    <3>1. e.got \in Seq(Nat)
      BY PeersFacts
    <3>. QED  BY <2>3, <3>1, BytesNone, NothingIsSuffix
  <2>. QED  BY <1>12, <2>1, <2>2, <2>3, <2>4 DEF Ends, Kept, Verified, C!Known
<1>15. Talking(q)'
  BY <1>1, <1>11, <1>14 DEF Talking, Whole
<1>16. Onward(q)'
  BY <1>8, <1>15 DEF Onward, Mode
<1>. QED  BY <1>8, <1>16 DEF LineInv

-----------------------------------------------------------------------------
(* Initially the peer waits for a command and nothing is under way. *)

LEMMA LineInit ==
  ASSUME Sizes, C!Init
  PROVE  LineInv
<1>1. /\ toPeer = <<>> /\ toHost = <<>> /\ script = <<>> /\ got = <<>> /\ running = TRUE
      /\ cmd = 0 /\ args = <<>> /\ z = 0 /\ buffer = C!Erased /\ wanted = <<>> /\ believed = memory
      /\ memory = [data |-> [a \in 0 .. DataSize - 1 |-> 0],
                   eeprom |-> [a \in 0 .. DataSize - 1 |-> C!Blank],
                   flash |-> [a \in 0 .. FlashSize - 1 |-> C!Blank],
                   rww |-> "open"]
      /\ burnt = 0
  BY DEF C!Init
<1>2. memory \in Memory /\ buffer \in PageBuffer
  <2>1. 0 \in C!Byte /\ C!Blank \in C!Byte
    BY DEF C!Byte, C!Blank
  <2>. QED  BY <1>1, <2>1 DEF Memory, PageBuffer, C!Erased
<1>3. Here \in DataSet /\ Here.log = <<>>
  BY <1>1, <1>2, HereFacts
<1>4. PeerTyped
  <2>1. 0 \in Commands /\ <<>> \in Seq(C!Byte)
    BY DEF Commands
  <2>. QED  BY <1>1, <1>3, <2>1 DEF PeerTyped
<1>5. Now = Idle(Here) /\ Here \in Quiet
  BY <1>1, <1>3 DEF Now, Settled, Idle, Quiet
<1>6. Leads(Now, Items(toPeer), Now)
  <2>1. Items(toPeer) = <<>>
    BY <1>1 DEF Items
  <2>. QED  BY <2>1, LeadsNone
<1>7. Leads(Now, script, Idle(Here))
  BY <1>1, <1>5, LeadsNone
<1>8. script \in Seq(Item) /\ script \in Seq(Deed)
  BY <1>1
<1>9. C!Known /\ C!IsSuffix(wanted, Here.got)
  <2>1. C!IsSuffix(<<>>, <<>>)
    <3>1. <<>> \in Seq(Nat)
      OBVIOUS
    <3>. QED  BY <3>1, NothingIsSuffix
  <2>2. Here.got = <<>>
    BY <1>1, HereFacts
  <2>3. believed # <<>>
    <3>1. memory # <<>>
      BY <1>2, MemoryIsKnown
    <3>2. believed = memory
      BY <1>1
    <3>. QED  BY <3>1, <3>2
  <2>4. wanted = <<>>
    BY <1>1
  <2>. QED  BY <2>1, <2>2, <2>3, <2>4 DEF C!Known
<1>10. Ends(Now, Here)
  <2>1. Here.got = <<>> /\ Here.m = memory /\ <<>> \in Seq(Nat)
    BY <1>1, HereFacts
  <2>2. Verified(Here)
    BY <1>1, <2>1, BytesNone, NothingIsSuffix DEF Verified
  <2>. QED  BY <1>1, <1>7, <1>9, <2>1, <2>2 DEF Ends, Kept, Relied
<1>11. Talking(Now)
  BY <1>1, <1>5, <1>8, <1>10 DEF Talking
<1>12. Now \in PlaceSet
  BY <1>4, NowFacts
<1>. QED  BY <1>4, <1>6, <1>11, <1>12 DEF LineInv, Onward, Mode

LEMMA LineStep ==
  ASSUME Sizes, CutAssumption, LineInv, C!Next
  PROVE  LineInv'
<1>1. CASE \E w \in Words : C!Begin(w)
  BY <1>1, BeginKeeps
<1>2. CASE C!HostSteps
  BY <1>2, HostSendsKeeps, HostReceivesKeeps, DrainKeeps, FlushKeeps, RestartKeeps DEF C!HostSteps
<1>3. CASE C!Kill
  BY <1>3, KillKeeps
<1>4. CASE C!PeerSteps
  BY <1>4, PeerHears, PeerCommand, PeerStreams DEF C!PeerSteps
<1>. QED  BY <1>1, <1>2, <1>3, <1>4 DEF C!Next

LEMMA LineStutter ==
  ASSUME LineInv, UNCHANGED C!vars
  PROVE  LineInv'
<1>1. /\ UNCHANGED <<toPeer, toHost, script, got, running, cmd, args, z, memory, buffer>>
      /\ wanted' = wanted /\ believed' = believed /\ burnt' = burnt
  BY DEF C!vars, C!host, C!peer
<1>2. PICK mid : Onward(mid)
  BY DEF LineInv
<1>3. Here' = Here /\ Now' = Now
  BY <1>1 DEF Here, Now
<1>4. PeerTyped'
  BY <1>1, <1>3 DEF LineInv, PeerTyped
<1>5. Mode(mid)'
  <2>1. ASSUME NEW d \in Quiet, Assured(mid, d) PROVE Assured(mid, d)'
    BY <1>1, <1>3, <2>1 DEF Assured
  <2>. QED  BY <1>1, <1>2, <2>1, ModeStays DEF Onward
<1>6. Onward(mid)'
  BY <1>1, <1>2, <1>3, <1>5 DEF Onward
<1>. QED  BY <1>4, <1>6 DEF LineInv

\* A peer that has done all it was sent is where the line leads.
LEMMA AtRestIdle ==
  ASSUME NEW d, AtRest(d), ~C!Working
  PROVE  cmd = 0 /\ memory = d.m
<1>1. toPeer = <<>> /\ ~(cmd # 0 /\ Len(args) = C!Needs(cmd))
  BY DEF C!Working
<1>2. Items(toPeer) = <<>>
  BY <1>1 DEF Items
<1>3. Now = Idle(d)
  BY <1>2, LeadsEmpty DEF AtRest
<1>4. Now = Place(cmd, args, Here)
  BY <1>1 DEF Now, Settled
<1>5. cmd = 0 /\ Here = d
  BY <1>3, <1>4 DEF Idle, Place
<1>. QED  BY <1>5, HereFacts

LEMMA LineInStep ==
  ASSUME Sizes, LineInv
  PROVE  C!InStep
<1>1. SUFFICES ASSUME C!Prompt PROVE toHost = <<>> /\ (~C!Working => cmd = 0)
  BY DEF C!InStep
<1>2. PICK d \in Quiet : AtRest(d)
  BY <1>1, AtPrompt
<1>3. ~C!Working => cmd = 0
  BY <1>2, AtRestIdle
<1>. QED  BY <1>1, <1>3, AtPrompt

LEMMA LineReads ==
  ASSUME Sizes, LineInv
  PROVE  C!ReadsAreTrue
<1>1. SUFFICES ASSUME C!Prompt PROVE C!IsSuffix(wanted, got)
  BY DEF C!ReadsAreTrue
<1>2. PICK d \in Quiet : AtRest(d)
  BY <1>1, AtPrompt
<1>. QED  BY <1>2 DEF AtRest, Kept

LEMMA LineWrites ==
  ASSUME Sizes, LineInv
  PROVE  C!WritesLand
<1>1. SUFFICES ASSUME C!Prompt, C!Known, ~C!Working PROVE memory = believed
  BY DEF C!WritesLand
<1>2. PICK d \in Quiet : AtRest(d)
  BY <1>1, AtPrompt
<1>3. memory = d.m
  BY <1>1, <1>2, AtRestIdle
<1>. QED  BY <1>1, <1>2, <1>3 DEF AtRest

LEMMA LineVerify ==
  ASSUME Sizes, LineInv
  PROVE  C!VerifyTells
<1>1. SUFFICES ASSUME C!Prompt
               PROVE  C!IsSuffix([i \in 1 .. burnt |-> memory.flash[i - 1]], got)
  BY DEF C!VerifyTells
<1>2. PICK d \in Quiet : AtRest(d)
  BY <1>1, AtPrompt
<1>3. C!IsSuffix(BytesAt(d.m, "flash", 0, burnt), got)
  BY <1>2 DEF AtRest, Kept, Verified
<1>4. CASE burnt = 0
  <2>1. BytesAt(d.m, "flash", 0, burnt) = [i \in 1 .. burnt |-> memory.flash[i - 1]]
    BY <1>4, BytesNone
  <2>. QED  BY <1>3, <2>1
<1>5. CASE burnt # 0
  <2>1. d.m = memory
    BY <1>2, <1>5 DEF AtRest
  <2>2. \A i \in 1 .. burnt : 0 + i - 1 = i - 1
    OBVIOUS
  <2>3. BytesAt(d.m, "flash", 0, burnt) = [i \in 1 .. burnt |-> memory.flash[i - 1]]
    BY <2>1, <2>2 DEF BytesAt
  <2>. QED  BY <1>3, <2>3
<1>. QED  BY <1>4, <1>5

LEMMA LineHolds ==
  ASSUME CutAssumption
  PROVE  TargetSpec => []LineInv
<1>1. Sizes
  BY ChatAssumption DEF Sizes
<1>2. TargetInit => LineInv
  BY <1>1, LineInit DEF TargetInit
<1>3. LineInv /\ [TargetNext]_all => LineInv'
  <2>. SUFFICES ASSUME LineInv, [TargetNext]_all PROVE LineInv'
    OBVIOUS
  <2>1. CASE ChatStep(C!Next)
    BY <1>1, <2>1, LineStep DEF ChatStep
  <2>2. CASE TaskerStep(Next) \/ UNCHANGED all
    <3>1. UNCHANGED ofChat
      BY <2>2 DEF TaskerStep, all
    <3>2. UNCHANGED C!vars
      BY <3>1 DEF ofChat, C!vars, C!host, C!peer
    <3>. QED  BY <3>2, LineStutter
  <2>. QED  BY <2>1, <2>2 DEF TargetNext
<1>. QED  BY <1>2, <1>3, PTL DEF TargetSpec

\* At the prompt, host and peer are in step, for every sequence of words and of
\* kills that cut short no more than the addresses of set-addr and run and the
\* byte of write-data, however bytes and replies travel (InStep of Chat; c.resync
\* of chat-serial-host.mu4).
THEOREM InStepCorrect ==
  ASSUME CutAssumption
  PROVE  TargetSpec => []InStep
<1>1. LineInv => InStep
  BY ChatAssumption, LineInStep DEF Sizes, InStep
<1>2. TargetSpec => []LineInv
  BY LineHolds
<1>. QED  BY <1>1, <1>2, PTL

\* A word that reads returns what the memory of the peer holds, c.hello the version,
\* the status after a run the address that was left, and flash-image the image, for
\* every memory, count, address and image, before and after kills; but nothing is said
\* of what is read of flash whose section a killed flash-image has left closed, nor of
\* an image flashed over words that one left in the page buffer (ReadsAreTrue of
\* Chat; c.read-space and c.hello of chat-serial-host.mu4, verify-region of flash.mu4).
THEOREM ReadsAreTrueCorrect ==
  ASSUME CutAssumption
  PROVE  TargetSpec => []ReadsAreTrue
<1>1. LineInv => ReadsAreTrue
  BY ChatAssumption, LineReads DEF Sizes, ReadsAreTrue
<1>2. TargetSpec => []LineInv
  BY LineHolds
<1>. QED  BY <1>1, <1>2, PTL

\* What the host has written is what the memory holds once the peer has done what it
\* was sent, also when the host was killed before and has begun anew: writes to data
\* and eeprom, and images of every length, erased by pages and programmed by chunks,
\* whose section is open again; of an image flashed over words that a killed
\* flash-image left in the page buffer it says nothing, VerifyTellsCorrect does
\* (WritesLand of Chat; c.write-data of chat-serial-host.mu4, flash-region of flash.mu4).
THEOREM WritesLandCorrect ==
  ASSUME CutAssumption
  PROVE  TargetSpec => []WritesLand
<1>1. LineInv => WritesLand
  BY ChatAssumption, LineWrites DEF Sizes, WritesLand
<1>2. TargetSpec => []LineInv
  BY LineHolds
<1>. QED  BY <1>1, <1>2, PTL

\* What flash-image has compared with the image when it ends is what the flash holds,
\* for every image, and whatever an earlier one that was killed has left in the page
\* buffer and of the flash, closed or not: an image that was spoilt is found out
\* (VerifyTells of Chat; verify-region of flash.mu4, c.flash-end of
\* chat-serial-host.mu4).
THEOREM VerifyTellsCorrect ==
  ASSUME CutAssumption
  PROVE  TargetSpec => []VerifyTells
<1>1. LineInv => VerifyTells
  BY ChatAssumption, LineVerify DEF Sizes, VerifyTells
<1>2. TargetSpec => []LineInv
  BY LineHolds
<1>. QED  BY <1>1, <1>2, PTL
=============================================================================

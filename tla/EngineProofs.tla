----------------------------- MODULE EngineProofs -----------------------------
(***************************************************************************)
(* The activations of mu_execute on C's stack, for every program, also one *)
(* that leaves its stacks in disorder.                                     *)
(*                                                                         *)
(* What do, i, loop and +loop do with the three cells of a loop, for cells *)
(* of every width: they count modulo 2 * Half, and what they leave on the  *)
(* return stack is the difference of index and limit.                      *)
(***************************************************************************)
EXTENDS Engine, SequenceTheorems, TLAPS

\* The return stack is a sequence of whatever was pushed, and the i-th
\* activation began with at least i - 1 cells on it.
IsSequence(s) == \E S : s \in Seq(S)
IInv ==
  /\ IsSequence(rp)
  /\ acts \in Seq(Nat)
  /\ \A i \in 1..Len(acts) : acts[i] >= i - 1
  /\ pc = "run" => acts # <<>>

\* Pushing leaves a sequence one cell longer.
LEMMA PushSequence ==
  ASSUME NEW s, NEW x, IsSequence(s)
  PROVE  IsSequence(Append(s, x)) /\ Len(Append(s, x)) = Len(s) + 1
<1>1. PICK S : s \in Seq(S) BY DEF IsSequence
<1>2. s \in Seq(S \cup {x}) BY <1>1
<1>3. Append(s, x) \in Seq(S \cup {x}) BY <1>2
<1> QED BY <1>2, <1>3 DEF IsSequence

\* Cutting leaves a sequence.
LEMMA CutSequence ==
  ASSUME NEW s, IsSequence(s), NEW n \in Int, n <= Len(s)
  PROVE  IsSequence(SubSeq(s, 1, n))
<1>1. PICK S : s \in Seq(S) BY DEF IsSequence
<1>2. SubSeq(s, 1, n) \in Seq(S) BY <1>1
<1> QED BY <1>2 DEF IsSequence

\* So does dropping cells from the top, however many.
LEMMA DropSequence ==
  ASSUME NEW s, IsSequence(s), NEW n \in Nat
  PROVE  IsSequence(Drop(s, n))
<1>1. Len(s) \in Nat BY DEF IsSequence
<1> QED BY <1>1, CutSequence DEF Drop

LEMMA LengthIsNatural ==
  ASSUME NEW s, IsSequence(s)
  PROVE  Len(s) \in Nat
BY DEF IsSequence

\* The first n elements of a sequence.
LEMMA Prefix ==
  ASSUME NEW S, NEW s \in Seq(S), NEW n \in 0..Len(s)
  PROVE  /\ SubSeq(s, 1, n) \in Seq(S) /\ Len(SubSeq(s, 1, n)) = n
         /\ \A i \in 1..n : SubSeq(s, 1, n)[i] = s[i]
<1>1. n \in Nat /\ n <= Len(s) /\ Len(s) \in Nat BY LenProperties
<1>2. \A i \in 1..n : s[i] \in S BY <1>1, ElementOfSeq
<1>3. SubSeq(s, 1, n) = [i \in 1..n |-> s[i]] BY <1>1, <1>2, SubSeqProperties
<1> QED BY <1>1, <1>2, <1>3, SubSeqProperties

\* What an instruction is executed with.
LEMMA Instruction ==
  ASSUME IInv, NEW op, At(op)
  PROVE  /\ pc = "run" /\ pc' = pc /\ acts # <<>>
         /\ Len(acts) \in Nat \ {0}
         /\ Len(rp) \in Nat /\ Len(rp) >= Len(acts)
<1>1. pc = "run" /\ pc' = pc /\ acts # <<>> BY DEF At, IInv
<1>2. Len(acts) \in Nat \ {0} BY <1>1 DEF IInv
<1>3. Len(rp) \in Nat BY LengthIsNatural DEF IInv
<1>4. acts[Len(acts)] >= Len(acts) - 1 /\ acts[Len(acts)] \in Nat
  BY <1>2 DEF IInv
<1>5. ~(Len(rp) <= acts[Len(acts)]) BY DEF At, Ended, Top
<1> QED BY <1>1, <1>2, <1>3, <1>4, <1>5

\* Instructions that start no activation keep the invariant if they leave the
\* return stack a sequence.
LEMMA NoActivation ==
  ASSUME IInv, NEW op, At(op), UNCHANGED acts, IsSequence(rp')
  PROVE  IInv'
BY Instruction DEF IInv

\* Those that start one push a return address, and begin with the depth that
\* was there.
LEMMA OneActivation ==
  ASSUME IInv, NEW op, At(op), NEW w, Activate(w)
  PROVE  IInv'
<1>1. /\ pc = "run" /\ pc' = pc /\ Len(acts) \in Nat \ {0}
      /\ Len(rp) \in Nat /\ Len(rp) >= Len(acts)
  BY Instruction
<1>2. acts' = Append(acts, Len(rp)) /\ rp' = Append(rp, ip + 1)
  BY DEF Activate, Colon
<1>3. IsSequence(rp') BY <1>2, PushSequence DEF IInv
<1>4. acts' \in Seq(Nat) /\ Len(acts') = Len(acts) + 1 /\ acts' # <<>>
  BY <1>1, <1>2 DEF IInv
<1>5. ASSUME NEW i \in 1..Len(acts') PROVE acts'[i] >= i - 1
  <2>1. CASE i = Len(acts) + 1 BY <2>1, <1>1, <1>2 DEF IInv
  <2>2. CASE i # Len(acts) + 1 BY <2>2, <1>1, <1>2, <1>4 DEF IInv
  <2> QED BY <2>1, <2>2
<1> QED BY <1>3, <1>4, <1>5 DEF IInv

LEMMA InitInvariant == Init => IInv
<1> SUFFICES ASSUME Init PROVE IInv OBVIOUS
<1>1. rp \in Seq({}) BY DEF Init
<1> QED BY <1>1 DEF Init, IInv, IsSequence

\* Compiling touches neither stack.
LEMMA CompilerInvariant == IInv /\ Compiler => IInv'
<1> SUFFICES ASSUME IInv, Compiler PROVE IInv' OBVIOUS
<1>1. UNCHANGED <<rp, acts>> /\ pc' # "run"
  BY DEF Compiler, CompileBranch, CompileLoop, CompileWord, Semi, Takes, Compiled
<1> QED BY <1>1 DEF IInv

\* C starts the first activation and ends the last.
LEMMA ActivationInvariant == IInv /\ (Start \/ ActivationEnds) => IInv'
<1>1. ASSUME IInv, Start PROVE IInv'
  <2>1. acts' = <<Len(rp)>> /\ rp' = Append(rp, ip) BY <1>1 DEF Start, Colon
  <2>2. Len(rp) \in Nat BY <1>1, LengthIsNatural DEF IInv
  <2>3. IsSequence(rp') BY <1>1, <2>1, PushSequence DEF IInv
  <2> QED BY <2>1, <2>2, <2>3 DEF IInv
<1>2. ASSUME IInv, ActivationEnds PROVE IInv'
  <2>1. /\ pc = "run" /\ acts # <<>> /\ rp' = rp
        /\ acts' = SubSeq(acts, 1, Len(acts) - 1)
        /\ pc' = IF Len(acts) = 1 THEN "done" ELSE pc
    BY <1>2 DEF ActivationEnds, Drop, IInv
  <2>2. Len(acts) \in Nat \ {0} BY <1>2, <2>1 DEF IInv
  <2>3. Len(acts) - 1 \in 0..Len(acts) BY <2>2
  <2>4. /\ acts' \in Seq(Nat) /\ Len(acts') = Len(acts) - 1
        /\ \A i \in 1..(Len(acts) - 1) : acts'[i] = acts[i]
    BY <1>2, <2>1, <2>3, Prefix DEF IInv
  <2>5. pc' = "run" => acts' # <<>>
    <3>1. Len(acts') # 0 => acts' # <<>> OBVIOUS
    <3> QED BY <3>1, <2>1, <2>2, <2>4
  <2> QED BY <1>2, <2>1, <2>2, <2>4, <2>5 DEF IInv
<1> QED BY <1>1, <1>2

\* Calling, returning, executing and failing.
LEMMA CallInvariant == IInv /\ (CallColon \/ Exit \/ Execute \/ Fail) => IInv'
<1>1. ASSUME IInv, CallColon PROVE IInv'
  BY <1>1, PushSequence, NoActivation DEF CallColon, Colon, IInv
<1>2. ASSUME IInv, Exit PROVE IInv'
  <2>1. IsSequence(Drop(rp, 1)) BY <1>2, DropSequence DEF IInv
  <2> QED BY <1>2, <2>1, NoActivation DEF Exit
<1>3. ASSUME IInv, Execute PROVE IInv' BY <1>3, OneActivation DEF Execute
<1>4. ASSUME IInv, Fail PROVE IInv' BY <1>4, OneActivation DEF Fail
<1> QED BY <1>1, <1>2, <1>3, <1>4

\* Words that leave the return stack alone.
LEMMA DataInvariant ==
  IInv /\ (Data \/ SetCf \/ Write \/ Branches \/ Indices) => IInv'
<1> SUFFICES ASSUME IInv, Data \/ SetCf \/ Write \/ Branches \/ Indices
             PROVE  IInv'
  OBVIOUS
<1>1. PICK op : At(op) /\ UNCHANGED <<rp, acts>>
  BY DEF Data, SetCf, Write, Branches, Indices, OnData, BranchIfFalse
<1>2. IsSequence(rp') BY <1>1 DEF IInv
<1> QED BY <1>1, <1>2, NoActivation

\* Loops keep their counts on the return stack.
LEMMA LoopsSequence ==
  ASSUME IInv, NEW n, NEW done \in BOOLEAN, NEW cells \in Nat,
         Loops(n, done, cells)
  PROVE  IsSequence(rp')
<1>1. IsSequence(Drop(rp, cells)) BY DropSequence DEF IInv
<1>2. IsSequence(Append(Drop(rp, 1), n)) BY DropSequence, PushSequence DEF IInv
<1> QED BY <1>1, <1>2 DEF Loops

LEMMA LoopInvariant ==
  IInv /\ (ToR \/ DoLoop \/ ForNext \/ Loop \/ PlusLoop \/ Leave) => IInv'
<1>1. ASSUME IInv, ToR PROVE IInv'
  BY <1>1, PushSequence, NoActivation DEF ToR, IInv
<1>2. ASSUME IInv, DoLoop PROVE IInv'
  <2> DEFINE x == Inline
             y == Top(Drop(ds, 1))
             z == Wrap(Top(ds) - y)
  <2> HIDE DEF x, y, z
  <2>1. PICK S : rp \in Seq(S) BY <1>2 DEF IInv, IsSequence
  <2>2. rp \in Seq(S \cup {x, y, z}) BY <2>1
  <2>3. <<x, y, z>> \in Seq(S \cup {x, y, z}) OBVIOUS
  <2>4. rp \o <<x, y, z>> \in Seq(S \cup {x, y, z}) BY <2>2, <2>3
  <2>5. rp' = rp \o <<x, y, z>> BY <1>2 DEF DoLoop, x, y, z
  <2>6. IsSequence(rp') BY <2>4, <2>5 DEF IsSequence
  <2> QED BY <1>2, <2>6, NoActivation DEF DoLoop
<1>3. ASSUME IInv, ForNext PROVE IInv'
  BY <1>3, LoopsSequence, NoActivation DEF ForNext
<1>4. ASSUME IInv, Loop PROVE IInv'
  BY <1>4, LoopsSequence, NoActivation DEF Loop
<1>5. ASSUME IInv, PlusLoop PROVE IInv'
  <2>1. PICK x, done : done \in BOOLEAN /\ Loops(x, done, 3)
    BY <1>5 DEF PlusLoop, PlusDone
  <2> QED BY <1>5, <2>1, LoopsSequence, NoActivation DEF PlusLoop
<1>6. ASSUME IInv, Leave PROVE IInv'
  <2>1. IsSequence(Drop(rp, 3)) BY <1>6, DropSequence DEF IInv
  <2>2. IsSequence(rp') BY <1>6, <2>1 DEF Leave, LeaveLoop, IInv
  <2> QED BY <1>6, <2>2, NoActivation DEF Leave
<1> QED BY <1>1, <1>2, <1>3, <1>4, <1>5, <1>6

LEMMA RpStoreInvariant == IInv /\ RpStore => IInv'
<1> SUFFICES ASSUME IInv, RpStore PROVE IInv' OBVIOUS
<1>1. Len(rp) \in Nat BY LengthIsNatural DEF IInv
<1>2. Top(ds) \in Int /\ Top(ds) <= Len(rp) BY <1>1 DEF RpStore
<1>3. IsSequence(rp') BY <1>2, CutSequence DEF RpStore, IInv
<1> QED BY <1>3, NoActivation DEF RpStore

LEMMA NextInvariant == IInv /\ [Next]_vars => IInv'
<1>1. IInv /\ UNCHANGED vars => IInv' BY DEF IInv, IsSequence, vars
<1> QED
  BY <1>1, CompilerInvariant, ActivationInvariant, CallInvariant,
     DataInvariant, LoopInvariant, RpStoreInvariant
  DEF Next, Machine

LEMMA InvariantEnough == IInv => ActivationsOnStack
<1> SUFFICES ASSUME IInv, pc = "run", ~Ended PROVE Len(acts) <= Len(rp)
  BY DEF ActivationsOnStack
<1>1. Len(acts) \in Nat \ {0} BY DEF IInv
<1>2. Len(rp) \in Nat BY LengthIsNatural DEF IInv
<1>3. acts[Len(acts)] >= Len(acts) - 1 /\ acts[Len(acts)] \in Nat
  BY <1>1 DEF IInv
<1> QED BY <1>1, <1>2, <1>3 DEF Ended, Top

\* Errors thrown out of any nest of execute and abort leave no activation of
\* mu_execute behind: for every program there are never more of them than
\* return addresses.
THEOREM ActivationsOnStackCorrect == Spec => []ActivationsOnStack
<1>1. Spec => []IInv BY InitInvariant, NextInvariant, PTL DEF Spec
<1> QED BY <1>1, InvariantEnough, PTL

-----------------------------------------------------------------------------
(* What do loops keep on the return stack, for cells of every width. (do)  *)
(* takes the limit away from the index, so that a loop ends where the      *)
(* difference changes its sign, and i and its like add it again.           *)

Numbers == -Half .. Half - 1

\* A multiple of the number of cells' values keeps its order.
LEMMA ProductOrder ==
  ASSUME NEW x \in Int, NEW y \in Int, NEW m \in Nat, x <= y
  PROVE  m * x <= m * y
<1>1. m * (y - x) >= 0
  OBVIOUS
<1>2. m * (y - x) = m * y - m * x
  OBVIOUS
<1>3. m * x \in Int /\ m * y \in Int
  OBVIOUS
<1> QED BY <1>1, <1>2, <1>3

\* No two numbers differ by a multiple of the number of values.
LEMMA NumbersDiffer ==
  ASSUME NEW y \in Numbers, NEW w \in Numbers, NEW k \in Int, NEW j \in Int,
         y + (2 * Half) * k = w + (2 * Half) * j
  PROVE  y = w
<1> DEFINE m == 2 * Half
<1>1. m \in Nat \ {0} /\ y - w \in -(m - 1) .. m - 1 /\ y \in Int /\ w \in Int
  BY HalfAssumption DEF Numbers
<1>2. y + m * k = w + m * j
  OBVIOUS
<1> HIDE DEF m
<1>3. m * k \in Int /\ m * j \in Int
  BY <1>1
<1>4. ASSUME k + 1 <= j PROVE FALSE
  <2>1. m * (k + 1) <= m * j BY <1>1, <1>4, ProductOrder
  <2>2. m * (k + 1) = m * k + m BY <1>1
  <2> QED BY <1>1, <1>2, <1>3, <2>1, <2>2
<1>5. ASSUME j + 1 <= k PROVE FALSE
  <2>1. m * (j + 1) <= m * k BY <1>1, <1>5, ProductOrder
  <2>2. m * (j + 1) = m * j + m BY <1>1
  <2> QED BY <1>1, <1>2, <1>3, <2>1, <2>2
<1>6. k = j
  BY <1>4, <1>5
<1> QED BY <1>1, <1>2, <1>3, <1>6

\* Wrapping adds a multiple of the number of values.
LEMMA Wrapped ==
  ASSUME NEW x \in Int
  PROVE  Wrap(x) \in Numbers /\ \E k \in Int : x = Wrap(x) + (2 * Half) * k
<1> DEFINE m == 2 * Half
           y == x + Half
           r == y % m
           q == y \div m
<1>1. m \in Nat \ {0} /\ Half \in Nat /\ y \in Int /\ m = Half + Half
  BY HalfAssumption
<1>2. Wrap(x) = r - Half
  BY DEF Wrap
<1> HIDE DEF m
<1>3. r \in 0 .. m - 1 /\ q \in Int /\ y = m * q + r
  <2> HIDE DEF y
  <2>1. q \in Int BY <1>1
  <2>2. r \in 0 .. m - 1 BY <1>1
  <2>3. y = m * q + r BY <1>1
  <2> QED BY <2>1, <2>2, <2>3
<1> HIDE DEF r, q
<1>4. m * q \in Int
  BY <1>1, <1>3
<1>5. x = (r - Half) + m * q /\ r - Half \in Numbers
  <2>1. x + Half = m * q + r /\ x \in Int BY <1>3
  <2> QED BY <1>1, <1>3, <1>4, <2>1 DEF Numbers
<1> QED BY <1>2, <1>3, <1>5 DEF m

LEMMA WrapIs ==
  ASSUME NEW x \in Int, NEW y \in Numbers, NEW k \in Int, x = y + (2 * Half) * k
  PROVE  Wrap(x) = y
BY Wrapped, NumbersDiffer

LEMMA WrapOwn ==
  ASSUME NEW y \in Numbers
  PROVE  Wrap(y) = y
<1>1. y \in Int /\ y = y + (2 * Half) * 0
  BY HalfAssumption DEF Numbers
<1> QED BY <1>1, WrapIs

\* It does not matter whether a term has been wrapped before.
LEMMA WrapSum ==
  ASSUME NEW x \in Int, NEW y \in Int
  PROVE  Wrap(Wrap(x) + y) = Wrap(x + y)
<1> DEFINE m == 2 * Half
<1>1. PICK k \in Int : x = Wrap(x) + m * k BY Wrapped
<1>2. PICK j \in Int : Wrap(x) + y = Wrap(Wrap(x) + y) + m * j
  <2>1. Wrap(x) + y \in Int BY Wrapped, HalfAssumption DEF Numbers
  <2> QED BY <2>1, Wrapped
<1>3. PICK a \in Int, b \in Numbers : a = Wrap(x) /\ b = Wrap(Wrap(x) + y)
  <2>1. Wrap(x) \in Int BY Wrapped, HalfAssumption DEF Numbers
  <2> QED BY <2>1, Wrapped
<1>4. m \in Int /\ b \in Int BY HalfAssumption DEF Numbers
<1> HIDE DEF m
<1>5. m * k \in Int /\ m * j \in Int /\ m * (k + j) = m * k + m * j
  BY <1>4
<1>6. x + y = b + m * (k + j)
  <2>1. x = a + m * k /\ a + y = b + m * j BY <1>1, <1>2, <1>3
  <2> QED BY <1>4, <1>5, <2>1
<1> QED BY <1>3, <1>6, WrapIs DEF m

\* The loop that is n loops out: where leave goes, its limit, and its index.
InLoop(s, n, e, limit, index) ==
  LET k == Len(s) - 3 * n IN
  k >= 3 /\ s[k - 2] = e /\ s[k - 1] = limit /\ s[k] = Wrap(index - limit)

LEMMA LimitAdded ==
  ASSUME NEW index \in Numbers, NEW limit \in Numbers
  PROVE  Wrap(Wrap(index - limit) + limit) = index
<1>1. PICK x \in Int : x = index - limit /\ x + limit = index
  BY HalfAssumption DEF Numbers
<1>2. Wrap(Wrap(x) + limit) = Wrap(index)
  <2>1. limit \in Int BY HalfAssumption DEF Numbers
  <2> QED BY <1>1, <2>1, WrapSum
<1> QED BY <1>1, <1>2, WrapOwn

\* Stepping the difference steps the index.
LEMMA StepWrapped ==
  ASSUME NEW index \in Numbers, NEW limit \in Numbers, NEW incr \in Int
  PROVE  Wrap(Wrap(index - limit) + incr) = Wrap(Wrap(index + incr) - limit)
<1>1. PICK x \in Int, y \in Int, z \in Int, n \in Int :
        x = index - limit /\ y = index + incr /\ z = x + incr /\ n = -limit /\ z = y + n
  BY HalfAssumption DEF Numbers
<1>2. Wrap(Wrap(x) + incr) = Wrap(z) /\ Wrap(Wrap(y) + n) = Wrap(z)
  BY <1>1, WrapSum
<1>3. Wrap(y) + n = Wrap(y) - limit
  <2>1. Wrap(y) \in Int /\ limit \in Int BY <1>1, Wrapped, HalfAssumption DEF Numbers
  <2> QED BY <1>1, <2>1
<1> QED BY <1>1, <1>2, <1>3

\* A loop whose last cell is exchanged for that of its next index.
LEMMA NextIndex ==
  ASSUME NEW s, IsSequence(s), NEW e, NEW limit, NEW index, NEW n, InLoop(s, 0, e, limit, index)
  PROVE  LET t == Append(Drop(s, 1), Wrap(n - limit)) IN
         InLoop(t, 0, e, limit, n) /\ Drop(t, 3) = Drop(s, 3)
<1> DEFINE k == Len(s)
           x == Wrap(n - limit)
           u == Drop(s, 1)
           t == Append(u, x)
<1>1. PICK S : s \in Seq(S) BY DEF IsSequence
<1>2. k \in Nat /\ k - 3 * 0 = k BY <1>1
<1>3. k >= 3 /\ s[k - 2] = e /\ s[k - 1] = limit
  BY <1>2 DEF InLoop
<1>4. u \in Seq(S) /\ Len(u) = k - 1 /\ \A i \in 1 .. k - 1 : u[i] = s[i]
  <2>1. k - 1 \in 0 .. Len(s) BY <1>2, <1>3
  <2> QED BY <1>1, <2>1, Prefix DEF Drop
<1> HIDE DEF u, x, k
<1>5. /\ t \in Seq(S \cup {x}) /\ Len(t) = k /\ t[k] = x
      /\ \A i \in 1 .. k - 1 : t[i] = s[i]
  <2>1. u \in Seq(S \cup {x}) /\ x \in S \cup {x} BY <1>4
  <2>2. t \in Seq(S \cup {x}) /\ Len(t) = Len(u) + 1 /\ t[Len(u) + 1] = x
        /\ \A i \in 1 .. Len(u) : t[i] = u[i]
    BY <2>1, AppendProperties
  <2>3. Len(u) + 1 = k BY <1>2, <1>4
  <2> QED BY <1>4, <2>2, <2>3
<1> HIDE DEF t
<1>6. InLoop(t, 0, e, limit, n)
  <2>1. k - 2 \in 1 .. k - 1 /\ k - 1 \in 1 .. k - 1 /\ Len(t) - 3 * 0 = k BY <1>2, <1>3, <1>5
  <2>2. t[k - 2] = e /\ t[k - 1] = limit /\ t[k] = x BY <1>3, <1>5, <2>1
  <2> QED BY <1>3, <2>1, <2>2 DEF InLoop, x
<1>7. Drop(t, 3) = Drop(s, 3)
  <2>1. k - 3 \in 0 .. Len(t) /\ k - 3 \in 0 .. Len(s) /\ \A i \in 1 .. k - 3 : i \in 1 .. k - 1
    BY <1>2, <1>3, <1>5 DEF k
  <2>2. SubSeq(t, 1, k - 3) = [i \in 1 .. k - 3 |-> t[i]] /\ SubSeq(s, 1, k - 3) = [i \in 1 .. k - 3 |-> s[i]]
    <3>1. /\ SubSeq(t, 1, k - 3) \in Seq(S \cup {x}) /\ Len(SubSeq(t, 1, k - 3)) = k - 3
          /\ \A i \in 1 .. k - 3 : SubSeq(t, 1, k - 3)[i] = t[i]
      BY <1>5, <2>1, Prefix
    <3>2. /\ SubSeq(s, 1, k - 3) \in Seq(S) /\ Len(SubSeq(s, 1, k - 3)) = k - 3
          /\ \A i \in 1 .. k - 3 : SubSeq(s, 1, k - 3)[i] = s[i]
      BY <1>1, <2>1, Prefix
    <3> QED BY <3>1, <3>2
  <2>3. SubSeq(t, 1, k - 3) = SubSeq(s, 1, k - 3)
    BY <1>5, <2>1, <2>2
  <2> QED BY <1>5, <2>3 DEF Drop, k
<1> QED BY <1>6, <1>7 DEF t, u, x

\* do begins with its start, and leave in the loop goes to the cell behind its end
\* (mu_runtime_do_).
THEOREM DoCorrect ==
  ASSUME IsSequence(rp), DoLoop, NEW limit, NEW index,
         limit = Top(Drop(ds, 1)), index = Top(ds)
  PROVE  InLoop(rp', 0, Inline, limit, index) /\ Drop(rp', 3) = rp /\ ip' = ip + 2
<1> DEFINE k == Len(rp)
           x == Wrap(index - limit)
           e == Inline
           v == <<e, limit, x>>
<1>1. rp' = rp \o v /\ ip' = ip + 2
  BY DEF DoLoop, Skip
<1>2. PICK S : rp \in Seq(S) BY DEF IsSequence
<1> DEFINE T == S \cup {e, limit, x}
<1>3. /\ v \in Seq(T) /\ Len(v) = 3 /\ v[1] = e /\ v[2] = limit /\ v[3] = x
  <2> HIDE DEF x, e
  <2> QED OBVIOUS
<1> HIDE DEF x, e, v
<1>4. rp \in Seq(T) /\ k \in Nat BY <1>2
<1> HIDE DEF T
<1>5. /\ rp' \in Seq(T) /\ Len(rp') = k + 3
      /\ \A i \in 1 .. k + 3 : rp'[i] = IF i <= k THEN rp[i] ELSE v[i - k]
  <2> HIDE DEF k
  <2>1. /\ rp \o v \in Seq(T) /\ Len(rp \o v) = Len(rp) + Len(v)
        /\ \A i \in 1 .. Len(rp) + Len(v) :
             (rp \o v)[i] = IF i <= Len(rp) THEN rp[i] ELSE v[i - Len(rp)]
    BY <1>3, <1>4, ConcatProperties
  <2>2. Len(rp) = k BY DEF k
  <2>3. Len(rp) + Len(v) = k + 3 BY <1>3, <2>2
  <2> QED BY <1>1, <2>1, <2>2, <2>3
<1> HIDE DEF k
<1>6. rp'[k + 1] = e /\ rp'[k + 2] = limit /\ rp'[k + 3] = x
  <2>1. k + 1 \in 1 .. k + 3 /\ k + 2 \in 1 .. k + 3 /\ k + 3 \in 1 .. k + 3
        /\ ~(k + 1 <= k) /\ ~(k + 2 <= k) /\ ~(k + 3 <= k)
        /\ (k + 1) - k = 1 /\ (k + 2) - k = 2 /\ (k + 3) - k = 3
    BY <1>4
  <2> QED BY <1>3, <1>5, <2>1
<1>7. InLoop(rp', 0, e, limit, index)
  <2>1. Len(rp') - 3 * 0 = k + 3 /\ k + 3 >= 3 /\ (k + 3) - 2 = k + 1 /\ (k + 3) - 1 = k + 2
    BY <1>4, <1>5
  <2> QED BY <1>6, <2>1 DEF InLoop, x
<1>8. Drop(rp', 3) = rp
  <2>1. Len(rp') - 3 = k /\ k \in 0 .. Len(rp') /\ \A i \in 1 .. k : i \in 1 .. k + 3 /\ i <= k
    BY <1>4, <1>5
  <2>2. /\ SubSeq(rp', 1, k) \in Seq(T) /\ Len(SubSeq(rp', 1, k)) = k
        /\ \A i \in 1 .. k : SubSeq(rp', 1, k)[i] = rp'[i]
    BY <1>5, <2>1, Prefix
  <2>3. \A i \in 1 .. k : SubSeq(rp', 1, k)[i] = rp[i]
    BY <1>5, <2>1, <2>2
  <2>4. SubSeq(rp', 1, k) = rp
    BY <1>4, <2>2, <2>3, SeqEqual DEF k
  <2> QED BY <2>1, <2>4 DEF Drop
<1> QED BY <1>1, <1>7, <1>8 DEF e

\* In loops nested to any depth, i, j and k give the index of their loop, from the
\* first number of a cell to the last (mu_runtime_i, mu_runtime_j, mu_runtime_k).
THEOREM IndexCorrect ==
  ASSUME IsSequence(rp), NEW n \in Nat, NEW e, NEW limit \in Numbers, NEW index \in Numbers,
         InLoop(rp, n, e, limit, index)
  PROVE  Index(n) = index
<1>1. rp[Len(rp) - 3 * n] = Wrap(index - limit) /\ rp[Len(rp) - 3 * n - 1] = limit
  BY DEF InLoop
<1> QED BY <1>1, LimitAdded DEF Index

\* loop ends when the next index is the limit, wherever that lies, also when the
\* index goes from the last number of a cell to the first; otherwise it goes back,
\* and the loop is as it was but for its index (mu_runtime_loop_).
THEOREM LoopCorrect ==
  ASSUME IsSequence(rp), Loop, NEW e, NEW limit \in Numbers, NEW index \in Numbers,
         InLoop(rp, 0, e, limit, index)
  PROVE  IF Wrap(index + 1) = limit
         THEN ip' = ip + 2 /\ rp' = Drop(rp, 3)
         ELSE ip' = Inline /\ InLoop(rp', 0, e, limit, Wrap(index + 1)) /\ Drop(rp', 3) = Drop(rp, 3)
<1> DEFINE n == Wrap(index + 1)
           x == Wrap(Top(rp) + 1)
<1>1. Len(rp) \in Nat BY LengthIsNatural
<1>2. Top(rp) = Wrap(index - limit)
  <2>1. Len(rp) - 3 * 0 = Len(rp) BY <1>1
  <2> QED BY <2>1 DEF InLoop, Top
<1>3. x = Wrap(n - limit)
  BY <1>2, StepWrapped
<1>4. n \in Numbers
  <2>1. index + 1 \in Int BY HalfAssumption DEF Numbers
  <2> QED BY <2>1, Wrapped
<1>5. Loops(x, x = 0, 3)
  BY DEF Loop
<1> HIDE DEF x, n
<1>6. x = 0 <=> n = limit
  <2>1. ASSUME n = limit PROVE x = 0
    <3>1. n - limit = 0 /\ 0 \in Numbers BY <1>4, <2>1, HalfAssumption DEF Numbers
    <3> QED BY <1>3, <3>1, WrapOwn
  <2>2. ASSUME x = 0 PROVE n = limit
    <3>1. Wrap(0 + limit) = n BY <1>3, <1>4, <2>2, LimitAdded
    <3>2. 0 + limit = limit BY HalfAssumption DEF Numbers
    <3> QED BY <3>1, <3>2, WrapOwn
  <2> QED BY <2>1, <2>2
<1>7. ASSUME x = 0 PROVE ip' = ip + 2 /\ rp' = Drop(rp, 3)
  BY <1>5, <1>7 DEF Loops, Skip
<1>8. ASSUME x # 0 PROVE ip' = Inline /\ InLoop(rp', 0, e, limit, n) /\ Drop(rp', 3) = Drop(rp, 3)
  <2>1. ip' = Inline /\ rp' = Append(Drop(rp, 1), Wrap(n - limit))
    BY <1>3, <1>5, <1>8 DEF Loops, Branch
  <2> QED BY <2>1, NextIndex
<1> QED BY <1>6, <1>7, <1>8 DEF n

\* A loop with steps of any size and sign ends when it steps from one side of its
\* limit to the other or, numbers being a circle, over the point opposite to it.
Crosses(index, limit, incr) ==
  LET x == Wrap(index - limit)
      y == x + incr
  IN  (x < 0 /\ y >= 0) \/ (x >= 0 /\ y < 0) \/ y < -Half \/ y >= Half

LEMMA SignChanges ==
  ASSUME NEW x \in Numbers, NEW incr \in Numbers
  PROVE  PlusDone(Wrap(x + incr), x) <=>
         LET y == x + incr
         IN  (x < 0 /\ y >= 0) \/ (x >= 0 /\ y < 0) \/ y < -Half \/ y >= Half
<1> DEFINE y == x + incr
<1>1. Half \in Nat \ {0} /\ x \in Int /\ incr \in Int /\ y \in Int
      /\ -Half <= x /\ x < Half /\ -Half <= incr /\ incr < Half
  BY HalfAssumption DEF Numbers
<1>2. CASE y < -Half
  <2>1. y + 2 * Half \in Numbers /\ y = (y + 2 * Half) + (2 * Half) * (-1)
    BY <1>1, <1>2 DEF Numbers
  <2>2. Wrap(y) = y + 2 * Half BY <1>1, <2>1, WrapIs
  <2>3. ~(Wrap(y) < 0) /\ x < 0 BY <1>1, <1>2, <2>2
  <2> QED BY <1>2, <2>3 DEF PlusDone
<1>3. CASE y >= Half
  <2>1. y - 2 * Half \in Numbers /\ y = (y - 2 * Half) + (2 * Half) * 1
    BY <1>1, <1>3 DEF Numbers
  <2>2. Wrap(y) = y - 2 * Half BY <1>1, <2>1, WrapIs
  <2>3. Wrap(y) < 0 /\ ~(x < 0) BY <1>1, <1>3, <2>2
  <2> QED BY <1>3, <2>3 DEF PlusDone
<1>4. CASE ~(y < -Half) /\ ~(y >= Half)
  <2>1. Wrap(y) = y
    <3>1. y \in Numbers BY <1>1, <1>4 DEF Numbers
    <3> QED BY <3>1, WrapOwn
  <2>2. PlusDone(Wrap(y), x) <=> ~((y < 0) <=> (x < 0))
    BY <2>1 DEF PlusDone
  <2>3. (y < 0 <=> ~(y >= 0)) /\ (x < 0 <=> ~(x >= 0))
    BY <1>1
  <2> QED BY <1>4, <2>2, <2>3
<1> QED BY <1>2, <1>3, <1>4

\* +loop does so, for every limit, start and increment and every width of a cell,
\* although its test is only whether the difference of index and limit has changed its
\* sign; otherwise it goes back with the index stepped (mu_runtime_plus_loop_).
THEOREM PlusLoopCorrect ==
  ASSUME IsSequence(rp), PlusLoop, NEW e, NEW limit \in Numbers, NEW index \in Numbers,
         NEW incr \in Numbers, incr = Top(ds), InLoop(rp, 0, e, limit, index)
  PROVE  IF Crosses(index, limit, incr)
         THEN ip' = ip + 2 /\ rp' = Drop(rp, 3)
         ELSE ip' = Inline /\ InLoop(rp', 0, e, limit, Wrap(index + incr)) /\ Drop(rp', 3) = Drop(rp, 3)
<1> DEFINE n == Wrap(index + incr)
           d == Wrap(index - limit)
           x == Wrap(Top(rp) + incr)
<1>1. Len(rp) \in Nat BY LengthIsNatural
<1>2. Top(rp) = d
  <2>1. Len(rp) - 3 * 0 = Len(rp) BY <1>1
  <2> QED BY <2>1 DEF InLoop, Top
<1>3. incr \in Int /\ index - limit \in Int BY HalfAssumption DEF Numbers
<1>4. x = Wrap(n - limit)
  BY <1>2, <1>3, StepWrapped
<1>5. Loops(x, PlusDone(x, d), 3)
  BY <1>2 DEF PlusLoop
<1>6. d \in Numbers /\ x = Wrap(d + incr)
  BY <1>2, <1>3, Wrapped
<1>7. PlusDone(x, d) <=> Crosses(index, limit, incr)
  <2> HIDE DEF x
  <2>1. Crosses(index, limit, incr) <=>
          (d < 0 /\ d + incr >= 0) \/ (d >= 0 /\ d + incr < 0) \/ d + incr < -Half \/ d + incr >= Half
    BY DEF Crosses
  <2> HIDE DEF d
  <2> QED BY <1>6, <2>1, SignChanges
<1> HIDE DEF x, n, d
<1>8. ASSUME PlusDone(x, d) PROVE ip' = ip + 2 /\ rp' = Drop(rp, 3)
  BY <1>5, <1>8 DEF Loops, Skip
<1>9. ASSUME ~PlusDone(x, d)
      PROVE  ip' = Inline /\ InLoop(rp', 0, e, limit, n) /\ Drop(rp', 3) = Drop(rp, 3)
  <2>1. ip' = Inline /\ rp' = Append(Drop(rp, 1), Wrap(n - limit))
    BY <1>4, <1>5, <1>9 DEF Loops, Branch
  <2> QED BY <2>1, NextIndex
<1> QED BY <1>7, <1>8, <1>9 DEF n
==============================================================================

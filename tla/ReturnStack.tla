----------------------------- MODULE ReturnStack -----------------------------
(***************************************************************************)
(* The return stack of muforth as startup.mu4 uses it: return addresses,   *)
(* and between them the frames that link and unlink maintain for fluid     *)
(* bindings (preserve), cleanups (on-exit, on-exit2) and local variables   *)
(* (room), and the catch frames of catch, throw and unwind.                *)
(*                                                                         *)
(* The stack is a sequence of tagged cells, the top at its end; an index   *)
(* stands for the address of a cell and 0 for the null pointer. The stack  *)
(* grows down in memory, so "u<" on addresses is ">" on indices.           *)
(*                                                                         *)
(* The program that runs on this stack is any program of at most MaxWords  *)
(* words: it calls, returns, pushes and pops cells, binds, registers,      *)
(* catches and throws in any order the stack allows. It is assumed not to  *)
(* pop a cell that is not its own, and to build its frames neither after   *)
(* pushing cells of its own with >r nor between a catch and the ?error     *)
(* that follows it: remove returns through what is below.                  *)
(***************************************************************************)
EXTENDS Naturals, Sequences

CONSTANTS Var,        \* fluid variables (radix, state, current, line, ...)
          Val,        \* the values they take
          Obj,        \* objects that on-exit and on-exit2 clean up
          RoomSize,   \* numbers of locals that a room may allocate
          MaxWords    \* words the program executes, at most

ASSUME RoomAssumption == RoomSize \subseteq Nat
ASSUME MaxWordsAssumption == MaxWords \in Nat

VARIABLES
  rs,         \* the return stack
  fp,         \* index of the newest frame's link cell, or 0
  cf,         \* index of the newest catch frame's link cell, or 0
  env,        \* the value of every fluid variable
  armed,      \* objects registered with on-exit, cleanup not begun
  unwinding,  \* the flag that cleanup words look at
  pc,         \* "run": a word is running; "exit": remove's unlink is done and
              \* remove is returning; "unwind": the loop of unwind;
              \* "crash": throw went through a null catch frame pointer
  fuel        \* words the program may still execute

stack == <<rs, fp, cf>>
vars == <<rs, fp, cf, env, armed, unwinding, pc, fuel>>

Cell(kind, arg) == [kind |-> kind, arg |-> arg]

Ret      == Cell("ret", 0)       \* return address into an ordinary word
Data     == Cell("data", 0)      \* a cell pushed with >r, or a loop index
InCatch  == Cell("incatch", 0)   \* return address into catch
Dead     == Cell("dead", 0)      \* return address of a word that threw
InRemove == Cell("inremove", 0)  \* return address into cleanup, run by remove
InUnwind == Cell("inunwind", 0)  \* return address into cleanup, run by unwind

Plain == {"ret", "data", "incatch", "dead", "inremove", "inunwind", "remove",
          "restore", "cfa", "local", "unroom"}

Cells ==
       [kind : Plain, arg : {0}]
  \cup [kind : {"link", "catch"}, arg : Nat]
  \cup [kind : {"var"}, arg : Var]
  \cup [kind : {"val"}, arg : Val]
  \cup [kind : {"obj"}, arg : Obj]
  \cup [kind : {"cleanup"}, arg : {1, 2}]
  \cup [kind : {"count"}, arg : RoomSize]

Depth == Len(rs)
Is(i, kind) == i \in 1..Depth /\ rs[i].kind = kind
Cut(n) == SubSeq(rs, 1, n)

TypeOK ==
  /\ rs \in Seq(Cells)
  /\ fp \in Nat /\ cf \in Nat
  /\ env \in [Var -> Val]
  /\ armed \subseteq Obj
  /\ unwinding \in BOOLEAN
  /\ pc \in {"run", "exit", "unwind", "crash"}
  /\ fuel \in Nat

\* warm, executed by C code, before its first catch: the return stack holds
\* what the call of warm pushed.
Init ==
  /\ rs = <<Ret>> /\ fp = 0 /\ cf = 0
  /\ env \in [Var -> Val]
  /\ armed = {}
  /\ unwinding = FALSE
  /\ pc = "run"
  /\ fuel = MaxWords

-----------------------------------------------------------------------------
(* Ordinary words *)

\* The program executes a word of its own choice.
Word == pc = "run" /\ rs # <<>> /\ fuel > 0 /\ fuel' = fuel - 1

\* Calling a colon word pushes IP (NEST).
Call ==
  /\ Word
  /\ rs' = Append(rs, Ret)
  /\ UNCHANGED <<fp, cf, env, armed, unwinding, pc>>

PushData ==
  /\ Word
  /\ rs' = Append(rs, Data)
  /\ UNCHANGED <<fp, cf, env, armed, unwinding, pc>>

PopData ==
  /\ pc = "run" /\ Is(Depth, "data")
  /\ rs' = Cut(Depth - 1)
  /\ UNCHANGED <<fp, cf, env, armed, unwinding, pc, fuel>>

Assign(v, x) ==
  /\ Word
  /\ env' = [env EXCEPT ![v] = x]
  /\ UNCHANGED <<rs, fp, cf, armed, unwinding, pc>>

-----------------------------------------------------------------------------
(* Frames *)

\* link: push the cfa of the cleanup word and the previous frame pointer on
\* top of what the frame holds; the caller of link then pushes remove.
LinkFrame(held, cleanup) ==
  /\ ~Is(Depth, "data") /\ ~Is(Depth, "dead")
  /\ rs' = rs \o held
              \o <<cleanup, Cell("link", fp), Cell("remove", 0)>>
  /\ fp' = Depth + Len(held) + 2

Preserve(v) ==
  /\ Word
  /\ LinkFrame(<<Cell("var", v), Cell("val", env[v])>>, Cell("restore", 0))
  /\ UNCHANGED <<cf, env, armed, unwinding, pc>>

\* on-exit holds one value above the cfa to execute, on-exit2 holds two.
OnExit(o, n) ==
  /\ Word
  /\ o \notin armed
  /\ armed' = armed \cup {o}
  /\ LinkFrame(<<Cell("cfa", 0)>> \o [i \in 1..n |-> Cell("obj", o)],
               Cell("cleanup", n))
  /\ UNCHANGED <<cf, env, unwinding, pc>>

Room(n) ==
  /\ Word
  /\ LinkFrame([i \in 1..n |-> Cell("local", 0)] \o <<Cell("count", n)>>,
               Cell("unroom", 0))
  /\ UNCHANGED <<cf, env, armed, unwinding, pc>>

\* Mutant (mutants stand before the definition they replace): restore without its
\* "!" stores nothing.

UnlinkRestoreLost(again) ==
  /\ Is(fp - 1, "restore")
  /\ rs' = Cut(fp - 4)
  /\ pc' = again
  /\ UNCHANGED <<env, armed>>

\* restore pops the saved value and the address, and stores.
UnlinkRestore(again) ==
  /\ Is(fp - 1, "restore")
  /\ env' = [env EXCEPT ![rs[fp - 3].arg] = rs[fp - 2].arg]
  /\ rs' = Cut(fp - 4)
  /\ pc' = again
  /\ UNCHANGED armed

\* unroom pops the count and that many locals.
UnlinkRoom(again) ==
  /\ Is(fp - 1, "unroom")
  /\ rs' = Cut((fp - 3) - rs[fp - 2].arg)
  /\ pc' = again
  /\ UNCHANGED <<env, armed>>

\* Mutant: cleanup drops the cfa instead of executing it.
UnlinkCleanupDropped(back) ==
  /\ Is(fp - 1, "cleanup")
  /\ rs' = Cut((fp - 3) - rs[fp - 1].arg)
  /\ pc' = IF back = InRemove THEN "exit" ELSE "unwind"
  /\ UNCHANGED <<env, armed>>

\* cleanup and cleanup2 pop the values and execute the cfa beneath them,
\* which is a word like any other.
UnlinkCleanup(back) ==
  /\ Is(fp - 1, "cleanup")
  /\ armed' = armed \ {rs[fp - 2].arg}
  /\ rs' = Append(Cut((fp - 3) - rs[fp - 1].arg), back)
  /\ pc' = "run"
  /\ UNCHANGED env

\* unlink: drop everything above the newest frame, make the previous frame
\* the newest, and only then execute the cleanup word.
Unlink(again, back) ==
  /\ fp' = rs[fp].arg
  /\ UnlinkRestore(again) \/ UnlinkRoom(again) \/ UnlinkCleanup(back)

-----------------------------------------------------------------------------
(* Exit: what returning means depends on the cell it pops *)

Returning == pc \in {"run", "exit"}

ExitToCaller ==
  /\ Returning /\ Is(Depth, "ret")
  /\ rs' = Cut(Depth - 1)
  /\ pc' = "run"
  /\ UNCHANGED <<fp, cf, env, armed, unwinding, fuel>>

\* The word that built a frame returns: remove runs unlink and returns too.
ExitToRemove ==
  /\ Returning /\ Is(Depth, "remove")
  /\ Unlink("exit", InRemove)
  /\ UNCHANGED <<cf, unwinding, fuel>>

\* Mutant: catch does not restore the catch frame pointer.
ExitToCatchKeepsPointer ==
  /\ Returning /\ Is(Depth, "incatch")
  /\ rs' = Cut(Depth - 3)
  /\ pc' = "run"
  /\ UNCHANGED <<fp, cf, env, armed, unwinding, fuel>>

\* The word executed by catch returns: catch drops its frame, pushes 0 and
\* returns to the word that called it.
ExitToCatch ==
  /\ Returning /\ Is(Depth, "incatch")
  /\ cf' = rs[Depth - 1].arg
  /\ rs' = Cut(Depth - 3)
  /\ pc' = "run"
  /\ UNCHANGED <<fp, env, armed, unwinding, fuel>>

\* A cleanup word returns, to remove or to the loop of unwind.
ExitToUnlink ==
  /\ Returning
  /\ \/ Is(Depth, "inremove") /\ pc' = "exit"
     \/ Is(Depth, "inunwind") /\ pc' = "unwind"
  /\ rs' = Cut(Depth - 1)
  /\ UNCHANGED <<fp, cf, env, armed, unwinding, fuel>>

-----------------------------------------------------------------------------
(* Catch, throw, unwind *)

Catch ==
  /\ Word
  /\ rs' = rs \o <<Ret, Cell("catch", cf), InCatch>>
  /\ cf' = Depth + 2
  /\ UNCHANGED <<fp, env, armed, unwinding, pc>>

\* throw pretends to return from catch: the word that called catch goes on,
\* with a non-zero result, on top of all the cells the throwing word left.
Throw ==
  /\ Word
  /\ cf # 0
  /\ rs' = Append(rs, Dead)
  /\ UNCHANGED <<fp, cf, env, armed, unwinding, pc>>

\* throw does not look whether there is a catch frame.
ThrowUncaught ==
  /\ Word
  /\ cf = 0
  /\ pc' = "crash"
  /\ UNCHANGED <<rs, fp, cf, env, armed, unwinding>>

\* The word that caught the error calls ?error, which has unwind do the rest.
Unwind ==
  /\ pc = "run" /\ Is(Depth, "dead")
  /\ unwinding' = TRUE
  /\ pc' = "unwind"
  /\ UNCHANGED <<rs, fp, cf, env, armed, fuel>>

\* Mutant: the loop of unwind forgets the catch frame.
FramesToUnwindAll == fp # 0

FramesToUnwind == fp # 0 /\ fp > cf

UnwindFrame ==
  /\ pc = "unwind" /\ FramesToUnwind
  /\ Unlink("unwind", InUnwind)
  /\ UNCHANGED <<cf, unwinding, fuel>>

\* Mutant: unwind keeps the old catch frame pointer.

UnwindDoneKeepsPointer ==
  /\ pc = "unwind" /\ ~FramesToUnwind
  /\ rs' = Cut(cf - 2)
  /\ unwinding' = FALSE
  /\ pc' = "run"
  /\ UNCHANGED <<fp, cf, env, armed, fuel>>

UnwindDone ==
  /\ pc = "unwind" /\ ~FramesToUnwind
  /\ cf' = rs[cf].arg
  /\ rs' = Cut(cf - 2)
  /\ unwinding' = FALSE
  /\ pc' = "run"
  /\ UNCHANGED <<fp, env, armed, fuel>>

-----------------------------------------------------------------------------

\* The program has returned to C, or has died.
Stopped ==
  /\ pc = "crash" \/ (pc = "run" /\ rs = <<>>)
  /\ UNCHANGED vars

Program ==
  \/ Call \/ PushData \/ PopData
  \/ \E v \in Var, x \in Val : Assign(v, x)
  \/ \E v \in Var : Preserve(v)
  \/ \E o \in Obj, n \in {1, 2} : OnExit(o, n)
  \/ \E n \in RoomSize : Room(n)
  \/ Catch \/ Throw \/ ThrowUncaught \/ Unwind

Machine ==
  \/ ExitToCaller \/ ExitToRemove \/ ExitToCatch \/ ExitToUnlink
  \/ UnwindFrame \/ UnwindDone

Next == Program \/ Machine \/ Stopped

Spec == Init /\ [][Next]_vars

\* The engine always executes the next word, and what the program still does
\* is bounded by its fuel: every word it runs comes to an end.
FairSpec == Spec /\ WF_vars(Program \/ Machine)

-----------------------------------------------------------------------------
(* Safety *)

Smallest(S) == CHOOSE m \in S : \A n \in S : m <= n

OfKind(kind) == {i \in 1..Depth : rs[i].kind = kind}

\* p is the largest element of S, or 0 if S is empty.
Newest(p, S) == IF S = {} THEN p = 0 ELSE p \in S /\ \A i \in S : i <= p

\* p points to the newest cell of a kind, and each such cell points to the
\* one before it: following the pointers visits all of them and ends.
Chained(kind, p) ==
  /\ Newest(p, OfKind(kind))
  /\ \A i \in OfKind(kind) :
       Newest(rs[i].arg, {j \in OfKind(kind) : j < i})

\* fp and cf never dangle: whatever mixture of returns, throws, unwinds and
\* throwing cleanups rp! has cut the stack back in, fp and cf are the newest
\* frame and the newest catch frame still on it, and the links through them
\* reach every other one (startup.mu4, link, unlink, catch, unwind).
FramePointers == Chained("link", fp) /\ Chained("catch", cf)

\* A word whose callee threw is always above a live catch frame, so that the
\* unwind it calls finds one: "cf @ rp!" never stores a null pointer, and
\* while unwind loops the catch frame it unwinds to stays on the stack.
UnwindHasCatch ==
  /\ \A i \in OfKind("dead") : \E j \in OfKind("catch") : j < i
  /\ pc = "unwind" => cf # 0

Pending(o) == {i \in OfKind("link") : /\ rs[i-1].kind = "cleanup"
                                      /\ rs[i-2].arg = o}

\* An object registered with on-exit is cleaned up neither twice nor not at
\* all: exactly one frame on the stack holds it until its cleanup begins,
\* and none afterwards, also when that cleanup, or the handler, throws.
CleanupPendingOnce ==
  \A o \in Obj : IF o \in armed THEN \E i \in Pending(o) : Pending(o) = {i}
                                ELSE Pending(o) = {}

-----------------------------------------------------------------------------
(* What a step may never do *)

Bindings(v, c) == {i \in OfKind("var") : i > c /\ rs[i].arg = v}

\* The value v will have when everything above index c is gone.
Outside(v, c) ==
  IF Bindings(v, c) = {} THEN env[v]
                         ELSE rs[Smallest(Bindings(v, c)) + 1].arg

StillCaught == {c \in OfKind("catch") : c \in OfKind("catch")'}

\* preserve is dynamic scoping: the value a variable is going to have when
\* the stack has come back to the level of a catch frame, or to the bottom,
\* however it gets there, changes only if the variable is assigned while it
\* is not bound above that level.
DynamicScope ==
  [][\A v \in Var : \A c \in {0} \cup StillCaught :
        Outside(v, c)' # Outside(v, c) =>
           Bindings(v, c) = {} /\ \E x \in Val : Assign(v, x)]_vars

-----------------------------------------------------------------------------
(* Liveness *)

\* Every registered object's cleanup is executed in the end, if the process
\* does not die of an uncaught throw.
EveryCleanupRuns == \A o \in Obj : o \in armed ~> o \notin armed \/ pc = "crash"

-----------------------------------------------------------------------------
(* What the code's comments and tests say, and the runs refute *)

\* test-catch-throw.mu4 catches an error in "d" and throws it again from the
\* handler, for "a" to catch: a catch frame that has delivered one error does
\* not also deliver those that its handler throws.
RethrowGoesOutward ==
  [][Throw => \A i \in OfKind("dead") : i < cf]_vars
==============================================================================

------------------------------- MODULE UndoLog -------------------------------
(***************************************************************************)
(* What the "Schleisiek-style return stack words" of startup.mu4 promise   *)
(* to the words that use them, with no return stack in sight: a log of     *)
(* obligations, each one run exactly once, in the reverse of the order in  *)
(* which they were taken on, whether the word that took them on returns or *)
(* is abandoned by a throw; and catch marks, which an abandonment never    *)
(* crosses before everything logged above them has been run.               *)
(*                                                                         *)
(* ReturnStack implements this specification.                              *)
(***************************************************************************)
EXTENDS Naturals

CONSTANTS Var,      \* fluid variables (radix, state, current, line, ...)
          Val,      \* the values they take
          Obj       \* objects that on-exit and on-exit2 clean up (an open file)

VARIABLES env,      \* the value of every fluid variable
          armed,    \* objects registered for a cleanup that has not begun
          log       \* each obligation, by the time at which it was taken on

vars == <<env, armed, log>>

Mark == [kind |-> "mark"]
Restore(v, x) == [kind |-> "restore", var |-> v, val |-> x]
Cleanup(o) == [kind |-> "cleanup", obj |-> o]
Unroom == [kind |-> "unroom"]

TypeOK ==
  /\ env \in [Var -> Val]
  /\ armed \subseteq Obj
  /\ DOMAIN log \subseteq Nat
  /\ \A t \in DOMAIN log :
       log[t] \in {Mark, Unroom} \cup {Restore(v, x) : v \in Var, x \in Val}
                                 \cup {Cleanup(o) : o \in Obj}

Init ==
  /\ env \in [Var -> Val]
  /\ armed = {}
  /\ log = [t \in {} |-> Mark]

\* An obligation is logged as the newest of all.
Add(e) ==
  \E t \in DOMAIN log' :
    /\ \A s \in DOMAIN log : s < t
    /\ log' = [s \in DOMAIN log \cup {t} |-> IF s = t THEN e ELSE log[s]]

\* The newest of all, which was logged at time t, is removed.
Remove(t) ==
  /\ \A s \in DOMAIN log : s <= t
  /\ log' = [s \in DOMAIN log \ {t} |-> log[s]]

\* A word takes on the obligation to restore v, keeping its present value.
Preserve(v) ==
  /\ Add(Restore(v, env[v]))
  /\ UNCHANGED <<env, armed>>

\* A word takes on the obligation to clean up o, at most once at a time.
OnExit(o) ==
  /\ o \notin armed
  /\ armed' = armed \cup {o}
  /\ Add(Cleanup(o))
  /\ UNCHANGED env

\* A word takes on the obligation to give its local variables back.
Room ==
  /\ Add(Unroom)
  /\ UNCHANGED <<env, armed>>

Assign(v, x) ==
  /\ env' = [env EXCEPT ![v] = x]
  /\ UNCHANGED <<armed, log>>

\* The newest obligation is discharged: no other ever is.
Discharge ==
  \E t \in DOMAIN log :
    /\ log[t] # Mark
    /\ Remove(t)
    /\ env' = IF log[t].kind = "restore" THEN [env EXCEPT ![log[t].var] = log[t].val]
                                         ELSE env
    /\ armed' = IF log[t].kind = "cleanup" THEN armed \ {log[t].obj} ELSE armed

\* A catch is entered, and left, normally or because of a throw; it is left
\* only when nothing logged after its mark is pending.
Catch == Add(Mark) /\ UNCHANGED <<env, armed>>
Leave ==
  /\ \E t \in DOMAIN log : log[t] = Mark /\ Remove(t)
  /\ UNCHANGED <<env, armed>>

Next ==
  \/ \E v \in Var : Preserve(v)
  \/ \E o \in Obj : OnExit(o)
  \/ Room
  \/ \E v \in Var, x \in Val : Assign(v, x)
  \/ Discharge
  \/ Catch
  \/ Leave

Spec == Init /\ [][Next]_vars
==============================================================================

------------------------------ MODULE LoadingMC ------------------------------
(***************************************************************************)
(* Loading on a small instance: two files which may load themselves and    *)
(* each other, and words and chains beyond those of the kernel, with names *)
(* that are alike but for case, too long or empty.                         *)
(***************************************************************************)
EXTENDS Loading

CONSTANTS dup, DUP, long      \* tokens

ASSUME FileAssumption /\ ChosenAssumption /\ BoundAssumption
ASSUME NameAssumption /\ MaxEntriesAssumption

\* As raw-load-file sets them, all different, and the current chain different.
MCChosen ==
    {[radix |-> "decimal", state |-> "interpret", current |-> "forth"],
     [radix |-> "hex", state |-> "compile", current |-> "other"],
     [radix |-> "decimal", state |-> "interpret", current |-> "other"]}

MCName == {dup, DUP, core}
MCLong == {long}
MCCap == [t \in MCLong |-> dup]
MCFold == [n \in MCName |-> IF n = core THEN core ELSE dup]
=============================================================================

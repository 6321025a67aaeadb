-------------------------- MODULE ReturnStackUndoLog --------------------------
(***************************************************************************)
(* The mapping under which the return stack implements UndoLog: the link   *)
(* cells of frames and catch frames are the obligations, and their places  *)
(* on the stack are the times at which they were taken on.                 *)
(***************************************************************************)
EXTENDS ReturnStack

\* The obligation that the frame or catch frame linked at i stands for.
EntryOf(s, i) ==
  IF s[i].kind = "catch" THEN [kind |-> "mark"]
  ELSE CASE s[i-1].kind = "restore" -> [kind |-> "restore",
                                        var |-> s[i-3].arg, val |-> s[i-2].arg]
         [] s[i-1].kind = "cleanup" -> [kind |-> "cleanup", obj |-> s[i-2].arg]
         [] s[i-1].kind = "unroom"  -> [kind |-> "unroom"]

EntriesOf(s) == {i \in 1..Len(s) : s[i].kind \in {"link", "catch"}}
LogOf(s) == [i \in EntriesOf(s) |-> EntryOf(s, i)]

Logged == LogOf(rs)

Log == INSTANCE UndoLog WITH log <- Logged

\* The return stack keeps the promise of UndoLog: whatever returns, throws
\* and unwinds the program goes through, obligations are discharged newest
\* first, each exactly once, and a catch frame goes only when none is pending
\* above it.
ImplementsUndoLog == Log!Spec
==============================================================================

-------------------------------- MODULE Engine --------------------------------
(***************************************************************************)
(* The inner interpreter (engine-itc.c) and the compiler words that build  *)
(* control structures for it (startup.mu4). A word is compiled cell by     *)
(* cell, with the places to be filled in kept on the data stack; then it   *)
(* is executed, by a mu_execute that C code has called. The word execute,  *)
(* and a primitive that aborts, call mu_execute again, so that C's own     *)
(* stack holds one activation for each of them, with the return stack      *)
(* pointer it started with: the pointer, and not the activation, decides   *)
(* when it ends.                                                           *)
(*                                                                         *)
(* The return stack is a sequence, its top at the end, so that RP <        *)
(* rp_saved is Len(rp) > saved. A primitive that aborts is one that        *)
(* returns at once when abort does, as all but read_carefully do.          *)
(***************************************************************************)
EXTENDS Integers, Sequences

CONSTANTS Program,   \* names of programs
          Source,    \* Source[p]: the words of p, each a sequence of tokens
          AbortWord, \* the word that 'abort holds
          MaxWrites, \* how often a program may write
          Half       \* cells are -Half .. Half-1

ASSUME HalfAssumption == Half \in Nat \ {0}
ASSUME AbortAssumption == AbortWord \in Nat /\ MaxWrites \in Nat

VARIABLES
  program,  \* the program being compiled and run
  text,     \* what is left of each of its words' text
  heap,     \* cells: execution tokens, and what is compiled in line
  entry,    \* where the body of each word begins
  ds,       \* the data stack
  rp,       \* the return stack
  ip,
  acts,     \* rp_saved of every activation of mu_execute
  cf,       \* the variable that catch, throw and unwind share
  out,      \* what was written
  pc        \* "compile", "run" or "done"

machine == <<ds, rp, ip, acts, cf, out>>
vars == <<program, text, heap, entry, ds, rp, ip, acts, cf, out, pc>>

Wrap(x) == ((x + Half) % (2 * Half)) - Half
Top(s) == s[Len(s)]
Drop(s, n) == SubSeq(s, 1, Len(s) - n)

Cell(op, n) == [op |-> op, n |-> n]
Inlined(n) == Cell("inline", n)

Init ==
  /\ program \in Program /\ text = Source[program]
  /\ heap = <<>> /\ entry = <<1>>
  /\ ds = <<>> /\ rp = <<>> /\ ip = 0 /\ acts = <<>> /\ cf = 0 /\ out = <<>>
  /\ pc = "compile"

-----------------------------------------------------------------------------
(* The compiler. Its words change the heap and the data stack, c. *)

Here(c) == Len(c.heap) + 1
Comma(c, cell) == [c EXCEPT !.heap = Append(@, cell)]
Compile(c, op) == Comma(c, Cell(op, 0))
PushDs(c, n) == [c EXCEPT !.ds = Append(@, n)]
Swap(c) == [c EXCEPT !.ds = Drop(@, 2) \o <<Top(@), Top(Drop(@, 1))>>]

Mark(c) == PushDs(Comma(c, Inlined(0)), Here(c))
\* ( dest src)
ResolveBack(c) ==
  [heap |-> [c.heap EXCEPT ![Top(c.ds)] = Inlined(Top(Drop(c.ds, 1)))],
   ds |-> Drop(c.ds, 2)]
\* ( src dest)
ResolveForward(c) == ResolveBack(Swap(c))

If(c, op) == Mark(Compile(c, op))
Then(c) == ResolveForward(PushDs(c, Here(c)))
Begin(c) == PushDs(c, Here(c))
Back(c, op) == ResolveBack(Mark(Compile(c, op)))
Again(c) == Back(c, "(branch)")
Else(c) == Then(Swap(Mark(Compile(c, "(branch)"))))
While(c, op) == Swap(If(c, op))
Repeat(c) == Then(Again(c))
For(c) == Begin(Compile(If(c, "(?0branch)"), "push"))
Do(c) == Begin(Mark(Compile(c, "(do)")))
EndLoop(c, op) == Then(Back(c, op))

Now == [heap |-> heap, ds |-> ds]
Word == Len(entry)

\* The next token of the word that is being compiled.
Takes(op) ==
  /\ pc = "compile" /\ text[Word] # <<>> /\ Head(text[Word]).op = op
  /\ text' = [text EXCEPT ![Word] = Tail(@)]
  /\ UNCHANGED <<program, rp, ip, acts, cf, out>>
Compiled(c) ==
  /\ heap' = c.heap /\ ds' = c.ds /\ UNCHANGED <<entry, pc>>

BranchFor(t) ==
  CASE t \in {"if", "while", "until"} -> "(0branch)"
    [] t \in {"=if", "=while", "=until"} -> "(=0branch)"
    [] t \in {"?if", "?while", "?until"} -> "(?0branch)"

CompileBranch ==
  \/ \E t \in {"if", "=if", "?if"} : Takes(t) /\ Compiled(If(Now, BranchFor(t)))
  \/ \E t \in {"while", "=while", "?while"} :
        Takes(t) /\ Compiled(While(Now, BranchFor(t)))
  \/ \E t \in {"until", "=until", "?until"} :
        Takes(t) /\ Compiled(Back(Now, BranchFor(t)))
  \/ Takes("else") /\ Compiled(Else(Now))
  \/ Takes("then") /\ Compiled(Then(Now))
  \/ Takes("begin") /\ Compiled(Begin(Now))
  \/ Takes("repeat") /\ Compiled(Repeat(Now))

CompileLoop ==
  \/ Takes("for") /\ Compiled(For(Now))
  \/ Takes("next") /\ Compiled(EndLoop(Now, "(next)"))
  \/ Takes("do") /\ Compiled(Do(Now))
  \/ Takes("loop") /\ Compiled(EndLoop(Now, "(loop)"))
  \/ Takes("+loop") /\ Compiled(EndLoop(Now, "(+loop)"))

Primitive == {"dup", "drop", "+", ".", "i", "j", "k", "r@", "leave", "?leave",
              "execute", "fail", "rp@", "rp!", "cf!", "cf@", "^"}
CompileWord ==
  \/ \E op \in Primitive : Takes(op) /\ Compiled(Compile(Now, op))
  \/ /\ Takes("literal")
     /\ Compiled(Comma(Compile(Now, "(lit)"), Inlined(Head(text[Word]).n)))
  \/ Takes("colon") /\ Compiled(Comma(Now, Cell("colon", Head(text[Word]).n)))

\* ; ends a word. C code executes the last one.
Semi ==
  /\ Takes(";")
  /\ heap' = Append(heap, Cell("^", 0)) /\ ds' = ds
  /\ IF Word < Len(text)
     THEN entry' = Append(entry, Len(heap) + 2) /\ pc' = pc
     ELSE entry' = entry /\ pc' = "start"

-----------------------------------------------------------------------------
(* mu_execute *)

\* The words CALL executes in the place of the one that ip points to.
Colon(w, return) == rp' = Append(rp, return) /\ ip' = entry[w]

\* C code calls mu_execute.
Start ==
  /\ pc = "start" /\ pc' = "run"
  /\ acts' = <<Len(rp)>> /\ Colon(Word, ip)
  /\ UNCHANGED <<program, text, heap, entry, ds, cf, out>>

\* Mutant: an activation ends only when the stack is what it was.
EndedExactly == Len(rp) = Top(acts)
Ended == Len(rp) <= Top(acts)

\* The loop of mu_execute is done; the one that called it goes on, at the
\* same ip.
ActivationEnds ==
  /\ pc = "run" /\ Ended
  /\ acts' = Drop(acts, 1)
  /\ pc' = IF Len(acts) = 1 THEN "done" ELSE pc
  /\ UNCHANGED <<program, text, heap, entry, ds, rp, ip, cf, out>>

\* CALL(*IP++)
At(op) ==
  /\ pc = "run" /\ ~Ended
  /\ ip \in DOMAIN heap /\ heap[ip].op = op
  /\ UNCHANGED <<program, text, heap, entry, pc>>
Inline == heap[ip + 1].n
Branch == ip' = Inline
Skip == ip' = ip + 2

CallColon ==
  /\ At("colon") /\ Colon(heap[ip].n, ip + 1) /\ UNCHANGED <<ds, acts, cf, out>>
Exit ==
  /\ At("^") /\ ip' = Top(rp) /\ rp' = Drop(rp, 1)
  /\ UNCHANGED <<ds, acts, cf, out>>

\* A new activation of mu_execute, which CALLs w.
Activate(w) == acts' = Append(acts, Len(rp)) /\ Colon(w, ip + 1)
Execute ==
  /\ At("execute") /\ Activate(Top(ds)) /\ ds' = Drop(ds, 1)
  /\ UNCHANGED <<cf, out>>
\* A primitive that fails: abort_zmsg, mu_abort.
Fail ==
  /\ At("fail") /\ ds' = Append(ds, 0) /\ Activate(AbortWord)
  /\ UNCHANGED <<cf, out>>

\* Words that change the data stack only.
OnData(op, d) ==
  /\ At(op) /\ ds' = d /\ ip' = ip + 1 /\ UNCHANGED <<rp, acts, cf, out>>
Data ==
  \/ OnData("dup", Append(ds, Top(ds)))
  \/ OnData("drop", Drop(ds, 1))
  \/ OnData("+", Append(Drop(ds, 2), Wrap(Top(ds) + Top(Drop(ds, 1)))))
  \/ At("(lit)") /\ ds' = Append(ds, Inline) /\ Skip /\ UNCHANGED <<rp, acts, cf, out>>
  \/ OnData("cf@", Append(ds, cf))
  \/ OnData("rp@", Append(ds, Len(rp)))

SetCf == At("cf!") /\ cf' = Top(ds) /\ ds' = Drop(ds, 1) /\ ip' = ip + 1
           /\ UNCHANGED <<rp, acts, out>>
Write == At(".") /\ Len(out) < MaxWrites
           /\ out' = Append(out, Top(ds)) /\ ds' = Drop(ds, 1) /\ ip' = ip + 1
           /\ UNCHANGED <<rp, acts, cf>>

\* As in unwind: back to where the stack was.
RpStore ==
  /\ At("rp!") /\ Top(ds) \in 0..Len(rp)
  /\ rp' = SubSeq(rp, 1, Top(ds)) /\ ds' = Drop(ds, 1) /\ ip' = ip + 1
  /\ UNCHANGED <<acts, cf, out>>

-----------------------------------------------------------------------------
(* Branches and loops *)

True == Top(ds) # 0
BranchIfFalse(op, kept) ==
  /\ At(op)
  /\ IF True THEN Skip ELSE Branch
  /\ ds' = IF kept THEN ds ELSE Drop(ds, 1)
  /\ UNCHANGED <<rp, acts, cf, out>>
Branches ==
  \/ At("(branch)") /\ Branch /\ UNCHANGED <<ds, rp, acts, cf, out>>
  \/ BranchIfFalse("(0branch)", FALSE)
  \/ BranchIfFalse("(=0branch)", TRUE)
  \/ BranchIfFalse("(?0branch)", True)

ToR ==
  /\ At("push") /\ rp' = Append(rp, Top(ds)) /\ ds' = Drop(ds, 1) /\ ip' = ip + 1
  /\ UNCHANGED <<acts, cf, out>>

\* Index n takes the place of the one on top of the return stack, unless the
\* loop, of so many cells, is done.
Loops(n, done, cells) ==
  IF done THEN Skip /\ rp' = Drop(rp, cells)
  ELSE Branch /\ rp' = Append(Drop(rp, 1), n)

ForNext ==
  /\ At("(next)")
  /\ LET n == Wrap(Top(rp) - 1) IN Loops(n, n = 0, 1)
  /\ UNCHANGED <<ds, acts, cf, out>>

DoLoop ==
  /\ At("(do)")
  /\ LET limit == Top(Drop(ds, 1)) IN
       rp' = rp \o <<Inline, limit, Wrap(Top(ds) - limit)>>
  /\ ds' = Drop(ds, 2) /\ Skip
  /\ UNCHANGED <<acts, cf, out>>
Loop ==
  /\ At("(loop)")
  /\ LET x == Wrap(Top(rp) + 1) IN Loops(x, x = 0, 3)
  /\ UNCHANGED <<ds, acts, cf, out>>
\* Mutants: upwards only; the test of (loop).
PlusUpwards(x, prev) == x >= 0
PlusAtLimit(x, prev) == x = 0
PlusDone(x, prev) == (x < 0) # (prev < 0)
PlusLoop ==
  /\ At("(+loop)")
  /\ LET x == Wrap(Top(rp) + Top(ds)) IN Loops(x, PlusDone(x, Top(rp)), 3)
  /\ ds' = Drop(ds, 1)
  /\ UNCHANGED <<acts, cf, out>>

LeaveLoop == ip' = rp[Len(rp) - 2] /\ rp' = Drop(rp, 3)
Leave ==
  \/ At("leave") /\ LeaveLoop /\ UNCHANGED <<ds, acts, cf, out>>
  \/ /\ At("?leave") /\ ds' = Drop(ds, 1)
     /\ IF True THEN LeaveLoop ELSE ip' = ip + 1 /\ rp' = rp
     /\ UNCHANGED <<acts, cf, out>>

\* The index of the loop that is n loops out.
Index(n) == Wrap(rp[Len(rp) - 3 * n] + rp[Len(rp) - 3 * n - 1])
Indices ==
  \/ OnData("i", Append(ds, Index(0)))
  \/ OnData("j", Append(ds, Index(1)))
  \/ OnData("k", Append(ds, Index(2)))
  \/ OnData("r@", Append(ds, Top(rp)))

Compiler == CompileBranch \/ CompileLoop \/ CompileWord \/ Semi
Machine ==
  \/ Start \/ ActivationEnds \/ CallColon \/ Exit \/ Execute \/ Fail
  \/ Data \/ SetCf \/ Write \/ RpStore
  \/ Branches \/ ToR \/ ForNext \/ DoLoop \/ Loop \/ PlusLoop \/ Leave \/ Indices
Next == Compiler \/ Machine

\* One thread, which always does the next thing.
Spec == Init /\ [][Next]_vars /\ WF_vars(Next)

-----------------------------------------------------------------------------
(* Properties *)

\* However activations of mu_execute nest, and whatever is escaped from, C's
\* stack holds no activation whose word has been left: while words are
\* executed there are never more activations than return addresses, so that
\* errors thrown out of execute and abort do not use C's stack up.
ActivationsOnStack == pc = "run" /\ ~Ended => Len(acts) <= Len(rp)

\* Every program ends, and with it every for, do and begin loop whose
\* condition changes, for all counts, limits, starts and nonzero increments.
ProgramEnds == <>(pc = "done")
==============================================================================

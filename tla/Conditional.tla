------------------------------ MODULE Conditional ------------------------------
(***************************************************************************)
(* Conditional compilation (startup.mu4): .if, .else, .then and .ifdef are *)
(* words that are executed as they are met. A condition that fails makes   *)
(* eat read on, executing the words of .conditional. and tossing all       *)
(* others, until one of them says that the text it skips has ended. All    *)
(* that eat remembers is one number, nesting; a text that is interpreted   *)
(* leaves no trace of the conditions it is in.                             *)
(*                                                                         *)
(* A text is a sequence of kinds of tokens. "load" stands for a word that  *)
(* loads another text, "word" for any other word.                          *)
(***************************************************************************)
EXTENDS Integers, Sequences

CONSTANTS Line,     \* the texts that are typed
          File,     \* the texts that are loaded
          MaxLoads  \* texts suspended at a time, at most

Text == Line \cup File

Token == {"if", "ifdef", "else", "then", "load", "word"}

\* The name that .ifdef takes is not itself a word of .conditional.
ASSUME TextAssumption ==
  /\ Text \subseteq Seq(Token) 
  /\ \A t \in Text : \A i \in 1..(Len(t) - 1) :
       t[i] = "ifdef" => t[i+1] = "word"
ASSUME BoundAssumption == MaxLoads \in Nat

Interpreting == -1    \* no eat is executing

VARIABLES
  text,     \* the source
  at,       \* the tokens of it that were read
  nesting,  \* eat's count, or Interpreting
  outer,    \* the suspended sources
  open      \* the conditions the text is in, the outermost first, each with
            \* the branch it is in (not in the code)

vars == <<text, at, nesting, outer, open>>

Branch == {"selected", "skipped"}
Selected(conditions) ==
  \A i \in 1..Len(conditions) : conditions[i] = "selected"

Init ==
  /\ text = <<>> /\ at = 0
  /\ nesting = Interpreting
  /\ outer = <<>> /\ open = <<>>

Read(n) == at + n <= Len(text) /\ at' = at + n

-----------------------------------------------------------------------------
(* What the tokens mean to the text, whoever reads them *)

Opened(branch) == Append(open, branch)

\* .else that belongs to no condition begins a text to skip.
OtherBranch(b) == IF b = "selected" THEN "skipped" ELSE "selected"
Turned ==
  IF open = <<>> THEN <<"skipped">>
  ELSE [open EXCEPT ![Len(open)] = OtherBranch(@)]

Closed == IF open = <<>> THEN <<>> ELSE SubSeq(open, 1, Len(open) - 1)

-----------------------------------------------------------------------------
(* The words of .lex., executed by the interpreter and the compiler *)

Token1(kind) ==
  /\ nesting = Interpreting
  /\ at < Len(text) /\ text[at + 1] = kind

EatUnless(flag) == nesting' = IF flag THEN Interpreting ELSE 0

If(flag) ==
  /\ Token1("if") /\ Read(1)
  /\ EatUnless(flag)
  /\ open' = Opened(IF flag THEN "selected" ELSE "skipped")
  /\ UNCHANGED <<text, outer>>

\* .ifdef reads a name; the text may end before it.
IfDef(flag) ==
  /\ Token1("ifdef")
  /\ IF at + 1 < Len(text) THEN Read(2) ELSE Read(1) /\ ~flag
  /\ EatUnless(flag)
  /\ open' = Opened(IF flag THEN "selected" ELSE "skipped")
  /\ UNCHANGED <<text, outer>>

\* .else ends a text that was selected: eat.
Else ==
  /\ Token1("else") /\ Read(1)
  /\ nesting' = 0
  /\ open' = Turned
  /\ UNCHANGED <<text, outer>>

Then ==
  /\ Token1("then") /\ Read(1)
  /\ open' = Closed
  /\ UNCHANGED <<text, nesting, outer>>

Word ==
  /\ Token1("word") /\ Read(1)
  /\ UNCHANGED <<text, nesting, outer, open>>

Load(t) ==
  /\ Token1("load")
  /\ Len(outer) < MaxLoads
  /\ outer' = Append(outer, [text |-> text, at |-> at + 1, open |-> open])
  /\ text' = t /\ at' = 0 /\ open' = <<>>
  /\ UNCHANGED nesting

-----------------------------------------------------------------------------
(* eat, which executes the words of .conditional. *)

\* nesting' and whether eat is left. Mutant: an .else is taken for that of an
\* outer condition.
EatenElseAny == Interpreting
EatenElse == IF nesting = 0 THEN Interpreting ELSE nesting
EatenThen == nesting - 1

Eaten(kind) ==
  CASE kind \in {"if", "ifdef"} -> nesting + 1
    [] kind = "else" -> EatenElse
    [] kind = "then" -> EatenThen
    [] OTHER -> nesting

Eat ==
  /\ nesting # Interpreting
  /\ Read(1)
  /\ LET kind == text[at + 1] IN
       /\ nesting' = Eaten(kind)
       /\ open' = CASE kind \in {"if", "ifdef"} -> Opened("skipped")
                    [] kind = "else" -> Turned
                    [] kind = "then" -> Closed
                    [] OTHER -> open
  /\ UNCHANGED <<text, outer>>

-----------------------------------------------------------------------------
(* The end of a text *)

\* eat stops without a word, whatever it was looking for, and the suspended
\* source is read on.

EndOfText ==
  /\ at = Len(text) /\ outer # <<>>
  /\ LET o == outer[Len(outer)] IN
       /\ text' = o.text /\ at' = o.at /\ open' = o.open
  /\ outer' = SubSeq(outer, 1, Len(outer) - 1)
  /\ nesting' = Interpreting

\* A line ends, and the console types a prompt and reads the next.
EndOfLine ==
  /\ at = Len(text) /\ outer = <<>> /\ text # <<>>
  /\ text' = <<>> /\ at' = 0 /\ nesting' = Interpreting /\ open' = <<>>
  /\ UNCHANGED outer

\* A word raises an error: the files being loaded, and the line, are left.
Error ==
  /\ nesting = Interpreting /\ at < Len(text)
  /\ text' = <<>> /\ at' = 0 /\ outer' = <<>> /\ open' = <<>>
  /\ UNCHANGED nesting

NextLine ==
  /\ text = <<>> /\ outer = <<>>
  /\ text' \in Line
  /\ UNCHANGED <<at, nesting, outer, open>>

Next ==
  \/ \E flag \in BOOLEAN : If(flag) \/ IfDef(flag)
  \/ Else \/ Then \/ Word
  \/ \E t \in File : Load(t)
  \/ Eat
  \/ EndOfText \/ EndOfLine \/ Error \/ NextLine

Spec == Init /\ [][Next]_vars

-----------------------------------------------------------------------------
(* Properties *)

TypeOK ==
  /\ text \in Seq(Token) /\ at \in 0..Len(text)
  /\ nesting \in {Interpreting} \cup Nat
  /\ open \in Seq(Branch)
  /\ outer \in Seq([text : Seq(Token), at : Nat, open : Seq(Branch)])
  /\ \A i \in 1..Len(outer) : outer[i].at <= Len(outer[i].text)

\* However conditions are nested, left open or closed too often, and whatever
\* is loaded from within them, words are executed in just those texts that
\* all conditions around them select, and tossed in all others.
SelectedIsInterpreted == (nesting = Interpreting) <=> Selected(open)

\* The count of eat is the number of conditions within the one it skips, so
\* that it ends at the .else or the .then of that one.
NestingIsDepth ==
  nesting # Interpreting =>
    \E k \in 1..Len(open) :
      /\ open[k] = "skipped"
      /\ \A i \in 1..(k - 1) : open[i] = "selected"
      /\ nesting = Len(open) - k

\* A text that is loaded leaves the conditions of the one that loads it: that
\* one goes on being interpreted, although a condition in the other never
\* ended.
LoaderIsInterpreted == \A i \in 1..Len(outer) : Selected(outer[i].open)
==============================================================================

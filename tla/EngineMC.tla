------------------------------- MODULE EngineMC -------------------------------
(***************************************************************************)
(* Programs for cells of three bits: every do loop, with every increment   *)
(* and early leave; every count of for; every conditional and begin loop   *)
(* on a true and a false flag; loops in loops; and words that call and     *)
(* execute each other from within loops, fail, and escape.                 *)
(* A program is named by a tuple; its meaning is that of Structured.       *)
(***************************************************************************)
EXTENDS Engine

R == INSTANCE Structured

Cells == -Half..(Half - 1)
LoopWords == {"loop", "+loop"}
Kinds == {"if", "=if", "?if"}
Untils == {"until", "=until", "?until"}
Whiles == {"while", "=while", "?while"}
Calls == {"call", "exec"}
Ways == {"return", "exit", "escape", "fail"}

MCProgram ==
       [kind : {"do"}, limit : Cells, start : Cells, step : Cells, at : Cells \cup {Half}]
  \cup [kind : {"for"}, n : Cells, m : Cells]
  \cup [kind : {"if"}, t : Kinds, u : Kinds, f : {0, 1}, g : {0, 1}]
  \cup [kind : {"until"}, t : Untils, n : Cells]
  \cup [kind : {"while"}, t : Whiles, u : Kinds, n : Cells]
  \cup [kind : {"nest"}, a : LoopWords, b : LoopWords, n : {-2, 2}, leaving : BOOLEAN]
  \cup [kind : {"words"}, a : Calls, b : Calls, way : Ways, twice : BOOLEAN,
        inloop : BOOLEAN]

Say(n) == <<R!Lit(n), R!Op(".")>>
SayI == <<R!Op("i"), R!Op(".")>>

\* Step 0 stands for loop. The index is compared with at by leaving when
\* at - i is 0: the flag of ?leave is turned around by an if.
DoProgram(q) ==
  <<R!Lit(q.limit), R!Lit(q.start),
    R!Do(IF q.step = 0 THEN "loop" ELSE "+loop",
      SayI
      \o (IF q.at = Half THEN <<>> ELSE
          <<R!Op("i"), R!Lit(R!Wrap(-q.at)), R!Op("+"),
            R!If("if", <<R!Lit(0)>>, <<R!Lit(1)>>), R!Op("?leave")>>)
      \o (IF q.step = 0 THEN <<>> ELSE <<R!Lit(q.step)>>))>>
  \o Say(1)

ForProgram(q) ==
  <<R!Lit(q.n), R!For(<<R!Op("r@"), R!Op("."), R!Lit(q.m),
                        R!For(<<R!Op("r@"), R!Op(".")>>)>>)>> \o Say(1)

\* Both flags lie on the stack, so that what a conditional keeps is seen.
IfProgram(q) ==
  <<R!Lit(2), R!Lit(q.g), R!Lit(q.f),
    R!If(q.t, <<R!Op("dup"), R!If(q.u, Say(1), <<>>)>>, Say(2)),
    R!If(q.u, Say(3), Say(-1)), R!Op(".")>>

UntilProgram(q) ==
  <<R!Lit(q.n),
    R!Until(q.t, <<R!Op("dup"), R!Op("."), R!Lit(1), R!Op("+"), R!Op("dup")>>),
    R!Op(".")>>

WhileProgram(q) ==
  <<R!Lit(q.n),
    R!While(q.t, <<R!Op("dup"), R!Op("dup"), R!Op(".")>>,
      <<R!If(q.u, Say(1), Say(2)), R!Lit(q.n), R!Lit(-1), R!Op("+"),
        R!Lit(0), R!If("?if", <<>>, <<>>), R!Op("drop"), R!Lit(0)>>),
    R!Op(".")>>

Step(t, n) == IF t = "loop" THEN <<>> ELSE <<R!Lit(n)>>
NestProgram(q) ==
  <<R!Lit(q.n), R!Lit(-1), R!Do(q.a,
      <<R!Lit(1), R!Lit(q.n), R!Do(q.b,
          <<R!Op("i"), R!Op("."), R!Op("j"), R!Op(".")>>
          \o (IF q.leaving THEN <<R!Op("leave")>> ELSE <<>>)
          \o <<R!Lit(1), R!Lit(0), R!Do("loop",
                 <<R!Op("k"), R!Op("."), R!Op("leave")>>)>> \o Step(q.b, 1))>>
      \o Step(q.a, q.n))>> \o Say(3)

\* Main goes to outer, which marks its place, and to inner from there. Word 1
\* is that of abort.
To(way, w) == IF way = "call" THEN R!Call(w) ELSE R!Exec(w)
InnerWay(way) == IF way = "return" THEN <<>> ELSE IF way = "exit" THEN <<R!Op("^")>>
                 ELSE <<R!Op(way)>>
WordsProgram(q) ==
  LET inner == Say(1) \o <<R!Lit(3)>>
               \o (IF q.inloop /\ q.way # "exit"
                   THEN <<R!Lit(2), R!Lit(0), R!Do("loop", InnerWay(q.way) \o SayI)>>
                   ELSE InnerWay(q.way) \o Say(2))
      outer == <<R!Op("mark"), R!Lit(2), R!For(<<R!Op("r@"), To(q.a, 2), R!Op(".")>>)>>
               \o Say(-2)
      main == <<To(q.b, 3)>> \o Say(-3)
  IN << <<R!Lit(-4), R!Op("."), R!Op("escape")>>, inner, outer,
        IF q.twice THEN main \o main ELSE main>>

Body(q) ==
  CASE q.kind = "do" -> <<DoProgram(q)>>
    [] q.kind = "for" -> <<ForProgram(q)>>
    [] q.kind = "if" -> <<IfProgram(q)>>
    [] q.kind = "until" -> <<UntilProgram(q)>>
    [] q.kind = "while" -> <<WhileProgram(q)>>
    [] q.kind = "nest" -> <<NestProgram(q)>>
    [] q.kind = "words" -> WordsProgram(q)

MCSource == [q \in MCProgram |-> R!TextOf(Body(q))]
Meaning == [q \in MCProgram |-> R!Meaning(Body(q))]

\* A compiled program writes and leaves what the structured one means, with
\* the return stack as it was: every branch and every leave goes where it
\* should, indices and counts are right at both ends of the cells, words
\* executed, called, exited and escaped from continue in the right place, and
\* the loop of mu_execute ends neither too early nor too late.
RunsAsWritten ==
  pc = "done" => /\ out = Meaning[program].out /\ ds = Meaning[program].ds
                 /\ rp = <<>>
==============================================================================

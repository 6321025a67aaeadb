------------------------------ MODULE Structured ------------------------------
(***************************************************************************)
(* What programs written with muforth's control structures mean, without a *)
(* return stack, branches or addresses: the reference for module Engine.   *)
(* A block is a sequence of statements; a program is a sequence of words   *)
(* whose bodies are blocks, the first of them the one that abort executes. *)
(*                                                                         *)
(* RECURSIVE operators: for model checking only.                           *)
(***************************************************************************)
EXTENDS Integers, Sequences

CONSTANT Half    \* cells are -Half .. Half-1

Wrap(x) == ((x + Half) % (2 * Half)) - Half
Top(s) == s[Len(s)]
Pop(s) == SubSeq(s, 1, Len(s) - 1)

\* Statements. Op: dup drop + . i j k r@ leave ?leave ^ fail mark escape.
Lit(n) == [k |-> "lit", n |-> n]
Op(k) == [k |-> k]
Call(w) == [k |-> "call", w |-> w]
Exec(w) == [k |-> "exec", w |-> w]
If(t, a, b) == [k |-> "if", t |-> t, a |-> a, b |-> b]
Until(t, a) == [k |-> "until", t |-> t, a |-> a]
While(t, a, b) == [k |-> "while", t |-> t, a |-> a, b |-> b]
For(a) == [k |-> "for", a |-> a]
Do(t, a) == [k |-> "do", t |-> t, a |-> a]

-----------------------------------------------------------------------------
(* As a programmer writes it: the words of the source text. *)

Word(op) == <<[op |-> op, n |-> 0]>>
WordWith(op, n) == <<[op |-> op, n |-> n]>>

RECURSIVE Text(_)
Text(block) ==
  IF block = <<>> THEN <<>> ELSE
  LET x == Head(block)
      text == CASE x.k = "lit" -> WordWith("literal", x.n)
                [] x.k = "call" -> WordWith("colon", x.w)
                [] x.k = "exec" -> WordWith("literal", x.w) \o Word("execute")
                [] x.k = "mark" -> Word("rp@") \o Word("cf!")
                [] x.k = "escape" -> Word("cf@") \o Word("rp!") \o Word("^")
                [] x.k = "if" ->
                     Word(x.t) \o Text(x.a)
                       \o (IF x.b = <<>> THEN <<>> ELSE Word("else") \o Text(x.b))
                       \o Word("then")
                [] x.k = "until" -> Word("begin") \o Text(x.a) \o Word(x.t)
                [] x.k = "while" -> Word("begin") \o Text(x.a) \o Word(x.t)
                                      \o Text(x.b) \o Word("repeat")
                [] x.k = "for" -> Word("for") \o Text(x.a) \o Word("next")
                [] x.k = "do" -> Word("do") \o Text(x.a) \o Word(x.t)
                [] OTHER -> Word(x.k)
  IN text \o Text(Tail(block))

TextOf(program) ==
  [w \in DOMAIN program |-> Text(program[w]) \o Word(";")]

-----------------------------------------------------------------------------
(* What it does. s.ds is the data stack, s.out what was written, s.idx the *)
(* indices of the loops of a word, and s.stop why a block is left early.   *)

True(s) == Top(s.ds) # 0
Keeps(t) == t \in {"=if", "=until", "=while"}
KeepsTrue(t) == t \in {"?if", "?until", "?while"}
Tested(t, s) ==
  IF Keeps(t) \/ (KeepsTrue(t) /\ True(s)) THEN s ELSE [s EXCEPT !.ds = Pop(@)]
Push(s, n) == [s EXCEPT !.ds = Append(@, n)]
Resumed(s, reason, idx) ==
  [s EXCEPT !.stop = IF @ = reason THEN "no" ELSE @, !.idx = idx]

\* A loop ends when it steps from one side of its limit to the other, or, the
\* cells being a circle, over the point opposite to the limit.
Crosses(index, limit, incr) ==
  LET x == Wrap(index - limit)
      y == x + incr IN
  (x < 0 /\ y >= 0) \/ (x >= 0 /\ y < 0) \/ y < -Half \/ y >= Half

RECURSIVE Run(_, _, _), Does(_, _, _), Loop(_, _, _, _, _), Times(_, _, _, _),
          Repeat(_, _, _), Enter(_, _, _)

Run(p, block, s) ==
  IF block = <<>> \/ s.stop # "no" THEN s
  ELSE Run(p, Tail(block), Does(p, Head(block), s))

Does(p, x, s) ==
  CASE x.k = "lit" -> Push(s, x.n)
    [] x.k = "dup" -> Push(s, Top(s.ds))
    [] x.k = "drop" -> [s EXCEPT !.ds = Pop(@)]
    [] x.k = "+" -> [s EXCEPT !.ds = Append(Pop(Pop(@)), Wrap(Top(@) + Top(Pop(@))))]
    [] x.k = "." -> [s EXCEPT !.ds = Pop(@), !.out = Append(@, Top(s.ds))]
    [] x.k \in {"i", "r@"} -> Push(s, Top(s.idx))
    [] x.k = "j" -> Push(s, Top(Pop(s.idx)))
    [] x.k = "k" -> Push(s, Top(Pop(Pop(s.idx))))
    [] x.k = "leave" -> [s EXCEPT !.stop = "leave"]
    [] x.k = "?leave" -> [s EXCEPT !.ds = Pop(@),
                                   !.stop = IF True(s) THEN "leave" ELSE "no"]
    [] x.k = "^" -> [s EXCEPT !.stop = "exit"]
    [] x.k = "escape" -> [s EXCEPT !.stop = "escape"]
    [] x.k = "mark" -> s
    [] x.k \in {"call", "exec"} -> Enter(p, x.w, s)
    [] x.k = "fail" -> Enter(p, 1, Push(s, 0))
    [] x.k = "if" -> Run(p, IF True(s) THEN x.a ELSE x.b, Tested(x.t, s))
    [] x.k \in {"until", "while"} -> Repeat(p, x, s)
    [] x.k = "for" -> IF True(s)
                      THEN Times(p, x, [s EXCEPT !.ds = Pop(@)], Top(s.ds))
                      ELSE [s EXCEPT !.ds = Pop(@)]
    [] x.k = "do" -> Loop(p, x, [s EXCEPT !.ds = Pop(Pop(@))], Top(Pop(s.ds)),
                          Top(s.ds))

\* A word that marks its place is what an escape returns from.
Enter(p, w, s) ==
  LET r == Run(p, p[w], [s EXCEPT !.idx = <<>>])
      reason == IF p[w] # <<>> /\ Head(p[w]) = Op("mark") /\ r.stop = "escape"
                THEN "escape" ELSE "exit"
  IN Resumed(r, reason, s.idx)

Repeat(p, x, s) ==
  LET r == Run(p, x.a, s) IN
  IF r.stop # "no" THEN r
  ELSE IF x.k = "until"
       THEN IF True(r) THEN Tested(x.t, r) ELSE Repeat(p, x, Tested(x.t, r))
       ELSE IF ~True(r) THEN Tested(x.t, r)
            ELSE LET b == Run(p, x.b, Tested(x.t, r)) IN
                 IF b.stop # "no" THEN b ELSE Repeat(p, x, b)

Times(p, x, s, n) ==
  LET r == Run(p, x.a, [s EXCEPT !.idx = Append(@, n)])
      rest == Resumed(r, "no", s.idx)
  IN IF r.stop # "no" \/ Wrap(n - 1) = 0 THEN rest
     ELSE Times(p, x, rest, Wrap(n - 1))

Loop(p, x, s, limit, index) ==
  LET r == Run(p, x.a, [s EXCEPT !.idx = Append(@, index)])
      incr == IF x.t = "loop" THEN 1 ELSE Top(r.ds)
      rest == [r EXCEPT !.idx = s.idx,
                        !.ds = IF x.t = "loop" THEN @ ELSE Pop(@)]
      ends == IF x.t = "loop" THEN Wrap(index + 1) = limit
              ELSE Crosses(index, limit, incr)
  IN IF r.stop # "no" THEN Resumed(r, "leave", s.idx)
     ELSE IF ends THEN rest ELSE Loop(p, x, rest, limit, Wrap(index + incr))

Meaning(p) ==
  LET r == Enter(p, Len(p), [ds |-> <<>>, out |-> <<>>, idx |-> <<>>,
                             stop |-> "no"])
  IN [ds |-> r.ds, out |-> r.out]
==============================================================================

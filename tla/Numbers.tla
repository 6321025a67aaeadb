------------------------------- MODULE Numbers -------------------------------
(***************************************************************************)
(* Numbers as text: number? reads them from tokens (startup.mu4, Number    *)
(* input), . and u. write them (Pictured numeric output), in the radix     *)
(* that the words hex, octal, decimal and binary set.                      *)
(*                                                                         *)
(* A token is a sequence of characters, of which a letter stands for its   *)
(* upper and its lower case, as digit> takes both. The interpreter comes   *)
(* here with tokens that it does not find in the dictionary. The state     *)
(* left for the next number is radix, dpl and whether separators are       *)
(* written.                                                                *)
(***************************************************************************)
EXTENDS Integers, Sequences, FiniteSetsExt

CONSTANTS Bits,         \* of a cell
          TokenLength,  \* of tokens that are typed, at most
          TypedChar,    \* characters of tokens that are typed
          Printed       \* numbers that are written

Digit == <<"0", "1", "2", "3", "4", "5", "6", "7",
           "8", "9", "a", "b", "c", "d", "e", "f">>
Char == {Digit[i] : i \in 1..16}
          \cup {"$", "\"", "'", "#", "%", "-", ".", ",", "/", ":", "_"}
Radix == {2, 8, 10, 16}
Cell == -(2^(Bits - 1))..(2^(Bits - 1) - 1)

BitsAssumption ==
  /\ Bits \in Nat \ {0, 1}
  /\ 2^Bits = 2 * 2^(Bits - 1) /\ 2^(Bits - 1) \in Nat \ {0}
InputAssumption ==
  /\ TokenLength \in Nat /\ TypedChar \subseteq Char /\ Printed \subseteq Cell

VARIABLES
  radix,
  dpl,        \* digits read since the last point, -1 if there was none
  separate,   \* +sep or -sep
  pc,         \* "interpret", "read", "number", "huh", "print" or "printed"
  number,     \* while reading: saved radix, sign, accumulator, characters
              \* left, and whether the last one was a digit
  u, hld,     \* while writing: what is left to convert, characters held
  token,      \* the token read last (not in the code)
  printed,    \* the number written last (not in the code)
  chosen      \* the radix set by a word last (not in the code)

vars == <<radix, dpl, separate, pc, number, u, hld, token, printed, chosen>>

Unsigned(x) == x % 2^Bits
Signed(x) ==
  LET m == x % 2^Bits IN IF m < 2^(Bits - 1) THEN m ELSE m - 2^Bits

-----------------------------------------------------------------------------
(* Reading *)

Starts(text, ch) == text # <<>> /\ Head(text) = ch

\* ?radix
RadixPrefix == [ch \in {"\"", "'", "$", "#", "%"} |->
  CASE ch \in {"\"", "$"} -> 16 [] ch = "'" -> 8 [] ch = "#" -> 10 [] ch = "%" -> 2]
HasRadix(text) == text # <<>> /\ Head(text) \in DOMAIN RadixPrefix
AfterRadix(text) == IF HasRadix(text) THEN Tail(text) ELSE text
RadixOf(text, r) == IF HasRadix(text) THEN RadixPrefix[Head(text)] ELSE r

\* ?sign
Negative(text) == Starts(text, "-")
AfterSign(text) == IF Negative(text) THEN Tail(text) ELSE text

\* digit?
IsDigit(ch, r) == \E d \in 1..r : Digit[d] = ch
Value(ch) == CHOOSE d \in 0..15 : Digit[d + 1] = ch

\* dot?
Separators == {".", ",", "-", "/", ":", "_"}

Nothing == [saved |-> 0, neg |-> FALSE, accum |-> 0, rest |-> <<>>, digits |-> FALSE]

\* number? up to its loop: preserve, ?radix, ?sign and dpl on.
Number(text) ==
  /\ pc' = "read" /\ token' = text
  /\ radix' = RadixOf(text, radix) /\ dpl' = -1
  /\ number' = [saved |-> radix, neg |-> Negative(AfterRadix(text)), accum |-> 0,
                rest |-> AfterSign(AfterRadix(text)), digits |-> FALSE]
  /\ UNCHANGED <<separate, u, hld, printed, chosen>>

AtDigit == number.rest # <<>> /\ IsDigit(Head(number.rest), radix)
\* Mutant: digits may have converted none.
AtSeparatorAlways ==
  ~AtDigit /\ number.rest # <<>> /\ Head(number.rest) \in Separators
AtSeparator == /\ ~AtDigit /\ number.digits
               /\ number.rest # <<>> /\ Head(number.rest) \in Separators

\* @digit? and *digit
ReadDigit ==
  /\ pc = "read" /\ AtDigit
  /\ number' = [number EXCEPT
       !.accum = Signed(@ * radix + Value(Head(number.rest))),
       !.rest = Tail(@), !.digits = TRUE]
  /\ dpl' = IF dpl < 0 THEN dpl ELSE dpl + 1
  /\ UNCHANGED <<radix, separate, pc, u, hld, token, printed, chosen>>

ReadSeparator ==
  /\ pc = "read" /\ AtSeparator
  /\ number' = [number EXCEPT !.rest = Tail(@), !.digits = FALSE]
  /\ dpl' = IF Head(number.rest) = "." THEN 0 ELSE dpl
  /\ UNCHANGED <<radix, separate, pc, u, hld, token, printed, chosen>>

\* All characters are read, the last a digit: number? leaves the number.

NumberRead ==
  /\ pc = "read" /\ number.rest = <<>> /\ number.digits
  /\ pc' = "number" /\ radix' = number.saved
  /\ number' = [number EXCEPT !.accum = IF number.neg THEN Signed(-@) ELSE @]
  /\ UNCHANGED <<dpl, separate, u, hld, token, printed, chosen>>

\* ?bad-number found no digit, or no separator, where it needs one: huh? .
BadNumber ==
  /\ pc = "read" /\ ~AtDigit /\ ~AtSeparator
  /\ ~(number.rest = <<>> /\ number.digits)
  /\ pc' = "huh" /\ radix' = number.saved
  /\ UNCHANGED <<dpl, separate, number, u, hld, token, printed, chosen>>

-----------------------------------------------------------------------------
(* Writing *)

\* ?sep: a comma after every three digits, an underline after every four.
Separator(held) ==
  CASE separate /\ radix = 10 /\ Len(held) % 4 = 3 -> <<",">>
    [] separate /\ radix # 10 /\ Len(held) % 5 = 4 -> <<"_">>
    [] OTHER -> <<>>

\* . and u. up to the loop of #sep; sign looks at the number after the loop.
Write(n, signed) ==
  /\ pc = "interpret" /\ pc' = "print"
  /\ u' = Unsigned(IF signed /\ n < 0 THEN Signed(-n) ELSE n)
  /\ hld' = <<>>
  /\ printed' = [n |-> n, signed |-> signed]
  /\ UNCHANGED <<radix, dpl, separate, number, token, chosen>>

\* One turn of #sep: # , and ?sep unless the rest is 0.
\* Mutant: ?sep also after the last digit.
HoldThenSeparate ==
  /\ pc = "print" /\ (u # 0 \/ hld = <<>>)
  /\ LET held == <<Digit[(u % radix) + 1]>> \o hld IN
       /\ u' = u \div radix
       /\ hld' = Separator(held) \o held
  /\ UNCHANGED <<radix, dpl, separate, pc, number, token, printed, chosen>>

Hold ==
  /\ pc = "print" /\ (u # 0 \/ hld = <<>>)
  /\ LET held == <<Digit[(u % radix) + 1]>> \o hld
         rest == u \div radix IN
       /\ u' = rest
       /\ hld' = IF rest = 0 THEN held ELSE Separator(held) \o held
  /\ UNCHANGED <<radix, dpl, separate, pc, number, token, printed, chosen>>

\* sign, #> and type
TypeIt ==
  /\ pc = "print" /\ u = 0 /\ hld # <<>>
  /\ hld' = IF printed.signed /\ printed.n < 0 THEN <<"-">> \o hld ELSE hld
  /\ pc' = "printed"
  /\ UNCHANGED <<radix, dpl, separate, u, number, token, printed, chosen>>

-----------------------------------------------------------------------------

NotPrinted == [n |-> 0, signed |-> FALSE]

Init ==
  /\ radix = 10 /\ chosen = 10 /\ dpl = -1 /\ separate = TRUE
  /\ pc = "interpret"
  /\ number = Nothing /\ u = 0 /\ hld = <<>>
  /\ token = <<>> /\ printed = NotPrinted

\* hex, octal, decimal and binary
Radixer(r) ==
  /\ pc = "interpret"
  /\ radix' = r /\ chosen' = r
  /\ UNCHANGED <<dpl, separate, pc, number, u, hld, token, printed>>

\* +sep and -sep
Separate(on) ==
  /\ pc = "interpret"
  /\ separate' = on
  /\ UNCHANGED <<radix, dpl, pc, number, u, hld, token, printed, chosen>>

Typed == UNION {[1..n -> TypedChar] : n \in 1..TokenLength}

\* interpret goes on; what was read or written is forgotten, but for dpl.
Interpret ==
  /\ pc \in {"number", "huh", "printed"} /\ pc' = "interpret"
  /\ number' = Nothing /\ u' = 0 /\ hld' = <<>>
  /\ token' = <<>> /\ printed' = NotPrinted
  /\ UNCHANGED <<radix, dpl, separate, chosen>>

Next ==
  \/ pc = "interpret" /\ \E text \in Typed : Number(text)
  \/ pc = "printed" /\ Number(hld)
  \/ ReadDigit \/ ReadSeparator \/ NumberRead \/ BadNumber
  \/ \E n \in Printed, signed \in BOOLEAN : Write(n, signed)
  \/ Hold \/ TypeIt
  \/ \E r \in Radix : Radixer(r)
  \/ \E on \in BOOLEAN : Separate(on)
  \/ Interpret

Spec == Init /\ [][Next]_vars

-----------------------------------------------------------------------------
(* Properties *)

\* What number? reads of a token, after the radix and the sign, and with which radix.
Body == AfterSign(AfterRadix(token))
Base == RadixOf(token, chosen)

\* A number: one radix, one sign, and digits, any two of which one separator
\* may stand between.
IsNumber(body, base) ==
  /\ body # <<>>
  /\ IsDigit(body[1], base) /\ IsDigit(body[Len(body)], base)
  /\ \A i \in 1..Len(body) :
       \/ IsDigit(body[i], base)
       \/ body[i] \in Separators /\ IsDigit(body[i+1], base)

DigitsFrom(body, base, i) == {j \in i..Len(body) : IsDigit(body[j], base)}

\* The digits, each multiplied by the base once for every digit behind it.
Sum(body, base) ==
  LET weight[n \in 0..Len(body)] == IF n = 0 THEN 1 ELSE base * weight[n - 1]
  IN MapThenSumSet(LAMBDA i : Value(body[i]) * weight[Cardinality(DigitsFrom(body, base, i + 1))],
                   DigitsFrom(body, base, 1))

\* number? takes for a number what looks like one and nothing else, and the
\* number it leaves is the one written, of which a cell keeps the low bits.
NumberIsToken ==
  /\ pc = "number" => /\ IsNumber(Body, Base)
                      /\ number.accum = Signed(IF Negative(AfterRadix(token))
                                               THEN -Sum(Body, Base) ELSE Sum(Body, Base))
  /\ pc = "huh" => ~IsNumber(Body, Base)

\* Numbers that are written are numbers: with separators or without, in every
\* radix, signed or not, a number reads back as it was, the smallest as well.
PrintedReadsBack ==
  hld # <<>> /\ token = hld =>
    /\ pc # "huh"
    /\ pc = "number" => number.accum = printed.n /\ dpl = -1
==============================================================================

--------------------------------- MODULE Cells ---------------------------------
(***************************************************************************)
(* The arithmetic of kernel.c: words that replace the cells on top of the  *)
(* data stack. A cell is a C int64_t here of any width: the numbers from   *)
(* -Half to Half - 1. Sums and products wrap around, as the build makes    *)
(* them; a division that the processor traps ends the process.             *)
(***************************************************************************)
EXTENDS Integers, Sequences

CONSTANTS Half,     \* 2^(Bits - 1)
          Bits,     \* 64
          Constant, \* literals that programs push
          MaxDepth  \* cells on the stack at a time

ASSUME HalfAssumption == Half \in Nat \ {0}
ASSUME BitsAssumption ==
  /\ Bits \in Nat \ {0} /\ 2^Bits = 2 * Half
  /\ \A n \in 0..Bits : 2^n \in Nat \ {0}
ASSUME BoundAssumption == MaxDepth \in Nat

Modulus == 2 * Half
Cell == (-Half)..(Half - 1)

ASSUME ConstantAssumption == Constant \subseteq Cell

VARIABLES
  SP,      \* the data stack, TOP first
  result,  \* the word executed last, what it took and left (not in the code)
  dead     \* the process was killed by a trap

vars == <<SP, result, dead>>

Unsigned(x) == x % Modulus
Signed(x) == ((x + Half) % Modulus) - Half

-----------------------------------------------------------------------------
(* What the words compute *)

\* Mutant: the product is cut off at the largest cell.
StarSaturated(a, b) ==
  IF a * b >= Half THEN Half - 1 ELSE IF a * b < -Half THEN -Half ELSE a * b
Star(a, b) == Signed(a * b)

\* C divides magnitudes and then gives the quotient and the remainder signs.
Magnitude(x) == IF x < 0 THEN -x ELSE x
SymmetricQuot(a, b) ==
  LET q == Magnitude(a) \div Magnitude(b)
  IN IF (a < 0) = (b < 0) THEN q ELSE -q
SymmetricMod(a, b) ==
  LET r == Magnitude(a) % Magnitude(b)
  IN IF a < 0 THEN -r ELSE r

\* mu_slash_mod makes that floored. Mutant: always when the signs
\* differ.
OppositeSigns(a, b) == (a < 0) # (b < 0)
AdjustAlways(a, b) == OppositeSigns(a, b)
Adjust(a, b) == SymmetricMod(a, b) # 0 /\ OppositeSigns(a, b)

Quot(a, b) == SymmetricQuot(a, b) - (IF Adjust(a, b) THEN 1 ELSE 0)
Mod(a, b) == SymmetricMod(a, b) + (IF Adjust(a, b) THEN b ELSE 0)

\* BIGSHIFT compares TOP with a size_t, which makes it unsigned. For counts
\* that are not big the processor's shift, which looks at the low bits of the
\* count only, is that of the language.
Factor(n) == 2^(n % Bits)
BigShift(n) == Unsigned(n) >= Bits
ShiftLeft(a, n) == IF BigShift(n) THEN 0 ELSE Signed(a * Factor(n))
UShiftRight(a, n) == IF BigShift(n) THEN 0 ELSE Signed(Unsigned(a) \div Factor(n))
ShiftRight(a, n) ==
  IF BigShift(n) THEN (IF a < 0 THEN -1 ELSE 0) ELSE a \div Factor(n)

-----------------------------------------------------------------------------
(* The words *)

Init == SP = <<>> /\ result = [word |-> "none"] /\ dead = FALSE

TOP == SP[1]
ST1 == SP[2]

Push(n) ==
  /\ ~dead /\ Len(SP) < MaxDepth
  /\ SP' = <<n>> \o SP
  /\ UNCHANGED <<result, dead>>

Executes(word, left) ==
  /\ SP' = left \o SubSeq(SP, 3, Len(SP))
  /\ result' = [word |-> word, a |-> ST1, b |-> TOP, left |-> left]
  /\ UNCHANGED dead

Binary(word, n) == ~dead /\ Len(SP) >= 2 /\ Executes(word, <<n>>)

mu_plus         == Binary("+", Signed(ST1 + TOP))
mu_star         == Binary("*", Star(ST1, TOP))
mu_uless        == Binary("u<", IF Unsigned(ST1) < Unsigned(TOP) THEN -1 ELSE 0)
mu_shift_left   == Binary("<<", ShiftLeft(ST1, TOP))
mu_ushift_right == Binary("u>>", UShiftRight(ST1, TOP))
mu_shift_right  == Binary(">>", ShiftRight(ST1, TOP))

\* The processor traps a division by 0, and one whose quotient is no cell.
Traps == TOP = 0 \/ (ST1 = -Half /\ TOP = -1)
Trapped == SP' = SP /\ result' = [word |-> "none"] /\ dead' = TRUE

mu_slash_mod ==
  /\ ~dead /\ Len(SP) >= 2
  /\ IF Traps THEN Trapped
     ELSE Executes("/mod", <<Quot(ST1, TOP), Mod(ST1, TOP)>>)

mu_uslash_mod ==
  /\ ~dead /\ Len(SP) >= 2
  /\ IF TOP = 0 THEN Trapped
     ELSE Executes("u/mod", <<Signed(Unsigned(ST1) \div Unsigned(TOP)),
                              Signed(Unsigned(ST1) % Unsigned(TOP))>>)

\* negate and the words of one cell that shift, which leave the others alone.
Unary(word, n) ==
  /\ ~dead /\ SP # <<>>
  /\ SP' = <<n>> \o Tail(SP)
  /\ result' = [word |-> word, a |-> TOP, left |-> <<n>>]
  /\ UNCHANGED dead

mu_negate   == Unary("negate", Signed(-TOP))
mu_2star    == Unary("2*", Signed(TOP * 2))
mu_2slash   == Unary("2/", TOP \div 2)
mu_u2slash  == Unary("u2/", Signed(Unsigned(TOP) \div 2))

mu_drop == ~dead /\ SP # <<>> /\ SP' = Tail(SP) /\ UNCHANGED <<result, dead>>

Killed == dead /\ UNCHANGED vars

Next ==
  \/ \E n \in Constant : Push(n)
  \/ mu_plus \/ mu_star \/ mu_uless
  \/ mu_shift_left \/ mu_ushift_right \/ mu_shift_right
  \/ mu_slash_mod \/ mu_uslash_mod
  \/ mu_negate \/ mu_2star \/ mu_2slash \/ mu_u2slash \/ mu_drop
  \/ Killed

Spec == Init /\ [][Next]_vars

-----------------------------------------------------------------------------
(* Properties *)

TypeOK ==
  /\ SP \in Seq(Cell) /\ Len(SP) <= MaxDepth
  /\ dead \in BOOLEAN

\* After a /mod: the quotient is the greatest whose product with the divisor
\* does not pass the dividend, whatever the signs, so that the remainder has
\* the sign of the divisor.
DivisionFloors ==
  result.word = "/mod" =>
    LET a == result.a
        b == result.b
        q == result.left[1]
        r == result.left[2]
    IN /\ q * b + r = a
       /\ IF b > 0 THEN 0 <= r /\ r < b ELSE b < r /\ r <= 0

\* There is no u*: a product is the same cell whether its factors are taken
\* for signed numbers or for unsigned ones.
StarSignless ==
  result.word = "*" =>
    Unsigned(result.left[1]) = Unsigned(Unsigned(result.a) * Unsigned(result.b))
==============================================================================

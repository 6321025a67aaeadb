--------------------------- MODULE ArithmeticProofs ---------------------------
(***************************************************************************)
(* For cells of every width: /mod floors, and a product does not depend on *)
(* whether its factors are taken for signed numbers. For messages of every *)
(* length: the three functions of Crc16 give the same sum, and it is the   *)
(* remainder of a polynomial. That proof is about bits: a lemma says for   *)
(* each operator on words which bits its result has, and the loop of eight *)
(* rounds is followed with one fact per bit and round. For numbers of      *)
(* every length: what number reads is the sum the digits stand for, and    *)
(* what . and u. write reads as the number written. That proof is about    *)
(* sums of digits by place, which a digit in front or behind changes in a  *)
(* known way. For images and hex files of every size: what is written is   *)
(* what is read, or an error; each record has a sum that is right, and no  *)
(* longer is when one digit is not.                                        *)
(***************************************************************************)
EXTENDS Arithmetic, FunctionTheorems, FiniteSetTheorems, SequenceTheorems, TLAPS

-----------------------------------------------------------------------------
(* Integers *)

\* A product grows with a factor, when the other is not negative.
LEMMA ProductOrder ==
  ASSUME NEW x \in Int, NEW y \in Int, NEW m \in Nat, x <= y
  PROVE  m * x <= m * y
<1>1. m * (y - x) >= 0
  OBVIOUS
<1>2. m * (y - x) = m * y - m * x
  OBVIOUS
<1>3. m * x \in Int /\ m * y \in Int
  OBVIOUS
<1> QED
  BY <1>1, <1>2, <1>3

\* What divides and what remains are unique.
LEMMA RemainderUnique ==
  ASSUME NEW m \in Nat \ {0}, NEW p \in Int, NEW q \in Int,
         NEW r \in 0..(m - 1), NEW s \in 0..(m - 1), m * p + r = m * q + s
  PROVE  p = q /\ r = s
<1>0. m * p \in Int /\ m * q \in Int /\ m \in Int
  OBVIOUS
<1>1. ASSUME p + 1 <= q PROVE FALSE
  <2>1. m * (p + 1) <= m * q
    BY <1>1, ProductOrder
  <2>2. m * (p + 1) = m * p + m
    OBVIOUS
  <2> QED
    BY <1>0, <2>1, <2>2
<1>2. ASSUME q + 1 <= p PROVE FALSE
  <2>1. m * (q + 1) <= m * p
    BY <1>2, ProductOrder
  <2>2. m * (q + 1) = m * q + m
    OBVIOUS
  <2> QED
    BY <1>0, <2>1, <2>2
<1>3. p = q
  BY <1>1, <1>2
<1> QED
  BY <1>0, <1>3

\* Division by a positive number.
LEMMA Divided ==
  ASSUME NEW m \in Nat \ {0}, NEW x \in Int
  PROVE  x = m * (x \div m) + (x % m) /\ x % m \in 0..(m - 1) /\ x \div m \in Int
<1>1. x \div m \in Int
  OBVIOUS
<1>2. x % m \in 0..(m - 1)
  OBVIOUS
<1>3. x = m * (x \div m) + (x % m)
  OBVIOUS
<1> QED
  BY <1>1, <1>2, <1>3

\* Multiples of the modulus do not change a remainder.
LEMMA ModOfSum ==
  ASSUME NEW m \in Nat \ {0}, NEW x \in Int, NEW k \in Int, NEW y \in Int,
         y = x + m * k
  PROVE  y % m = x % m
<1> DEFINE dx == x \div m
           dy == y \div m
           rx == x % m
           ry == y % m
<1>1. y = m * dy + ry /\ ry \in 0..(m - 1) /\ dy \in Int
  BY Divided
<1>2. x = m * dx + rx /\ rx \in 0..(m - 1) /\ dx \in Int
  BY Divided
<1> DEFINE e == dx + k
<1> HIDE DEF dx, dy, rx, ry
<1>3. m * e = m * dx + m * k /\ e \in Int
  BY <1>2
<1>4. m * dx \in Int /\ m * k \in Int /\ m * dy \in Int
  BY <1>1, <1>2
<1>5. m * dy + ry = m * e + rx
  BY <1>1, <1>2, <1>3, <1>4
<1> HIDE DEF e
<1>6. dy \in Int /\ e \in Int /\ ry \in 0..(m - 1) /\ rx \in 0..(m - 1)
  BY <1>1, <1>2, <1>3
<1>7. dy = e /\ ry = rx
  BY <1>5, <1>6, RemainderUnique
<1> QED
  BY <1>7 DEF rx, ry

-----------------------------------------------------------------------------
(* Cells *)

\* What wrapping gives is a cell.
LEMMA SignedType ==
  ASSUME NEW x \in Int PROVE Signed(x) \in Cell
<1>1. Modulus \in Nat \ {0} /\ Modulus = 2 * Half /\ Half \in Nat
  BY HalfAssumption DEF Modulus
<1>2. (x + Half) % Modulus \in 0..(Modulus - 1)
  BY <1>1
<1> QED
  BY <1>1, <1>2 DEF Signed, Cell

\* The bits of a cell, as a number.
LEMMA UnsignedType ==
  ASSUME NEW x \in Int PROVE Unsigned(x) \in Int
<1>1. Modulus \in Nat \ {0}
  BY HalfAssumption DEF Modulus
<1>2. x % Modulus \in 0..(Modulus - 1)
  BY <1>1, Divided
<1> QED
  BY <1>1, <1>2 DEF Unsigned

\* A number and its cell have the same bits.
LEMMA UnsignedSigned ==
  ASSUME NEW x \in Int PROVE Unsigned(Signed(x)) = Unsigned(x)
<1> DEFINE d == (x + Half) \div Modulus
           r == (x + Half) % Modulus
           e == -d
<1>1. Modulus \in Nat \ {0} /\ Half \in Nat
  BY HalfAssumption DEF Modulus
<1>2. x + Half = Modulus * d + r /\ r \in 0..(Modulus - 1) /\ d \in Int
  <2>1. PICK y \in Int : y = x + Half
    BY <1>1
  <2>2. PICK m \in Nat \ {0} : m = Modulus
    BY <1>1
  <2>3. y = m * (y \div m) + (y % m) /\ y % m \in 0..(m - 1) /\ y \div m \in Int
    BY Divided
  <2>. QED  BY <2>1, <2>2, <2>3
<1>3. Signed(x) = r - Half
  BY DEF Signed
<1> HIDE DEF d, r
<1>4. Modulus * e = -(Modulus * d) /\ Modulus * d \in Int /\ e \in Int
  BY <1>1, <1>2
<1>5. Signed(x) \in Int /\ Signed(x) = x + Modulus * e
  BY <1>1, <1>2, <1>3, <1>4
<1> HIDE DEF e
<1>6. Signed(x) % Modulus = x % Modulus
  BY <1>1, <1>4, <1>5, ModOfSum
<1> QED
  BY <1>6 DEF Unsigned

\* The bits of a product: mu_star, of which a comment says that no u* is
\* needed, "since single-length star and ustar yield the same answers".
LEMMA SameProduct ==
  ASSUME NEW a \in Int, NEW b \in Int
  PROVE  Unsigned(Star(a, b)) = Unsigned(Unsigned(a) * Unsigned(b))
<1> DEFINE i == a \div Modulus
           j == b \div Modulus
           x == Unsigned(a)
           y == Unsigned(b)
           k == x * j + i * y + Modulus * (i * j)
<1>1. Modulus \in Nat \ {0}
  BY HalfAssumption DEF Modulus
<1>2. i \in Int /\ j \in Int /\ x \in Int /\ y \in Int
  BY <1>1, Divided DEF Unsigned
<1>3. a = Modulus * i + x /\ b = Modulus * j + y
  BY <1>1, Divided DEF Unsigned
<1> HIDE DEF i, j, x, y
<1>4. k \in Int /\ a * b \in Int /\ x * y \in Int
  BY <1>1, <1>2
<1>5. a * b = x * y + Modulus * k
  <2>1. Modulus \in Int
    BY <1>1
  <2> HIDE DEF Modulus
  <2> QED
    BY <1>2, <1>3, <2>1
<1> HIDE DEF k
<1>6. Unsigned(a * b) = Unsigned(x * y)
  <2>1. PICK m \in Nat \ {0}, v \in Int, w \in Int : m = Modulus /\ v = a * b /\ w = x * y
    BY <1>1, <1>4
  <2>2. v = w + m * k
    BY <1>5, <2>1
  <2>3. v % m = w % m
    BY <1>4, <2>2, ModOfSum
  <2> QED
    BY <2>1, <2>3 DEF Unsigned
<1>7. Unsigned(Star(a, b)) = Unsigned(a * b)
  BY <1>4, UnsignedSigned DEF Star
<1> QED
  BY <1>6, <1>7 DEF x, y

\* A cell divided by a positive number is a cell.
LEMMA DividedCell ==
  ASSUME NEW x \in Cell, NEW m \in Nat \ {0}, NEW d \in Int, NEW r \in 0..(m - 1),
         x = m * d + r
  PROVE  d \in Cell
<1>0. Half \in Nat \ {0} /\ x \in Int /\ -Half <= x /\ x < Half /\ m * d \in Int
  BY HalfAssumption DEF Cell
<1>1. m * Half >= Half /\ m * (-Half) <= -Half
  <2>1. m * Half >= 1 * Half
    BY <1>0
  <2>2. m * (-Half) = -(m * Half)
    BY <1>0
  <2> QED
    BY <1>0, <2>1, <2>2
<1>2. d < Half
  <2> SUFFICES ASSUME Half <= d PROVE FALSE
    BY <1>0
  <2>1. m * Half <= m * d
    BY <1>0, ProductOrder
  <2>2. m * Half \in Int
    BY <1>0
  <2> QED
    BY <1>0, <1>1, <2>1, <2>2
<1>3. -Half <= d
  <2> SUFFICES ASSUME d + 1 <= -Half PROVE FALSE
    BY <1>0
  <2>1. m * (d + 1) <= m * (-Half)
    BY <1>0, ProductOrder
  <2>2. m * (d + 1) = m * d + m /\ m * (-Half) \in Int
    BY <1>0
  <2> QED
    BY <1>0, <1>1, <2>1, <2>2
<1> QED
  BY <1>0, <1>2, <1>3 DEF Cell

LEMMA QuotientCell ==
  ASSUME NEW x \in Cell, NEW m \in Nat \ {0} PROVE x \div m \in Cell
<1> DEFINE d == x \div m
           r == x % m
<1>1. x \in Int
  BY HalfAssumption DEF Cell
<1>2. x = m * d + r /\ r \in 0..(m - 1) /\ d \in Int
  BY <1>1, Divided
<1> HIDE DEF d, r
<1>3. d \in Cell
  BY <1>2, DividedCell
<1> QED
  BY <1>3 DEF d

\* Only 0 has no bits.
LEMMA UnsignedNonzero ==
  ASSUME NEW x \in Cell, x # 0 PROVE Unsigned(x) \in Nat \ {0}
<1>1. Modulus \in Nat \ {0} /\ Modulus = 2 * Half /\ Half \in Nat \ {0}
  BY HalfAssumption DEF Modulus
<1>2. x \in Int /\ -Modulus < x /\ x < Modulus
  BY <1>1 DEF Cell
<1> DEFINE d == x \div Modulus
           r == x % Modulus
<1>3. x = Modulus * d + r /\ r \in 0..(Modulus - 1) /\ d \in Int
  BY <1>1, <1>2, Divided
<1> HIDE DEF d, r
<1>4. r # 0
  <2> SUFFICES ASSUME r = 0 PROVE FALSE
    OBVIOUS
  <2>1. x = Modulus * d /\ Modulus * d \in Int
    BY <1>1, <1>2, <1>3
  <2>2. CASE d >= 1
    <3>1. Modulus * 1 <= Modulus * d
      BY <1>1, <1>3, <2>2, ProductOrder
    <3> QED
      BY <1>1, <1>2, <2>1, <3>1
  <2>3. CASE d <= -1
    <3>1. Modulus * d <= Modulus * (-1)
      BY <1>1, <1>3, <2>3, ProductOrder
    <3> QED
      BY <1>1, <1>2, <2>1, <3>1
  <2>4. CASE d = 0
    BY <1>1, <2>1, <2>4
  <2> QED
    BY <1>3, <2>2, <2>3, <2>4
<1> QED
  BY <1>3, <1>4 DEF r, Unsigned

\* The number that a shift multiplies or divides by.
LEMMA FactorType ==
  ASSUME NEW n \in Int PROVE Factor(n) \in Nat \ {0}
<1>1. n % Bits \in 0..Bits
  BY BitsAssumption
<1> QED
  BY <1>1, BitsAssumption DEF Factor

-----------------------------------------------------------------------------
(* Division *)

\* /mod floors. The comment of mu_slash_mod proves that the invariant of
\* division survives the adjustment; the remainder has to end on the side of
\* the divisor, too.
LEMMA Floors ==
  ASSUME NEW a \in Int, NEW b \in Int, b # 0
  PROVE  /\ Quot(a, b) \in Int /\ Mod(a, b) \in Int
         /\ Quot(a, b) * b + Mod(a, b) = a
         /\ IF b > 0 THEN 0 <= Mod(a, b) /\ Mod(a, b) < b
                     ELSE b < Mod(a, b) /\ Mod(a, b) <= 0
<1> DEFINE A == Magnitude(a)
           B == Magnitude(b)
           q == A \div B
           r == A % B
<1>1. A \in Nat /\ A \in Int /\ B \in Nat \ {0}
  BY DEF Magnitude
<1>3. /\ a < 0 => a = -A
      /\ ~(a < 0) => a = A
      /\ b < 0 => b = -B
      /\ ~(b < 0) => b = B /\ b > 0
  BY DEF Magnitude
<1> HIDE DEF A, B
<1>2. A = B * q + r /\ r \in 0..(B - 1) /\ q \in Int
  BY <1>1, Divided
<1>4. /\ SymmetricQuot(a, b) = IF (a < 0) = (b < 0) THEN q ELSE -q
      /\ SymmetricMod(a, b) = IF a < 0 THEN -r ELSE r
  BY DEF SymmetricQuot, SymmetricMod, A, B
<1> HIDE DEF q, r
<1>5. CASE (a < 0) = (b < 0)
  <2>1. Quot(a, b) = q /\ Mod(a, b) = IF a < 0 THEN -r ELSE r
    BY <1>2, <1>4, <1>5 DEF Quot, Mod, Adjust, OppositeSigns
  <2>2. q * (-B) = -(B * q) /\ q * B = B * q /\ B * q \in Int
    BY <1>1, <1>2
  <2> QED
    BY <1>1, <1>2, <1>3, <1>5, <2>1, <2>2
<1>6. CASE (a < 0) # (b < 0) /\ r = 0
  <2>a. ~((a < 0) = (b < 0)) /\ r = 0
    BY <1>6
  <2>b. SymmetricQuot(a, b) = -q
    BY <1>4, <2>a
  <2>c. SymmetricMod(a, b) = 0
    <3>1. CASE a < 0
      <4>1. SymmetricMod(a, b) = -r
        BY <1>4, <3>1
      <4>2. r \in Int /\ r <= 0 /\ r >= 0
        BY <1>2, <2>a
      <4>3. -r \in Int /\ -r <= 0 /\ -r >= 0
        BY <4>2
      <4>4. \A x \in Int : x <= 0 /\ x >= 0 => x = 0
        OBVIOUS
      <4> QED
        BY <4>1, <4>3, <4>4
    <3>2. CASE ~(a < 0)
      BY <1>4, <2>a, <3>2
    <3> QED
      BY <3>1, <3>2
  <2>0. SymmetricMod(a, b) = 0 /\ SymmetricQuot(a, b) = -q
    BY <2>b, <2>c
  <2>1. Quot(a, b) = -q /\ Mod(a, b) = 0
    BY <1>2, <2>0 DEF Quot, Mod, Adjust
  <2>2. (-q) * (-B) = B * q /\ (-q) * B = -(B * q) /\ B * q \in Int
    BY <1>1, <1>2
  <2> QED
    BY <1>1, <1>2, <1>3, <1>6, <2>1, <2>2
<1>7. CASE (a < 0) # (b < 0) /\ r # 0
  <2>1. /\ Quot(a, b) = -q - 1
        /\ Mod(a, b) = (IF a < 0 THEN -r ELSE r) + b
    BY <1>2, <1>4, <1>7 DEF Quot, Mod, Adjust, OppositeSigns
  <2>2. (-q - 1) * (-B) = B * q + B /\ (-q - 1) * B = -(B * q) - B /\ B * q \in Int
    BY <1>1, <1>2
  <2> QED
    BY <1>1, <1>2, <1>3, <1>7, <2>1, <2>2
<1> QED
  BY <1>5, <1>6, <1>7

\* What it leaves are cells, unless the processor traps.
LEMMA DivisionType ==
  ASSUME NEW a \in Cell, NEW b \in Cell, b # 0, ~(a = -Half /\ b = -1)
  PROVE  Quot(a, b) \in Cell /\ Mod(a, b) \in Cell
<1> DEFINE q == Quot(a, b)
           r == Mod(a, b)
<1>0. Half \in Nat \ {0} /\ a \in Int /\ b \in Int
  BY HalfAssumption DEF Cell
<1>1. /\ q \in Int /\ r \in Int /\ q * b + r = a
      /\ IF b > 0 THEN 0 <= r /\ r < b ELSE b < r /\ r <= 0
  BY <1>0, Floors
<1> HIDE DEF q, r
<1>2. r \in Cell
  BY <1>0, <1>1 DEF Cell
<1>3. CASE b > 0
  <2>1. b \in Nat \ {0} /\ r \in 0..(b - 1) /\ q * b = b * q
    BY <1>0, <1>1, <1>3
  <2>2. a = b * q + r
    BY <1>1, <2>1
  <2>3. q \in Cell
    BY <1>1, <2>1, <2>2, DividedCell
  <2> QED
    BY <1>2, <2>3 DEF q, r
<1>4. CASE b < 0
  <2> DEFINE c == -b
             d == -q - 1
             s == c + r
  <2>1. c \in Nat \ {0} /\ d \in Int /\ q = -d - 1 /\ b = -c
    BY <1>0, <1>1, <1>4
  <2>2. CASE r = 0
    <3>1. a = c * (-q)
      BY <1>0, <1>1, <2>2
    <3>2. c * (-q) = c * (-q) + 0 /\ -q \in Int /\ 0 \in 0..(c - 1) /\ c * (-q) \in Int
      BY <1>1, <2>1
    <3>3. -q \in Cell
      BY <3>1, <3>2, <2>1, DividedCell
    <3>4. q # Half
      <4> SUFFICES ASSUME q = Half PROVE FALSE
        OBVIOUS
      <4>1. a = -(c * Half) /\ c * Half \in Int /\ c * Half >= Half
        BY <1>0, <2>1, <3>1
      <4>2. c * Half = Half
        BY <1>0, <4>1 DEF Cell
      <4>3. c = 1
        BY <1>0, <2>1, <4>2
      <4> QED
        BY <1>0, <4>1, <4>2, <4>3
    <3>5. q \in Cell
      BY <1>0, <1>1, <3>3, <3>4 DEF Cell
    <3> QED
      BY <1>2, <3>5 DEF q, r
  <2>3. CASE r # 0
    <3>1. s \in 0..(c - 1)
      BY <1>0, <1>1, <1>4, <2>3
    <3>2. q * b = c * d + c /\ c * d \in Int
      BY <1>1, <2>1
    <3>3. a = c * d + s
      BY <1>0, <1>1, <2>1, <3>2
    <3>4. d \in Cell
      BY <2>1, <3>1, <3>3, DividedCell
    <3>5. q \in Cell
      BY <1>0, <1>1, <2>1, <3>4 DEF Cell
    <3> QED
      BY <1>2, <3>5 DEF q, r
  <2> QED
    BY <2>2, <2>3
<1> QED
  BY <1>0, <1>3, <1>4

-----------------------------------------------------------------------------
(* The words *)

IInv == TypeOK /\ DivisionFloors /\ StarSignless

\* A stack whose two cells on top are replaced.
LEMMA ExecutesFacts ==
  ASSUME NEW word, NEW left \in Seq(Cell), SP \in Seq(Cell), Len(SP) >= 2,
         Len(SP) <= MaxDepth, Len(left) <= 2, Executes(word, left)
  PROVE  SP' \in Seq(Cell) /\ Len(SP') <= MaxDepth
<1>1. Len(SP) \in Nat /\ \A i \in 1..Len(SP) : SP[i] \in Cell
  BY LenProperties, ElementOfSeq
<1>2. /\ SubSeq(SP, 3, Len(SP)) \in Seq(Cell)
      /\ Len(SubSeq(SP, 3, Len(SP))) = Len(SP) - 2
  <2> DEFINE n == Len(SP)
             rest == SubSeq(SP, 3, n)
  <2>1. n \in Int /\ n >= 2 /\ \A i \in 3..n : SP[i] \in Cell
    BY <1>1
  <2>2. rest \in Seq(Cell) /\ Len(rest) = IF 3 <= n THEN n - 3 + 1 ELSE 0
    BY <2>1, SubSeqProperties
  <2> HIDE DEF rest, n
  <2>3. Len(rest) = n - 2
    BY <2>1, <2>2
  <2> QED
    BY <2>2, <2>3 DEF rest, n
<1>3. SP' = left \o SubSeq(SP, 3, Len(SP))
  BY DEF Executes
<1>4. /\ left \o SubSeq(SP, 3, Len(SP)) \in Seq(Cell)
      /\ Len(left \o SubSeq(SP, 3, Len(SP))) = Len(left) + (Len(SP) - 2)
  BY <1>2, ConcatProperties
<1>5. Len(left) \in Nat
  BY LenProperties
<1> QED
  BY <1>1, <1>3, <1>4, <1>5, BoundAssumption

\* The words that leave one cell for two, when it is a cell.
LEMMA BinaryFacts ==
  ASSUME NEW word, NEW n, IInv, Binary(word, n),
         SP[1] \in Cell /\ SP[2] \in Cell => n \in Cell
  PROVE  /\ TypeOK' /\ SP[1] \in Cell /\ SP[2] \in Cell
         /\ result' = [word |-> word, a |-> SP[2], b |-> SP[1], left |-> <<n>>]
<1>1. /\ SP \in Seq(Cell) /\ Len(SP) \in Nat /\ Len(SP) >= 2
      /\ Len(SP) <= MaxDepth /\ dead \in BOOLEAN
  BY LenProperties DEF IInv, TypeOK, Binary
<1>2. SP[1] \in Cell /\ SP[2] \in Cell
  BY <1>1, ElementOfSeq
<1>3. <<n>> \in Seq(Cell) /\ Len(<<n>>) <= 2
  BY <1>2
<1>4. SP' \in Seq(Cell) /\ Len(SP') <= MaxDepth
  BY <1>1, <1>3, ExecutesFacts DEF Binary
<1> QED
  BY <1>1, <1>2, <1>4 DEF Binary, Executes, TypeOK, TOP, ST1

\* So for one cell.
LEMMA UnaryFacts ==
  ASSUME NEW word, NEW n, IInv, Unary(word, n), SP[1] \in Cell => n \in Cell
  PROVE  TypeOK' /\ result'.word = word
<1>1. /\ SP \in Seq(Cell) /\ Len(SP) \in Nat /\ SP # <<>>
      /\ Len(SP) <= MaxDepth /\ dead \in BOOLEAN
  BY LenProperties DEF IInv, TypeOK, Unary
<1>2. SP[1] \in Cell
  BY <1>1, EmptySeq, LenProperties, ElementOfSeq
<1>3. Tail(SP) \in Seq(Cell) /\ Len(Tail(SP)) = Len(SP) - 1
  BY <1>1, HeadTailProperties
<1>4. SP' \in Seq(Cell) /\ Len(SP') = 1 + (Len(SP) - 1)
  BY <1>1, <1>2, <1>3, ConcatProperties DEF Unary
<1> QED
  BY <1>1, <1>4 DEF Unary, TypeOK

\* The initial states satisfy the invariant.
LEMMA InitIInv == Init => IInv
<1> SUFFICES ASSUME Init PROVE IInv
  OBVIOUS
<1>1. TypeOK
  <2>1. SP = <<>> /\ dead = FALSE
    BY DEF Init
  <2>2. SP \in Seq(Cell) /\ Len(SP) = 0
    BY <2>1
  <2>3. 0 <= MaxDepth
    BY BoundAssumption
  <2> QED
    BY <2>1, <2>2, <2>3 DEF TypeOK
<1>2. result.word = "none"
  BY DEF Init
<1> QED
  BY <1>1, <1>2 DEF IInv, DivisionFloors, StarSignless

\* Every step keeps it.
LEMMA NextIInv == IInv /\ [Next]_vars => IInv'
<1> SUFFICES ASSUME IInv, [Next]_vars PROVE IInv'
  OBVIOUS
<1>0. /\ SP \in Seq(Cell) /\ Len(SP) \in Nat /\ Len(SP) <= MaxDepth
      /\ dead \in BOOLEAN /\ Half \in Nat \ {0} /\ Modulus \in Nat \ {0}
      /\ Cell \subseteq Int /\ -1 \in Cell /\ 0 \in Cell
  BY HalfAssumption, LenProperties DEF IInv, TypeOK, Modulus, Cell
<1>1. ASSUME NEW word, word \notin {"/mod", "*"}, NEW n, Binary(word, n),
             SP[1] \in Cell /\ SP[2] \in Cell => n \in Cell
      PROVE  IInv'
  <2>1. TypeOK' /\ result'.word = word
    BY <1>1, BinaryFacts
  <2> QED
    BY <1>1, <2>1 DEF IInv, DivisionFloors, StarSignless
<1>a. ASSUME NEW word, word \notin {"/mod", "*"}, NEW n, Unary(word, n),
             SP[1] \in Cell => n \in Cell
      PROVE  IInv'
  <2>1. TypeOK' /\ result'.word = word
    BY <1>a, UnaryFacts
  <2> QED
    BY <1>a, <2>1 DEF IInv, DivisionFloors, StarSignless
<1>b. ASSUME Trapped PROVE IInv'
  <2>1. SP' = SP /\ dead' \in BOOLEAN /\ result'.word = "none"
    BY <1>b DEF Trapped
  <2> QED
    BY <1>0, <2>1 DEF IInv, TypeOK, DivisionFloors, StarSignless
<1>2. ASSUME NEW n \in Constant, Push(n) PROVE IInv'
  <2>1. <<n>> \in Seq(Cell) /\ Len(<<n>>) = 1
    BY ConstantAssumption
  <2>2. SP' \in Seq(Cell) /\ Len(SP') = 1 + Len(SP) /\ Len(SP) < MaxDepth
    BY <1>0, <1>2, <2>1, ConcatProperties DEF Push
  <2>3. UNCHANGED <<result, dead>>
    BY <1>2 DEF Push
  <2> QED
    BY <1>0, <2>2, <2>3, BoundAssumption
       DEF IInv, TypeOK, DivisionFloors, StarSignless
<1>3. CASE mu_plus
  <2> DEFINE n == Signed(SP[2] + SP[1])
  <2>1. Binary("+", n)
    BY <1>3 DEF mu_plus, TOP, ST1
  <2>2. SP[1] \in Cell /\ SP[2] \in Cell => n \in Cell
    <3> SUFFICES ASSUME SP[1] \in Cell, SP[2] \in Cell PROVE n \in Cell
      OBVIOUS
    <3> DEFINE m == SP[2] + SP[1]
    <3>a. SP[1] \in Int /\ SP[2] \in Int
      BY <1>0
    <3>1. m \in Int
      BY <3>a
    <3> HIDE DEF m
    <3>2. Signed(m) \in Cell
      BY <3>1, SignedType
    <3> QED
      BY <3>2 DEF m
  <2> HIDE DEF n
  <2> QED
    BY <1>1, <2>1, <2>2
<1>4. CASE mu_star
  <2> DEFINE n == Star(SP[2], SP[1])
  <2>1. Binary("*", n)
    BY <1>4 DEF mu_star, TOP, ST1
  <2>2. SP[1] \in Cell /\ SP[2] \in Cell => n \in Cell
    <3> SUFFICES ASSUME SP[1] \in Cell, SP[2] \in Cell PROVE n \in Cell
      OBVIOUS
    <3> DEFINE m == SP[2] * SP[1]
    <3>a. SP[1] \in Int /\ SP[2] \in Int
      BY <1>0
    <3>1. m \in Int
      BY <3>a
    <3> HIDE DEF m
    <3>2. Signed(m) \in Cell
      BY <3>1, SignedType
    <3> QED
      BY <3>2 DEF m, Star
  <2> HIDE DEF n
  <2>3. /\ TypeOK' /\ SP[1] \in Int /\ SP[2] \in Int
        /\ result' = [word |-> "*", a |-> SP[2], b |-> SP[1], left |-> <<n>>]
    BY <1>0, <2>1, <2>2, BinaryFacts
  <2>4. Unsigned(n) = Unsigned(Unsigned(SP[2]) * Unsigned(SP[1]))
    BY <2>3, SameProduct DEF n
  <2>5. /\ result'.word = "*" /\ result'.a = SP[2] /\ result'.b = SP[1]
        /\ result'.left[1] = n
    BY <2>3
  <2>6. StarSignless' /\ DivisionFloors'
    BY <2>4, <2>5 DEF StarSignless, DivisionFloors
  <2> QED
    BY <2>3, <2>6 DEF IInv
<1>5. CASE mu_uless
  <2> DEFINE n == IF Unsigned(SP[2]) < Unsigned(SP[1]) THEN -1 ELSE 0
  <2>1. Binary("u<", n)
    BY <1>5 DEF mu_uless, TOP, ST1
  <2>2. SP[1] \in Cell /\ SP[2] \in Cell => n \in Cell
    BY <1>0
  <2> HIDE DEF n
  <2> QED
    BY <1>1, <2>1, <2>2
<1>6. CASE mu_shift_left
  <2> DEFINE n == ShiftLeft(SP[2], SP[1])
  <2>1. Binary("<<", n)
    BY <1>6 DEF mu_shift_left, TOP, ST1
  <2>2. SP[1] \in Cell /\ SP[2] \in Cell => n \in Cell
    <3> SUFFICES ASSUME SP[1] \in Cell, SP[2] \in Cell, ~BigShift(SP[1])
                 PROVE  Signed(SP[2] * Factor(SP[1])) \in Cell
      BY <1>0 DEF ShiftLeft
    <3>1. Factor(SP[1]) \in Nat \ {0}
      BY <1>0, FactorType
    <3> DEFINE m == SP[2] * Factor(SP[1])
    <3>a. SP[2] \in Int
      BY <1>0
    <3>2. m \in Int
      BY <3>a, <3>1
    <3> HIDE DEF m
    <3>3. Signed(m) \in Cell
      BY <3>2, SignedType
    <3> QED
      BY <3>3 DEF m
  <2> HIDE DEF n
  <2> QED
    BY <1>1, <2>1, <2>2
<1>7. CASE mu_ushift_right
  <2> DEFINE n == UShiftRight(SP[2], SP[1])
  <2>1. Binary("u>>", n)
    BY <1>7 DEF mu_ushift_right, TOP, ST1
  <2>2. SP[1] \in Cell /\ SP[2] \in Cell => n \in Cell
    <3> SUFFICES ASSUME SP[1] \in Cell, SP[2] \in Cell, ~BigShift(SP[1])
                 PROVE  Signed(Unsigned(SP[2]) \div Factor(SP[1])) \in Cell
      BY <1>0 DEF UShiftRight
    <3>1. Factor(SP[1]) \in Nat \ {0}
      BY <1>0, FactorType
    <3>2. Unsigned(SP[2]) \in Int
      BY <1>0, UnsignedType
    <3>3. Unsigned(SP[2]) \div Factor(SP[1]) \in Int
      BY <3>1, <3>2, Divided
    <3> QED
      BY <3>3, SignedType
  <2> HIDE DEF n
  <2> QED
    BY <1>1, <2>1, <2>2
<1>8. CASE mu_shift_right
  <2> DEFINE n == ShiftRight(SP[2], SP[1])
  <2>1. Binary(">>", n)
    BY <1>8 DEF mu_shift_right, TOP, ST1
  <2>2. SP[1] \in Cell /\ SP[2] \in Cell => n \in Cell
    <3> SUFFICES ASSUME SP[1] \in Cell, SP[2] \in Cell, ~BigShift(SP[1])
                 PROVE  SP[2] \div Factor(SP[1]) \in Cell
      BY <1>0 DEF ShiftRight
    <3>1. Factor(SP[1]) \in Nat \ {0}
      BY <1>0, FactorType
    <3> QED
      BY <1>0, <3>1, QuotientCell
  <2> HIDE DEF n
  <2> QED
    BY <1>1, <2>1, <2>2
<1>9. CASE mu_slash_mod
  <2>1. Len(SP) >= 2 /\ SP[1] \in Cell /\ SP[2] \in Cell
    BY <1>0, <1>9, ElementOfSeq DEF mu_slash_mod
  <2>2. CASE Traps
    BY <1>0, <1>9, <1>b, <2>2 DEF mu_slash_mod
  <2>3. CASE ~Traps
    <3> DEFINE q == Quot(SP[2], SP[1])
               r == Mod(SP[2], SP[1])
    <3>1. Executes("/mod", <<q, r>>)
      BY <1>9, <2>3 DEF mu_slash_mod, TOP, ST1
    <3>2. SP[1] # 0 /\ ~(SP[2] = -Half /\ SP[1] = -1)
      BY <2>3 DEF Traps, TOP, ST1
    <3>3. q \in Cell /\ r \in Cell
      BY <2>1, <3>2, DivisionType
    <3>4. /\ q * SP[1] + r = SP[2]
          /\ IF SP[1] > 0 THEN 0 <= r /\ r < SP[1] ELSE SP[1] < r /\ r <= 0
      BY <1>0, <2>1, <3>2, Floors
    <3> HIDE DEF q, r
    <3>5. /\ TypeOK'
          /\ result' = [word |-> "/mod", a |-> SP[2], b |-> SP[1], left |-> <<q, r>>]
      <4>1. <<q, r>> \in Seq(Cell) /\ Len(<<q, r>>) <= 2
        BY <3>3
      <4>2. SP' \in Seq(Cell) /\ Len(SP') <= MaxDepth
        BY <1>0, <2>1, <3>1, <4>1, ExecutesFacts
      <4> QED
        BY <1>0, <3>1, <4>2 DEF Executes, TypeOK, TOP, ST1
    <3>6. /\ result'.word = "/mod" /\ result'.a = SP[2] /\ result'.b = SP[1]
          /\ result'.left[1] = q /\ result'.left[2] = r
      BY <3>5
    <3>7. DivisionFloors' /\ StarSignless'
      BY <3>4, <3>6 DEF DivisionFloors, StarSignless
    <3> QED
      BY <3>5, <3>7 DEF IInv
  <2> QED
    BY <2>2, <2>3
<1>10. CASE mu_uslash_mod
  <2>1. Len(SP) >= 2 /\ SP[1] \in Cell /\ SP[2] \in Cell
    BY <1>0, <1>10, ElementOfSeq DEF mu_uslash_mod
  <2>2. CASE SP[1] = 0
    BY <1>0, <1>10, <1>b, <2>2 DEF mu_uslash_mod, TOP
  <2>3. CASE SP[1] # 0
    <3> DEFINE x == Unsigned(SP[2])
               y == Unsigned(SP[1])
               q == Signed(x \div y)
               r == Signed(x % y)
    <3>1. Executes("u/mod", <<q, r>>)
      BY <1>10, <2>3 DEF mu_uslash_mod, TOP, ST1
    <3>2. x \in Int /\ y \in Nat \ {0}
      BY <2>1, <2>3, UnsignedNonzero, UnsignedType, <1>0
    <3> HIDE DEF x, y
    <3>3. x \div y \in Int /\ x % y \in Int
      BY <3>2, Divided
    <3>4. q \in Cell /\ r \in Cell
      BY <3>3, SignedType
    <3> HIDE DEF q, r
    <3>5. <<q, r>> \in Seq(Cell) /\ Len(<<q, r>>) <= 2
      BY <3>4
    <3>6. SP' \in Seq(Cell) /\ Len(SP') <= MaxDepth
      BY <1>0, <2>1, <3>1, <3>5, ExecutesFacts
    <3>7. TypeOK' /\ result'.word = "u/mod"
      BY <1>0, <3>1, <3>6 DEF Executes, TypeOK
    <3> QED
      BY <3>7 DEF IInv, DivisionFloors, StarSignless
  <2> QED
    BY <2>2, <2>3
<1>11. CASE mu_negate
  <2> DEFINE n == Signed(-SP[1])
  <2>1. Unary("negate", n)
    BY <1>11 DEF mu_negate, TOP
  <2>2. SP[1] \in Cell => n \in Cell
    <3> SUFFICES ASSUME SP[1] \in Cell PROVE n \in Cell
      OBVIOUS
    <3> DEFINE m == -SP[1]
    <3>a. SP[1] \in Int
      BY <1>0
    <3>1. m \in Int
      BY <3>a
    <3> HIDE DEF m
    <3>2. Signed(m) \in Cell
      BY <3>1, SignedType
    <3> QED
      BY <3>2 DEF m
  <2> HIDE DEF n
  <2> QED
    BY <1>a, <2>1, <2>2
<1>12. CASE mu_2star
  <2> DEFINE n == Signed(SP[1] * 2)
  <2>1. Unary("2*", n)
    BY <1>12 DEF mu_2star, TOP
  <2>2. SP[1] \in Cell => n \in Cell
    <3> SUFFICES ASSUME SP[1] \in Cell PROVE n \in Cell
      OBVIOUS
    <3> DEFINE m == SP[1] * 2
    <3>a. SP[1] \in Int
      BY <1>0
    <3>1. m \in Int
      BY <3>a
    <3> HIDE DEF m
    <3>2. Signed(m) \in Cell
      BY <3>1, SignedType
    <3> QED
      BY <3>2 DEF m
  <2> HIDE DEF n
  <2> QED
    BY <1>a, <2>1, <2>2
<1>13. CASE mu_2slash
  <2> DEFINE n == SP[1] \div 2
  <2>1. Unary("2/", n)
    BY <1>13 DEF mu_2slash, TOP
  <2>2. SP[1] \in Cell => n \in Cell
    BY QuotientCell
  <2> HIDE DEF n
  <2> QED
    BY <1>a, <2>1, <2>2
<1>14. CASE mu_u2slash
  <2> DEFINE n == Signed(Unsigned(SP[1]) \div 2)
  <2>1. Unary("u2/", n)
    BY <1>14 DEF mu_u2slash, TOP
  <2>2. SP[1] \in Cell => n \in Cell
    <3> SUFFICES ASSUME SP[1] \in Cell PROVE n \in Cell
      OBVIOUS
    <3>1. Unsigned(SP[1]) \in Int
      BY <1>0, UnsignedType
    <3>2. Unsigned(SP[1]) \div 2 \in Int
      BY <3>1
    <3> QED
      BY <3>2, SignedType
  <2> HIDE DEF n
  <2> QED
    BY <1>a, <2>1, <2>2
<1>15. CASE mu_drop
  <2>1. SP # <<>> /\ SP' = Tail(SP) /\ UNCHANGED <<result, dead>>
    BY <1>15 DEF mu_drop
  <2>2. SP' \in Seq(Cell) /\ Len(SP') = Len(SP) - 1
    BY <1>0, <2>1, HeadTailProperties
  <2> QED
    BY <1>0, <2>1, <2>2, BoundAssumption
       DEF IInv, TypeOK, DivisionFloors, StarSignless
<1>16. CASE Killed \/ UNCHANGED vars
  BY <1>16 DEF Killed, vars, IInv, TypeOK, DivisionFloors, StarSignless
<1> QED
  BY <1>2, <1>3, <1>4, <1>5, <1>6, <1>7, <1>8, <1>9, <1>10, <1>11, <1>12,
     <1>13, <1>14, <1>15, <1>16 DEF Next

LEMMA IInvHolds == Spec => []IInv
BY InitIInv, NextIInv, PTL DEF Spec

-----------------------------------------------------------------------------
(* What a program can rely on, for cells of every width *)

\* What is on the stack are cells: no word of kernel.c leaves a number that
\* does not fit.
THEOREM TypeCorrect == Spec => []TypeOK
<1>1. IInv => TypeOK
  BY DEF IInv
<1> QED
  BY <1>1, IInvHolds, PTL

\* A /mod that returns has divided as Forth promises: toward the smaller
\* number, although the processor divides toward 0.
THEOREM DivisionFloorsCorrect == Spec => []DivisionFloors
<1>1. IInv => DivisionFloors
  BY DEF IInv
<1> QED
  BY <1>1, IInvHolds, PTL

\* The claim that the comment of mu_star leaves to be proved: a product is the
\* same cell for signed and unsigned factors.
THEOREM StarSignlessCorrect == Spec => []StarSignless
<1>1. IInv => StarSignless
  BY DEF IInv
<1> QED
  BY <1>1, IInvHolds, PTL

-----------------------------------------------------------------------------
(* Words of 16 bits *)

LEMMA XorBit ==
  ASSUME NEW v, NEW w, NEW i
  PROVE  (i \in C!Xor(v, w)) <=> ((i \in v) <=> (i \notin w))
BY DEF C!Xor

LEMMA UpBit ==
  ASSUME NEW w \in SUBSET Int, NEW n \in Int, NEW i \in Int
  PROVE  (i \in C!Up(w, n)) <=> (i - n \in w)
BY DEF C!Up

LEMMA DownBit ==
  ASSUME NEW w \in SUBSET Int, NEW n \in Int, NEW i \in Nat
  PROVE  (i \in C!Down(w, n)) <=> (i + n \in w)
<1>1. ASSUME i \in C!Down(w, n) PROVE i + n \in w
  <2>1. PICK j \in w : j >= n /\ i = j - n
    BY <1>1 DEF C!Down
  <2> QED BY <2>1
<1>2. ASSUME i + n \in w PROVE i \in C!Down(w, n)
  <2>1. i + n \in {j \in w : j >= n} /\ (i + n) - n = i
    BY <1>2
  <2> QED BY <2>1 DEF C!Down
<1> QED BY <1>1, <1>2

LEMMA DownRange ==
  ASSUME NEW m \in Nat, NEW w \in SUBSET (0..m), NEW n \in Nat
  PROVE  C!Down(w, n) \subseteq 0..(m - n)
<1> SUFFICES ASSUME NEW i \in C!Down(w, n) PROVE i \in 0..(m - n)
  OBVIOUS
<1>1. PICK j \in w : j >= n /\ i = j - n
  BY DEF C!Down
<1>2. j \in 0..m /\ j >= n
  BY <1>1
<1> QED BY <1>1, <1>2

LEMMA UpRange ==
  ASSUME NEW w \in SUBSET Nat, NEW n \in Nat
  PROVE  C!Up(w, n) \subseteq Nat
<1> SUFFICES ASSUME NEW i \in C!Up(w, n) PROVE i \in Nat
  OBVIOUS
<1>1. PICK j \in w : i = j + n
  BY DEF C!Up
<1>2. j \in Nat
  BY <1>1
<1> QED BY <1>1, <1>2

LEMMA XorRange ==
  ASSUME NEW T, NEW v \in SUBSET T, NEW w \in SUBSET T
  PROVE  C!Xor(v, w) \subseteq T
BY DEF C!Xor

LEMMA WordBits ==
  ASSUME NEW v \in C!Word, NEW w \in C!Word,
         \A i \in 0..15 : (i \in v) <=> (i \in w)
  PROVE  v = w
BY DEF C!Word

LEMMA ShiftedBit ==
  ASSUME NEW w \in C!Word
  PROVE  /\ C!Shifted(w) \in C!Word
         /\ \A i \in 0..15 :
              (i \in C!Shifted(w)) <=> (i - 1 \in w <=> ~(15 \in w /\ i \in {12, 5, 0}))
<1>1. \A i \in Int : (i \in C!Low(C!Up(w, 1), 16)) <=> (i - 1 \in w /\ i < 16)
  BY UpBit DEF C!Word, C!Low
<1>2. C!Low(C!Up(w, 1), 16) \subseteq 0..15
  BY DEF C!Word, C!Low, C!Up
<1>3. CASE 15 \in w
  <2>1. C!Shifted(w) = C!Xor(C!Low(C!Up(w, 1), 16), {12, 5, 0})
    BY <1>3 DEF C!Shifted, C!Feedback
  <2>2. C!Shifted(w) \in C!Word
    BY <1>2, <2>1 DEF C!Xor, C!Word
  <2> QED BY <1>1, <1>3, <2>1, <2>2, XorBit
<1>4. CASE 15 \notin w
  <2>1. C!Shifted(w) = C!Low(C!Up(w, 1), 16)
    BY <1>4 DEF C!Shifted
  <2> QED BY <1>1, <1>2, <1>4, <2>1 DEF C!Word
<1> QED BY <1>3, <1>4

(* Rounds of the loop: what has been moved out at the top is fed back at three *)
(* places, and over four rounds what is fed back does not come out again.      *)

LEMMA TwoBits ==
  ASSUME NEW w \in C!Word
  PROVE  /\ C!Shifted(C!Shifted(w)) \in C!Word
         /\ \A i \in 0..15 :
              (i \in C!Shifted(C!Shifted(w))) <=>
                (i - 2 \in w <=> ~(\/ i \in 0..1 /\ i + 14 \in w
                                   \/ i \in 5..6 /\ i + 9 \in w
                                   \/ i \in 12..13 /\ i + 2 \in w))
<1> DEFINE v == C!Shifted(w)
<1>1. v \in C!Word /\ C!Shifted(v) \in C!Word
  BY ShiftedBit
<1>2. \A i \in 0..15 : (i \in v) <=> (i - 1 \in w <=> ~(15 \in w /\ i \in {12, 5, 0}))
  BY ShiftedBit
<1>3. \A i \in 0..15 : (i \in C!Shifted(v)) <=> (i - 1 \in v <=> ~(15 \in v /\ i \in {12, 5, 0}))
  BY <1>1, ShiftedBit
<1>4. (15 \in v) <=> (14 \in w)
  BY <1>2
<1> HIDE DEF v
<1>5. ASSUME NEW i \in 1..15
      PROVE  (i - 1 \in v) <=> (i - 2 \in w <=> ~(15 \in w /\ i \in {13, 6, 1}))
  <2>1. i - 1 \in 0..15 /\ (i - 1) - 1 = i - 2
    OBVIOUS
  <2>2. (i - 1 \in {12, 5, 0}) <=> (i \in {13, 6, 1})
    OBVIOUS
  <2> QED BY <1>2, <2>1, <2>2
<1>6. -1 \notin v /\ -2 \notin w
  BY <1>1 DEF C!Word
<1>7. ASSUME NEW i \in 0..15
      PROVE  (i \in C!Shifted(v)) <=>
                (i - 2 \in w <=> ~(\/ i \in 0..1 /\ i + 14 \in w
                                   \/ i \in 5..6 /\ i + 9 \in w
                                   \/ i \in 12..13 /\ i + 2 \in w))
  <2>1. CASE i = 0
    BY <1>3, <1>4, <1>6, <2>1
  <2>2. CASE i \in {1, 6, 13}
    BY <1>3, <1>5, <2>2
  <2>3. CASE i \in {5, 12}
    BY <1>3, <1>4, <1>5, <2>3
  <2>4. CASE i \notin {0, 1, 5, 6, 12, 13}
    BY <1>3, <1>5, <2>4
  <2> QED BY <2>1, <2>2, <2>3, <2>4
<1> QED BY <1>1, <1>7 DEF v

LEMMA FourBits ==
  ASSUME NEW w \in C!Word
  PROVE  LET two(v) == C!Shifted(C!Shifted(v))
         IN /\ two(two(w)) \in C!Word
            /\ \A i \in 0..15 :
                 (i \in two(two(w))) <=>
                   (i - 4 \in w <=> ~(\/ i \in 0..3 /\ i + 12 \in w
                                      \/ i \in 5..8 /\ i + 7 \in w
                                      \/ i \in 12..15 /\ i \in w))
<1> DEFINE two(v) == C!Shifted(C!Shifted(v))
           v == two(w)
<1>1. v \in C!Word /\ two(v) \in C!Word
  BY TwoBits
<1>2. \A i \in 0..15 :
        (i \in v) <=> (i - 2 \in w <=> ~(\/ i \in 0..1 /\ i + 14 \in w
                                         \/ i \in 5..6 /\ i + 9 \in w
                                         \/ i \in 12..13 /\ i + 2 \in w))
  BY TwoBits
<1>3. \A i \in 0..15 :
        (i \in two(v)) <=> (i - 2 \in v <=> ~(\/ i \in 0..1 /\ i + 14 \in v
                                              \/ i \in 5..6 /\ i + 9 \in v
                                              \/ i \in 12..13 /\ i + 2 \in v))
  BY <1>1, TwoBits
<1> HIDE DEF v, two
<1>4. (14 \in v <=> 12 \in w) /\ (15 \in v <=> 13 \in w)
  BY <1>2
<1>5. ASSUME NEW i \in 2..15
      PROVE  (i - 2 \in v) <=> (i - 4 \in w <=> ~(\/ i \in 2..3 /\ i + 12 \in w
                                                  \/ i \in 7..8 /\ i + 7 \in w
                                                  \/ i \in 14..15 /\ i \in w))
  <2>1. i - 2 \in 0..15 /\ (i - 2) - 2 = i - 4
    OBVIOUS
  <2>2. /\ (i - 2) + 14 = i + 12 /\ (i - 2) + 9 = i + 7 /\ (i - 2) + 2 = i
        /\ (i - 2 \in 0..1) <=> (i \in 2..3)
        /\ (i - 2 \in 5..6) <=> (i \in 7..8)
        /\ (i - 2 \in 12..13) <=> (i \in 14..15)
    OBVIOUS
  <2> QED BY <1>2, <2>1, <2>2
<1>6. \A i \in {-1, -2, -3, -4} : i \notin v /\ i \notin w
  BY <1>1 DEF C!Word
<1>7. ASSUME NEW i \in 0..15
      PROVE  (i \in two(v)) <=>
               (i - 4 \in w <=> ~(\/ i \in 0..3 /\ i + 12 \in w
                                  \/ i \in 5..8 /\ i + 7 \in w
                                  \/ i \in 12..15 /\ i \in w))
  <2>1. CASE i \in 0..1
    BY <1>3, <1>4, <1>6, <2>1
  <2>2. CASE i \in {2, 3, 7, 8, 14, 15}
    BY <1>3, <1>5, <2>2
  <2>3. CASE i \in {5, 6, 12, 13}
    BY <1>3, <1>4, <1>5, <2>3
  <2>4. CASE i \in {4, 9, 10, 11}
    BY <1>3, <1>5, <2>4
  <2> QED BY <2>1, <2>2, <2>3, <2>4
<1> QED BY <1>1, <1>7 DEF v, two

-----------------------------------------------------------------------------
(* What the few shifts of the other function compute, bit by bit *)

LEMMA ThierryBits ==
  ASSUME NEW sum \in C!Word, NEW b \in SUBSET (0..7)
  PROVE  LET half == C!Low(C!Xor(C!Down(sum, 8), b), 8)
             x == C!Xor(half, C!Down(half, 4))
         IN /\ half \subseteq 0..7 /\ x \subseteq 0..7
            /\ \A i \in 0..7 : (i \in half) <=> (i + 8 \in sum <=> i \notin b)
            /\ \A i \in 0..3 : (i \in x) <=> (i \in half <=> i + 4 \notin half)
            /\ \A i \in 4..7 : (i \in x) <=> (i \in half)
            /\ C!Crc16ByteThierry(sum, b) \in C!Word
            /\ \A i \in 0..15 :
                 (i \in C!Crc16ByteThierry(sum, b)) <=>
                   (((i - 8 \in sum <=> i - 12 \notin x) <=> i - 5 \notin x) <=> i \notin x)
<1> DEFINE half == C!Low(C!Xor(C!Down(sum, 8), b), 8)
           x == C!Xor(half, C!Down(half, 4))
           all == C!Xor(C!Xor(C!Xor(C!Up(sum, 8), C!Up(x, 12)), C!Up(x, 5)), x)
<1>1. \A i \in Nat : (i \in half) <=> ((i + 8 \in sum <=> i \notin b) /\ i < 8)
  BY DownBit, XorBit DEF C!Low, C!Word
<1>2. half \subseteq 0..7
  <2>1. sum \in SUBSET (0..15) /\ 15 - 8 = 7 /\ 15 \in Nat /\ 8 \in Nat
    BY DEF C!Word
  <2>2. C!Down(sum, 8) \subseteq 0..(15 - 8)
    BY <2>1, DownRange
  <2>3. C!Down(sum, 8) \in SUBSET (0..7)
    BY <2>1, <2>2
  <2>4. C!Xor(C!Down(sum, 8), b) \subseteq 0..7
    BY <2>3 DEF C!Xor
  <2> QED BY <2>4 DEF C!Low
<1>3. \A i \in Nat : (i \in C!Down(half, 4)) <=> (i + 4 \in half)
  BY <1>2, DownBit
<1>4. C!Down(half, 4) \subseteq 0..3
  <2>1. half \in SUBSET (0..7) /\ 7 \in Nat /\ 4 \in Nat /\ 7 - 4 = 3
    BY <1>2
  <2>2. C!Down(half, 4) \subseteq 0..(7 - 4)
    BY <2>1, DownRange
  <2> QED BY <2>1, <2>2
<1> HIDE DEF half
<1>5. \A i : (i \in x) <=> (i \in half <=> i \notin C!Down(half, 4))
  BY XorBit
<1>6. x \subseteq 0..7
  <2>1. 0..3 \subseteq 0..7
    OBVIOUS
  <2> QED BY <1>2, <1>4, <1>5, <2>1
<1>7. \A i \in 0..3 : (i \in x) <=> (i \in half <=> i + 4 \notin half)
  BY <1>3, <1>5
<1>8. \A i \in 4..7 : (i \in x) <=> (i \in half)
  BY <1>4, <1>5
<1> HIDE DEF x
<1>9. \A i \in Int : /\ (i \in C!Up(sum, 8)) <=> (i - 8 \in sum)
                     /\ (i \in C!Up(x, 12)) <=> (i - 12 \in x)
                     /\ (i \in C!Up(x, 5)) <=> (i - 5 \in x)
  BY <1>6, UpBit DEF C!Word
<1>10. \A i \in Int : (i \in all) <=>
         (((i - 8 \in sum <=> i - 12 \notin x) <=> i - 5 \notin x) <=> i \notin x)
  BY <1>9, XorBit
<1>11. all \subseteq Nat
  <2>1. x \in SUBSET Nat /\ sum \in SUBSET Nat
    BY <1>6 DEF C!Word
  <2>2. C!Up(sum, 8) \subseteq Nat /\ C!Up(x, 12) \subseteq Nat /\ C!Up(x, 5) \subseteq Nat
    BY <2>1, UpRange
  <2>3. C!Xor(C!Up(sum, 8), C!Up(x, 12)) \subseteq Nat
    BY <2>2, XorRange
  <2>4. C!Xor(C!Xor(C!Up(sum, 8), C!Up(x, 12)), C!Up(x, 5)) \subseteq Nat
    BY <2>2, <2>3, XorRange
  <2> QED BY <2>1, <2>4, XorRange
<1>12. C!Crc16ByteThierry(sum, b) = C!Low(all, 16)
  BY DEF C!Crc16ByteThierry, half, x
<1>13. C!Crc16ByteThierry(sum, b) \in C!Word
  BY <1>11, <1>12 DEF C!Low, C!Word
<1>14. \A i \in 0..15 : (i \in C!Crc16ByteThierry(sum, b)) <=> (i \in all)
  BY <1>12 DEF C!Low
<1> HIDE DEF all
<1> QED BY <1>1, <1>2, <1>6, <1>7, <1>8, <1>10, <1>13, <1>14 DEF half, x

-----------------------------------------------------------------------------
\* The function that crc16.c selects at first and the one of the definition of
\* XMODEM, between which a pointer chooses, give the same sum for every sum
\* of 16 bits and every byte.
THEOREM FunctionsAgree ==
  ASSUME NEW sum \in C!Word, NEW b \in SUBSET (0..7)
  PROVE  C!Crc16ByteThierry(sum, b) = C!Crc16ByteXmodem(sum, b)
<1> DEFINE two(v) == C!Shifted(C!Shifted(v))
           four(v) == two(two(v))
           w == C!Xor(sum, C!Up(b, 8))
           f == four(w)
           half == C!Low(C!Xor(C!Down(sum, 8), b), 8)
           x == C!Xor(half, C!Down(half, 4))
<1>1. w \in C!Word /\ \A i \in 0..15 : (i \in w) <=> (i \in sum <=> i - 8 \notin b)
  <2>1. \A i \in Int : (i \in C!Up(b, 8)) <=> (i - 8 \in b)
    BY UpBit
  <2>2. C!Up(b, 8) \subseteq 0..15
    <3>1. b \in SUBSET Nat
      OBVIOUS
    <3>2. C!Up(b, 8) \subseteq Nat
      BY <3>1, UpRange
    <3> QED BY <2>1, <3>2
  <2>3. w \in C!Word
    <3>1. sum \in SUBSET (0..15) /\ C!Up(b, 8) \in SUBSET (0..15)
      BY <2>2 DEF C!Word
    <3>2. w \subseteq 0..15
      BY <3>1 DEF C!Xor
    <3> QED BY <3>2 DEF C!Word
  <2> QED BY <2>1, <2>3, XorBit
<1>2. /\ half \subseteq 0..7 /\ x \subseteq 0..7
      /\ \A i \in 0..7 : (i \in half) <=> (i + 8 \in sum <=> i \notin b)
      /\ \A i \in 0..3 : (i \in x) <=> (i \in half <=> i + 4 \notin half)
      /\ \A i \in 4..7 : (i \in x) <=> (i \in half)
      /\ C!Crc16ByteThierry(sum, b) \in C!Word
      /\ \A i \in 0..15 :
           (i \in C!Crc16ByteThierry(sum, b)) <=>
             (((i - 8 \in sum <=> i - 12 \notin x) <=> i - 5 \notin x) <=> i \notin x)
  BY ThierryBits
<1> HIDE DEF w, half, x, two
<1>3. /\ f \in C!Word
      /\ \A i \in 0..15 : (i \in f) <=>
           (i - 4 \in w <=> ~(\/ i \in 0..3 /\ i + 12 \in w
                              \/ i \in 5..8 /\ i + 7 \in w
                              \/ i \in 12..15 /\ i \in w))
  BY <1>1, FourBits DEF two
<1> HIDE DEF f
<1>4. /\ four(f) \in C!Word
      /\ \A i \in 0..15 : (i \in four(f)) <=>
           (i - 4 \in f <=> ~(\/ i \in 0..3 /\ i + 12 \in f
                              \/ i \in 5..8 /\ i + 7 \in f
                              \/ i \in 12..15 /\ i \in f))
  BY <1>3, FourBits DEF two
<1>5. C!Crc16ByteXmodem(sum, b) = four(f)
  BY DEF C!Crc16ByteXmodem, f, w, two
<1> HIDE DEF four
\* The high byte of w is half, and its low byte that of the sum.
<1>6. \A i \in 0..7 : ((i + 8 \in w) <=> (i \in half)) /\ ((i \in w) <=> (i \in sum))
  BY <1>1, <1>2
\* What comes out at the top, in eight rounds, is x.
<1>7. \A i \in 0..3 : ((i + 12 \in f) <=> (i \in x)) /\ ((i + 12 \in w) <=> (i + 4 \in x))
  BY <1>2, <1>3, <1>6
<1>8. \A i \in 0..15 : (i \in four(f)) <=> (i \in C!Crc16ByteThierry(sum, b))
  <2> TAKE i \in 0..15
  <2>1. CASE i \in 0..3
    BY <1>1, <1>2, <1>3, <1>4, <1>6, <1>7, <2>1 DEF C!Word
  <2>2. CASE i \in 4..7
    BY <1>1, <1>2, <1>3, <1>4, <1>6, <1>7, <2>2 DEF C!Word
  <2>3. CASE i \in 8..11
    BY <1>1, <1>2, <1>3, <1>4, <1>6, <1>7, <2>3 DEF C!Word
  <2>4. CASE i \in 12..15
    BY <1>1, <1>2, <1>3, <1>4, <1>6, <1>7, <2>4 DEF C!Word
  <2> QED BY <2>1, <2>2, <2>3, <2>4
<1> QED BY <1>2, <1>4, <1>5, <1>8, WordBits

\* The word of crc16.mu4, which masks nothing before the end, gives the same sum as
\* c-crc16-byte, whichever function that word is set to use: a message may be
\* summed by any of them, and by another from the next byte on.
THEOREM AnyFunction ==
  ASSUME NEW sum \in C!Word, NEW b \in SUBSET (0..7)
  PROVE  C!Crc16ByteForth(sum, b) = C!Crc16Byte(sum, b)
<1> DEFINE half == C!Low(C!Xor(C!Down(sum, 8), b), 8)
<1>1. half \subseteq 0..7
  BY ThierryBits
<1>2. C!Down(sum, 8) \subseteq 0..(15 - 8)
  <2>1. sum \in SUBSET (0..15) /\ 15 \in Nat /\ 8 \in Nat
    BY DEF C!Word
  <2> QED BY <2>1, DownRange
<1>3. C!Xor(b, C!Down(sum, 8)) = half
  <2>1. C!Xor(b, C!Down(sum, 8)) = C!Xor(C!Down(sum, 8), b)
    BY DEF C!Xor
  <2>2. \A i \in C!Xor(C!Down(sum, 8), b) : i < 8
    <3>1. \A i \in C!Down(sum, 8) : i < 8
      BY <1>2
    <3>2. \A i \in b : i < 8
      OBVIOUS
    <3> QED BY <3>1, <3>2 DEF C!Xor
  <2>3. C!Low(C!Xor(C!Down(sum, 8), b), 8) = C!Xor(C!Down(sum, 8), b)
    BY <2>2 DEF C!Low
  <2> QED BY <2>1, <2>3
<1> HIDE DEF half
<1>4. C!Xor(C!Down(half, 4), half) = C!Xor(half, C!Down(half, 4))
  BY DEF C!Xor
<1>5. C!Crc16ByteForth(sum, b) = C!Crc16ByteThierry(sum, b)
  BY <1>3, <1>4 DEF C!Crc16ByteForth, C!Crc16ByteThierry, half
<1> QED BY <1>5, FunctionsAgree DEF C!Crc16Byte

-----------------------------------------------------------------------------
(* Powers of x, divided by the polynomial *)

\* A set of natural numbers that is not empty has a least element.
LEMMA Least ==
  ASSUME NEW S \in SUBSET Nat, S # {}
  PROVE  \E k \in S : \A l \in S : k <= l
<1>1. \E k \in S : \A l \in S : ~(<<l, k>> \in OpToRel(<, Nat))
  BY NatLessThanWellFounded, WFMin
<1>2. PICK k \in S : \A l \in S : ~(<<l, k>> \in OpToRel(<, Nat))
  BY <1>1
<1>3. ASSUME NEW l \in S PROVE k <= l
  <2>1. k \in Nat /\ l \in Nat
    OBVIOUS
  <2>2. ~(l < k)
    BY <1>2, <2>1 DEF OpToRel
  <2>. QED  BY <2>1, <2>2
<1>. QED  BY <1>2, <1>3

\* The degrees of which there are powers.
Top == 8 * MessageLength + 15

\* What Power says of a power and the one before it.
PowerAfter(f, k) ==
  IF k < 16 THEN {k}
  ELSE LET times == {i + 1 : i \in f[k - 1]}
       IN IF 16 \in times THEN C!Xor(times \ {16}, {12, 5, 0}) ELSE times
ArePowers(f, n) == f = [k \in 0..n |-> PowerAfter(f, k)]

LEMMA PowersExist ==
  ASSUME NEW n \in Nat
  PROVE  \E f : ArePowers(f, n)
<1>. DEFINE bad == {m \in Nat : ~\E f : ArePowers(f, m)}
<1>1. SUFFICES ASSUME bad # {} PROVE FALSE
  OBVIOUS
<1>2. PICK m \in bad : \A l \in bad : m <= l
  <2>1. bad \in SUBSET Nat
    OBVIOUS
  <2>. HIDE DEF bad
  <2>. QED  BY <1>1, <2>1, Least
<1>3. CASE m = 0
  <2>. DEFINE v == [k \in 0..0 |-> {k}]
  <2>1. ArePowers(v, 0)
    BY DEF ArePowers, PowerAfter
  <2>. QED  BY <1>3, <2>1
<1>4. CASE m # 0
  <2>1. m - 1 \in Nat /\ m \in Nat /\ m - 1 \notin bad
    BY <1>2, <1>4
  <2>2. PICK f : ArePowers(f, m - 1)
    BY <2>1
  <2>. DEFINE v == [k \in 0..m |-> IF k = m THEN PowerAfter(f, m) ELSE f[k]]
  <2>3. ASSUME NEW k \in 0..m PROVE v[k] = PowerAfter(v, k)
    <3>1. k # 0 => v[k-1] = f[k-1]
      <4>1. k # 0 => k - 1 \in 0..m /\ k - 1 # m
        BY <2>1
      <4>. QED  BY <4>1
    <3>2. PowerAfter(v, k) = PowerAfter(f, k)
      <4>. HIDE DEF v
      <4>1. CASE k = 0
        BY <4>1 DEF PowerAfter
      <4>2. CASE k # 0
        <5>1. v[k-1] = f[k-1]
          BY <3>1, <4>2
        <5>. QED  BY <4>2, <5>1, Zenon DEF PowerAfter
      <4>. QED  BY <4>1, <4>2
    <3>3. CASE k = m
      BY <3>2, <3>3
    <3>4. CASE k # m
      <4>1. k \in 0..(m-1)
        BY <2>1, <3>4
      <4>2. f[k] = PowerAfter(f, k)
        BY <2>2, <4>1 DEF ArePowers
      <4>. QED  BY <3>2, <3>4, <4>2
    <3>. QED  BY <3>3, <3>4
  <2>4. v = [k \in 0..m |-> v[k]]
    OBVIOUS
  <2>5. ArePowers(v, m)
    <3>. HIDE DEF v
    <3>. QED  BY <2>3, <2>4 DEF ArePowers
  <2>. QED  BY <1>2, <2>5
<1>. QED  BY <1>3, <1>4

LEMMA PowerUnfolds ==
  ASSUME MessageLength \in Nat, NEW k \in 0..Top
  PROVE  C!Power[k] = PowerAfter(C!Power, k)
<1>1. Top \in Nat
  BY DEF Top
<1>2. \E f : ArePowers(f, Top)
  BY <1>1, PowersExist
<1>3. C!Power = CHOOSE f : ArePowers(f, Top)
  BY DEF C!Power, ArePowers, PowerAfter, Top
<1>4. ArePowers(C!Power, Top)
  BY <1>2, <1>3
<1>. QED  BY <1>4 DEF ArePowers

\* Times x is one round of the loop.
LEMMA TimesX ==
  ASSUME NEW w \in C!Word
  PROVE  C!Shifted(w) = LET times == {i + 1 : i \in w}
                        IN IF 16 \in times THEN C!Xor(times \ {16}, {12, 5, 0}) ELSE times
<1>. DEFINE times == {i + 1 : i \in w}
<1>1. C!Up(w, 1) = times
  BY DEF C!Up
<1>2. w \in SUBSET (0..15)
  BY DEF C!Word
<1>3. 16 \in times <=> 15 \in w
  <2>1. ASSUME 16 \in times PROVE 15 \in w
    <3>1. PICK i \in w : 16 = i + 1
      BY <2>1
    <3>2. i = 15
      BY <1>2, <3>1
    <3>. QED  BY <3>1, <3>2
  <2>. QED  BY <2>1
<1>4. times \subseteq 1..16
  BY <1>2
<1>5. C!Low(times, 16) = times \ {16}
  <2>. HIDE DEF times
  <2>1. \A i \in times : i < 16 <=> i # 16
    BY <1>4
  <2>. QED  BY <2>1 DEF C!Low
<1>. HIDE DEF times
<1>6. C!Shifted(w) = IF 16 \in times THEN C!Xor(times \ {16}, {12, 5, 0}) ELSE times
  <2>1. CASE 15 \in w
    BY <1>1, <1>3, <1>5, <2>1 DEF C!Shifted, C!Feedback
  <2>2. CASE 15 \notin w
    <3>1. times \ {16} = times
      BY <1>3, <2>2
    <3>. QED  BY <1>1, <1>3, <1>5, <2>2, <3>1 DEF C!Shifted
  <2>. QED  BY <2>1, <2>2
<1>. QED  BY <1>6 DEF times

LEMMA PowersAreWords ==
  ASSUME MessageLength \in Nat
  PROVE  \A k \in 0..Top : C!Power[k] \in C!Word
<1>. DEFINE bad == {k \in 0..Top : C!Power[k] \notin C!Word}
<1>1. SUFFICES ASSUME bad # {} PROVE FALSE
  OBVIOUS
<1>2. PICK k \in bad : \A l \in bad : k <= l
  <2>1. bad \in SUBSET Nat
    OBVIOUS
  <2>. HIDE DEF bad
  <2>. QED  BY <1>1, <2>1, Least
<1>3. k \in 0..Top /\ C!Power[k] = PowerAfter(C!Power, k) /\ Top \in Nat
  BY <1>2, PowerUnfolds DEF Top
<1>4. CASE k < 16
  <2>1. C!Power[k] = {k}
    BY <1>3, <1>4 DEF PowerAfter
  <2>. QED  BY <1>2, <1>3, <1>4, <2>1 DEF C!Word
<1>5. CASE ~(k < 16)
  <2>1. k - 1 \in 0..Top /\ k - 1 \notin bad
    BY <1>2, <1>3, <1>5
  <2>2. C!Power[k - 1] \in C!Word
    BY <2>1
  <2>3. C!Power[k] = C!Shifted(C!Power[k - 1])
    BY <1>3, <1>5, <2>2, TimesX DEF PowerAfter
  <2>. QED  BY <1>2, <2>2, <2>3, ShiftedBit
<1>. QED  BY <1>4, <1>5

LEMMA PowerNext ==
  ASSUME MessageLength \in Nat, NEW k \in 0..Top
  PROVE  /\ C!Power[k] \in C!Word
         /\ k < 16 => C!Power[k] = {k}
         /\ k + 1 \in 0..Top => C!Power[k + 1] = C!Shifted(C!Power[k])
<1>1. C!Power[k] \in C!Word
  BY PowersAreWords
<1>2. k < 16 => C!Power[k] = {k}
  BY PowerUnfolds DEF PowerAfter
<1>3. ASSUME k + 1 \in 0..Top PROVE C!Power[k + 1] = C!Shifted(C!Power[k])
  <2>1. C!Power[k + 1] = PowerAfter(C!Power, k + 1) /\ (k + 1) - 1 = k
    BY <1>3, PowerUnfolds
  <2>2. CASE k + 1 < 16
    <3>1. C!Power[k] = {k} /\ C!Power[k + 1] = {k + 1}
      BY <1>2, <2>1, <2>2 DEF PowerAfter
    <3>2. {i + 1 : i \in {k}} = {k + 1} /\ 16 \notin {k + 1}
      BY <2>2
    <3>. QED  BY <1>1, <3>1, <3>2, TimesX
  <2>3. CASE ~(k + 1 < 16)
    BY <1>1, <2>1, <2>3, TimesX DEF PowerAfter
  <2>. QED  BY <2>2, <2>3
<1>. QED  BY <1>1, <1>2, <1>3

-----------------------------------------------------------------------------
(* Remainders *)

Odd(S) == Cardinality(S) % 2 = 1

LEMMA OddXor ==
  ASSUME NEW A, NEW B, IsFiniteSet(A), IsFiniteSet(B)
  PROVE  IsFiniteSet(C!Xor(A, B)) /\ (Odd(C!Xor(A, B)) <=> (Odd(A) <=> ~Odd(B)))
<1>. DEFINE a == Cardinality(A)
            b == Cardinality(B)
            both == Cardinality(A \cap B)
<1>1. a \in Nat /\ b \in Nat
  BY FS_CardinalityType
<1>2. B \cap A = A \cap B /\ IsFiniteSet(A \cap B) /\ both \in Nat
  <2>1. IsFiniteSet(A \cap B)
    BY FS_Intersection
  <2>. QED  BY <2>1, FS_CardinalityType
<1>3. /\ IsFiniteSet((A \ B) \cup (B \ A))
      /\ Cardinality((A \ B) \cup (B \ A)) = (a - both) + (b - both)
  <2>1. IsFiniteSet(A \ B) /\ Cardinality(A \ B) = a - both
    BY FS_Difference
  <2>2. IsFiniteSet(B \ A) /\ Cardinality(B \ A) = b - both
    <3>1. IsFiniteSet(B \ A) /\ Cardinality(B \ A) = Cardinality(B) - Cardinality(B \cap A)
      BY FS_Difference
    <3>. QED  BY <1>2, <3>1
  <2>3. (A \ B) \cap (B \ A) = {}
    OBVIOUS
  <2>4. Cardinality((A \ B) \cap (B \ A)) = 0
    BY <2>3, FS_EmptySet
  <2>. DEFINE x == A \ B
              y == B \ A
  <2>5. /\ IsFiniteSet(x) /\ IsFiniteSet(y) /\ Cardinality(x) = a - both
        /\ Cardinality(y) = b - both /\ Cardinality(x \cap y) = 0
    BY <2>1, <2>2, <2>4
  <2>. HIDE DEF x, y, a, b, both
  <2>6. /\ IsFiniteSet(x \cup y)
        /\ Cardinality(x \cup y) = Cardinality(x) + Cardinality(y) - Cardinality(x \cap y)
    BY <2>5, FS_Union
  <2>7. Cardinality(x \cup y) = (a - both) + (b - both)
    BY <1>1, <1>2, <2>5, <2>6
  <2>. QED  BY <2>6, <2>7 DEF x, y
<1>4. C!Xor(A, B) = (A \ B) \cup (B \ A)
  BY DEF C!Xor
<1>. HIDE DEF a, b, both
<1>5. ((a - both) + (b - both)) % 2 = 1 <=> ((a % 2 = 1) <=> ~(b % 2 = 1))
  BY <1>1, <1>2
<1>. QED  BY <1>3, <1>4, <1>5 DEF Odd, a, b

LEMMA OddUp ==
  ASSUME NEW p \in SUBSET Nat, IsFiniteSet(p), NEW n \in Nat
  PROVE  IsFiniteSet(C!Up(p, n)) /\ (Odd(C!Up(p, n)) <=> Odd(p))
<1>. DEFINE f == [i \in p |-> i + n]
            q == C!Up(p, n)
<1>1. f \in [p -> q] /\ \A i, j \in p : f[i] = f[j] => i = j
  BY DEF C!Up
<1>2. \A j \in q : \E i \in p : f[i] = j
  BY DEF C!Up
<1>3. f \in Bijection(p, q)
  <2>. HIDE DEF f, q
  <2>. QED  BY <1>1, <1>2, Fun_IsBij
<1>4. ExistsBijection(p, q)
  BY <1>3, Fun_ExistsBij
<1>. QED  BY <1>4, FS_Bijection DEF Odd

LEMMA RemainderBit ==
  ASSUME NEW p
  PROVE  /\ C!Remainder(p) \in C!Word
         /\ \A i \in 0..15 : i \in C!Remainder(p) <=> Odd(C!WithBit(p, i))
<1>1. \A S : C!Cardinality(S) = Cardinality(S)
  BY DEF C!Cardinality, Cardinality
<1>2. C!Remainder(p) = {i \in 0..15 : Odd(C!WithBit(p, i))}
  BY <1>1 DEF C!Remainder, Odd
<1>. QED  BY <1>2 DEF C!Word

LEMMA FiniteDegrees ==
  ASSUME MessageLength \in Nat, NEW p \in SUBSET (0..Top)
  PROVE  p \in SUBSET Nat /\ IsFiniteSet(p) /\ \A i : IsFiniteSet(C!WithBit(p, i))
<1>1. IsFiniteSet(0..Top)
  <2>1. Top \in Int /\ 0 \in Int
    BY DEF Top
  <2>. QED  BY <2>1, FS_Interval
<1>2. IsFiniteSet(p)
  BY <1>1, FS_Subset
<1>. QED  BY <1>2, FS_Subset DEF C!WithBit

\* Division is linear.
LEMMA RemainderXor ==
  ASSUME MessageLength \in Nat, NEW p \in SUBSET (0..Top), NEW q \in SUBSET (0..Top)
  PROVE  C!Remainder(C!Xor(p, q)) = C!Xor(C!Remainder(p), C!Remainder(q))
<1>1. ASSUME NEW i \in 0..15
      PROVE  i \in C!Remainder(C!Xor(p, q)) <=> i \in C!Xor(C!Remainder(p), C!Remainder(q))
  <2>1. C!WithBit(C!Xor(p, q), i) = C!Xor(C!WithBit(p, i), C!WithBit(q, i))
    BY DEF C!WithBit, C!Xor
  <2>2. Odd(C!Xor(C!WithBit(p, i), C!WithBit(q, i))) <=> (Odd(C!WithBit(p, i)) <=> ~Odd(C!WithBit(q, i)))
    BY FiniteDegrees, OddXor
  <2>. QED  BY <2>1, <2>2, RemainderBit, XorBit
<1>2. C!Xor(C!Remainder(p), C!Remainder(q)) \in C!Word
  BY RemainderBit DEF C!Xor, C!Word
<1>. QED  BY <1>1, <1>2, RemainderBit, WordBits

\* What has no term of a degree above 15 is its own remainder.
LEMMA RemainderOfWord ==
  ASSUME MessageLength \in Nat, NEW p \in C!Word
  PROVE  p \in SUBSET (0..Top) /\ C!Remainder(p) = p
<1>1. p \in SUBSET (0..15) /\ Top \in Nat /\ 15 <= Top
  BY DEF C!Word, Top
<1>2. \A n \in p : C!Power[n] = {n}
  <2>1. \A n \in p : n \in 0..Top /\ n < 16
    BY <1>1
  <2>. QED  BY <2>1, PowerNext
<1>3. ASSUME NEW i \in 0..15 PROVE i \in C!Remainder(p) <=> i \in p
  <2>1. CASE i \in p
    <3>1. C!WithBit(p, i) = {i}
      <4>1. \A n \in p : i \in C!Power[n] <=> n = i
        BY <1>2
      <4>. QED  BY <2>1, <4>1 DEF C!WithBit
    <3>2. Odd(C!WithBit(p, i))
      BY <3>1, FS_Singleton DEF Odd
    <3>. QED  BY <2>1, <3>2, RemainderBit
  <2>2. CASE i \notin p
    <3>1. C!WithBit(p, i) = {}
      BY <1>2, <2>2 DEF C!WithBit
    <3>2. ~Odd(C!WithBit(p, i))
      BY <3>1, FS_EmptySet DEF Odd
    <3>. QED  BY <2>2, <3>2, RemainderBit
  <2>. QED  BY <2>1, <2>2
<1>4. p \in SUBSET (0..Top)
  BY <1>1
<1>. QED  BY <1>3, <1>4, RemainderBit, WordBits

\* Times x, the remainder is what one round of the loop makes of it.
LEMMA RemainderUp ==
  ASSUME MessageLength \in Nat, NEW p \in SUBSET (0..Top), C!Up(p, 1) \subseteq 0..Top
  PROVE  C!Remainder(C!Up(p, 1)) = C!Shifted(C!Remainder(p))
<1>. DEFINE q == C!Up(p, 1)
            bitBefore(i) == {n \in p : i \in C!Power[n + 1]}
<1>1. p \in SUBSET Nat /\ p \in SUBSET Int /\ IsFiniteSet(p)
      /\ \A i : IsFiniteSet(C!WithBit(p, i))
  BY FiniteDegrees
<1>2. \A n \in p : n \in 0..Top /\ n + 1 \in 0..Top
  BY DEF C!Up
<1>3. ASSUME NEW i \in 0..15
      PROVE  Odd(C!WithBit(q, i)) <=> Odd(bitBefore(i))
  <2>1. C!WithBit(q, i) = C!Up(bitBefore(i), 1)
    <3>1. ASSUME NEW m \in C!WithBit(q, i) PROVE m \in C!Up(bitBefore(i), 1)
      <4>1. PICK n \in p : m = n + 1
        BY DEF C!WithBit, C!Up
      <4>. QED  BY <4>1 DEF C!WithBit, C!Up
    <3>2. ASSUME NEW m \in C!Up(bitBefore(i), 1) PROVE m \in C!WithBit(q, i)
      BY DEF C!WithBit, C!Up
    <3>. QED  BY <3>1, <3>2
  <2>2. bitBefore(i) \in SUBSET Nat /\ IsFiniteSet(bitBefore(i))
    BY <1>1, FS_Subset
  <2>. HIDE DEF q, bitBefore
  <2>. QED  BY <2>1, <2>2, OddUp
<1>4. ASSUME NEW i \in 0..15, NEW n \in p
      PROVE  i \in C!Power[n + 1] <=>
               (i - 1 \in C!Power[n] <=> ~(15 \in C!Power[n] /\ i \in {12, 5, 0}))
  <2>1. C!Power[n] \in C!Word /\ C!Power[n + 1] = C!Shifted(C!Power[n])
    BY <1>2, PowerNext
  <2>. QED  BY <2>1, ShiftedBit
<1>5. ASSUME NEW i \in 0..15
      PROVE  Odd(bitBefore(i)) <=> (Odd(C!WithBit(p, i - 1))
                                   <=> ~(Odd(C!WithBit(p, 15)) /\ i \in {12, 5, 0}))
  <2>1. CASE i \in {12, 5, 0}
    <3>1. bitBefore(i) = C!Xor(C!WithBit(p, i - 1), C!WithBit(p, 15))
      BY <1>4, <2>1 DEF C!WithBit, C!Xor
    <3>2. IsFiniteSet(C!WithBit(p, i - 1)) /\ IsFiniteSet(C!WithBit(p, 15))
      BY <1>1
    <3>3. Odd(bitBefore(i)) <=> (Odd(C!WithBit(p, i - 1)) <=> ~Odd(C!WithBit(p, 15)))
      <4>. HIDE DEF bitBefore
      <4>. QED  BY <3>1, <3>2, OddXor
    <3>. QED  BY <2>1, <3>3
  <2>2. CASE i \notin {12, 5, 0}
    <3>1. bitBefore(i) = C!WithBit(p, i - 1)
      BY <1>4, <2>2 DEF C!WithBit
    <3>. QED  BY <2>2, <3>1
  <2>. QED  BY <2>1, <2>2
<1>6. ~Odd(C!WithBit(p, -1))
  <2>1. ASSUME NEW n \in p PROVE -1 \notin C!Power[n]
    <3>1. C!Power[n] \in C!Word
      BY <1>2, PowerNext
    <3>2. -1 \notin 0..15
      OBVIOUS
    <3>. QED  BY <3>1, <3>2 DEF C!Word
  <2>2. C!WithBit(p, -1) = {}
    BY <2>1 DEF C!WithBit
  <2>. QED  BY <2>2, FS_EmptySet DEF Odd
<1>7. ASSUME NEW i \in 0..15
      PROVE  i - 1 \in C!Remainder(p) <=> Odd(C!WithBit(p, i - 1))
  <2>1. CASE i = 0
    <3>1. -1 \notin C!Remainder(p)
      BY RemainderBit DEF C!Word
    <3>. QED  BY <1>6, <2>1, <3>1
  <2>2. CASE i # 0
    <3>1. i - 1 \in 0..15
      BY <2>2
    <3>. QED  BY <3>1, RemainderBit
  <2>. QED  BY <2>1, <2>2
<1>. HIDE DEF bitBefore, q
<1>8. ASSUME NEW i \in 0..15
      PROVE  i \in C!Remainder(q) <=> i \in C!Shifted(C!Remainder(p))
  <2>1. i \in C!Remainder(q) <=> Odd(bitBefore(i))
    BY <1>3, RemainderBit
  <2>2. Odd(bitBefore(i)) <=> (i - 1 \in C!Remainder(p)
                              <=> ~(15 \in C!Remainder(p) /\ i \in {12, 5, 0}))
    BY <1>5, <1>7, RemainderBit
  <2>3. C!Remainder(p) \in C!Word
    BY RemainderBit
  <2>. QED  BY <2>1, <2>2, <2>3, ShiftedBit
<1>9. C!Remainder(q) \in C!Word /\ C!Shifted(C!Remainder(p)) \in C!Word
  BY RemainderBit, ShiftedBit
<1>. QED  BY <1>8, <1>9, WordBits DEF q

\* Shifts add up, and move what is added.
LEMMA UpTwice ==
  ASSUME NEW p \in SUBSET Nat, NEW m \in Nat, NEW n \in Nat
  PROVE  C!Up(C!Up(p, m), n) = C!Up(p, m + n)
<1>1. ASSUME NEW x \in C!Up(C!Up(p, m), n) PROVE x \in C!Up(p, m + n)
  <2>1. PICK i \in p : x = (i + m) + n
    BY DEF C!Up
  <2>2. x = i + (m + n)
    BY <2>1
  <2>. QED  BY <2>2 DEF C!Up
<1>2. ASSUME NEW x \in C!Up(p, m + n) PROVE x \in C!Up(C!Up(p, m), n)
  <2>1. PICK i \in p : x = i + (m + n)
    BY DEF C!Up
  <2>2. x = (i + m) + n
    BY <2>1
  <2>. QED  BY <2>2 DEF C!Up
<1>. QED  BY <1>1, <1>2

LEMMA UpXor ==
  ASSUME NEW p \in SUBSET Nat, NEW q \in SUBSET Nat, NEW n \in Nat
  PROVE  C!Up(C!Xor(p, q), n) = C!Xor(C!Up(p, n), C!Up(q, n))
<1>. DEFINE both == C!Xor(p, q)
<1>1. p \in SUBSET Int /\ q \in SUBSET Int /\ both \in SUBSET Int
  BY DEF C!Xor
<1>2. \A i \in Int : (i \in C!Up(both, n)) <=> (i - n \in both)
  <2>. HIDE DEF both
  <2>. QED  BY <1>1, UpBit
<1>3. \A i \in Int : /\ (i \in C!Up(p, n)) <=> (i - n \in p)
                     /\ (i \in C!Up(q, n)) <=> (i - n \in q)
  BY <1>1, UpBit
<1>4. C!Up(both, n) \subseteq Int /\ C!Xor(C!Up(p, n), C!Up(q, n)) \subseteq Int
  BY <1>1 DEF C!Up, C!Xor
<1>5. ASSUME NEW i \in Int
      PROVE  i \in C!Up(both, n) <=> i \in C!Xor(C!Up(p, n), C!Up(q, n))
  BY <1>2, <1>3, XorBit
<1>. QED  BY <1>4, <1>5

\* Times x^8: the eight rounds of the loop.
LEMMA RemainderUp8 ==
  ASSUME MessageLength \in Nat, NEW p \in SUBSET Nat, C!Up(p, 8) \subseteq 0..Top
  PROVE  LET two(w) == C!Shifted(C!Shifted(w))
             four(w) == two(two(w))
         IN C!Remainder(C!Up(p, 8)) = four(four(C!Remainder(p)))
<1>1. Top \in Nat /\ \A n \in p : n \in Nat /\ n + 8 \in 0..Top
  <2>1. Top \in Nat
    BY DEF Top
  <2>2. \A n \in p : n + 8 \in C!Up(p, 8)
    BY DEF C!Up
  <2>. QED  BY <2>1, <2>2
<1>2. ASSUME NEW k \in 0..8 PROVE C!Up(p, k) \in SUBSET (0..Top)
  <2>1. \A n \in p : n + k \in 0..Top
    BY <1>1
  <2>. QED  BY <2>1 DEF C!Up
<1>3. C!Up(p, 0) = p
  <2>1. \A n \in p : n + 0 = n
    BY <1>1
  <2>. QED  BY <2>1 DEF C!Up
<1>4. ASSUME NEW k \in 0..7
      PROVE  C!Remainder(C!Up(p, k + 1)) = C!Shifted(C!Remainder(C!Up(p, k)))
  <2>1. k \in 0..8 /\ k + 1 \in 0..8 /\ k \in Nat /\ 1 \in Nat
    OBVIOUS
  <2>2. C!Up(C!Up(p, k), 1) = C!Up(p, k + 1)
    BY <2>1, UpTwice
  <2>3. C!Up(p, k) \in SUBSET (0..Top) /\ C!Up(p, k + 1) \in SUBSET (0..Top)
    BY <1>2, <2>1
  <2>. QED  BY <2>2, <2>3, RemainderUp
<1>. DEFINE r(k) == C!Remainder(C!Up(p, k))
<1>5. \A k \in 0..7 : r(k + 1) = C!Shifted(r(k))
  BY <1>4
<1>6. r(0) = C!Remainder(p)
  BY <1>3
<1>. HIDE DEF r
<1>7. /\ r(0+1) = C!Shifted(r(0)) /\ r(1+1) = C!Shifted(r(1))
      /\ r(2+1) = C!Shifted(r(2)) /\ r(3+1) = C!Shifted(r(3))
      /\ r(4+1) = C!Shifted(r(4)) /\ r(5+1) = C!Shifted(r(5))
      /\ r(6+1) = C!Shifted(r(6)) /\ r(7+1) = C!Shifted(r(7))
  BY <1>5
<1>8. r(8) = C!Shifted(C!Shifted(C!Shifted(C!Shifted(
               C!Shifted(C!Shifted(C!Shifted(C!Shifted(r(0)))))))))
  BY <1>7
<1>. QED  BY <1>6, <1>8 DEF r

-----------------------------------------------------------------------------
(* Messages *)

Bytes == SUBSET (0..7)

\* The polynomial of any message m and start s.
BitsIn(m) == UNION {{8 * (Len(m) - k) + i + 16 : i \in m[k]} : k \in 1..Len(m)}
PolynomialOf(m, s) == C!Xor(BitsIn(m), C!Up(s, 8 * Len(m)))

\* A byte summed by the loop.
LEMMA ByteSummed ==
  ASSUME MessageLength \in Nat, NEW p \in SUBSET (0..Top), NEW b \in Bytes,
         C!Up(p, 8) \subseteq 0..Top, C!Up(b, 16) \subseteq 0..Top
  PROVE  C!Remainder(C!Xor(C!Up(p, 8), C!Up(b, 16))) = C!Crc16ByteXmodem(C!Remainder(p), b)
<1>. DEFINE q == C!Up(b, 8)
            both == C!Xor(p, q)
<1>1. b \in SUBSET Nat /\ p \in SUBSET Nat /\ Top \in Nat
  BY DEF Bytes, Top
<1>2. q \in C!Word /\ q \in SUBSET Nat
  <2>1. \A n \in b : n + 8 \in 0..15
    BY DEF Bytes
  <2>2. C!Up(b, 8) \subseteq 0..15
    BY <2>1 DEF C!Up
  <2>. QED  BY <2>2 DEF C!Word
<1>3. C!Up(q, 8) = C!Up(b, 16)
  BY <1>1, UpTwice
<1>. HIDE DEF q
<1>4. C!Xor(C!Up(p, 8), C!Up(b, 16)) = C!Up(both, 8) /\ both \in SUBSET Nat
  BY <1>1, <1>2, <1>3, UpXor DEF C!Xor
<1>5. C!Up(both, 8) \subseteq 0..Top
  BY <1>4 DEF C!Xor
<1>6. q \in SUBSET (0..Top) /\ C!Remainder(q) = q
  BY <1>2, RemainderOfWord
<1>7. C!Remainder(both) = C!Xor(C!Remainder(p), q)
  BY <1>6, RemainderXor
<1>. HIDE DEF both
<1>8. C!Remainder(C!Up(both, 8)) = C!Crc16ByteXmodem(C!Remainder(p), b)
  BY <1>4, <1>5, <1>7, RemainderUp8 DEF C!Crc16ByteXmodem, q
<1>. QED  BY <1>4, <1>8

\* The first byte of a message has the highest degrees.
LEMMA BitIn ==
  ASSUME NEW m \in Seq(Bytes), NEW x
  PROVE  x \in BitsIn(m) <=> \E k \in 1..Len(m) : \E i \in m[k] : x = 8 * (Len(m) - k) + i + 16
BY DEF BitsIn

LEMMA PolynomialDegrees ==
  ASSUME MessageLength \in Nat, NEW m \in Seq(Bytes), Len(m) <= MessageLength, NEW s \in C!Word
  PROVE  /\ BitsIn(m) \in SUBSET Nat /\ C!Up(s, 8 * Len(m)) \in SUBSET Nat
         /\ PolynomialOf(m, s) \in SUBSET (0..(8 * Len(m) + 15))
         /\ PolynomialOf(m, s) \in SUBSET (0..Top)
<1>. DEFINE n == Len(m)
<1>1. n \in Nat /\ n <= MessageLength
  OBVIOUS
<1>2. ASSUME NEW x \in BitsIn(m) PROVE x \in 0..(8 * n + 15)
  <2>1. PICK k \in 1..n : \E i \in m[k] : x = 8 * (n - k) + i + 16
    BY BitIn
  <2>2. PICK i \in m[k] : x = 8 * (n - k) + i + 16
    BY <2>1
  <2>3. i \in 0..7 /\ k \in 1..n
    BY DEF Bytes
  <2>. HIDE DEF n
  <2>. QED  BY <1>1, <2>2, <2>3
<1>3. ASSUME NEW x \in C!Up(s, 8 * n) PROVE x \in 0..(8 * n + 15)
  <2>1. PICK i \in s : x = i + 8 * n
    BY DEF C!Up
  <2>2. i \in 0..15
    BY DEF C!Word
  <2>. HIDE DEF n
  <2>. QED  BY <1>1, <2>1, <2>2
<1>. HIDE DEF n
<1>4. \A x \in 0..(8 * n + 15) : x \in Nat /\ x \in 0..Top
  BY <1>1 DEF Top
<1>. QED  BY <1>2, <1>3, <1>4 DEF PolynomialOf, C!Xor, n

\* A byte is appended.
LEMMA PolynomialGrows ==
  ASSUME MessageLength \in Nat, NEW m \in Seq(Bytes), Len(m) < MessageLength,
         NEW s \in C!Word, NEW b \in Bytes
  PROVE  PolynomialOf(Append(m, b), s) = C!Xor(C!Up(PolynomialOf(m, s), 8), C!Up(b, 16))
<1>. DEFINE e == Append(m, b)
            n == Len(m)
            old == C!Up(BitsIn(m), 8)
            new == C!Up(b, 16)
            front == C!Up(C!Up(s, 8 * n), 8)
<1>1. /\ n \in Nat /\ e \in Seq(Bytes) /\ Len(e) = n + 1 /\ e[n + 1] = b
      /\ \A k \in 1..n : e[k] = m[k]
  OBVIOUS
<1>2. BitsIn(e) = old \cup new
  <2>. HIDE DEF e, n
  <2>1. ASSUME NEW x \in BitsIn(e) PROVE x \in old \cup new
    <3>1. PICK k \in 1..(n + 1) : \E i \in e[k] : x = 8 * ((n + 1) - k) + i + 16
      BY <1>1, BitIn
    <3>2. PICK i \in e[k] : x = 8 * ((n + 1) - k) + i + 16
      BY <3>1
    <3>3. e[k] \in Bytes /\ i \in 0..7
      BY <1>1 DEF Bytes
    <3>4. CASE k = n + 1
      <4>1. i \in b /\ x = i + 16
        BY <1>1, <3>2, <3>3, <3>4
      <4>. QED  BY <4>1 DEF C!Up
    <3>5. CASE k # n + 1
      <4>1. k \in 1..n /\ i \in m[k]
        BY <1>1, <3>5
      <4>2. 8 * (n - k) + i + 16 \in BitsIn(m)
        BY <4>1, BitIn DEF n
      <4>3. x = (8 * (n - k) + i + 16) + 8
        BY <1>1, <3>2, <3>3, <4>1
      <4>. QED  BY <4>2, <4>3 DEF C!Up
    <3>. QED  BY <3>4, <3>5
  <2>2. ASSUME NEW x \in old PROVE x \in BitsIn(e)
    <3>1. PICK y \in BitsIn(m) : x = y + 8
      BY DEF C!Up
    <3>2. PICK k \in 1..n : \E i \in m[k] : y = 8 * (n - k) + i + 16
      BY BitIn DEF n
    <3>3. PICK i \in m[k] : y = 8 * (n - k) + i + 16
      BY <3>2
    <3>4. m[k] \in Bytes /\ i \in 0..7 /\ k \in 1..(n + 1) /\ i \in e[k]
      BY <1>1 DEF Bytes, n
    <3>5. x = 8 * (Len(e) - k) + i + 16
      BY <1>1, <3>1, <3>3, <3>4
    <3>. QED  BY <1>1, <3>4, <3>5, BitIn
  <2>3. ASSUME NEW x \in new PROVE x \in BitsIn(e)
    <3>1. PICK i \in b : x = i + 16
      BY DEF C!Up
    <3>2. i \in 0..7 /\ i \in e[n + 1] /\ n + 1 \in 1..Len(e)
      BY <1>1 DEF Bytes
    <3>3. x = 8 * (Len(e) - (n + 1)) + i + 16
      BY <1>1, <3>1, <3>2
    <3>. QED  BY <1>1, <3>2, <3>3, BitIn
  <2>. QED  BY <2>1, <2>2, <2>3
<1>3. old \cap new = {}
  <2>. HIDE DEF n, e
  <2>1. ASSUME NEW x \in old PROVE x \notin new
    <3>1. PICK y \in BitsIn(m) : x = y + 8
      BY DEF C!Up
    <3>2. PICK k \in 1..n : \E i \in m[k] : y = 8 * (n - k) + i + 16
      BY BitIn DEF n
    <3>3. PICK i \in m[k] : y = 8 * (n - k) + i + 16
      BY <3>2
    <3>4. m[k] \in Bytes /\ i \in 0..7
      BY DEF Bytes, n
    <3>5. x \in Int /\ x >= 24
      <4>1. n - k \in Nat /\ i \in Nat
        BY <1>1, <3>4
      <4>2. x = (8 * (n - k) + i + 16) + 8
        BY <3>1, <3>3
      <4>. HIDE DEF old
      <4>. QED  BY <4>1, <4>2
    <3>6. \A j \in b : j + 16 < 24
      BY DEF Bytes
    <3>. QED  BY <3>5, <3>6 DEF C!Up
  <2>. QED  BY <2>1
<1>4. C!Up(s, 8 * Len(e)) = front
  <2>1. s \in SUBSET Nat
    BY DEF C!Word
  <2>2. 8 * Len(e) = 8 * n + 8 /\ 8 * n \in Nat
    BY <1>1
  <2>. HIDE DEF n, e
  <2>. QED  BY <2>1, <2>2, UpTwice
<1>5. C!Up(PolynomialOf(m, s), 8) = C!Xor(old, front)
  <2>1. BitsIn(m) \in SUBSET Nat /\ C!Up(s, 8 * n) \in SUBSET Nat
    BY PolynomialDegrees
  <2>. QED  BY <2>1, UpXor DEF PolynomialOf
<1>6. PolynomialOf(e, s) = C!Xor(old \cup new, front)
  BY <1>2, <1>4 DEF PolynomialOf
<1>. HIDE DEF old, new, front, e
<1>7. C!Xor(old \cup new, front) = C!Xor(C!Xor(old, front), new)
  BY <1>3 DEF C!Xor
<1>. QED  BY <1>5, <1>6, <1>7 DEF e, new

\* So a call for one byte, whichever function it is, appends the byte.
LEMMA ByteAppended ==
  ASSUME MessageLength \in Nat, NEW m \in Seq(Bytes), Len(m) < MessageLength,
         NEW s \in C!Word, NEW b \in Bytes
  PROVE  LET after == C!Remainder(PolynomialOf(Append(m, b), s))
             sum == C!Remainder(PolynomialOf(m, s))
         IN /\ after = C!Crc16Byte(sum, b) /\ after = C!Crc16ByteForth(sum, b)
            /\ sum \in C!Word
<1>. DEFINE p == PolynomialOf(m, s)
<1>1. Len(m) \in Nat /\ Len(m) <= MessageLength
  OBVIOUS
<1>2. p \in SUBSET (0..(8 * Len(m) + 15)) /\ p \in SUBSET (0..Top)
  BY <1>1, PolynomialDegrees
<1>3. PolynomialOf(Append(m, b), s) = C!Xor(C!Up(p, 8), C!Up(b, 16))
  BY PolynomialGrows
<1>. HIDE DEF p
<1>4. C!Up(p, 8) \subseteq 0..Top
  <2>1. \A n \in p : n + 8 \in 0..Top
    BY <1>1, <1>2 DEF Top
  <2>. QED  BY <2>1 DEF C!Up
<1>5. C!Up(b, 16) \subseteq 0..Top
  <2>1. \A n \in b : n + 16 \in 0..Top
    BY <1>1 DEF Top, Bytes
  <2>. QED  BY <2>1 DEF C!Up
<1>6. C!Remainder(C!Xor(C!Up(p, 8), C!Up(b, 16))) = C!Crc16ByteXmodem(C!Remainder(p), b)
  BY <1>2, <1>4, <1>5, ByteSummed
<1>7. C!Remainder(p) \in C!Word
  BY RemainderBit
<1>8. /\ C!Crc16Byte(C!Remainder(p), b) = C!Crc16ByteXmodem(C!Remainder(p), b)
      /\ C!Crc16ByteForth(C!Remainder(p), b) = C!Crc16Byte(C!Remainder(p), b)
  BY <1>7, FunctionsAgree, AnyFunction DEF Bytes, C!Crc16Byte
<1>. QED  BY <1>3, <1>6, <1>7, <1>8 DEF p

-----------------------------------------------------------------------------
(* Buffers *)

\* The sums after each byte of a buffer, as Crc16Buf has them.
SumAfter(f, sum, p, i) == IF i = 0 THEN sum ELSE C!Crc16Byte(f[i - 1], p[i])
AreSums(f, sum, p, n) == f = [i \in 0..n |-> SumAfter(f, sum, p, i)]

LEMMA SumsExist ==
  ASSUME NEW n \in Nat, NEW sum, NEW p
  PROVE  \E f : AreSums(f, sum, p, n)
<1>. DEFINE bad == {m \in Nat : ~\E f : AreSums(f, sum, p, m)}
<1>1. SUFFICES ASSUME bad # {} PROVE FALSE
  OBVIOUS
<1>2. PICK m \in bad : \A l \in bad : m <= l
  <2>1. bad \in SUBSET Nat
    OBVIOUS
  <2>. HIDE DEF bad
  <2>. QED  BY <1>1, <2>1, Least
<1>3. CASE m = 0
  <2>. DEFINE v == [k \in 0..0 |-> sum]
  <2>1. AreSums(v, sum, p, 0)
    BY DEF AreSums, SumAfter
  <2>. QED  BY <1>3, <2>1
<1>4. CASE m # 0
  <2>1. m - 1 \in Nat /\ m \in Nat /\ m - 1 \notin bad
    BY <1>2, <1>4
  <2>2. PICK f : AreSums(f, sum, p, m - 1)
    BY <2>1
  <2>. DEFINE v == [k \in 0..m |-> IF k = m THEN SumAfter(f, sum, p, m) ELSE f[k]]
  <2>3. ASSUME NEW k \in 0..m PROVE v[k] = SumAfter(v, sum, p, k)
    <3>1. k # 0 => v[k-1] = f[k-1]
      BY <2>1
    <3>2. SumAfter(v, sum, p, k) = SumAfter(f, sum, p, k)
      <4>. HIDE DEF v
      <4>. QED  BY <3>1 DEF SumAfter
    <3>3. CASE k = m
      BY <3>2, <3>3
    <3>4. CASE k # m
      <4>1. k \in 0..(m-1)
        BY <2>1, <3>4
      <4>2. f[k] = SumAfter(f, sum, p, k)
        BY <2>2, <4>1 DEF AreSums
      <4>. QED  BY <3>2, <3>4, <4>2
    <3>. QED  BY <3>3, <3>4
  <2>4. v = [k \in 0..m |-> v[k]]
    OBVIOUS
  <2>5. AreSums(v, sum, p, m)
    <3>. HIDE DEF v
    <3>. QED  BY <2>3, <2>4 DEF AreSums
  <2>. QED  BY <1>2, <2>5
<1>. QED  BY <1>3, <1>4

LEMMA BufferUnfolds ==
  ASSUME NEW sum, NEW p, Len(p) \in Nat
  PROVE  \E f : AreSums(f, sum, p, Len(p)) /\ C!Crc16Buf(sum, p) = f[Len(p)]
<1>1. \E f : AreSums(f, sum, p, Len(p))
  BY SumsExist
<1>2. C!Crc16Buf(sum, p) = (CHOOSE f : AreSums(f, sum, p, Len(p)))[Len(p)]
  BY DEF C!Crc16Buf, AreSums, SumAfter
<1>. QED  BY <1>1, <1>2

\* The message when i bytes of the buffer are summed.
Prefix(m, p, i) == [k \in 1..(Len(m) + i) |-> IF k <= Len(m) THEN m[k] ELSE p[k - Len(m)]]

LEMMA PrefixGrows ==
  ASSUME NEW m \in Seq(Bytes), NEW p \in Seq(Bytes)
  PROVE  /\ Prefix(m, p, 0) = m /\ Prefix(m, p, Len(p)) = m \o p
         /\ \A i \in 0..Len(p) : Prefix(m, p, i) \in Seq(Bytes) /\ Len(Prefix(m, p, i)) = Len(m) + i
         /\ \A i \in 1..Len(p) : Prefix(m, p, i) = Append(Prefix(m, p, i - 1), p[i])
<1>1. Len(m) \in Nat /\ Len(p) \in Nat
  OBVIOUS
<1>2. ASSUME NEW i \in 0..Len(p)
      PROVE  Prefix(m, p, i) \in Seq(Bytes) /\ Len(Prefix(m, p, i)) = Len(m) + i
  <2>1. Len(m) + i \in Nat
    BY <1>1
  <2>2. ASSUME NEW k \in 1..(Len(m) + i)
        PROVE  (IF k <= Len(m) THEN m[k] ELSE p[k - Len(m)]) \in Bytes
    <3>1. CASE k <= Len(m)
      BY <3>1, <1>1
    <3>2. CASE ~(k <= Len(m))
      <4>1. k - Len(m) \in 1..Len(p)
        BY <3>2, <1>1
      <4>. QED  BY <3>2, <4>1
    <3>. QED  BY <3>1, <3>2
  <2>. QED  BY <2>1, <2>2 DEF Prefix
<1>3. Prefix(m, p, 0) = m
  BY <1>1 DEF Prefix
<1>4. Prefix(m, p, Len(p)) = m \o p
  <2>1. Prefix(m, p, Len(p)) \in Seq(Bytes) /\ Len(Prefix(m, p, Len(p))) = Len(m \o p)
    BY <1>1, <1>2
  <2>2. m \o p \in Seq(Bytes) /\ Len(m \o p) = Len(m) + Len(p)
    OBVIOUS
  <2>3. ASSUME NEW k \in 1..(Len(m) + Len(p)) PROVE Prefix(m, p, Len(p))[k] = (m \o p)[k]
    BY <1>1 DEF Prefix
  <2>. QED  BY <2>1, <2>2, <2>3, SeqEqual
<1>5. ASSUME NEW i \in 1..Len(p)
      PROVE  Prefix(m, p, i) = Append(Prefix(m, p, i - 1), p[i])
  <2>. DEFINE q == Prefix(m, p, i - 1)
  <2>1. /\ i \in 0..Len(p) /\ i - 1 \in 0..Len(p) /\ p[i] \in Bytes
        /\ Len(m) + (i - 1) + 1 = Len(m) + i
    BY <1>1
  <2>2. q \in Seq(Bytes) /\ Len(q) = Len(m) + (i - 1)
    BY <1>2, <2>1
  <2>3. Append(q, p[i]) \in Seq(Bytes) /\ Len(Append(q, p[i])) = Len(m) + i
    <3>. HIDE DEF q
    <3>. QED  BY <2>1, <2>2, <1>1
  <2>4. Prefix(m, p, i) \in Seq(Bytes) /\ Len(Prefix(m, p, i)) = Len(m) + i
    BY <1>2, <2>1
  <2>5. ASSUME NEW k \in 1..(Len(m) + i) PROVE Prefix(m, p, i)[k] = Append(q, p[i])[k]
    <3>1. Prefix(m, p, i)[k] = IF k <= Len(m) THEN m[k] ELSE p[k - Len(m)]
      BY <1>1 DEF Prefix
    <3>2. CASE k = Len(m) + i
      <4>1. Append(q, p[i])[k] = p[i]
        <5>. HIDE DEF q
        <5>. QED  BY <3>2, <2>1, <2>2, <1>1
      <4>2. ~(k <= Len(m)) /\ k - Len(m) = i
        BY <3>2, <1>1
      <4>. QED  BY <3>1, <4>1, <4>2
    <3>3. CASE k # Len(m) + i
      <4>1. k \in 1..(Len(m) + (i - 1))
        BY <3>3, <1>1
      <4>2. q[k] = IF k <= Len(m) THEN m[k] ELSE p[k - Len(m)]
        BY <4>1 DEF Prefix
      <4>3. Append(q, p[i])[k] = q[k]
        <5>. HIDE DEF q
        <5>. QED  BY <4>1, <2>1, <2>2, <1>1
      <4>. QED  BY <3>1, <4>2, <4>3
    <3>. QED  BY <3>2, <3>3
  <2>. HIDE DEF q
  <2>6. Prefix(m, p, i) = Append(q, p[i])
    BY <2>3, <2>4, <2>5, SeqEqual
  <2>. QED  BY <2>6 DEF q
<1>. QED  BY <1>2, <1>3, <1>4, <1>5

\* A call for a buffer appends its bytes.
LEMMA BufferAppended ==
  ASSUME MessageLength \in Nat, NEW m \in Seq(Bytes), NEW p \in Seq(Bytes),
         Len(m) + Len(p) <= MessageLength, NEW s \in C!Word
  PROVE  C!Crc16Buf(C!Remainder(PolynomialOf(m, s)), p) = C!Remainder(PolynomialOf(m \o p, s))
<1>. DEFINE sum == C!Remainder(PolynomialOf(m, s))
            r(i) == C!Remainder(PolynomialOf(Prefix(m, p, i), s))
<1>1. Len(m) \in Nat /\ Len(p) \in Nat
  OBVIOUS
<1>2. PICK f : AreSums(f, sum, p, Len(p)) /\ C!Crc16Buf(sum, p) = f[Len(p)]
  BY <1>1, BufferUnfolds
<1>3. \A i \in 0..Len(p) : f[i] = SumAfter(f, sum, p, i)
  BY <1>2 DEF AreSums
<1>4. ASSUME NEW i \in 1..Len(p) PROVE r(i) = C!Crc16Byte(r(i - 1), p[i])
  <2>1. i - 1 \in 0..Len(p) /\ p[i] \in Bytes /\ Len(m) + (i - 1) < MessageLength
    BY <1>1
  <2>2. /\ Prefix(m, p, i - 1) \in Seq(Bytes) /\ Len(Prefix(m, p, i - 1)) < MessageLength
        /\ Prefix(m, p, i) = Append(Prefix(m, p, i - 1), p[i])
    BY <2>1, PrefixGrows
  <2>. QED  BY <2>1, <2>2, ByteAppended
<1>5. r(0) = sum /\ r(Len(p)) = C!Remainder(PolynomialOf(m \o p, s))
  BY PrefixGrows
<1>. HIDE DEF r, sum
<1>. DEFINE bad == {i \in 0..Len(p) : f[i] # r(i)}
<1>6. bad = {}
  <2>1. SUFFICES ASSUME bad # {} PROVE FALSE
    OBVIOUS
  <2>2. PICK i \in bad : \A l \in bad : i <= l
    <3>1. bad \in SUBSET Nat
      BY <1>1
    <3>. HIDE DEF bad
    <3>. QED  BY <2>1, <3>1, Least
  <2>3. i \in 0..Len(p) /\ f[i] # r(i)
    OBVIOUS
  <2>4. CASE i = 0
    BY <1>3, <1>5, <2>3, <2>4 DEF SumAfter
  <2>5. CASE i # 0
    <3>1. i \in 1..Len(p) /\ i - 1 \in 0..Len(p) /\ i - 1 < i
      BY <2>3, <2>5, <1>1
    <3>2. i - 1 \notin bad
      <4>. HIDE DEF bad
      <4>. QED  BY <2>2, <3>1
    <3>3. f[i - 1] = r(i - 1)
      BY <3>1, <3>2
    <3>4. f[i] = C!Crc16Byte(f[i - 1], p[i])
      BY <1>3, <2>3, <2>5 DEF SumAfter
    <3>. QED  BY <1>4, <2>3, <3>1, <3>3, <3>4
  <2>. QED  BY <2>4, <2>5
<1>7. f[Len(p)] = r(Len(p))
  BY <1>6, <1>1
<1>. QED  BY <1>2, <1>5, <1>7 DEF sum

-----------------------------------------------------------------------------
(* A caller *)

CrcInv ==
  /\ start \in C!Word /\ message \in Seq(Bytes) /\ Len(message) <= MessageLength
  /\ crc = C!Remainder(PolynomialOf(message, start))

LEMMA PolynomialIs ==
  C!Polynomial = PolynomialOf(message, start)
BY DEF C!Polynomial, PolynomialOf, BitsIn, C!Xor, C!Up

LEMMA InitCrc ==
  ASSUME C!StartAssumption, C!LengthAssumption
  PROVE  ArithmeticInit => CrcInv
<1>. SUFFICES ASSUME ArithmeticInit PROVE CrcInv
  OBVIOUS
<1>1. start \in C!Word /\ message = <<>> /\ crc = start /\ MessageLength \in Nat
  BY DEF ArithmeticInit, C!Init, C!StartAssumption, C!LengthAssumption
<1>2. PolynomialOf(message, start) = start
  <2>1. Len(message) = 0 /\ 8 * 0 = 0 /\ 1..0 = {}
    BY <1>1
  <2>2. BitsIn(message) = {}
    BY <2>1 DEF BitsIn
  <2>3. \A n \in start : n + 0 = n
    BY <1>1 DEF C!Word
  <2>4. C!Up(start, 0) = start
    BY <2>3 DEF C!Up
  <2>. QED  BY <2>1, <2>2, <2>4 DEF PolynomialOf, C!Xor
<1>3. C!Remainder(start) = start
  BY <1>1, RemainderOfWord
<1>. QED  BY <1>1, <1>2, <1>3 DEF CrcInv

LEMMA NextCrc ==
  ASSUME C!ByteAssumption, C!BufferAssumption, C!LengthAssumption
  PROVE  CrcInv /\ [ArithmeticNext]_arithmetic_vars => CrcInv'
<1>. SUFFICES ASSUME CrcInv, [ArithmeticNext]_arithmetic_vars PROVE CrcInv'
  OBVIOUS
<1>. USE DEF CrcInv
<1>0. MessageLength \in Nat
  BY DEF C!LengthAssumption
<1>1. ASSUME UNCHANGED <<crc, start, message>> PROVE CrcInv'
  <2>1. C!Remainder(PolynomialOf(message, start))' = C!Remainder(PolynomialOf(message, start))
    BY <1>1 DEF PolynomialOf, BitsIn, C!Remainder
  <2>. QED  BY <1>1, <2>1
<1>2. ASSUME NEW b \in SummedByte, C!SumByte(b) \/ C!SumByteForth(b) PROVE CrcInv'
  <2>1. b \in Bytes
    BY DEF C!ByteAssumption, Bytes
  <2>2. /\ Len(message) < MessageLength /\ message' = Append(message, b) /\ start' = start
        /\ \/ crc' = C!Crc16Byte(crc, b) \/ crc' = C!Crc16ByteForth(crc, b)
    BY <1>2 DEF C!SumByte, C!SumByteForth
  <2>3. crc' = C!Remainder(PolynomialOf(Append(message, b), start))
    BY <1>0, <2>1, <2>2, ByteAppended
  <2>4. message' \in Seq(Bytes) /\ Len(message') <= MessageLength
    BY <1>0, <2>1, <2>2
  <2>. QED  BY <2>2, <2>3, <2>4
<1>3. ASSUME NEW p \in Buffer, C!SumBuffer(p) PROVE CrcInv'
  <2>1. p \in Seq(Bytes)
    <3>1. p \in Seq(SummedByte) /\ SummedByte \subseteq Bytes
      BY DEF C!BufferAssumption, C!ByteAssumption, Bytes
    <3>. QED  BY <3>1
  <2>2. /\ Len(message) + Len(p) <= MessageLength /\ message' = message \o p /\ start' = start
        /\ crc' = C!Crc16Buf(crc, p)
    BY <1>3 DEF C!SumBuffer
  <2>3. crc' = C!Remainder(PolynomialOf(message \o p, start))
    BY <1>0, <2>1, <2>2, BufferAppended
  <2>4. message' \in Seq(Bytes) /\ Len(message') <= MessageLength
    BY <1>0, <2>1, <2>2
  <2>. QED  BY <2>2, <2>3, <2>4
<1>4. CASE C!Next
  BY <1>1, <1>2, <1>3, <1>4 DEF C!Next, C!UseThierry, C!UseXmodem
<1>. QED  BY <1>1, <1>4 DEF ArithmeticNext, arithmetic_vars, ofCrc

\* However a message is divided into calls, and whichever of the three
\* functions of crc16.c and crc16.mu4 each call uses, the sum is the remainder
\* that the definition of CCITT asks for, for messages of every length.
THEOREM CrcIsRemainderCorrect ==
  ASSUME C!ByteAssumption, C!StartAssumption, C!BufferAssumption, C!LengthAssumption
  PROVE  ArithmeticSpec => []CrcIsRemainder
<1>1. ArithmeticInit => CrcInv
  BY InitCrc
<1>2. CrcInv /\ [ArithmeticNext]_arithmetic_vars => CrcInv'
  BY NextCrc
<1>3. CrcInv => CrcIsRemainder
  BY PolynomialIs DEF CrcInv, CrcIsRemainder, C!CrcIsRemainder
<1>. QED  BY <1>1, <1>2, <1>3, PTL DEF ArithmeticSpec

-----------------------------------------------------------------------------
(* Sums over finite sets, as the folds of the library compute them: with a *)
(* function that says for every set which element comes first.             *)

Chooses(c, S) == \A s \in SUBSET S : s # {} => c[s] \in s
TotalAfter(t, f, c, s) == IF s = {} THEN 0 ELSE f[c[s]] + t[s \ {c[s]}]
AreTotals(t, f, c, S) == t = [s \in SUBSET S |-> TotalAfter(t, f, c, s)]

\* Taking an element out.
LEMMA WithoutElement ==
  ASSUME NEW S, IsFiniteSet(S), NEW s \in SUBSET S, NEW x \in s
  PROVE  /\ s \ {x} \in SUBSET S /\ Cardinality(s) \in Nat /\ Cardinality(s) # 0
         /\ Cardinality(s \ {x}) = Cardinality(s) - 1
<1>1. IsFiniteSet(s)
  BY FS_Subset
<1>2. Cardinality(s) \in Nat
  BY <1>1, FS_CardinalityType
<1>3. Cardinality(s) # 0
  BY <1>1, FS_EmptySet
<1>4. Cardinality(s \ {x}) = Cardinality(s) - 1
  BY <1>1, FS_RemoveElement
<1>. QED  BY <1>2, <1>3, <1>4

\* The totals of sets of at most n elements.
TotalsTo(t, f, c, S, n) ==
  /\ t \in [SUBSET S -> Int]
  /\ \A s \in SUBSET S : Cardinality(s) <= n => t[s] = TotalAfter(t, f, c, s)

LEMMA TotalsExist ==
  ASSUME NEW S, IsFiniteSet(S), NEW f \in [S -> Int], NEW c, Chooses(c, S)
  PROVE  \E t : AreTotals(t, f, c, S)
<1>. DEFINE bad == {n \in Nat : ~\E t : TotalsTo(t, f, c, S, n)}
<1>1. bad = {}
  <2>1. SUFFICES ASSUME bad # {} PROVE FALSE
    OBVIOUS
  <2>2. PICK n \in bad : \A l \in bad : n <= l
    <3>1. bad \in SUBSET Nat
      OBVIOUS
    <3>. HIDE DEF bad
    <3>. QED  BY <2>1, <3>1, Least
  <2>3. n \in Nat /\ ~\E t : TotalsTo(t, f, c, S, n)
    BY <2>2
  <2>4. CASE n = 0
    <3>. DEFINE v == [s \in SUBSET S |-> 0]
    <3>1. ASSUME NEW s \in SUBSET S, Cardinality(s) <= 0 PROVE s = {}
      <4>1. SUFFICES ASSUME NEW x \in s PROVE FALSE
        OBVIOUS
      <4>2. Cardinality(s) \in Nat /\ Cardinality(s) # 0
        BY WithoutElement
      <4>. QED  BY <3>1, <4>2
    <3>2. TotalsTo(v, f, c, S, 0)
      BY <3>1 DEF TotalsTo, TotalAfter
    <3>. QED  BY <2>3, <2>4, <3>2
  <2>5. CASE n # 0
    <3>1. n - 1 \in Nat /\ n - 1 \notin bad
      BY <2>2, <2>3, <2>5
    <3>2. PICK t : TotalsTo(t, f, c, S, n - 1)
      BY <3>1
    <3>3. t \in [SUBSET S -> Int]
      BY <3>2 DEF TotalsTo
    <3>. DEFINE v == [s \in SUBSET S |-> IF Cardinality(s) = n THEN TotalAfter(t, f, c, s) ELSE t[s]]
    <3>4. ASSUME NEW s \in SUBSET S PROVE TotalAfter(t, f, c, s) \in Int
      <4>1. CASE s = {}
        BY <4>1 DEF TotalAfter
      <4>2. CASE s # {}
        <5>1. c[s] \in S /\ s \ {c[s]} \in SUBSET S
          BY <4>2 DEF Chooses
        <5>2. f[c[s]] \in Int /\ t[s \ {c[s]}] \in Int
          BY <3>3, <5>1
        <5>. QED  BY <4>2, <5>2 DEF TotalAfter
      <4>. QED  BY <4>1, <4>2
    <3>5. v \in [SUBSET S -> Int]
      BY <3>3, <3>4
    <3>6. ASSUME NEW s \in SUBSET S, Cardinality(s) <= n PROVE v[s] = TotalAfter(v, f, c, s)
      <4>1. TotalAfter(v, f, c, s) = TotalAfter(t, f, c, s)
        <5>1. CASE s = {}
          BY <5>1 DEF TotalAfter
        <5>2. CASE s # {}
          <6>1. c[s] \in s
            BY <5>2 DEF Chooses
          <6>. DEFINE r == s \ {c[s]}
          <6>2. r \in SUBSET S /\ Cardinality(s) \in Nat /\ Cardinality(r) = Cardinality(s) - 1
            BY <6>1, WithoutElement
          <6>3. Cardinality(r) # n
            BY <2>3, <3>6, <6>2
          <6>4. v[r] = t[r]
            BY <6>2, <6>3
          <6>. QED  BY <5>2, <6>4 DEF TotalAfter
        <5>. QED  BY <5>1, <5>2
      <4>2. CASE Cardinality(s) = n
        BY <4>1, <4>2
      <4>3. CASE Cardinality(s) # n
        <5>1. Cardinality(s) \in Nat
          BY FS_Subset, FS_CardinalityType
        <5>2. Cardinality(s) <= n - 1
          BY <2>3, <3>6, <4>3, <5>1
        <5>3. t[s] = TotalAfter(t, f, c, s)
          BY <3>2, <5>2 DEF TotalsTo
        <5>. QED  BY <4>1, <4>3, <5>3
      <4>. QED  BY <4>2, <4>3
    <3>7. TotalsTo(v, f, c, S, n)
      <4>. HIDE DEF v
      <4>. QED  BY <3>5, <3>6 DEF TotalsTo
    <3>. QED  BY <2>3, <3>7
  <2>. QED  BY <2>4, <2>5
<1>2. Cardinality(S) \in Nat
  BY FS_CardinalityType
<1>3. PICK t : TotalsTo(t, f, c, S, Cardinality(S))
  BY <1>1, <1>2
<1>4. \A s \in SUBSET S : Cardinality(s) <= Cardinality(S)
  BY FS_Subset
<1>5. t \in [SUBSET S -> Int] /\ \A s \in SUBSET S : t[s] = TotalAfter(t, f, c, s)
  BY <1>3, <1>4 DEF TotalsTo
<1>. QED  BY <1>5 DEF AreTotals

\* Any element may be taken out first.
AnyFirst(t, f, S) ==
  /\ t[{}] = 0
  /\ \A s \in SUBSET S : t[s] \in Int /\ \A x \in s : t[s] = f[x] + t[s \ {x}]

LEMMA TotalWithout ==
  ASSUME NEW S, IsFiniteSet(S), NEW f \in [S -> Int], NEW c, Chooses(c, S),
         NEW t, AreTotals(t, f, c, S)
  PROVE  AnyFirst(t, f, S)
<1>. DEFINE Out(s) == t[s] \in Int /\ \A x \in s : t[s] = f[x] + t[s \ {x}]
            bad == {n \in Nat : \E s \in SUBSET S : Cardinality(s) = n /\ ~Out(s)}
<1>0. \A s \in SUBSET S : t[s] = TotalAfter(t, f, c, s)
  BY DEF AreTotals
<1>1. bad = {}
  <2>1. SUFFICES ASSUME bad # {} PROVE FALSE
    OBVIOUS
  <2>2. PICK n \in bad : \A l \in bad : n <= l
    <3>1. bad \in SUBSET Nat
      OBVIOUS
    <3>. HIDE DEF bad
    <3>. QED  BY <2>1, <3>1, Least
  <2>3. PICK s \in SUBSET S : Cardinality(s) = n /\ ~Out(s)
    BY <2>2
  <2>4. s # {}
    <3>1. SUFFICES ASSUME s = {} PROVE FALSE
      OBVIOUS
    <3>2. t[s] = 0
      BY <1>0, <3>1 DEF TotalAfter
    <3>3. Out(s)
      BY <3>1, <3>2
    <3>. QED  BY <2>3, <3>3
  <2>. DEFINE y == c[s]
  <2>5. y \in s /\ t[s] = f[y] + t[s \ {y}]
    BY <1>0, <2>4 DEF Chooses, TotalAfter
  <2>. HIDE DEF y
  <2>6. /\ s \ {y} \in SUBSET S /\ Cardinality(s \ {y}) = n - 1
        /\ n \in Nat /\ n # 0
    BY <2>3, <2>5, WithoutElement
  <2>7. n - 1 \in Nat /\ n - 1 \notin bad
    <3>1. n - 1 \in Nat /\ ~(n <= n - 1)
      BY <2>6
    <3>. HIDE DEF bad
    <3>. QED  BY <2>2, <3>1
  <2>8. Out(s \ {y})
    BY <2>6, <2>7
  <2>9. f[y] \in Int /\ t[s] \in Int
    BY <2>5, <2>8
  <2>10. PICK x \in s : t[s] # f[x] + t[s \ {x}]
    BY <2>3, <2>9
  <2>11. x # y
    BY <2>5, <2>10
  <2>12. s \ {x} \in SUBSET S /\ Cardinality(s \ {x}) = n - 1
    BY <2>3, <2>10, WithoutElement
  <2>13. Out(s \ {x})
    BY <2>7, <2>12
  <2>14. t[s \ {x}] = f[y] + t[(s \ {x}) \ {y}] /\ t[s \ {y}] = f[x] + t[(s \ {y}) \ {x}]
    BY <2>5, <2>8, <2>10, <2>11, <2>13
  <2>15. (s \ {x}) \ {y} = (s \ {y}) \ {x} /\ (s \ {x}) \ {y} \in SUBSET S
    OBVIOUS
  <2>16. Cardinality((s \ {x}) \ {y}) = n - 2 /\ n - 2 \in Nat
    <3>1. y \in s \ {x}
      BY <2>5, <2>11
    <3>. QED  BY <2>6, <2>12, <3>1, WithoutElement
  <2>17. f[x] \in Int /\ t[(s \ {x}) \ {y}] \in Int
    <3>1. n - 2 \notin bad
      BY <2>2, <2>6, <2>16
    <3>2. Out((s \ {x}) \ {y})
      BY <2>15, <2>16, <3>1
    <3>. QED  BY <2>10, <3>2
  <2>. DEFINE fx == f[x]
              fy == f[y]
              r == t[(s \ {x}) \ {y}]
  <2>18. t[s] = fy + (fx + r) /\ f[x] + t[s \ {x}] = fx + (fy + r)
    BY <2>5, <2>14, <2>15
  <2>19. fx \in Int /\ fy \in Int /\ r \in Int
    BY <2>9, <2>17
  <2>. HIDE DEF fx, fy, r
  <2>20. fy + (fx + r) = fx + (fy + r)
    BY <2>19
  <2>. QED  BY <2>10, <2>18, <2>20
<1>2. ASSUME NEW s \in SUBSET S PROVE Out(s)
  <2>1. Cardinality(s) \in Nat
    BY FS_Subset, FS_CardinalityType
  <2>. QED  BY <1>1, <2>1
<1>3. t[{}] = 0
  BY <1>0 DEF TotalAfter
<1>. QED  BY <1>2, <1>3 DEF AnyFirst

-----------------------------------------------------------------------------
(* The value of a text *)

\* Numbers has the definition of the library as this module has it.
LEMMA SameCardinality == \A S : N!Cardinality(S) = Cardinality(S)
BY DEF N!Cardinality, Cardinality

\* What N!Sum says of the weights of digits, and of the sums of sets of them.
WeightAfter(g, base, n) == IF n = 0 THEN 1 ELSE base * g[n - 1]
AreWeights(g, base, m) == g = [n \in 0..m |-> WeightAfter(g, base, n)]
Weights(base, m) == CHOOSE g : AreWeights(g, base, m)

First(s) == CHOOSE x \in s : TRUE
Counts(body, base, i) ==
  N!Value(body[i]) * Weights(base, Len(body))[N!Cardinality(N!DigitsFrom(body, base, i + 1))]
AreDigitSums(t, body, base) ==
  t = [s \in SUBSET N!DigitsFrom(body, base, 1) |->
         IF s = {} THEN 0 ELSE Counts(body, base, First(s)) + t[s \ {First(s)}]]

LEMMA SumUnfolds ==
  ASSUME NEW body, NEW base
  PROVE  N!Sum(body, base) =
           (CHOOSE t : AreDigitSums(t, body, base))[N!DigitsFrom(body, base, 1)]
BY DEF N!Sum, N!MapThenSumSet, N!MapThenFoldSet, AreDigitSums, Counts, First, Weights,
       AreWeights, WeightAfter

LEMMA WeightsExist ==
  ASSUME NEW m \in Nat, NEW base \in Int
  PROVE  \E g : AreWeights(g, base, m) /\ \A n \in 0..m : g[n] \in Int
<1>. DEFINE Good(g, n) == AreWeights(g, base, n) /\ \A k \in 0..n : g[k] \in Int
            bad == {n \in Nat : ~\E g : Good(g, n)}
<1>1. SUFFICES ASSUME bad # {} PROVE FALSE
  OBVIOUS
<1>2. PICK n \in bad : \A l \in bad : n <= l
  <2>1. bad \in SUBSET Nat
    OBVIOUS
  <2>. HIDE DEF bad
  <2>. QED  BY <1>1, <2>1, Least
<1>3. CASE n = 0
  <2>. DEFINE v == [k \in 0..0 |-> 1]
  <2>1. Good(v, 0)
    BY DEF AreWeights, WeightAfter
  <2>. QED  BY <1>2, <1>3, <2>1
<1>4. CASE n # 0
  <2>1. n - 1 \in Nat /\ n \in Nat /\ n - 1 \notin bad
    BY <1>2, <1>4
  <2>2. PICK g : Good(g, n - 1)
    BY <2>1
  <2>. DEFINE v == [k \in 0..n |-> IF k = n THEN WeightAfter(g, base, n) ELSE g[k]]
  <2>3. ASSUME NEW k \in 0..n PROVE v[k] = WeightAfter(v, base, k) /\ v[k] \in Int
    <3>1. k # 0 => v[k - 1] = g[k - 1] /\ g[k - 1] \in Int
      BY <2>1, <2>2
    <3>2. WeightAfter(v, base, k) = WeightAfter(g, base, k) /\ WeightAfter(g, base, k) \in Int
      <4>. HIDE DEF v
      <4>. QED  BY <3>1 DEF WeightAfter
    <3>3. CASE k = n
      BY <3>2, <3>3
    <3>4. CASE k # n
      <4>1. k \in 0..(n - 1)
        BY <2>1, <3>4
      <4>2. g[k] = WeightAfter(g, base, k)
        BY <2>2, <4>1 DEF AreWeights
      <4>. QED  BY <3>2, <3>4, <4>2
    <3>. QED  BY <3>3, <3>4
  <2>4. v = [k \in 0..n |-> v[k]]
    OBVIOUS
  <2>5. Good(v, n)
    <3>. HIDE DEF v
    <3>. QED  BY <2>3, <2>4 DEF AreWeights
  <2>. QED  BY <1>2, <2>5
<1>. QED  BY <1>3, <1>4

LEMMA WeightFacts ==
  ASSUME NEW m \in Nat, NEW base \in Int
  PROVE  /\ \A n \in 0..m : Weights(base, m)[n] \in Int
         /\ Weights(base, m)[0] = 1
         /\ \A n \in 0..m : n + 1 \in 0..m => Weights(base, m)[n + 1] = base * Weights(base, m)[n]
<1>1. AreWeights(Weights(base, m), base, m)
  BY WeightsExist DEF Weights
<1>. DEFINE g == Weights(base, m)
<1>2. AreWeights(g, base, m)
  BY <1>1
<1>. HIDE DEF g
<1>3. \A n \in 0..m : g[n] = WeightAfter(g, base, n)
  BY <1>2 DEF AreWeights
<1>4. g[0] = 1 /\ \A n \in 0..m : n + 1 \in 0..m => g[n + 1] = base * g[n]
  BY <1>3 DEF WeightAfter
<1>. DEFINE bad == {n \in 0..m : g[n] \notin Int}
<1>5. bad = {}
  <2>1. SUFFICES ASSUME bad # {} PROVE FALSE
    OBVIOUS
  <2>2. PICK n \in bad : \A l \in bad : n <= l
    <3>1. bad \in SUBSET Nat
      OBVIOUS
    <3>. HIDE DEF bad
    <3>. QED  BY <2>1, <3>1, Least
  <2>3. n # 0
    BY <1>4, <2>2
  <2>4. n - 1 \in 0..m /\ n - 1 \notin bad
    BY <2>2, <2>3
  <2>5. g[n] = base * g[n - 1] /\ g[n - 1] \in Int
    BY <1>4, <2>2, <2>4
  <2>. QED  BY <2>2, <2>5
<1>. QED  BY <1>4, <1>5 DEF g

\* The digits behind a place.
LEMMA DigitsBehind ==
  ASSUME NEW body, Len(body) \in Nat, NEW base, NEW i \in 1..(Len(body) + 1)
  PROVE  /\ N!DigitsFrom(body, base, i) \in SUBSET N!DigitsFrom(body, base, 1)
         /\ IsFiniteSet(N!DigitsFrom(body, base, i))
         /\ Cardinality(N!DigitsFrom(body, base, i)) \in 0..Len(body)
         /\ i = Len(body) + 1 => N!DigitsFrom(body, base, i) = {}
         /\ i \in 1..Len(body) =>
              /\ i \notin N!DigitsFrom(body, base, i + 1)
              /\ N!DigitsFrom(body, base, i) =
                   IF N!IsDigit(body[i], base) THEN N!DigitsFrom(body, base, i + 1) \cup {i}
                   ELSE N!DigitsFrom(body, base, i + 1)
<1>. DEFINE n == Len(body)
            D(k) == N!DigitsFrom(body, base, k)
<1>1. n \in Nat /\ i \in 1..(n + 1) /\ \A k : D(k) = {j \in k..n : N!IsDigit(body[j], base)}
  BY DEF N!DigitsFrom
<1>. HIDE DEF n, D
<1>2. D(i) \in SUBSET D(1) /\ D(i) \in SUBSET (1..n)
  BY <1>1
<1>3. IsFiniteSet(1..n) /\ Cardinality(1..n) = n
  <2>1. IsFiniteSet(1..n) /\ Cardinality(1..n) = IF 1 > n THEN 0 ELSE n - 1 + 1
    <3>1. n \in Int /\ 1 \in Int
      BY <1>1
    <3>. QED  BY <3>1, FS_Interval
  <2>. QED  BY <1>1, <2>1
<1>4. IsFiniteSet(D(i)) /\ Cardinality(D(i)) <= n
  BY <1>2, <1>3, FS_Subset
<1>5. Cardinality(D(i)) \in 0..n
  BY <1>1, <1>4, FS_CardinalityType
<1>6. i = n + 1 => D(i) = {}
  BY <1>1
<1>7. ASSUME i \in 1..n
      PROVE  /\ i \notin D(i + 1)
             /\ D(i) = IF N!IsDigit(body[i], base) THEN D(i + 1) \cup {i} ELSE D(i + 1)
  <2>1. \A j : j \in i..n <=> j = i \/ j \in (i + 1)..n
    BY <1>1, <1>7
  <2>2. i \notin D(i + 1)
    BY <1>1, <1>7
  <2>3. \A j : j \in D(i) <=> j \in i..n /\ N!IsDigit(body[j], base)
    BY <1>1
  <2>4. \A j : j \in D(i + 1) <=> j \in (i + 1)..n /\ N!IsDigit(body[j], base)
    BY <1>1
  <2>5. CASE N!IsDigit(body[i], base)
    <3>1. \A j : j \in D(i) <=> j \in D(i + 1) \cup {i}
      BY <2>1, <2>3, <2>4, <2>5
    <3>. QED  BY <2>2, <2>5, <3>1
  <2>6. CASE ~N!IsDigit(body[i], base)
    <3>1. \A j : j \in D(i) <=> j \in D(i + 1)
      BY <2>1, <2>3, <2>4, <2>6
    <3>. QED  BY <2>2, <2>6, <3>1
  <2>. QED  BY <2>5, <2>6
<1>. QED  BY <1>2, <1>4, <1>5, <1>6, <1>7 DEF n, D

\* The value of a text from every place on, and what a digit before that place counts.
AreValues(s, w, body, base) ==
  /\ s[Len(body) + 1] = 0 /\ w[Len(body) + 1] = 1
  /\ \A i \in 1..(Len(body) + 1) : s[i] \in Int /\ w[i] \in Int
  /\ \A i \in 1..Len(body) :
       IF N!IsDigit(body[i], base)
       THEN s[i] = N!Value(body[i]) * w[i + 1] + s[i + 1] /\ w[i] = base * w[i + 1]
       ELSE s[i] = s[i + 1] /\ w[i] = w[i + 1]

\* The sum of all digits can be taken from the last to the first.
LEMMA SumIsValue ==
  ASSUME NEW body, Len(body) \in Nat, NEW base \in Int,
         \A i \in 1..Len(body) : N!IsDigit(body[i], base) => N!Value(body[i]) \in Int
  PROVE  \E s, w : AreValues(s, w, body, base) /\ N!Sum(body, base) = s[1]
<1>. DEFINE n == Len(body)
            D(k) == N!DigitsFrom(body, base, k)
            S == D(1)
            g == Weights(base, n)
            count(k) == Counts(body, base, k)
            f == [k \in S |-> count(k)]
            c == [s \in SUBSET S |-> First(s)]
<1>1. \A i \in 1..(n + 1) : D(i) \in SUBSET S /\ IsFiniteSet(D(i)) /\ Cardinality(D(i)) \in 0..n
  BY DigitsBehind
<1>2. D(n + 1) = {}
  BY DigitsBehind
<1>3. \A i \in 1..n : /\ i \notin D(i + 1)
                      /\ D(i) = IF N!IsDigit(body[i], base) THEN D(i + 1) \cup {i} ELSE D(i + 1)
  BY DigitsBehind
<1>4. \A i \in 1..n : i \in S <=> N!IsDigit(body[i], base)
  BY DEF N!DigitsFrom
<1>5. S \subseteq 1..n
  BY DEF N!DigitsFrom
<1>6. n \in Nat /\ 1 \in 1..(n + 1)
  OBVIOUS
<1>7. \A k \in 0..n : g[k] \in Int
  BY WeightFacts
<1>8. g[0] = 1 /\ \A k \in 0..n : k + 1 \in 0..n => g[k + 1] = base * g[k]
  BY WeightFacts
<1>9. \A k \in S : count(k) = N!Value(body[k]) * g[Cardinality(D(k + 1))]
  BY SameCardinality DEF Counts
<1>10. \A k \in S : count(k) \in Int
  <2>1. ASSUME NEW k \in S PROVE count(k) \in Int
    <3>1. k \in 1..n /\ k + 1 \in 1..(n + 1) /\ N!IsDigit(body[k], base)
      BY <1>4, <1>5, <1>6
    <3>2. Cardinality(D(k + 1)) \in 0..n
      BY <1>1, <3>1
    <3>3. g[Cardinality(D(k + 1))] \in Int
      BY <1>7, <3>2
    <3>4. N!Value(body[k]) \in Int
      BY <3>1
    <3>. HIDE DEF count, g, D
    <3>. QED  BY <1>9, <3>3, <3>4
  <2>. QED  BY <2>1
<1>. DEFINE t == CHOOSE t : AreDigitSums(t, body, base)
<1>11. N!Sum(body, base) = t[S]
  BY SumUnfolds
<1>12. f \in [S -> Int]
  BY <1>10
<1>13. Chooses(c, S)
  BY DEF Chooses, First
<1>14. IsFiniteSet(S)
  BY <1>1, <1>6
<1>15. ASSUME NEW v PROVE AreDigitSums(v, body, base) <=> AreTotals(v, f, c, S)
  <2>1. \A s \in SUBSET S : s # {} => c[s] = First(s) /\ f[c[s]] = count(First(s))
    BY DEF First
  <2>. DEFINE a == [s \in SUBSET S |-> IF s = {} THEN 0 ELSE count(First(s)) + v[s \ {First(s)}]]
              b == [s \in SUBSET S |-> TotalAfter(v, f, c, s)]
  <2>2. \A s \in SUBSET S : a[s] = b[s]
    <3>. HIDE DEF f, c
    <3>. QED  BY <2>1 DEF TotalAfter
  <2>3. a = b
    <3>1. DOMAIN a = SUBSET S /\ DOMAIN b = SUBSET S
      OBVIOUS
    <3>2. a = [s \in SUBSET S |-> a[s]] /\ b = [s \in SUBSET S |-> b[s]]
      OBVIOUS
    <3>. HIDE DEF a, b
    <3>. QED  BY <2>2, <3>2
  <2>. QED  BY <2>3 DEF AreDigitSums, AreTotals
<1>16. AreTotals(t, f, c, S)
  <2>. HIDE DEF f, c, S
  <2>1. \E v : AreTotals(v, f, c, S)
    BY <1>12, <1>13, <1>14, TotalsExist
  <2>2. \E v : AreDigitSums(v, body, base)
    BY <1>15, <2>1
  <2>3. AreDigitSums(t, body, base)
    BY <2>2
  <2>. QED  BY <1>15, <2>3
<1>17. /\ t[{}] = 0
       /\ \A s \in SUBSET S : t[s] \in Int /\ \A x \in s : t[s] = f[x] + t[s \ {x}]
  <2>. HIDE DEF f, c, S, t
  <2>1. AnyFirst(t, f, S)
    BY <1>12, <1>13, <1>14, <1>16, TotalWithout
  <2>. QED  BY <2>1 DEF AnyFirst
<1>18. \A k \in S : f[k] = count(k)
  OBVIOUS
<1>. HIDE DEF t, f, c, g, count
<1>. DEFINE s == [i \in 1..(n + 1) |-> t[D(i)]]
            w == [i \in 1..(n + 1) |-> g[Cardinality(D(i))]]
<1>19. s[n + 1] = 0 /\ w[n + 1] = 1
  <2>1. n + 1 \in 1..(n + 1)
    BY <1>6
  <2>2. Cardinality({}) = 0
    BY FS_EmptySet
  <2>. QED  BY <1>2, <1>8, <1>17, <2>1, <2>2
<1>20. \A i \in 1..(n + 1) : s[i] \in Int /\ w[i] \in Int
  BY <1>1, <1>7, <1>17
<1>21. ASSUME NEW i \in 1..n
       PROVE  IF N!IsDigit(body[i], base)
              THEN s[i] = N!Value(body[i]) * w[i + 1] + s[i + 1] /\ w[i] = base * w[i + 1]
              ELSE s[i] = s[i + 1] /\ w[i] = w[i + 1]
  <2>1. i \in 1..(n + 1) /\ i + 1 \in 1..(n + 1)
    BY <1>6
  <2>2. s[i] = t[D(i)] /\ s[i + 1] = t[D(i + 1)]
    BY <2>1
  <2>3. w[i] = g[Cardinality(D(i))] /\ w[i + 1] = g[Cardinality(D(i + 1))]
    BY <2>1
  <2>4. CASE ~N!IsDigit(body[i], base)
    BY <1>3, <2>2, <2>3, <2>4
  <2>5. CASE N!IsDigit(body[i], base)
    <3>1. D(i) = D(i + 1) \cup {i} /\ i \notin D(i + 1) /\ i \in S
      BY <1>3, <1>4, <2>5
    <3>2. D(i) \in SUBSET S /\ i \in D(i) /\ D(i) \ {i} = D(i + 1)
      <4>1. D(i) \in SUBSET S
        BY <1>1, <2>1
      <4>. HIDE DEF D, S
      <4>. QED  BY <3>1, <4>1
    <3>3. t[D(i)] = count(i) + t[D(i + 1)]
      <4>. HIDE DEF D, S
      <4>1. t[D(i)] = f[i] + t[D(i) \ {i}]
        BY <1>17, <3>2
      <4>. QED  BY <1>18, <3>1, <3>2, <4>1
    <3>4. count(i) = N!Value(body[i]) * w[i + 1]
      BY <1>9, <2>3, <3>1
    <3>5. IsFiniteSet(D(i + 1)) /\ Cardinality(D(i + 1)) \in 0..n /\ Cardinality(D(i)) \in 0..n
      BY <1>1, <2>1
    <3>6. Cardinality(D(i)) = Cardinality(D(i + 1)) + 1
      <4>. HIDE DEF D
      <4>. QED  BY <3>1, <3>5, FS_AddElement
    <3>7. w[i] = base * w[i + 1]
      <4>. HIDE DEF D, w
      <4>. QED  BY <1>8, <2>3, <3>5, <3>6
    <3>. QED  BY <2>2, <2>5, <3>3, <3>4, <3>7
  <2>. QED  BY <2>4, <2>5
<1>22. N!Sum(body, base) = s[1]
  BY <1>6, <1>11
<1>. HIDE DEF s, w
<1>23. AreValues(s, w, body, base)
  BY <1>19, <1>20, <1>21 DEF AreValues
<1>. QED  BY <1>22, <1>23

\* Nothing but the value of a text is taken from its last place to its first.
LEMMA ValuesAgree ==
  ASSUME NEW body, Len(body) \in Nat, NEW base, NEW s, NEW w, NEW x, NEW y,
         AreValues(s, w, body, base), AreValues(x, y, body, base)
  PROVE  \A i \in 1..(Len(body) + 1) : s[i] = x[i] /\ w[i] = y[i]
<1>. DEFINE n == Len(body)
            bad == {k \in 0..n : ~(s[n + 1 - k] = x[n + 1 - k] /\ w[n + 1 - k] = y[n + 1 - k])}
<1>1. bad = {}
  <2>1. SUFFICES ASSUME bad # {} PROVE FALSE
    OBVIOUS
  <2>2. PICK k \in bad : \A l \in bad : k <= l
    <3>1. bad \in SUBSET Nat
      OBVIOUS
    <3>. HIDE DEF bad
    <3>. QED  BY <2>1, <3>1, Least
  <2>. DEFINE i == n + 1 - k
  <2>3. k # 0
    <3>1. s[n + 1] = x[n + 1] /\ w[n + 1] = y[n + 1] /\ n + 1 - 0 = n + 1
      BY DEF AreValues
    <3>. QED  BY <2>2, <3>1
  <2>4. k - 1 \in 0..n /\ k - 1 \notin bad
    BY <2>2, <2>3
  <2>5. i \in 1..n /\ n + 1 - (k - 1) = i + 1
    BY <2>2, <2>3
  <2>6. s[i + 1] = x[i + 1] /\ w[i + 1] = y[i + 1]
    BY <2>4, <2>5
  <2>. HIDE DEF i
  <2>7. s[i] = x[i] /\ w[i] = y[i]
    BY <2>5, <2>6 DEF AreValues
  <2>. QED  BY <2>2, <2>7 DEF i
<1>2. ASSUME NEW i \in 1..(n + 1) PROVE s[i] = x[i] /\ w[i] = y[i]
  <2>1. n + 1 - i \in 0..n /\ n + 1 - (n + 1 - i) = i
    OBVIOUS
  <2>. QED  BY <1>1, <2>1
<1>. QED  BY <1>2

-----------------------------------------------------------------------------
(* Characters, and cells of numbers *)

\* The digits of a radix and their values; no other character is one of them.
LEMMA DigitFacts ==
  ASSUME NEW r \in N!Radix, NEW d \in 0..(r - 1)
  PROVE  /\ d + 1 \in 1..16 /\ N!Digit[d + 1] \in N!Char
         /\ N!IsDigit(N!Digit[d + 1], r)
         /\ N!Value(N!Digit[d + 1]) = d
<1>1. d \in 0..15 /\ d + 1 \in 1..r /\ d + 1 \in 1..16
  BY DEF N!Radix
<1>2. \A e \in 0..15 : N!Digit[e + 1] = N!Digit[d + 1] => e = d
  BY <1>1 DEF N!Digit
<1>3. N!Digit[d + 1] \in N!Char
  BY <1>1 DEF N!Char
<1>. QED  BY <1>1, <1>2, <1>3 DEF N!IsDigit, N!Value

LEMMA DigitsAre ==
  ASSUME NEW r \in N!Radix, NEW ch, N!IsDigit(ch, r)
  PROVE  /\ N!Value(ch) \in 0..(r - 1)
         /\ ch \notin N!Separators /\ ch \notin DOMAIN N!RadixPrefix
<1>1. PICK d \in 1..r : N!Digit[d] = ch
  BY DEF N!IsDigit
<1>2. r \in Nat /\ d \in 1..16 /\ d - 1 \in 0..(r - 1) /\ (d - 1) + 1 = d
  BY DEF N!Radix
<1>3. N!Value(ch) = d - 1
  <2>1. N!Value(N!Digit[(d - 1) + 1]) = d - 1
    BY <1>2, DigitFacts
  <2>. QED  BY <1>1, <1>2, <2>1
<1>4. ch \notin N!Separators /\ ch \notin DOMAIN N!RadixPrefix
  <2>1. ch \in {"0", "1", "2", "3", "4", "5", "6", "7", "8", "9", "a", "b", "c", "d", "e", "f"}
    BY <1>1, <1>2 DEF N!Digit
  <2>. QED  BY <2>1 DEF N!Separators, N!RadixPrefix
<1>. QED  BY <1>2, <1>3, <1>4

\* The number of values of a cell of numbers, and half of it.
Full == 2^NumberBits
HalfFull == 2^(NumberBits - 1)

LEMMA FullFacts ==
  ASSUME N!BitsAssumption
  PROVE  Full \in Nat \ {0} /\ HalfFull \in Nat \ {0} /\ Full = 2 * HalfFull
BY DEF N!BitsAssumption, Full, HalfFull

LEMMA CellIs ==
  ASSUME N!BitsAssumption PROVE N!Cell = (-HalfFull)..(HalfFull - 1)
BY DEF N!Cell, HalfFull

LEMMA NumberSignedIs ==
  ASSUME NEW x
  PROVE  N!Signed(x) = IF x % Full < HalfFull THEN x % Full ELSE (x % Full) - Full
BY DEF N!Signed, Full, HalfFull

LEMMA NumberUnsignedIs ==
  ASSUME NEW x PROVE N!Unsigned(x) = x % Full
BY DEF N!Unsigned, Full

\* A number and what a cell keeps of it differ by a multiple.
LEMMA NumberSigned ==
  ASSUME N!BitsAssumption, NEW x \in Int
  PROVE  /\ N!Signed(x) \in N!Cell /\ N!Signed(x) \in Int
         /\ \E q \in Int : x = N!Signed(x) + Full * q
<1>. DEFINE d == x \div Full
            r == x % Full
<1>1. Full \in Nat \ {0} /\ HalfFull \in Nat \ {0} /\ Full = 2 * HalfFull
  BY FullFacts
<1>2. x = Full * d + r /\ r \in 0..(Full - 1) /\ d \in Int
  BY <1>1, Divided
<1>3. N!Signed(x) = IF r < HalfFull THEN r ELSE r - Full
  BY NumberSignedIs
<1>. HIDE DEF d, r
<1>4. CASE r < HalfFull
  <2>1. N!Signed(x) = r
    BY <1>3, <1>4
  <2>2. r \in (-HalfFull)..(HalfFull - 1)
    BY <1>1, <1>2, <1>4
  <2>3. x = r + Full * d
    <3>1. Full * d \in Int
      BY <1>1, <1>2
    <3>. QED  BY <1>2, <3>1
  <2>. QED  BY <1>2, <2>1, <2>2, <2>3, CellIs
<1>5. CASE ~(r < HalfFull)
  <2>1. N!Signed(x) = r - Full
    BY <1>3, <1>5
  <2>2. r - Full \in (-HalfFull)..(HalfFull - 1)
    BY <1>1, <1>2, <1>5
  <2>3. x = (r - Full) + Full * (d + 1)
    <3>1. Full * d \in Int /\ Full * (d + 1) = Full * d + Full
      BY <1>1, <1>2
    <3>. QED  BY <1>1, <1>2, <3>1
  <2>. QED  BY <1>2, <2>1, <2>2, <2>3, CellIs
<1>. QED  BY <1>4, <1>5

\* Multiples do not change what a cell keeps.
LEMMA NumberSame ==
  ASSUME N!BitsAssumption, NEW x \in Int, NEW k \in Int, NEW y \in Int, y = x + Full * k
  PROVE  N!Signed(y) = N!Signed(x) /\ N!Unsigned(y) = N!Unsigned(x)
<1>1. Full \in Nat \ {0}
  BY FullFacts
<1>2. y % Full = x % Full
  BY <1>1, ModOfSum
<1>. QED  BY <1>2, NumberSignedIs, NumberUnsignedIs

\* What *digit and negate do to a cell, they do to the number of which it keeps the
\* low bits.
LEMMA NumberDigit ==
  ASSUME N!BitsAssumption, NEW a \in Int, NEW r \in Int, NEW v \in Int
  PROVE  N!Signed(N!Signed(a) * r + v) = N!Signed(a * r + v)
<1>1. PICK q \in Int : a = N!Signed(a) + Full * q
  BY NumberSigned
<1>. DEFINE c == N!Signed(a)
<1>2. c \in Int /\ Full \in Int
  BY NumberSigned, FullFacts
<1>3. a = c + Full * q
  BY <1>1
<1>. HIDE DEF c
<1>4. a * r + v = (c * r + v) + Full * (q * r)
  <2>. HIDE DEF Full
  <2>1. a * r = c * r + (Full * q) * r
    BY <1>2, <1>3
  <2>2. (Full * q) * r = Full * (q * r) /\ c * r \in Int /\ Full * (q * r) \in Int
    BY <1>2
  <2>3. a * r + v = (c * r + Full * (q * r)) + v
    BY <2>1, <2>2
  <2>. QED  BY <2>2, <2>3
<1>5. c * r + v \in Int /\ a * r + v \in Int /\ q * r \in Int
  BY <1>2
<1>6. N!Signed(a * r + v) = N!Signed(c * r + v)
  BY <1>4, <1>5, NumberSame
<1>. QED  BY <1>6 DEF c

LEMMA NumberNegated ==
  ASSUME N!BitsAssumption, NEW a \in Int
  PROVE  N!Signed(-N!Signed(a)) = N!Signed(-a)
<1>1. PICK q \in Int : a = N!Signed(a) + Full * q
  BY NumberSigned
<1>. DEFINE c == N!Signed(a)
<1>2. c \in Int /\ Full \in Int
  BY NumberSigned, FullFacts
<1>3. a = c + Full * q
  BY <1>1
<1>. HIDE DEF c
<1>4. -c = -a + Full * q
  <2>1. Full * q \in Int
    BY <1>2
  <2>. QED  BY <1>2, <1>3, <2>1
<1>5. -c \in Int /\ -a \in Int
  BY <1>2
<1>6. N!Signed(-c) = N!Signed(-a)
  <2>. DEFINE x == -a
              y == -c
  <2>1. x \in Int /\ y \in Int /\ y = x + Full * q
    BY <1>4, <1>5
  <2>. HIDE DEF x, y
  <2>2. N!Signed(y) = N!Signed(x)
    BY <2>1, NumberSame
  <2>. QED  BY <2>2 DEF x, y
<1>. QED  BY <1>6 DEF c

\* A cell keeps what is a cell.
LEMMA NumberCell ==
  ASSUME N!BitsAssumption, NEW n \in N!Cell
  PROVE  n \in Int /\ N!Signed(n) = n /\ N!Signed(N!Unsigned(n)) = n
<1>1. Full \in Nat \ {0} /\ HalfFull \in Nat \ {0} /\ Full = 2 * HalfFull
  BY FullFacts
<1>2. n \in Int /\ n \in (-HalfFull)..(HalfFull - 1)
  BY <1>1, CellIs
<1>3. n % Full = IF n < 0 THEN n + Full ELSE n
  <2>. DEFINE d == n \div Full
              r == n % Full
  <2>1. n = Full * d + r /\ r \in 0..(Full - 1) /\ d \in Int
    BY <1>1, <1>2, Divided
  <2>. HIDE DEF d, r
  <2>2. CASE n < 0
    <3>1. n + Full \in 0..(Full - 1)
      BY <1>1, <1>2, <2>2
    <3>2. Full * d + r = Full * (-1) + (n + Full)
      BY <1>1, <1>2, <2>1
    <3>3. r = n + Full
      BY <1>1, <2>1, <3>1, <3>2, RemainderUnique
    <3>. QED  BY <2>2, <3>3 DEF r
  <2>3. CASE ~(n < 0)
    <3>1. n \in 0..(Full - 1)
      BY <1>1, <1>2, <2>3
    <3>2. Full * d + r = Full * 0 + n
      BY <1>1, <1>2, <2>1
    <3>3. r = n
      BY <1>1, <2>1, <3>1, <3>2, RemainderUnique
    <3>. QED  BY <2>3, <3>3 DEF r
  <2>. QED  BY <2>2, <2>3
<1>4. N!Signed(n) = n
  BY <1>1, <1>2, <1>3, NumberSignedIs
<1>5. PICK q \in Int : n = N!Unsigned(n) + Full * q
  <2>1. n = Full * (n \div Full) + (n % Full) /\ n \div Full \in Int /\ n % Full \in 0..(Full - 1)
    BY <1>1, <1>2, Divided
  <2>2. Full * (n \div Full) \in Int
    BY <1>1, <2>1
  <2>3. n = (n % Full) + Full * (n \div Full)
    BY <2>1, <2>2
  <2>. QED  BY <2>1, <2>3, NumberUnsignedIs
<1>6. N!Unsigned(n) \in Int
  BY <1>1, <1>2, <1>3, NumberUnsignedIs
<1>7. N!Signed(n) = N!Signed(N!Unsigned(n))
  BY <1>2, <1>5, <1>6, NumberSame
<1>. QED  BY <1>2, <1>4, <1>7

-----------------------------------------------------------------------------
(* Reading a number *)

Numeral == [saved : Int, neg : BOOLEAN, accum : Int, rest : Seq(N!Char), digits : BOOLEAN]

\* The first k characters are read: what they are, and what they amount to.
ReadTo(num, body, base, k) ==
  /\ k \in 0..Len(body) /\ Len(num.rest) = Len(body) - k
  /\ \A i \in 1..Len(num.rest) : num.rest[i] = body[k + i]
  /\ num.digits <=> k # 0 /\ N!IsDigit(body[k], base)
  /\ k # 0 => N!IsDigit(body[1], base)
  /\ \A i \in 1..k : \/ N!IsDigit(body[i], base)
                     \/ body[i] \in N!Separators /\ (i < k => N!IsDigit(body[i + 1], base))
Amounts(accum, body, base, k) ==
  \E s, w : \E a \in Int :
    AreValues(s, w, body, base) /\ accum = N!Signed(a) /\ a * w[k + 1] + s[k + 1] = s[1]
NoPoint(body, k) == \A i \in 1..k : body[i] # "."

LEMMA ReadOn ==
  ASSUME NEW num \in Numeral, NEW next \in Numeral, NEW body \in Seq(N!Char), NEW base, NEW k,
         ReadTo(num, body, base, k), num.rest # <<>>,
         \/ N!IsDigit(Head(num.rest), base)
         \/ num.digits /\ Head(num.rest) \in N!Separators,
         next.rest = Tail(num.rest), next.digits <=> N!IsDigit(Head(num.rest), base)
  PROVE  /\ k \in 0..Len(body) /\ k + 1 \in 1..Len(body) /\ body[k + 1] = Head(num.rest)
         /\ ReadTo(next, body, base, k + 1)
<1>1. num.rest \in Seq(N!Char) /\ num.digits \in BOOLEAN /\ next.digits \in BOOLEAN
  BY DEF Numeral
<1>2. /\ k \in 0..Len(body) /\ Len(num.rest) = Len(body) - k
      /\ \A i \in 1..Len(num.rest) : num.rest[i] = body[k + i]
      /\ num.digits <=> k # 0 /\ N!IsDigit(body[k], base)
      /\ k # 0 => N!IsDigit(body[1], base)
      /\ \A i \in 1..k : \/ N!IsDigit(body[i], base)
                         \/ body[i] \in N!Separators /\ (i < k => N!IsDigit(body[i + 1], base))
  BY DEF ReadTo
<1>3. Len(body) \in Nat /\ Len(num.rest) \in Nat /\ Len(num.rest) # 0
  BY <1>1
<1>4. k + 1 \in 1..Len(body) /\ k \in Nat
  BY <1>2, <1>3
<1>5. Head(num.rest) = body[k + 1]
  BY <1>1, <1>2, <1>3
<1>6. /\ Len(next.rest) = Len(body) - (k + 1)
      /\ \A i \in 1..Len(next.rest) : next.rest[i] = body[k + 1 + i]
  <2>1. Len(next.rest) = Len(num.rest) - 1
    BY <1>1, <1>3
  <2>2. ASSUME NEW i \in 1..Len(next.rest) PROVE next.rest[i] = body[k + 1 + i]
    <3>1. next.rest[i] = num.rest[i + 1] /\ i + 1 \in 1..Len(num.rest)
      BY <1>1, <1>3, <2>1
    <3>2. k + (i + 1) = k + 1 + i
      BY <1>4, <1>3, <2>1
    <3>. QED  BY <1>2, <3>1, <3>2
  <2>. QED  BY <1>2, <1>3, <2>1, <2>2
<1>7. next.digits <=> N!IsDigit(body[k + 1], base)
  BY <1>5
<1>8. k = 0 => N!IsDigit(body[1], base)
  BY <1>2, <1>5
<1>9. ASSUME NEW i \in 1..(k + 1)
      PROVE  \/ N!IsDigit(body[i], base)
             \/ body[i] \in N!Separators /\ (i < k + 1 => N!IsDigit(body[i + 1], base))
  <2>1. CASE i = k + 1
    BY <1>4, <1>5, <2>1
  <2>2. CASE i # k + 1 /\ i < k
    BY <1>2, <1>4, <2>2
  <2>3. CASE i # k + 1 /\ ~(i < k)
    <3>1. i = k /\ k # 0 /\ i \in 1..k
      BY <1>4, <2>3
    <3>2. CASE N!IsDigit(body[k], base)
      BY <3>1, <3>2
    <3>3. CASE ~N!IsDigit(body[k], base)
      <4>1. N!IsDigit(body[k + 1], base)
        BY <1>2, <1>5, <3>3
      <4>. QED  BY <1>2, <3>1, <3>3, <4>1
    <3>. QED  BY <3>2, <3>3
  <2>. QED  BY <2>1, <2>2, <2>3
<1>10. k + 1 \in 0..Len(body) /\ k + 1 # 0
  BY <1>4
<1>. QED  BY <1>2, <1>4, <1>5, <1>6, <1>7, <1>8, <1>9, <1>10 DEF ReadTo

\* All is read: it is a number when the last character was a digit.
LEMMA ReadUp ==
  ASSUME NEW num \in Numeral, NEW body \in Seq(N!Char), NEW base, NEW k,
         ReadTo(num, body, base, k), num.rest = <<>>, num.digits
  PROVE  k = Len(body) /\ N!IsNumber(body, base)
<1>1. Len(body) \in Nat /\ k = Len(body) /\ k # 0
  BY DEF ReadTo
<1>2. body # <<>>
  BY <1>1
<1>3. \A i \in 1..Len(body) :
        \/ N!IsDigit(body[i], base)
        \/ body[i] \in N!Separators /\ N!IsDigit(body[i + 1], base)
  <2>1. ASSUME NEW i \in 1..Len(body)
        PROVE  \/ N!IsDigit(body[i], base)
               \/ body[i] \in N!Separators /\ N!IsDigit(body[i + 1], base)
    <3>1. CASE i = k
      BY <3>1 DEF ReadTo
    <3>2. CASE i # k
      <4>1. i \in 1..k /\ i < k
        BY <1>1, <3>2
      <4>. QED  BY <4>1 DEF ReadTo
    <3>. QED  BY <3>1, <3>2
  <2>. QED  BY <2>1
<1>4. N!IsDigit(body[1], base) /\ N!IsDigit(body[Len(body)], base)
  BY <1>1 DEF ReadTo
<1>. QED  BY <1>1, <1>2, <1>3, <1>4 DEF N!IsNumber

\* Reading that cannot go on has found what no number has.
LEMMA ReadNoFurther ==
  ASSUME NEW num \in Numeral, NEW body \in Seq(N!Char), NEW base, NEW k,
         ReadTo(num, body, base, k), ~(num.rest = <<>> /\ num.digits),
         num.rest # <<>> => /\ ~N!IsDigit(Head(num.rest), base)
                            /\ ~(num.digits /\ Head(num.rest) \in N!Separators)
  PROVE  ~N!IsNumber(body, base)
<1>. SUFFICES ASSUME N!IsNumber(body, base) PROVE FALSE
  OBVIOUS
<1>1. /\ body # <<>> /\ N!IsDigit(body[1], base) /\ N!IsDigit(body[Len(body)], base)
      /\ \A i \in 1..Len(body) :
           \/ N!IsDigit(body[i], base)
           \/ body[i] \in N!Separators /\ N!IsDigit(body[i + 1], base)
  BY DEF N!IsNumber
<1>2. Len(body) \in Nat /\ Len(body) # 0 /\ k \in 0..Len(body) /\ num.rest \in Seq(N!Char)
  BY <1>1 DEF ReadTo, Numeral
<1>3. num.digits <=> k # 0 /\ N!IsDigit(body[k], base)
  BY DEF ReadTo
<1>4. CASE num.rest = <<>>
  <2>1. k = Len(body)
    BY <1>2, <1>4 DEF ReadTo
  <2>. QED  BY <1>1, <1>2, <1>3, <1>4, <2>1
<1>5. CASE num.rest # <<>>
  <2>1. Len(num.rest) \in Nat /\ Len(num.rest) # 0 /\ Len(num.rest) = Len(body) - k
    BY <1>2, <1>5 DEF ReadTo
  <2>2. k + 1 \in 1..Len(body) /\ Head(num.rest) = body[k + 1]
    <3>1. 1 \in 1..Len(num.rest)
      BY <2>1
    <3>2. num.rest[1] = body[k + 1]
      BY <3>1 DEF ReadTo
    <3>. QED  BY <1>2, <1>5, <2>1, <3>2
  <2>3. body[k + 1] \in N!Separators /\ ~num.digits
    BY <1>1, <1>5, <2>2
  <2>4. k # 0
    BY <1>1, <1>5, <2>2
  <2>5. k \in 1..Len(body) /\ ~N!IsDigit(body[k], base)
    BY <1>2, <1>3, <2>3, <2>4
  <2>6. N!IsDigit(body[k + 1], base)
    BY <1>1, <2>5
  <2>. QED  BY <1>5, <2>2, <2>6
<1>. QED  BY <1>4, <1>5

\* Nothing is read, a digit is read, or a separator.
LEMMA AmountsNone ==
  ASSUME N!BitsAssumption, NEW base \in N!Radix, NEW body \in Seq(N!Char)
  PROVE  Amounts(0, body, base, 0)
<1>1. base \in Int
  BY DEF N!Radix
<1>2. \A i \in 1..Len(body) : N!IsDigit(body[i], base) => N!Value(body[i]) \in Int
  BY DigitsAre
<1>3. PICK s, w : AreValues(s, w, body, base)
  BY <1>1, <1>2, SumIsValue
<1>4. s[1] \in Int /\ w[1] \in Int
  BY <1>3 DEF AreValues
<1>5. 0 * w[1] + s[1] = s[1]
  BY <1>4
<1>6. N!Signed(0) = 0
  <2>1. 0 \in N!Cell
    BY FullFacts, CellIs
  <2>. QED  BY <2>1, NumberCell
<1>. QED  BY <1>3, <1>5, <1>6 DEF Amounts

LEMMA AmountsDigit ==
  ASSUME N!BitsAssumption, NEW base \in N!Radix, NEW body \in Seq(N!Char), NEW accum \in Int,
         NEW k \in 0..Len(body), k + 1 \in 1..Len(body), Amounts(accum, body, base, k),
         N!IsDigit(body[k + 1], base)
  PROVE  Amounts(N!Signed(accum * base + N!Value(body[k + 1])), body, base, k + 1)
<1>1. base \in Int /\ N!Value(body[k + 1]) \in Int
  BY DigitsAre DEF N!Radix
<1>2. PICK s, w : \E a \in Int :
        AreValues(s, w, body, base) /\ accum = N!Signed(a) /\ a * w[k + 1] + s[k + 1] = s[1]
  BY DEF Amounts
<1>3. PICK a \in Int :
        AreValues(s, w, body, base) /\ accum = N!Signed(a) /\ a * w[k + 1] + s[k + 1] = s[1]
  BY <1>2
<1>. DEFINE v == N!Value(body[k + 1])
            b == a * base + v
            w2 == w[k + 2]
            s2 == s[k + 2]
<1>4. N!Signed(accum * base + v) = N!Signed(b) /\ b \in Int
  <2>1. v \in Int
    BY <1>1
  <2>. HIDE DEF v
  <2>2. N!Signed(N!Signed(a) * base + v) = N!Signed(a * base + v)
    BY <1>1, <2>1, NumberDigit
  <2>. QED  BY <1>1, <1>3, <2>1, <2>2
<1>5. k + 1 + 1 = k + 2 /\ k + 2 \in 1..(Len(body) + 1)
  OBVIOUS
<1>6. s[k + 1] = v * w2 + s2 /\ w[k + 1] = base * w2
  BY <1>3, <1>5 DEF AreValues
<1>7. s2 \in Int /\ w2 \in Int /\ v \in Int
  BY <1>1, <1>3, <1>5 DEF AreValues
<1>8. a * (base * w2) + (v * w2 + s2) = s[1]
  BY <1>3, <1>6
<1>9. b = a * base + v
  OBVIOUS
<1>. HIDE DEF v, b, w2, s2
<1>10. b * w2 + s2 = s[1]
  <2>1. b * w2 = a * (base * w2) + v * w2
    BY <1>1, <1>7, <1>9
  <2>2. a * (base * w2) \in Int /\ v * w2 \in Int
    BY <1>1, <1>7
  <2>3. b * w2 + s2 = a * (base * w2) + (v * w2 + s2)
    BY <1>7, <2>1, <2>2
  <2>. QED  BY <1>8, <2>3
<1>. QED  BY <1>3, <1>4, <1>5, <1>10 DEF Amounts, v, b, w2, s2

LEMMA AmountsSeparator ==
  ASSUME NEW base, NEW body \in Seq(N!Char), NEW accum,
         NEW k \in 0..Len(body), k + 1 \in 1..Len(body), Amounts(accum, body, base, k),
         ~N!IsDigit(body[k + 1], base)
  PROVE  Amounts(accum, body, base, k + 1)
<1>1. PICK s, w : \E a \in Int :
        AreValues(s, w, body, base) /\ accum = N!Signed(a) /\ a * w[k + 1] + s[k + 1] = s[1]
  BY DEF Amounts
<1>2. PICK a \in Int :
        AreValues(s, w, body, base) /\ accum = N!Signed(a) /\ a * w[k + 1] + s[k + 1] = s[1]
  BY <1>1
<1>3. s[k + 1] = s[k + 1 + 1] /\ w[k + 1] = w[k + 1 + 1]
  BY <1>2 DEF AreValues
<1>. QED  BY <1>2, <1>3 DEF Amounts

\* All is read: the cell keeps the low bits of the sum.
LEMMA AmountsAll ==
  ASSUME NEW base \in N!Radix, NEW body \in Seq(N!Char), NEW accum,
         Amounts(accum, body, base, Len(body))
  PROVE  N!Sum(body, base) \in Int /\ accum = N!Signed(N!Sum(body, base))
<1>1. PICK s, w : \E a \in Int :
        /\ AreValues(s, w, body, base) /\ accum = N!Signed(a)
        /\ a * w[Len(body) + 1] + s[Len(body) + 1] = s[1]
  BY DEF Amounts
<1>2. PICK a \in Int :
        /\ AreValues(s, w, body, base) /\ accum = N!Signed(a)
        /\ a * w[Len(body) + 1] + s[Len(body) + 1] = s[1]
  BY <1>1
<1>3. a * 1 + 0 = s[1]
  BY <1>2 DEF AreValues
<1>4. s[1] = a
  BY <1>3
<1>5. base \in Int /\ Len(body) \in Nat /\ 1 \in 1..(Len(body) + 1)
  BY DEF N!Radix
<1>6. \A i \in 1..Len(body) : N!IsDigit(body[i], base) => N!Value(body[i]) \in Int
  BY DigitsAre
<1>7. PICK x, y : AreValues(x, y, body, base) /\ N!Sum(body, base) = x[1]
  BY <1>5, <1>6, SumIsValue
<1>8. x[1] = s[1]
  BY <1>2, <1>5, <1>7, ValuesAgree
<1>. QED  BY <1>2, <1>4, <1>7, <1>8

-----------------------------------------------------------------------------
(* Writing a number *)

\* What ?sep holds between digits.
Marks == {",", "_"}
LEMMA MarksAre == Marks \subseteq N!Char /\ Marks \subseteq N!Separators
BY DEF Marks, N!Char, N!Separators

\* What is held: digits, and separators with a digit on their right.
WellHeld(text, r) ==
  /\ text # <<>> => N!IsDigit(text[Len(text)], r)
  /\ \A i \in 1..Len(text) :
       \/ N!IsDigit(text[i], r)
       \/ text[i] \in Marks /\ i < Len(text) /\ N!IsDigit(text[i + 1], r)
\* What is held, and what is left to convert.
HoldsOf(text, r, left, total) ==
  \E s, w : AreValues(s, w, text, r) /\ left * w[1] + s[1] = total

\* Characters are held in front of those that are.
LEMMA InFront ==
  ASSUME NEW text \in Seq(N!Char), NEW ch \in N!Char
  PROVE  /\ <<ch>> \o text \in Seq(N!Char) /\ Len(<<ch>> \o text) = Len(text) + 1
         /\ (<<ch>> \o text)[1] = ch /\ <<ch>> \o text # <<>>
         /\ \A i \in 1..Len(text) : (<<ch>> \o text)[i + 1] = text[i]
<1>1. <<ch>> \in Seq(N!Char) /\ Len(<<ch>>) = 1 /\ <<ch>>[1] = ch /\ Len(text) \in Nat
  OBVIOUS
<1>. DEFINE new == <<ch>> \o text
<1>2. /\ new \in Seq(N!Char) /\ Len(new) = 1 + Len(text)
      /\ \A i \in 1..(1 + Len(text)) : new[i] = IF i <= 1 THEN <<ch>>[i] ELSE text[i - 1]
  BY <1>1, ConcatProperties
<1>3. \A i \in 1..Len(text) : i + 1 \in 1..(1 + Len(text)) /\ ~(i + 1 <= 1) /\ (i + 1) - 1 = i
  BY <1>1
<1>4. 1 \in 1..(1 + Len(text))
  BY <1>1
<1>. HIDE DEF new
<1>5. new[1] = ch /\ \A i \in 1..Len(text) : new[i + 1] = text[i]
  BY <1>1, <1>2, <1>3, <1>4
<1>6. new # <<>>
  BY <1>1, <1>2
<1>. QED  BY <1>1, <1>2, <1>5, <1>6 DEF new

LEMMA ValuesInFront ==
  ASSUME NEW text \in Seq(N!Char), NEW ch \in N!Char, NEW r \in Int,
         NEW s, NEW w, AreValues(s, w, text, r),
         N!IsDigit(ch, r) => N!Value(ch) \in Int
  PROVE  \E x, y :
           /\ AreValues(x, y, <<ch>> \o text, r)
           /\ IF N!IsDigit(ch, r) THEN x[1] = N!Value(ch) * w[1] + s[1] /\ y[1] = r * w[1]
              ELSE x[1] = s[1] /\ y[1] = w[1]
<1>. DEFINE new == <<ch>> \o text
            n == Len(text)
            sch == IF N!IsDigit(ch, r) THEN N!Value(ch) * w[1] + s[1] ELSE s[1]
            wch == IF N!IsDigit(ch, r) THEN r * w[1] ELSE w[1]
            x == [i \in 1..(n + 2) |-> IF i = 1 THEN sch ELSE s[i - 1]]
            y == [i \in 1..(n + 2) |-> IF i = 1 THEN wch ELSE w[i - 1]]
<1>1. n \in Nat /\ Len(new) = n + 1 /\ new[1] = ch /\ \A i \in 1..n : new[i + 1] = text[i]
  BY InFront
<1>2. /\ s[n + 1] = 0 /\ w[n + 1] = 1
      /\ \A i \in 1..(n + 1) : s[i] \in Int /\ w[i] \in Int
      /\ \A i \in 1..n :
           IF N!IsDigit(text[i], r)
           THEN s[i] = N!Value(text[i]) * w[i + 1] + s[i + 1] /\ w[i] = r * w[i + 1]
           ELSE s[i] = s[i + 1] /\ w[i] = w[i + 1]
  BY DEF AreValues
<1>3. sch \in Int /\ wch \in Int
  <2>1. s[1] \in Int /\ w[1] \in Int
    BY <1>1, <1>2
  <2>. QED  BY <2>1
<1>4. x[1] = sch /\ y[1] = wch
  BY <1>1
<1>5. \A i \in 1..(n + 1) : x[i + 1] = s[i] /\ y[i + 1] = w[i]
  <2>1. \A i \in 1..(n + 1) : i + 1 \in 1..(n + 2) /\ i + 1 # 1 /\ (i + 1) - 1 = i
    BY <1>1
  <2>. HIDE DEF sch, wch, n
  <2>. QED  BY <2>1
<1>6. \A i \in 2..(n + 2) : i - 1 \in 1..(n + 1) /\ (i - 1) + 1 = i
  BY <1>1
<1>7. \A i \in 1..(n + 2) : i = 1 \/ i \in 2..(n + 2)
  BY <1>1
<1>. HIDE DEF x, y, new, n
<1>8. ASSUME NEW i \in 1..(n + 2) PROVE x[i] \in Int /\ y[i] \in Int
  <2>1. CASE i = 1
    BY <1>3, <1>4, <2>1
  <2>2. CASE i \in 2..(n + 2)
    <3>1. PICK j \in 1..(n + 1) : i = j + 1
      BY <1>6, <2>2
    <3>2. s[j] \in Int /\ w[j] \in Int
      BY <1>2
    <3>. QED  BY <1>5, <3>1, <3>2
  <2>. QED  BY <1>7, <2>1, <2>2
<1>9. x[n + 2] = 0 /\ y[n + 2] = 1
  <2>1. n + 1 \in 1..(n + 1) /\ (n + 1) + 1 = n + 2
    BY <1>1
  <2>. QED  BY <1>2, <1>5, <2>1
<1>10. ASSUME NEW i \in 1..(n + 1)
       PROVE  IF N!IsDigit(new[i], r)
              THEN x[i] = N!Value(new[i]) * y[i + 1] + x[i + 1] /\ y[i] = r * y[i + 1]
              ELSE x[i] = x[i + 1] /\ y[i] = y[i + 1]
  <2>1. CASE i = 1
    <3>1. x[2] = s[1] /\ y[2] = w[1]
      <4>1. 1 \in 1..(n + 1) /\ 1 + 1 = 2
        BY <1>1
      <4>. QED  BY <1>5, <4>1
    <3>. QED  BY <1>1, <1>4, <2>1, <3>1
  <2>2. CASE i # 1
    <3>. DEFINE j == i - 1
    <3>1. j \in 1..n /\ j \in 1..(n + 1) /\ j + 1 \in 1..(n + 1) /\ i = j + 1
      BY <1>1, <2>2
    <3>. HIDE DEF j
    <3>2. new[i] = text[j] /\ x[i] = s[j] /\ y[i] = w[j] /\ x[i + 1] = s[j + 1] /\ y[i + 1] = w[j + 1]
      BY <1>1, <1>5, <3>1
    <3>. QED  BY <1>2, <3>1, <3>2
  <2>. QED  BY <2>1, <2>2
<1>11. AreValues(x, y, new, r)
  <2>1. Len(new) + 1 = n + 2
    BY <1>1
  <2>. QED  BY <1>1, <1>8, <1>9, <1>10, <2>1 DEF AreValues
<1>12. IF N!IsDigit(ch, r) THEN x[1] = N!Value(ch) * w[1] + s[1] /\ y[1] = r * w[1]
       ELSE x[1] = s[1] /\ y[1] = w[1]
  BY <1>4
<1>. QED  BY <1>11, <1>12 DEF new

\* # holds one more digit, and divides what is left.
LEMMA HoldDigit ==
  ASSUME NEW r \in N!Radix, NEW text \in Seq(N!Char), NEW left \in Nat, NEW total,
         WellHeld(text, r), HoldsOf(text, r, left, total)
  PROVE  LET held == <<N!Digit[(left % r) + 1]>> \o text
         IN /\ held \in Seq(N!Char) /\ held # <<>> /\ N!IsDigit(held[1], r)
            /\ WellHeld(held, r) /\ HoldsOf(held, r, left \div r, total)
            /\ left \div r \in Nat
<1>. DEFINE d == left % r
            q == left \div r
            ch == N!Digit[d + 1]
            held == <<ch>> \o text
<1>1. r \in Nat \ {0} /\ left \in Int
  BY DEF N!Radix
<1>2. left = r * q + d /\ d \in 0..(r - 1) /\ q \in Int
  BY <1>1, Divided
<1>3. q \in Nat
  BY <1>1
<1>4. ch \in N!Char /\ N!IsDigit(ch, r) /\ N!Value(ch) = d
  <2>. HIDE DEF d
  <2>. QED  BY <1>2, DigitFacts
<1>5. PICK s, w : AreValues(s, w, text, r) /\ left * w[1] + s[1] = total
  BY DEF HoldsOf
<1>6. s[1] \in Int /\ w[1] \in Int
  BY <1>5 DEF AreValues
<1>. HIDE DEF d, q, ch
<1>7. PICK x, y : AreValues(x, y, held, r) /\ x[1] = d * w[1] + s[1] /\ y[1] = r * w[1]
  <2>1. \E x, y : /\ AreValues(x, y, <<ch>> \o text, r)
                  /\ IF N!IsDigit(ch, r) THEN x[1] = N!Value(ch) * w[1] + s[1] /\ y[1] = r * w[1]
                     ELSE x[1] = s[1] /\ y[1] = w[1]
    <3>1. N!IsDigit(ch, r) => N!Value(ch) \in Int
      BY <1>2, <1>4
    <3>2. r \in Int
      BY <1>1
    <3>. QED  BY <1>4, <1>5, <3>1, <3>2, ValuesInFront
  <2>. QED  BY <1>4, <2>1
<1>8. q * y[1] + x[1] = total
  <2>. DEFINE w1 == w[1]
              s1 == s[1]
  <2>1. w1 \in Int /\ s1 \in Int /\ r \in Int /\ d \in Int /\ q \in Int /\ left \in Int
    BY <1>1, <1>2, <1>6
  <2>2. left * w1 + s1 = total
    BY <1>5
  <2>3. x[1] = d * w1 + s1 /\ y[1] = r * w1
    BY <1>7
  <2>. HIDE DEF w1, s1
  <2>4. left * w1 = q * (r * w1) + d * w1
    <3>1. (r * q + d) * w1 = q * (r * w1) + d * w1
      BY <2>1
    <3>. QED  BY <1>2, <3>1
  <2>5. q * (r * w1) \in Int /\ d * w1 \in Int
    BY <2>1
  <2>6. q * (r * w1) + (d * w1 + s1) = total
    BY <2>1, <2>2, <2>4, <2>5
  <2>. QED  BY <2>3, <2>6
<1>9. HoldsOf(held, r, q, total)
  BY <1>7, <1>8 DEF HoldsOf
<1>10. /\ held \in Seq(N!Char) /\ Len(held) = Len(text) + 1 /\ held[1] = ch /\ held # <<>>
       /\ \A i \in 1..Len(text) : held[i + 1] = text[i]
  BY <1>4, InFront
<1>. HIDE DEF held
<1>11. WellHeld(held, r)
  <2>0. Len(text) \in Nat
    OBVIOUS
  <2>1. N!IsDigit(held[Len(held)], r)
    <3>1. CASE text = <<>>
      <4>1. Len(held) = 1
        BY <1>10, <3>1
      <4>. QED  BY <1>4, <1>10, <4>1
    <3>2. CASE text # <<>>
      <4>1. Len(text) \in 1..Len(text)
        BY <2>0, <3>2
      <4>. QED  BY <1>10, <3>2, <4>1 DEF WellHeld
    <3>. QED  BY <3>1, <3>2
  <2>2. ASSUME NEW i \in 1..Len(held)
        PROVE  \/ N!IsDigit(held[i], r)
               \/ held[i] \in Marks /\ i < Len(held) /\ N!IsDigit(held[i + 1], r)
    <3>1. CASE i = 1
      BY <1>4, <1>10, <3>1
    <3>2. CASE i # 1
      <4>. DEFINE j == i - 1
      <4>1. j \in 1..Len(text) /\ i = j + 1 /\ j < Len(text) <=> i < Len(held)
        BY <1>10, <2>0, <3>2
      <4>2. j \in 1..Len(text) /\ i = j + 1
        BY <1>10, <2>0, <3>2
      <4>. HIDE DEF j
      <4>3. held[i] = text[j]
        BY <1>10, <4>2
      <4>4. CASE N!IsDigit(text[j], r)
        BY <4>3, <4>4
      <4>5. CASE ~N!IsDigit(text[j], r)
        <5>1. text[j] \in Marks /\ j < Len(text) /\ N!IsDigit(text[j + 1], r)
          BY <4>2, <4>5 DEF WellHeld
        <5>2. j + 1 \in 1..Len(text) /\ i + 1 = (j + 1) + 1 /\ i < Len(held)
          BY <1>10, <2>0, <4>2, <5>1
        <5>3. held[i + 1] = text[j + 1]
          BY <1>10, <5>2
        <5>. QED  BY <4>3, <5>1, <5>2, <5>3
      <4>. QED  BY <4>4, <4>5
    <3>. QED  BY <3>1, <3>2
  <2>. QED  BY <2>1, <2>2 DEF WellHeld
<1>. QED  BY <1>3, <1>4, <1>9, <1>10, <1>11 DEF held, ch, d, q

\* ?sep holds a separator, which counts nothing.
LEMMA HoldSeparator ==
  ASSUME NEW r \in N!Radix, NEW text \in Seq(N!Char), NEW left, NEW total, NEW ch \in Marks,
         WellHeld(text, r), HoldsOf(text, r, left, total), text # <<>>, N!IsDigit(text[1], r)
  PROVE  /\ <<ch>> \o text \in Seq(N!Char) /\ <<ch>> \o text # <<>>
         /\ WellHeld(<<ch>> \o text, r) /\ HoldsOf(<<ch>> \o text, r, left, total)
<1>. DEFINE held == <<ch>> \o text
<1>1. ch \in N!Char /\ ch \in N!Separators
  BY MarksAre
<1>2. ~N!IsDigit(ch, r)
  BY <1>1, DigitsAre
<1>3. PICK s, w : AreValues(s, w, text, r) /\ left * w[1] + s[1] = total
  BY DEF HoldsOf
<1>4. PICK x, y : AreValues(x, y, held, r) /\ x[1] = s[1] /\ y[1] = w[1]
  <2>1. r \in Int
    BY DEF N!Radix
  <2>2. \E x, y : /\ AreValues(x, y, <<ch>> \o text, r)
                  /\ IF N!IsDigit(ch, r) THEN x[1] = N!Value(ch) * w[1] + s[1] /\ y[1] = r * w[1]
                     ELSE x[1] = s[1] /\ y[1] = w[1]
    BY <1>1, <1>2, <1>3, <2>1, ValuesInFront
  <2>. QED  BY <1>2, <2>2
<1>5. HoldsOf(held, r, left, total)
  BY <1>3, <1>4 DEF HoldsOf
<1>6. /\ held \in Seq(N!Char) /\ Len(held) = Len(text) + 1 /\ held[1] = ch /\ held # <<>>
      /\ \A i \in 1..Len(text) : held[i + 1] = text[i]
  BY <1>1, InFront
<1>7. Len(text) \in Nat /\ Len(text) # 0
  OBVIOUS
<1>. HIDE DEF held
<1>8. N!IsDigit(held[Len(held)], r)
  <2>1. Len(text) \in 1..Len(text)
    BY <1>7
  <2>. QED  BY <1>6, <2>1 DEF WellHeld
<1>9. ASSUME NEW i \in 1..Len(held)
      PROVE  \/ N!IsDigit(held[i], r)
             \/ held[i] \in Marks /\ i < Len(held) /\ N!IsDigit(held[i + 1], r)
  <2>1. CASE i = 1
    <3>1. 1 \in 1..Len(text) /\ i < Len(held)
      BY <1>6, <1>7, <2>1
    <3>. QED  BY <1>6, <2>1, <3>1
  <2>2. CASE i # 1
    <3>. DEFINE j == i - 1
    <3>1. j \in 1..Len(text) /\ i = j + 1
      BY <1>6, <1>7, <2>2
    <3>. HIDE DEF j
    <3>2. held[i] = text[j]
      BY <1>6, <3>1
    <3>3. CASE N!IsDigit(text[j], r)
      BY <3>2, <3>3
    <3>4. CASE ~N!IsDigit(text[j], r)
      <4>1. text[j] \in Marks /\ j < Len(text) /\ N!IsDigit(text[j + 1], r)
        BY <3>1, <3>4 DEF WellHeld
      <4>2. j + 1 \in 1..Len(text) /\ i + 1 = (j + 1) + 1 /\ i < Len(held)
        BY <1>6, <1>7, <3>1, <4>1
      <4>3. held[i + 1] = text[j + 1]
        BY <1>6, <4>2
      <4>. QED  BY <3>2, <4>1, <4>2, <4>3
    <3>. QED  BY <3>3, <3>4
  <2>. QED  BY <2>1, <2>2
<1>10. WellHeld(held, r)
  BY <1>8, <1>9 DEF WellHeld
<1>. QED  BY <1>5, <1>6, <1>10 DEF held

-----------------------------------------------------------------------------
(* What is read and written *)

LEMMA BodyTyped ==
  ASSUME NEW text \in Seq(N!Char), NEW r \in N!Radix
  PROVE  N!AfterSign(N!AfterRadix(text)) \in Seq(N!Char) /\ N!RadixOf(text, r) \in N!Radix
<1>1. N!AfterRadix(text) \in Seq(N!Char)
  <2>1. CASE N!HasRadix(text)
    BY <2>1 DEF N!AfterRadix, N!HasRadix
  <2>2. CASE ~N!HasRadix(text)
    BY <2>2 DEF N!AfterRadix
  <2>. QED  BY <2>1, <2>2
<1>2. N!AfterSign(N!AfterRadix(text)) \in Seq(N!Char)
  <2>1. ASSUME NEW x \in Seq(N!Char) PROVE N!AfterSign(x) \in Seq(N!Char)
    <3>1. CASE x = <<>>
      BY <3>1 DEF N!AfterSign, N!Negative, N!Starts
    <3>2. CASE x # <<>>
      <4>1. Tail(x) \in Seq(N!Char)
        BY <3>2
      <4>. QED  BY <4>1 DEF N!AfterSign
    <3>. QED  BY <3>1, <3>2
  <2>. QED  BY <1>1, <2>1
<1>3. N!RadixOf(text, r) \in N!Radix
  <2>1. CASE ~N!HasRadix(text)
    BY <2>1 DEF N!RadixOf
  <2>2. CASE N!HasRadix(text)
    <3>1. \A ch \in DOMAIN N!RadixPrefix : N!RadixPrefix[ch] \in N!Radix
      BY DEF N!RadixPrefix, N!Radix
    <3>2. Head(text) \in DOMAIN N!RadixPrefix
      BY <2>2 DEF N!HasRadix
    <3>. QED  BY <2>2, <3>1, <3>2 DEF N!RadixOf
  <2>. QED  BY <2>1, <2>2
<1>. QED  BY <1>2, <1>3

\* The number that . and u. convert, and what they type for it.
Converted(p) == N!Unsigned(IF p.signed /\ p.n < 0 THEN N!Signed(-p.n) ELSE p.n)
Printing == [n : N!Cell, signed : BOOLEAN]
Minus(p) == p.signed /\ p.n < 0
IsPrinted(h, p, r) ==
  \E text \in Seq(N!Char) :
    /\ h = IF Minus(p) THEN <<"-">> \o text ELSE text
    /\ text # <<>> /\ N!IsDigit(text[1], r)
    /\ WellHeld(text, r) /\ HoldsOf(text, r, 0, Converted(p))

LEMMA ConvertedNat ==
  ASSUME N!BitsAssumption, NEW p \in Printing
  PROVE  /\ p.n \in N!Cell /\ p.n \in Int /\ Converted(p) \in Nat
         /\ N!Signed(IF Minus(p) THEN -Converted(p) ELSE Converted(p)) = p.n
<1>1. p.n \in N!Cell /\ p.n \in Int /\ p.signed \in BOOLEAN
  BY NumberCell DEF Printing
<1>. DEFINE n == p.n
            m == IF Minus(p) THEN N!Signed(-n) ELSE n
<1>2. m \in N!Cell /\ m \in Int /\ -n \in Int
  BY <1>1, NumberSigned
<1>3. Converted(p) = N!Unsigned(m)
  BY DEF Converted, Minus
<1>4. N!Unsigned(m) \in Nat
  <2>1. m % Full \in 0..(Full - 1)
    BY <1>2, FullFacts, Divided
  <2>. HIDE DEF m
  <2>2. m % Full \in Nat
    BY <2>1, FullFacts
  <2>. QED  BY <2>2, NumberUnsignedIs
<1>5. N!Signed(N!Unsigned(m)) = m
  BY <1>2, NumberCell
<1>6. CASE Minus(p)
  <2>. DEFINE c == N!Unsigned(m)
  <2>1. c \in Int
    BY <1>4
  <2>2. N!Signed(c) = N!Signed(-n)
    BY <1>5, <1>6
  <2>. HIDE DEF c, m
  <2>3. N!Signed(-N!Signed(c)) = N!Signed(-c)
    BY <2>1, NumberNegated
  <2>4. N!Signed(-N!Signed(-n)) = N!Signed(-(-n))
    BY <1>2, NumberNegated
  <2>5. -(-n) = n
    BY <1>1
  <2>6. N!Signed(n) = n
    BY <1>1, NumberCell
  <2>. QED  BY <1>1, <1>3, <1>4, <1>6, <2>2, <2>3, <2>4, <2>5, <2>6 DEF c
<1>7. CASE ~Minus(p)
  BY <1>1, <1>3, <1>4, <1>5, <1>7
<1>. QED  BY <1>6, <1>7

\* What was typed is read as the number it was typed for.
LEMMA PrintedIsNumber ==
  ASSUME N!BitsAssumption, NEW r \in N!Radix, NEW p \in Printing, NEW h, IsPrinted(h, p, r)
  PROVE  LET body == N!AfterSign(N!AfterRadix(h))
         IN /\ h # <<>> /\ N!RadixOf(h, r) = r /\ N!IsNumber(body, r)
            /\ N!Signed(IF N!Negative(N!AfterRadix(h)) THEN -N!Sum(body, r) ELSE N!Sum(body, r)) = p.n
            /\ NoPoint(body, Len(body))
<1>1. PICK text \in Seq(N!Char) :
        /\ h = IF Minus(p) THEN <<"-">> \o text ELSE text
        /\ text # <<>> /\ N!IsDigit(text[1], r)
        /\ WellHeld(text, r) /\ HoldsOf(text, r, 0, Converted(p))
  BY DEF IsPrinted
<1>2. Len(text) \in Nat /\ Len(text) # 0 /\ Head(text) = text[1]
  BY <1>1
<1>3. Head(text) \notin DOMAIN N!RadixPrefix /\ Head(text) # "-"
  BY <1>1, <1>2, DigitsAre DEF N!Separators
<1>4. /\ h # <<>> /\ ~N!HasRadix(h) /\ (N!Negative(h) <=> Minus(p)) /\ N!AfterSign(h) = text
  <2>1. CASE ~Minus(p)
    BY <1>1, <1>3, <2>1 DEF N!HasRadix, N!Negative, N!Starts, N!AfterSign
  <2>2. CASE Minus(p)
    <3>1. h = <<"-">> \o text
      BY <1>1, <2>2
    <3>2. "-" \in N!Char /\ "-" \notin DOMAIN N!RadixPrefix
      BY DEF N!Char, N!RadixPrefix
    <3>3. /\ h \in Seq(N!Char) /\ Len(h) = Len(text) + 1 /\ h[1] = "-" /\ h # <<>>
          /\ \A i \in 1..Len(text) : h[i + 1] = text[i]
      BY <3>1, <3>2, InFront
    <3>4. Head(h) = "-" /\ Tail(h) = text
      <4>1. Head(h) = "-"
        BY <3>3
      <4>2. Tail(h) \in Seq(N!Char) /\ Len(Tail(h)) = Len(text)
        BY <1>2, <3>3
      <4>3. \A i \in 1..Len(text) : Tail(h)[i] = text[i]
        BY <1>2, <3>3
      <4>. QED  BY <4>1, <4>2, <4>3, SeqEqual
    <3>. QED  BY <2>2, <3>2, <3>3, <3>4 DEF N!HasRadix, N!Negative, N!Starts, N!AfterSign
  <2>. QED  BY <2>1, <2>2
<1>5. N!AfterRadix(h) = h /\ N!RadixOf(h, r) = r
  BY <1>4 DEF N!AfterRadix, N!RadixOf
<1>6. N!IsNumber(text, r)
  <2>1. N!IsDigit(text[Len(text)], r)
    BY <1>1 DEF WellHeld
  <2>2. \A i \in 1..Len(text) :
          \/ N!IsDigit(text[i], r)
          \/ text[i] \in N!Separators /\ N!IsDigit(text[i + 1], r)
    BY <1>1, MarksAre DEF WellHeld
  <2>. QED  BY <1>1, <2>1, <2>2 DEF N!IsNumber
<1>7. N!Sum(text, r) = Converted(p)
  <2>1. PICK s, w : AreValues(s, w, text, r) /\ 0 * w[1] + s[1] = Converted(p)
    BY <1>1 DEF HoldsOf
  <2>2. s[1] \in Int /\ w[1] \in Int
    BY <1>2, <2>1 DEF AreValues
  <2>3. s[1] = Converted(p)
    BY <2>1, <2>2
  <2>4. r \in Int /\ \A i \in 1..Len(text) : N!IsDigit(text[i], r) => N!Value(text[i]) \in Int
    BY DigitsAre DEF N!Radix
  <2>5. PICK x, y : AreValues(x, y, text, r) /\ N!Sum(text, r) = x[1]
    BY <1>2, <2>4, SumIsValue
  <2>6. 1 \in 1..(Len(text) + 1)
    BY <1>2
  <2>7. x[1] = s[1]
    BY <1>2, <2>1, <2>5, <2>6, ValuesAgree
  <2>. QED  BY <2>3, <2>5, <2>7
<1>8. NoPoint(text, Len(text))
  <2>1. ASSUME NEW i \in 1..Len(text) PROVE text[i] # "."
    <3>1. CASE N!IsDigit(text[i], r)
      BY <3>1, DigitsAre DEF N!Separators
    <3>2. CASE text[i] \in Marks
      BY <3>2 DEF Marks
    <3>. QED  BY <1>1, <3>1, <3>2 DEF WellHeld
  <2>. QED  BY <2>1 DEF NoPoint
<1>9. N!Signed(IF Minus(p) THEN -Converted(p) ELSE Converted(p)) = p.n
  BY ConvertedNat
<1>. QED  BY <1>4, <1>5, <1>6, <1>7, <1>8, <1>9

-----------------------------------------------------------------------------
(* The invariant of Numbers *)

NumberTyped ==
  /\ radix \in N!Radix /\ chosen \in N!Radix /\ (pc # "read" => radix = chosen)
  /\ dpl \in Int /\ separate \in BOOLEAN
  /\ number \in Numeral /\ token \in Seq(N!Char)
  /\ u \in Nat /\ hld \in Seq(N!Char) /\ printed \in Printing

\* What is written is only read back as a whole.
Reread == hld = <<>> \/ (token = hld /\ IsPrinted(hld, printed, chosen))

Reading ==
  LET k == Len(N!Body) - Len(number.rest)
  IN /\ ReadTo(number, N!Body, N!Base, k)
     /\ Amounts(number.accum, N!Body, N!Base, k)
     /\ NoPoint(N!Body, k) => dpl = -1
     /\ radix = N!Base /\ number.saved = chosen
     /\ number.neg <=> N!Negative(N!AfterRadix(token))

IsRead ==
  /\ N!IsNumber(N!Body, N!Base)
  /\ number.accum = N!Signed(IF N!Negative(N!AfterRadix(token))
                             THEN -N!Sum(N!Body, N!Base) ELSE N!Sum(N!Body, N!Base))
  /\ NoPoint(N!Body, Len(N!Body)) => dpl = -1

Writing ==
  /\ WellHeld(hld, radix) /\ HoldsOf(hld, radix, u, Converted(printed))
  /\ u = 0 /\ hld # <<>> => N!IsDigit(hld[1], radix)

NumberInv ==
  /\ NumberTyped
  /\ pc = "interpret" => token = <<>> /\ hld = <<>>
  /\ pc = "print" => token = <<>> /\ Writing
  /\ pc = "printed" => token = <<>> /\ hld # <<>> /\ IsPrinted(hld, printed, chosen)
  /\ pc = "read" => Reread /\ Reading
  /\ pc = "number" => Reread /\ IsRead
  /\ pc = "huh" => Reread /\ ~N!IsNumber(N!Body, N!Base)
  /\ pc \in {"interpret", "print", "printed", "read", "number", "huh"}

LEMMA InitNumber == ASSUME N!BitsAssumption PROVE ArithmeticInit => NumberInv
<1>. SUFFICES ASSUME ArithmeticInit PROVE NumberInv
  OBVIOUS
<1>1. N!Init
  BY DEF ArithmeticInit
<1>2. 0 \in N!Cell
  BY FullFacts, CellIs
<1>3. NumberTyped /\ pc = "interpret" /\ token = <<>> /\ hld = <<>>
  BY <1>1, <1>2
     DEF N!Init, NumberTyped, N!Radix, Numeral, Printing, N!Nothing, N!NotPrinted
<1>. QED  BY <1>3 DEF NumberInv

\* number? begins with a token, in the radix that was chosen.
LEMMA NumberBegins ==
  ASSUME N!BitsAssumption, NumberTyped, NEW text \in Seq(N!Char), N!Number(text), radix = chosen,
         hld = <<>> \/ (text = hld /\ IsPrinted(hld, printed, chosen))
  PROVE  NumberInv'
<1>. DEFINE body == N!AfterSign(N!AfterRadix(text))
            base == N!RadixOf(text, chosen)
<1>1. body \in Seq(N!Char) /\ base \in N!Radix
  BY BodyTyped DEF NumberTyped
<1>2. /\ pc' = "read" /\ token' = text /\ radix' = base /\ dpl' = -1
      /\ number' = [saved |-> radix, neg |-> N!Negative(N!AfterRadix(text)), accum |-> 0,
                    rest |-> body, digits |-> FALSE]
      /\ UNCHANGED <<separate, u, hld, printed, chosen>>
  BY DEF N!Number
<1>3. N!Body' = body /\ N!Base' = base /\ N!Negative(N!AfterRadix(token))' = N!Negative(N!AfterRadix(text))
  BY <1>2 DEF N!Body, N!Base
<1>. HIDE DEF body, base
<1>4. N!Negative(N!AfterRadix(text)) \in BOOLEAN
  BY DEF N!Negative, N!Starts
<1>5. number' \in Numeral /\ number'.rest = body /\ number'.accum = 0 /\ ~number'.digits
      /\ number'.saved = chosen /\ (number'.neg <=> N!Negative(N!AfterRadix(text)))
  <2>1. radix \in Int
    BY DEF NumberTyped, N!Radix
  <2>. QED  BY <1>1, <1>2, <1>4, <2>1 DEF Numeral
<1>6. NumberTyped'
  BY <1>1, <1>2, <1>5 DEF NumberTyped
<1>7. ReadTo(number', body, base, 0)
  <2>1. Len(body) \in Nat /\ 0 \in 0..Len(body) /\ Len(body) - 0 = Len(body)
    BY <1>1
  <2>2. \A i \in 1..Len(body) : body[i] = body[0 + i]
    OBVIOUS
  <2>. QED  BY <1>5, <2>1, <2>2 DEF ReadTo
<1>8. Amounts(0, body, base, 0)
  BY <1>1, AmountsNone
<1>9. Reading'
  <2>1. Len(body) - Len(body) = 0
    BY <1>1
  <2>. QED  BY <1>2, <1>3, <1>5, <1>7, <1>8, <2>1 DEF Reading
<1>10. Reread'
  <2>1. CASE hld = <<>>
    <3>1. hld' = hld
      BY <1>2
    <3>2. hld' = <<>>
      BY <2>1, <3>1
    <3>. QED  BY <3>2 DEF Reread
  <2>2. CASE text = hld /\ IsPrinted(hld, printed, chosen)
    <3>1. token' = hld' /\ IsPrinted(hld, printed, chosen)'
      BY <1>2, <2>2
    <3>. QED  BY <3>1 DEF Reread
  <2>. QED  BY <2>1, <2>2
<1>. QED  BY <1>2, <1>6, <1>9, <1>10 DEF NumberInv

\* The token and its radix do not change while it is read.
LEMMA BodyStays ==
  ASSUME UNCHANGED <<token, chosen>>
  PROVE  /\ N!Body' = N!Body /\ N!Base' = N!Base
         /\ N!Negative(N!AfterRadix(token))' = N!Negative(N!AfterRadix(token))
BY DEF N!Body, N!Base

LEMMA BodyBase ==
  ASSUME NumberTyped
  PROVE  N!Body \in Seq(N!Char) /\ N!Base \in N!Radix
BY BodyTyped DEF NumberTyped, N!Body, N!Base

LEMMA DigitRead == N!BitsAssumption /\ NumberInv /\ N!ReadDigit => NumberInv'
<1>. SUFFICES ASSUME N!BitsAssumption, NumberInv, N!ReadDigit PROVE NumberInv'
  OBVIOUS
<1>. DEFINE body == N!Body
            base == N!Base
            k == Len(body) - Len(number.rest)
            ch == Head(number.rest)
<1>1. /\ pc = "read" /\ number.rest # <<>> /\ N!IsDigit(ch, radix)
      /\ number' = [number EXCEPT !.accum = N!Signed(number.accum * radix + N!Value(ch)),
                                  !.rest = Tail(number.rest), !.digits = TRUE]
      /\ dpl' = IF dpl < 0 THEN dpl ELSE dpl + 1
      /\ UNCHANGED <<radix, separate, pc, u, hld, token, printed, chosen>>
  BY DEF N!ReadDigit, N!AtDigit
<1>2. NumberTyped /\ Reading /\ Reread
  BY <1>1 DEF NumberInv
<1>3. body \in Seq(N!Char) /\ base \in N!Radix
  BY <1>2, BodyBase
<1>4. /\ ReadTo(number, body, base, k) /\ Amounts(number.accum, body, base, k)
      /\ NoPoint(body, k) => dpl = -1
      /\ radix = base /\ number.saved = chosen
      /\ number.neg <=> N!Negative(N!AfterRadix(token))
  BY <1>2 DEF Reading
<1>5. N!Body' = body /\ N!Base' = base
      /\ N!Negative(N!AfterRadix(token))' = N!Negative(N!AfterRadix(token))
  BY <1>1, BodyStays
<1>. HIDE DEF body, base
<1>6. number \in Numeral /\ number.rest \in Seq(N!Char) /\ number.accum \in Int
  BY <1>2 DEF NumberTyped, Numeral
<1>7. N!Value(ch) \in Int /\ radix \in Int
  BY <1>1, <1>3, <1>4, DigitsAre DEF N!Radix
<1>8. N!Signed(number.accum * radix + N!Value(ch)) \in Int
  <2>. DEFINE a == number.accum
              v == N!Value(ch)
              x == a * radix + v
  <2>1. a \in Int /\ v \in Int /\ radix \in Int
    BY <1>6, <1>7
  <2>. HIDE DEF a, v
  <2>2. x \in Int
    BY <2>1
  <2>. HIDE DEF x
  <2>3. N!Signed(x) \in Int
    BY <2>2, NumberSigned
  <2>. QED  BY <2>3 DEF x, a, v
<1>9. /\ number' \in Numeral /\ number'.rest = Tail(number.rest) /\ number'.digits
      /\ number'.accum = N!Signed(number.accum * radix + N!Value(ch))
      /\ number'.saved = number.saved /\ number'.neg = number.neg
  <2>1. Tail(number.rest) \in Seq(N!Char)
    BY <1>1, <1>6
  <2>. HIDE DEF ch
  <2>. QED  BY <1>1, <1>6, <1>8, <2>1 DEF Numeral
<1>10. /\ k \in 0..Len(body) /\ k + 1 \in 1..Len(body) /\ body[k + 1] = ch
       /\ ReadTo(number', body, base, k + 1)
  <2>1. /\ N!IsDigit(Head(number.rest), base) /\ number' \in Numeral
        /\ number'.rest = Tail(number.rest)
        /\ number'.digits <=> N!IsDigit(Head(number.rest), base)
    BY <1>1, <1>4, <1>9
  <2>2. ReadTo(number, body, base, k) /\ number.rest # <<>>
    BY <1>1, <1>4
  <2>. HIDE DEF k
  <2>3. /\ k \in 0..Len(body) /\ k + 1 \in 1..Len(body) /\ body[k + 1] = Head(number.rest)
        /\ ReadTo(number', body, base, k + 1)
    BY <1>3, <1>6, <2>1, <2>2, ReadOn
  <2>. QED  BY <2>3
<1>11. Len(body) - Len(number'.rest) = k + 1
  BY <1>10 DEF ReadTo
<1>. HIDE DEF k, ch
<1>12. Amounts(number'.accum, body, base, k + 1)
  <2>1. N!IsDigit(body[k + 1], base)
    BY <1>1, <1>4, <1>10
  <2>2. number'.accum = N!Signed(number.accum * base + N!Value(body[k + 1]))
    BY <1>4, <1>9, <1>10
  <2>. QED  BY <1>3, <1>4, <1>6, <1>10, <2>1, <2>2, AmountsDigit
<1>13. NoPoint(body, k + 1) => dpl' = -1
  <2>1. \A i \in 1..k : i \in 1..(k + 1)
    BY <1>10
  <2>2. NoPoint(body, k + 1) => NoPoint(body, k)
    BY <2>1 DEF NoPoint
  <2>. QED  BY <1>1, <1>4, <2>2
<1>14. Reading'
  BY <1>1, <1>4, <1>5, <1>9, <1>10, <1>11, <1>12, <1>13 DEF Reading
<1>15. NumberTyped'
  <2>1. dpl' \in Int
    BY <1>1, <1>2 DEF NumberTyped
  <2>. QED  BY <1>1, <1>2, <1>9, <2>1 DEF NumberTyped
<1>16. Reread'
  BY <1>1, <1>2 DEF Reread
<1>. QED  BY <1>1, <1>14, <1>15, <1>16 DEF NumberInv

LEMMA SeparatorRead == NumberInv /\ N!ReadSeparator => NumberInv'
<1>. SUFFICES ASSUME NumberInv, N!ReadSeparator PROVE NumberInv'
  OBVIOUS
<1>. DEFINE body == N!Body
            base == N!Base
            k == Len(body) - Len(number.rest)
            ch == Head(number.rest)
<1>1. /\ pc = "read" /\ number.rest # <<>> /\ ~N!IsDigit(ch, radix)
      /\ number.digits /\ ch \in N!Separators
      /\ number' = [number EXCEPT !.rest = Tail(number.rest), !.digits = FALSE]
      /\ dpl' = IF ch = "." THEN 0 ELSE dpl
      /\ UNCHANGED <<radix, separate, pc, u, hld, token, printed, chosen>>
  BY DEF N!ReadSeparator, N!AtSeparator, N!AtDigit
<1>2. NumberTyped /\ Reading /\ Reread
  BY <1>1 DEF NumberInv
<1>3. body \in Seq(N!Char) /\ base \in N!Radix
  BY <1>2, BodyBase
<1>4. /\ ReadTo(number, body, base, k) /\ Amounts(number.accum, body, base, k)
      /\ NoPoint(body, k) => dpl = -1
      /\ radix = base /\ number.saved = chosen
      /\ number.neg <=> N!Negative(N!AfterRadix(token))
  BY <1>2 DEF Reading
<1>5. N!Body' = body /\ N!Base' = base
      /\ N!Negative(N!AfterRadix(token))' = N!Negative(N!AfterRadix(token))
  BY <1>1, BodyStays
<1>. HIDE DEF body, base
<1>6. number \in Numeral /\ number.rest \in Seq(N!Char)
  BY <1>2 DEF NumberTyped, Numeral
<1>7. /\ number' \in Numeral /\ number'.rest = Tail(number.rest) /\ ~number'.digits
      /\ number'.accum = number.accum
      /\ number'.saved = number.saved /\ number'.neg = number.neg
  <2>1. Tail(number.rest) \in Seq(N!Char)
    BY <1>1, <1>6
  <2>. HIDE DEF ch
  <2>. QED  BY <1>1, <1>6, <2>1 DEF Numeral
<1>8. /\ k \in 0..Len(body) /\ k + 1 \in 1..Len(body) /\ body[k + 1] = ch
      /\ ReadTo(number', body, base, k + 1)
  <2>1. /\ number.digits /\ Head(number.rest) \in N!Separators /\ number' \in Numeral
        /\ number'.rest = Tail(number.rest)
        /\ number'.digits <=> N!IsDigit(Head(number.rest), base)
    BY <1>1, <1>4, <1>7
  <2>2. ReadTo(number, body, base, k) /\ number.rest # <<>>
    BY <1>1, <1>4
  <2>. HIDE DEF k
  <2>3. /\ k \in 0..Len(body) /\ k + 1 \in 1..Len(body) /\ body[k + 1] = Head(number.rest)
        /\ ReadTo(number', body, base, k + 1)
    BY <1>3, <1>6, <2>1, <2>2, ReadOn
  <2>. QED  BY <2>3
<1>9. Len(body) - Len(number'.rest) = k + 1
  BY <1>8 DEF ReadTo
<1>. HIDE DEF k, ch
<1>10. Amounts(number'.accum, body, base, k + 1)
  <2>1. ~N!IsDigit(body[k + 1], base)
    BY <1>1, <1>4, <1>8
  <2>. QED  BY <1>3, <1>4, <1>7, <1>8, <2>1, AmountsSeparator
<1>11. NoPoint(body, k + 1) => dpl' = -1
  <2>1. k + 1 \in 1..(k + 1) /\ \A i \in 1..k : i \in 1..(k + 1)
    BY <1>8
  <2>2. NoPoint(body, k + 1) => NoPoint(body, k) /\ ch # "."
    BY <1>8, <2>1 DEF NoPoint
  <2>. QED  BY <1>1, <1>4, <2>2
<1>12. Reading'
  BY <1>1, <1>4, <1>5, <1>7, <1>8, <1>9, <1>10, <1>11 DEF Reading
<1>13. NumberTyped'
  <2>1. dpl' \in Int
    BY <1>1, <1>2 DEF NumberTyped
  <2>. QED  BY <1>1, <1>2, <1>7, <2>1 DEF NumberTyped
<1>14. Reread'
  BY <1>1, <1>2 DEF Reread
<1>. QED  BY <1>1, <1>12, <1>13, <1>14 DEF NumberInv

LEMMA NumberEnds == N!BitsAssumption /\ NumberInv /\ N!NumberRead => NumberInv'
<1>. SUFFICES ASSUME N!BitsAssumption, NumberInv, N!NumberRead PROVE NumberInv'
  OBVIOUS
<1>. DEFINE body == N!Body
            base == N!Base
            k == Len(body) - Len(number.rest)
<1>1. /\ pc = "read" /\ number.rest = <<>> /\ number.digits
      /\ pc' = "number" /\ radix' = number.saved
      /\ number' = [number EXCEPT !.accum = IF number.neg THEN N!Signed(-number.accum) ELSE number.accum]
      /\ UNCHANGED <<dpl, separate, u, hld, token, printed, chosen>>
  BY DEF N!NumberRead
<1>2. NumberTyped /\ Reading /\ Reread
  BY <1>1 DEF NumberInv
<1>3. body \in Seq(N!Char) /\ base \in N!Radix
  BY <1>2, BodyBase
<1>4. /\ ReadTo(number, body, base, k) /\ Amounts(number.accum, body, base, k)
      /\ NoPoint(body, k) => dpl = -1
      /\ radix = base /\ number.saved = chosen
      /\ number.neg <=> N!Negative(N!AfterRadix(token))
  BY <1>2 DEF Reading
<1>5. N!Body' = body /\ N!Base' = base
      /\ N!Negative(N!AfterRadix(token))' = N!Negative(N!AfterRadix(token))
  BY <1>1, BodyStays
<1>. HIDE DEF body, base, k
<1>6. number \in Numeral /\ number.accum \in Int /\ number.neg \in BOOLEAN
  BY <1>2 DEF NumberTyped, Numeral
<1>7. k = Len(body) /\ N!IsNumber(body, base)
  BY <1>1, <1>3, <1>4, <1>6, ReadUp
<1>. DEFINE sum == N!Sum(body, base)
<1>8. sum \in Int /\ number.accum = N!Signed(sum)
  BY <1>3, <1>4, <1>7, AmountsAll
<1>9. number'.accum = N!Signed(IF number.neg THEN -sum ELSE sum) /\ number' \in Numeral
  <2>. HIDE DEF sum
  <2>1. N!Signed(-number.accum) = N!Signed(-sum)
    BY <1>8, NumberNegated
  <2>2. -number.accum \in Int
    BY <1>6
  <2>3. N!Signed(-number.accum) \in Int
    BY <2>2, NumberSigned
  <2>4. number'.accum = IF number.neg THEN N!Signed(-number.accum) ELSE number.accum
    BY <1>1, <1>6 DEF Numeral
  <2>5. number' \in Numeral
    BY <1>1, <1>6, <2>3 DEF Numeral
  <2>. QED  BY <1>8, <2>1, <2>4, <2>5
<1>10. IsRead'
  <2>1. number'.accum = N!Signed(IF N!Negative(N!AfterRadix(token)) THEN -sum ELSE sum)
    BY <1>4, <1>9
  <2>2. NoPoint(body, Len(body)) => dpl' = -1
    BY <1>1, <1>4, <1>7
  <2>. QED  BY <1>5, <1>7, <2>1, <2>2 DEF IsRead
<1>11. NumberTyped'
  BY <1>1, <1>2, <1>4, <1>9 DEF NumberTyped
<1>12. Reread'
  BY <1>1, <1>2 DEF Reread
<1>. QED  BY <1>1, <1>10, <1>11, <1>12 DEF NumberInv

LEMMA NumberFails == NumberInv /\ N!BadNumber => NumberInv'
<1>. SUFFICES ASSUME NumberInv, N!BadNumber PROVE NumberInv'
  OBVIOUS
<1>. DEFINE body == N!Body
            base == N!Base
            k == Len(body) - Len(number.rest)
<1>1. /\ pc = "read" /\ ~(number.rest = <<>> /\ number.digits)
      /\ number.rest # <<>> => /\ ~N!IsDigit(Head(number.rest), radix)
                               /\ ~(number.digits /\ Head(number.rest) \in N!Separators)
      /\ pc' = "huh" /\ radix' = number.saved
      /\ UNCHANGED <<dpl, separate, number, u, hld, token, printed, chosen>>
  BY DEF N!BadNumber, N!AtDigit, N!AtSeparator
<1>2. NumberTyped /\ Reading /\ Reread
  BY <1>1 DEF NumberInv
<1>3. body \in Seq(N!Char) /\ base \in N!Radix
  BY <1>2, BodyBase
<1>4. ReadTo(number, body, base, k) /\ radix = base /\ number.saved = chosen
  BY <1>2 DEF Reading
<1>5. N!Body' = body /\ N!Base' = base
  BY <1>1, BodyStays
<1>. HIDE DEF body, base, k
<1>6. ~N!IsNumber(body, base)
  <2>1. number \in Numeral
    BY <1>2 DEF NumberTyped
  <2>. QED  BY <1>1, <1>3, <1>4, <2>1, ReadNoFurther
<1>7. NumberTyped' /\ Reread'
  BY <1>1, <1>2, <1>4 DEF NumberTyped, Reread
<1>. QED  BY <1>1, <1>5, <1>6, <1>7 DEF NumberInv

LEMMA WriteBegins ==
  ASSUME N!BitsAssumption, NumberInv, NEW n \in N!Cell, NEW signed \in BOOLEAN, N!Write(n, signed)
  PROVE  NumberInv'
<1>. DEFINE p == [n |-> n, signed |-> signed]
<1>1. /\ pc = "interpret" /\ pc' = "print"
      /\ u' = N!Unsigned(IF signed /\ n < 0 THEN N!Signed(-n) ELSE n)
      /\ hld' = <<>> /\ printed' = p
      /\ UNCHANGED <<radix, dpl, separate, number, token, chosen>>
  BY DEF N!Write
<1>2. NumberTyped /\ token = <<>>
  BY <1>1 DEF NumberInv
<1>3. p \in Printing /\ u' = Converted(p)
  BY <1>1 DEF Printing, Converted
<1>. HIDE DEF p
<1>4. Converted(p) \in Nat
  BY <1>3, ConvertedNat
<1>5. NumberTyped'
  BY <1>1, <1>2, <1>3, <1>4 DEF NumberTyped
<1>6. WellHeld(<<>>, radix)
  BY DEF WellHeld
<1>7. HoldsOf(<<>>, radix, Converted(p), Converted(p))
  <2>1. radix \in Int /\ Len(<<>>) = 0 /\ 1..0 = {}
    BY <1>2 DEF NumberTyped, N!Radix
  <2>2. <<>> \in Seq(N!Char)
    OBVIOUS
  <2>3. \A i \in 1..Len(<<>>) : N!IsDigit(<<>>[i], radix) => N!Value(<<>>[i]) \in Int
    BY <2>1
  <2>4. PICK s, w : AreValues(s, w, <<>>, radix)
    BY <2>1, <2>3, SumIsValue
  <2>5. s[1] = 0 /\ w[1] = 1
    BY <2>1, <2>4 DEF AreValues
  <2>6. Converted(p) * w[1] + s[1] = Converted(p)
    BY <1>4, <2>5
  <2>. QED  BY <2>4, <2>6 DEF HoldsOf
<1>8. Writing'
  BY <1>1, <1>3, <1>6, <1>7 DEF Writing
<1>. QED  BY <1>1, <1>2, <1>5, <1>8 DEF NumberInv

LEMMA DigitHeld == NumberInv /\ N!Hold => NumberInv'
<1>. SUFFICES ASSUME NumberInv, N!Hold PROVE NumberInv'
  OBVIOUS
<1>. DEFINE held == <<N!Digit[(u % radix) + 1]>> \o hld
            left == u \div radix
            total == Converted(printed)
<1>1. /\ pc = "print" /\ u' = left
      /\ hld' = IF left = 0 THEN held ELSE N!Separator(held) \o held
      /\ UNCHANGED <<radix, dpl, separate, pc, number, token, printed, chosen>>
  BY DEF N!Hold
<1>2. NumberTyped /\ Writing /\ token = <<>>
  BY <1>1 DEF NumberInv
<1>3. radix \in N!Radix /\ u \in Nat /\ hld \in Seq(N!Char)
  BY <1>2 DEF NumberTyped
<1>4. /\ held \in Seq(N!Char) /\ held # <<>> /\ N!IsDigit(held[1], radix)
      /\ WellHeld(held, radix) /\ HoldsOf(held, radix, left, total)
      /\ left \in Nat
  BY <1>2, <1>3, HoldDigit DEF Writing
<1>5. N!Separator(held) = <<>> \/ \E ch \in Marks : N!Separator(held) = <<ch>>
  <2>1. "," \in Marks /\ "_" \in Marks
    BY DEF Marks
  <2>2. \/ N!Separator(held) = <<",">>
        \/ N!Separator(held) = <<"_">>
        \/ N!Separator(held) = <<>>
    BY Zenon DEF N!Separator
  <2>. QED  BY <2>1, <2>2, Zenon
<1>. HIDE DEF held, left, total
<1>6. /\ hld' \in Seq(N!Char) /\ hld' # <<>>
      /\ WellHeld(hld', radix) /\ HoldsOf(hld', radix, left, total)
      /\ left = 0 => N!IsDigit(hld'[1], radix)
  <2>1. CASE left = 0
    BY <1>1, <1>4, <2>1
  <2>2. CASE left # 0 /\ N!Separator(held) = <<>>
    <3>1. hld' = held
      BY <1>1, <1>4, <2>2
    <3>. QED  BY <1>4, <2>2, <3>1
  <2>3. ASSUME NEW ch \in Marks, left # 0, N!Separator(held) = <<ch>>
        PROVE  /\ hld' \in Seq(N!Char) /\ hld' # <<>>
               /\ WellHeld(hld', radix) /\ HoldsOf(hld', radix, left, total)
    <3>1. hld' = <<ch>> \o held
      BY <1>1, <2>3
    <3>2. /\ <<ch>> \o held \in Seq(N!Char) /\ <<ch>> \o held # <<>>
          /\ WellHeld(<<ch>> \o held, radix) /\ HoldsOf(<<ch>> \o held, radix, left, total)
      BY <1>3, <1>4, HoldSeparator
    <3>. QED  BY <3>1, <3>2
  <2>. QED  BY <1>5, <2>1, <2>2, <2>3
<1>7. Writing'
  <2>1. Converted(printed)' = total
    BY <1>1 DEF Converted, total
  <2>. QED  BY <1>1, <1>6, <2>1 DEF Writing
<1>8. NumberTyped'
  BY <1>1, <1>2, <1>4, <1>6 DEF NumberTyped
<1>. QED  BY <1>1, <1>2, <1>7, <1>8 DEF NumberInv

LEMMA NumberTypedOut == NumberInv /\ N!TypeIt => NumberInv'
<1>. SUFFICES ASSUME NumberInv, N!TypeIt PROVE NumberInv'
  OBVIOUS
<1>1. /\ pc = "print" /\ u = 0 /\ hld # <<>> /\ pc' = "printed"
      /\ hld' = IF Minus(printed) THEN <<"-">> \o hld ELSE hld
      /\ UNCHANGED <<radix, dpl, separate, u, number, token, printed, chosen>>
  BY DEF N!TypeIt, Minus
<1>2. NumberTyped /\ Writing /\ token = <<>>
  BY <1>1 DEF NumberInv
<1>3. hld \in Seq(N!Char) /\ radix = chosen
  BY <1>1, <1>2 DEF NumberTyped
<1>4. IsPrinted(hld', printed, chosen)
  BY <1>1, <1>2, <1>3 DEF IsPrinted, Writing
<1>5. hld' \in Seq(N!Char) /\ hld' # <<>>
  <2>1. "-" \in N!Char
    BY DEF N!Char
  <2>. QED  BY <1>1, <1>3, <2>1, InFront
<1>6. NumberTyped'
  BY <1>1, <1>2, <1>3, <1>5 DEF NumberTyped
<1>7. IsPrinted(hld, printed, chosen)'
  BY <1>1, <1>4
<1>. QED  BY <1>1, <1>2, <1>5, <1>6, <1>7 DEF NumberInv

LEMMA TypedTokens ==
  ASSUME N!InputAssumption, NEW text \in N!Typed PROVE text \in Seq(N!Char)
<1>1. PICK n \in 1..TokenLength : text \in [1..n -> TypedChar]
  BY DEF N!Typed
<1>2. n \in Nat /\ TypedChar \subseteq N!Char
  BY DEF N!InputAssumption
<1>3. text \in Seq(TypedChar)
  BY <1>1, <1>2
<1>. QED  BY <1>2, <1>3

LEMMA NextNumber ==
  ASSUME N!BitsAssumption, N!InputAssumption
  PROVE  NumberInv /\ [ArithmeticNext]_arithmetic_vars => NumberInv'
<1>. SUFFICES ASSUME NumberInv, [ArithmeticNext]_arithmetic_vars PROVE NumberInv'
  OBVIOUS
<1>0. NumberTyped
  BY DEF NumberInv
<1>1. ASSUME UNCHANGED ofNumbers PROVE NumberInv'
  <2>1. UNCHANGED <<radix, dpl, separate, pc, number, u, hld, token, printed, chosen>>
    BY <1>1 DEF ofNumbers
  <2>2. NumberTyped' /\ (Reread' <=> Reread)
    BY <1>0, <2>1 DEF NumberTyped, Reread
  <2>3. N!Body' = N!Body /\ N!Base' = N!Base
        /\ N!Negative(N!AfterRadix(token))' = N!Negative(N!AfterRadix(token))
    BY <2>1, BodyStays
  <2>4. (Reading => Reading') /\ (IsRead => IsRead')
    BY <2>1, <2>3 DEF Reading, IsRead
  <2>5. Writing => Writing'
    BY <2>1 DEF Writing, Converted
  <2>. QED  BY <2>1, <2>2, <2>3, <2>4, <2>5 DEF NumberInv
<1>2. ASSUME pc = "interpret", NEW text \in N!Typed, N!Number(text) PROVE NumberInv'
  <2>1. radix = chosen /\ hld = <<>>
    BY <1>2 DEF NumberInv, NumberTyped
  <2>2. text \in Seq(N!Char)
    BY TypedTokens
  <2>. QED  BY <1>0, <1>2, <2>1, <2>2, NumberBegins
<1>3. ASSUME pc = "printed", N!Number(hld) PROVE NumberInv'
  <2>1. radix = chosen /\ hld \in Seq(N!Char) /\ IsPrinted(hld, printed, chosen)
    BY <1>3 DEF NumberInv, NumberTyped
  <2>. QED  BY <1>0, <1>3, <2>1, NumberBegins
<1>4. ASSUME NEW n \in Printed, NEW signed \in BOOLEAN, N!Write(n, signed) PROVE NumberInv'
  <2>1. n \in N!Cell
    BY DEF N!InputAssumption
  <2>. QED  BY <1>4, <2>1, WriteBegins
<1>5. ASSUME NEW r \in N!Radix, N!Radixer(r) PROVE NumberInv'
  BY <1>0, <1>5 DEF N!Radixer, NumberInv, NumberTyped
<1>6. ASSUME NEW on \in BOOLEAN, N!Separate(on) PROVE NumberInv'
  BY <1>0, <1>6 DEF N!Separate, NumberInv, NumberTyped
<1>7. ASSUME N!Interpret PROVE NumberInv'
  <2>1. 0 \in N!Cell
    BY FullFacts, CellIs
  <2>2. /\ pc # "read" /\ pc' = "interpret" /\ number' = N!Nothing /\ u' = 0 /\ hld' = <<>>
        /\ token' = <<>> /\ printed' = N!NotPrinted /\ UNCHANGED <<radix, dpl, separate, chosen>>
    BY <1>7 DEF N!Interpret
  <2>3. NumberTyped'
    BY <1>0, <2>1, <2>2 DEF NumberTyped, Numeral, Printing, N!Nothing, N!NotPrinted
  <2>. QED  BY <2>2, <2>3 DEF NumberInv
<1>8. CASE N!Next
  BY <1>2, <1>3, <1>4, <1>5, <1>6, <1>7, <1>8, DigitRead, SeparatorRead, NumberEnds, NumberFails,
     DigitHeld, NumberTypedOut DEF N!Next
<1>. QED  BY <1>1, <1>8 DEF ArithmeticNext, arithmetic_vars

\* For cells of every width, tokens of every length and every radix: number? takes for a
\* number what looks like one and nothing else, and leaves the number that was written.
THEOREM NumberIsTokenCorrect ==
  ASSUME N!BitsAssumption, N!InputAssumption
  PROVE  ArithmeticSpec => []NumberIsToken
<1>1. ArithmeticInit => NumberInv
  BY InitNumber
<1>2. NumberInv /\ [ArithmeticNext]_arithmetic_vars => NumberInv'
  BY NextNumber
<1>3. NumberInv => NumberIsToken
  BY DEF NumberInv, IsRead, NumberIsToken, N!NumberIsToken
<1>. QED  BY <1>1, <1>2, <1>3, PTL DEF ArithmeticSpec

\* For cells of every width, every number and every radix, with separators or without:
\* what . and u. type, number? reads as the same number.
THEOREM PrintedReadsBackCorrect ==
  ASSUME N!BitsAssumption, N!InputAssumption
  PROVE  ArithmeticSpec => []PrintedReadsBack
<1>1. ArithmeticInit => NumberInv
  BY InitNumber
<1>2. NumberInv /\ [ArithmeticNext]_arithmetic_vars => NumberInv'
  BY NextNumber
<1>3. NumberInv => PrintedReadsBack
  <2>. SUFFICES ASSUME NumberInv, hld # <<>>, token = hld
                PROVE  pc # "huh" /\ (pc = "number" => number.accum = printed.n /\ dpl = -1)
    BY DEF PrintedReadsBack, N!PrintedReadsBack
  <2>. SUFFICES ASSUME pc \in {"huh", "number"}
                PROVE  pc # "huh" /\ number.accum = printed.n /\ dpl = -1
    OBVIOUS
  <2>1. IsPrinted(token, printed, chosen) /\ chosen \in N!Radix /\ printed \in Printing
    BY DEF NumberInv, NumberTyped, Reread
  <2>2. /\ N!Base = chosen /\ N!IsNumber(N!Body, N!Base)
        /\ N!Signed(IF N!Negative(N!AfterRadix(token))
                    THEN -N!Sum(N!Body, N!Base) ELSE N!Sum(N!Body, N!Base)) = printed.n
        /\ NoPoint(N!Body, Len(N!Body))
    BY <2>1, PrintedIsNumber DEF N!Body, N!Base
  <2>. QED  BY <2>2 DEF NumberInv, IsRead
<1>. QED  BY <1>1, <1>2, <1>3, PTL DEF ArithmeticSpec

-----------------------------------------------------------------------------
(* The sum of the bytes of a record *)

\* The sums of the first bytes.
ArePartial(p, bytes) ==
  /\ p[0] = 0
  /\ \A k \in 0..Len(bytes) : p[k] \in Int
  /\ \A k \in 1..Len(bytes) : p[k] = p[k - 1] + bytes[k]

\* What H!Total says of sums of sets of bytes: the last one is added last.
AddedLast(t, bytes, s) ==
  IF s = {} THEN 0 ELSE t[s \ {H!Max(s)}] + bytes[H!Max(s)]
AreSumsOf(t, bytes) == t = [s \in SUBSET (DOMAIN bytes) |-> AddedLast(t, bytes, s)]

LEMMA TotalUnfolds ==
  ASSUME NEW bytes
  PROVE  H!Total(bytes) = (CHOOSE t : AreSumsOf(t, bytes))[DOMAIN bytes]
BY DEF H!Total, H!FoldLeft, H!MapThenFoldSet, AreSumsOf, AddedLast

\* Sets of places have a last one.
LEMMA LastPlace ==
  ASSUME NEW n \in Nat, NEW s \in SUBSET (1..n), s # {}
  PROVE  H!Max(s) \in s
<1>. DEFINE left == {m \in Nat : \A x \in s : x <= m}
<1>1. n \in left
  OBVIOUS
<1>2. PICK m \in left : \A l \in left : m <= l
  <2>1. left \in SUBSET Nat /\ left # {}
    BY <1>1
  <2>. HIDE DEF left
  <2>. QED  BY <2>1, Least
<1>3. m \in s
  <2>1. SUFFICES ASSUME m \notin s PROVE FALSE
    OBVIOUS
  <2>2. m \in Nat /\ \A x \in s : x \in 1..n /\ x <= m - 1
    BY <1>2, <2>1
  <2>3. m - 1 \in Nat
    <3>1. PICK y \in s : y \in 1..n /\ y <= m - 1
      BY <2>2
    <3>2. m \in Nat
      BY <2>2
    <3>. HIDE DEF left
    <3>. QED  BY <3>1, <3>2
  <2>4. m - 1 \in left
    BY <2>2, <2>3
  <2>. QED  BY <1>2, <2>2, <2>4
<1>4. m \in s /\ \A x \in s : m >= x
  BY <1>2, <1>3
<1>. QED  BY <1>4 DEF H!Max

LEMMA LastOfFirst ==
  ASSUME NEW n \in Nat, NEW k \in 1..n
  PROVE  H!Max(1..k) = k
<1>1. k \in 1..k /\ \A x \in 1..k : k >= x
  OBVIOUS
<1>2. H!Max(1..k) \in 1..k /\ \A x \in 1..k : H!Max(1..k) >= x
  BY <1>1 DEF H!Max
<1>. QED  BY <1>1, <1>2

\* The total is the sum of the first bytes, when these are all.
LEMMA TotalIs ==
  ASSUME NEW bytes, Len(bytes) \in Nat, DOMAIN bytes = 1..Len(bytes),
         \A k \in 1..Len(bytes) : bytes[k] \in Int
  PROVE  /\ \E p : ArePartial(p, bytes)
         /\ \A p : ArePartial(p, bytes) => H!Total(bytes) = p[Len(bytes)]
<1>. DEFINE n == Len(bytes)
            S == 1..n
            f == [k \in S |-> bytes[k]]
            c == [s \in SUBSET S |-> H!Max(s)]
            t == CHOOSE t : AreSumsOf(t, bytes)
<1>1. IsFiniteSet(S)
  BY FS_Interval
<1>2. f \in [S -> Int]
  OBVIOUS
<1>3. Chooses(c, S)
  BY LastPlace DEF Chooses
<1>4. \A s \in SUBSET S : s # {} => c[s] = H!Max(s) /\ H!Max(s) \in S
  BY LastPlace
<1>5. \A k \in S : f[k] = bytes[k]
  OBVIOUS
<1>6. H!Total(bytes) = t[S]
  BY TotalUnfolds
<1>7. AreSumsOf(t, bytes)
  <2>. HIDE DEF S, f, c
  <2>1. PICK v : AreTotals(v, f, c, S)
    BY <1>1, <1>2, <1>3, TotalsExist
  <2>2. AnyFirst(v, f, S)
    BY <1>1, <1>2, <1>3, <2>1, TotalWithout
  <2>. DEFINE a == [s \in SUBSET S |-> AddedLast(v, bytes, s)]
              b == [s \in SUBSET S |-> TotalAfter(v, f, c, s)]
  <2>3. ASSUME NEW s \in SUBSET S PROVE AddedLast(v, bytes, s) = TotalAfter(v, f, c, s)
    <3>1. CASE s = {}
      BY <3>1 DEF AddedLast, TotalAfter
    <3>2. CASE s # {}
      <4>. DEFINE x == H!Max(s)
      <4>1. x \in S /\ c[s] = x /\ f[x] = bytes[x] /\ f[x] \in Int
        BY <1>2, <1>4, <1>5, <3>2
      <4>2. s \ {x} \in SUBSET S
        OBVIOUS
      <4>3. v[s \ {x}] \in Int
        BY <2>2, <4>2 DEF AnyFirst
      <4>4. AddedLast(v, bytes, s) = v[s \ {x}] + bytes[x]
        BY <3>2 DEF AddedLast
      <4>5. TotalAfter(v, f, c, s) = f[x] + v[s \ {x}]
        BY <3>2, <4>1 DEF TotalAfter
      <4>. HIDE DEF x
      <4>. QED  BY <4>1, <4>3, <4>4, <4>5
    <3>. QED  BY <3>1, <3>2
  <2>4. a = b
    BY <2>3
  <2>5. v = a
    BY <2>1, <2>4 DEF AreTotals
  <2>6. DOMAIN bytes = S
    BY DEF S
  <2>7. AreSumsOf(v, bytes)
    BY <2>5, <2>6 DEF AreSumsOf
  <2>. QED  BY <2>7
<1>. HIDE DEF t
<1>8. t[1..0] = 0 /\ \A k \in S : t[1..k] = t[1..(k - 1)] + bytes[k]
  <2>1. \A s \in SUBSET S : t[s] = AddedLast(t, bytes, s)
    BY <1>7 DEF AreSumsOf
  <2>2. 1..0 = {} /\ {} \in SUBSET S
    OBVIOUS
  <2>3. t[1..0] = 0
    BY <2>1, <2>2 DEF AddedLast
  <2>4. ASSUME NEW k \in S PROVE t[1..k] = t[1..(k - 1)] + bytes[k]
    <3>1. 1..k \in SUBSET S /\ 1..k # {} /\ (1..k) \ {k} = 1..(k - 1)
      <4>1. k \in 1..n
        OBVIOUS
      <4>2. 1..k \in SUBSET S
        BY <4>1
      <4>3. k \in 1..k
        BY <4>1
      <4>4. ASSUME NEW l \in (1..k) \ {k} PROVE l \in 1..(k - 1)
        BY <4>1, <4>4
      <4>5. ASSUME NEW l \in 1..(k - 1) PROVE l \in (1..k) \ {k}
        BY <4>1, <4>5
      <4>. QED  BY <4>2, <4>3, <4>4, <4>5
    <3>2. H!Max(1..k) = k
      BY LastOfFirst
    <3>. HIDE DEF S
    <3>3. t[1..k] = AddedLast(t, bytes, 1..k)
      BY <2>1, <3>1
    <3>. QED  BY <3>1, <3>2, <3>3 DEF AddedLast
  <2>. QED  BY <2>3, <2>4
<1>9. \A k \in 0..n : t[1..k] \in Int
  <2>. DEFINE bad == {k \in 0..n : t[1..k] \notin Int}
  <2>1. SUFFICES ASSUME bad # {} PROVE FALSE
    OBVIOUS
  <2>2. PICK k \in bad : \A l \in bad : k <= l
    <3>1. bad \in SUBSET Nat
      OBVIOUS
    <3>. HIDE DEF bad
    <3>. QED  BY <2>1, <3>1, Least
  <2>3. k # 0
    BY <1>8, <2>2
  <2>4. k \in S /\ k - 1 \in 0..n /\ k - 1 \notin bad
    BY <2>2, <2>3
  <2>5. t[1..(k - 1)] \in Int /\ bytes[k] \in Int
    BY <2>4
  <2>6. t[1..k] = t[1..(k - 1)] + bytes[k]
    BY <1>8, <2>4
  <2>7. t[1..k] \in Int
    BY <2>5, <2>6
  <2>. QED  BY <2>2, <2>7
<1>10. \E p : ArePartial(p, bytes)
  <2>. DEFINE p == [k \in 0..n |-> t[1..k]]
  <2>1. p[0] = 0
    BY <1>8
  <2>2. \A k \in 0..n : p[k] \in Int
    BY <1>9
  <2>3. ASSUME NEW k \in 1..n PROVE p[k] = p[k - 1] + bytes[k]
    <3>1. k \in 0..n /\ k - 1 \in 0..n
      OBVIOUS
    <3>. QED  BY <1>8, <3>1
  <2>. HIDE DEF p
  <2>. QED  BY <2>1, <2>2, <2>3 DEF ArePartial
<1>11. ASSUME NEW p, ArePartial(p, bytes) PROVE p[n] = t[1..n]
  <2>. DEFINE bad == {k \in 0..n : p[k] # t[1..k]}
  <2>1. bad = {}
    <3>1. SUFFICES ASSUME bad # {} PROVE FALSE
      OBVIOUS
    <3>2. PICK k \in bad : \A l \in bad : k <= l
      <4>1. bad \in SUBSET Nat
        OBVIOUS
      <4>. HIDE DEF bad
      <4>. QED  BY <3>1, <4>1, Least
    <3>3. k # 0
      BY <1>8, <1>11, <3>2 DEF ArePartial
    <3>4. k \in S /\ k - 1 \in 0..n /\ k - 1 \notin bad
      BY <3>2, <3>3
    <3>5. p[k] = p[k - 1] + bytes[k] /\ t[1..k] = t[1..(k - 1)] + bytes[k]
      BY <1>8, <1>11, <3>4 DEF ArePartial
    <3>. QED  BY <3>2, <3>4, <3>5
  <2>2. n \in 0..n
    OBVIOUS
  <2>. QED  BY <2>1, <2>2
<1>. QED  BY <1>6, <1>10, <1>11

\* A byte more.
LEMMA TotalAppended ==
  ASSUME NEW bytes \in Seq(Int), NEW x \in Int
  PROVE  H!Total(bytes) \in Int /\ H!Total(Append(bytes, x)) = H!Total(bytes) + x
<1>. DEFINE n == Len(bytes)
            more == Append(bytes, x)
<1>1. n \in Nat /\ DOMAIN bytes = 1..n /\ \A k \in 1..n : bytes[k] \in Int
  OBVIOUS
<1>2. /\ Len(more) = n + 1 /\ DOMAIN more = 1..(n + 1) /\ more[n + 1] = x
      /\ \A k \in 1..n : more[k] = bytes[k]
  OBVIOUS
<1>3. \A k \in 1..(n + 1) : more[k] \in Int
  BY <1>1, <1>2
<1>. HIDE DEF n, more
<1>4. PICK p : ArePartial(p, bytes)
  BY <1>1, TotalIs DEF n
<1>5. H!Total(bytes) = p[n] /\ p[n] \in Int
  <2>1. n \in 0..n
    BY <1>1
  <2>2. p[n] \in Int
    BY <1>4, <2>1 DEF n, ArePartial
  <2>. QED  BY <1>1, <1>4, <2>2, TotalIs DEF n
<1>. DEFINE q == [k \in 0..(n + 1) |-> IF k <= n THEN p[k] ELSE p[n] + x]
<1>6. ArePartial(q, more)
  <2>1. q[0] = 0
    BY <1>1, <1>4 DEF ArePartial
  <2>2. \A k \in 0..(n + 1) : q[k] \in Int
    BY <1>1, <1>4, <1>5 DEF ArePartial, n
  <2>3. ASSUME NEW k \in 1..(n + 1) PROVE q[k] = q[k - 1] + more[k]
    <3>1. CASE k \in 1..n
      <4>1. q[k] = p[k] /\ q[k - 1] = p[k - 1]
        BY <1>1, <3>1
      <4>2. p[k] = p[k - 1] + bytes[k]
        BY <1>4, <3>1 DEF ArePartial, n
      <4>. QED  BY <1>2, <3>1, <4>1, <4>2
    <3>2. CASE k = n + 1
      <4>1. q[k] = p[n] + x /\ q[k - 1] = p[n]
        BY <1>1, <3>2
      <4>. QED  BY <1>2, <3>2, <4>1
    <3>. QED  BY <1>1, <3>1, <3>2
  <2>. HIDE DEF q
  <2>. QED  BY <1>2, <2>1, <2>2, <2>3 DEF ArePartial
<1>7. q[n + 1] = p[n] + x
  BY <1>1
<1>. HIDE DEF q
<1>8. Len(more) \in Nat /\ DOMAIN more = 1..Len(more) /\ \A k \in 1..Len(more) : more[k] \in Int
  BY <1>1, <1>2, <1>3
<1>9. H!Total(more) = q[n + 1]
  BY <1>2, <1>6, <1>8, TotalIs
<1>. QED  BY <1>5, <1>7, <1>9 DEF more

\* Another byte in place of one.
LEMMA TotalChanged ==
  ASSUME NEW bytes \in Seq(Int), NEW i \in DOMAIN bytes, NEW x \in Int
  PROVE  H!Total([bytes EXCEPT ![i] = x]) = H!Total(bytes) + (x - bytes[i])
<1>. DEFINE n == Len(bytes)
            other == [bytes EXCEPT ![i] = x]
            d == x - bytes[i]
<1>1. n \in Nat /\ DOMAIN bytes = 1..n /\ (\A k \in 1..n : bytes[k] \in Int) /\ i \in 1..n
  OBVIOUS
<1>2. /\ Len(other) = n /\ DOMAIN other = 1..n /\ other[i] = x
      /\ \A k \in 1..n : k # i => other[k] = bytes[k]
  OBVIOUS
<1>3. \A k \in 1..n : other[k] \in Int
  BY <1>1, <1>2
<1>4. d \in Int /\ x = bytes[i] + d /\ bytes[i] \in Int
  BY <1>1
<1>. HIDE DEF n, other, d
<1>5. PICK p : ArePartial(p, bytes)
  BY <1>1, TotalIs DEF n
<1>6. H!Total(bytes) = p[n]
  BY <1>1, <1>5, TotalIs DEF n
<1>. DEFINE q == [k \in 0..n |-> IF k < i THEN p[k] ELSE p[k] + d]
<1>7. \A k \in 0..n : p[k] \in Int
  BY <1>5 DEF ArePartial, n
<1>8. ArePartial(q, other)
  <2>1. q[0] = 0
    BY <1>1, <1>5 DEF ArePartial
  <2>2. \A k \in 0..n : q[k] \in Int
    BY <1>4, <1>7
  <2>3. ASSUME NEW k \in 1..n PROVE q[k] = q[k - 1] + other[k]
    <3>1. p[k] = p[k - 1] + bytes[k]
      BY <1>5 DEF ArePartial, n
    <3>2. k \in 0..n /\ k - 1 \in 0..n /\ p[k - 1] \in Int /\ bytes[k] \in Int
      BY <1>1, <1>7
    <3>3. CASE k < i
      <4>1. q[k] = p[k] /\ q[k - 1] = p[k - 1]
        BY <1>1, <3>2, <3>3
      <4>2. other[k] = bytes[k]
        BY <1>1, <1>2, <3>3
      <4>. HIDE DEF q
      <4>. QED  BY <3>1, <4>1, <4>2
    <3>4. CASE k = i
      <4>1. q[k] = p[k] + d /\ q[k - 1] = p[k - 1]
        <5>1. ~(k < i) /\ k - 1 < i
          BY <1>1, <3>2, <3>4
        <5>2. q[k] = p[k] + d
          BY <3>2, <5>1
        <5>3. q[k - 1] = p[k - 1]
          BY <3>2, <5>1
        <5>. HIDE DEF q
        <5>. QED  BY <5>2, <5>3
      <4>2. other[k] = bytes[k] + d
        BY <1>2, <1>4, <3>2, <3>4
      <4>3. PICK v \in Int, w \in Int, s \in Int : v = p[k - 1] /\ w = bytes[k] /\ s = d
        BY <1>4, <3>2
      <4>4. (v + w) + s = v + (w + s)
        OBVIOUS
      <4>. HIDE DEF q
      <4>. QED  BY <3>1, <4>1, <4>2, <4>3, <4>4
    <3>5. CASE k > i
      <4>1. q[k] = p[k] + d /\ q[k - 1] = p[k - 1] + d
        BY <1>1, <3>2, <3>5
      <4>2. other[k] = bytes[k]
        BY <1>1, <1>2, <3>5
      <4>. HIDE DEF q
      <4>. QED  BY <1>4, <3>1, <3>2, <4>1, <4>2
    <3>. QED  BY <1>1, <3>3, <3>4, <3>5
  <2>. HIDE DEF q
  <2>. QED  BY <1>2, <2>1, <2>2, <2>3 DEF ArePartial
<1>9. q[n] = p[n] + d
  BY <1>1
<1>. HIDE DEF q
<1>10. H!Total(other) = q[n]
  <2>1. Len(other) \in Nat /\ DOMAIN other = 1..Len(other) /\ \A k \in 1..Len(other) : other[k] \in Int
    BY <1>1, <1>2, <1>3
  <2>. QED  BY <1>2, <1>8, <2>1, TotalIs
<1>. QED  BY <1>6, <1>9, <1>10 DEF other, d

-----------------------------------------------------------------------------
(* Records *)

HexBytes == H!Bytes

LEMMA HexFacts ==
  ASSUME H!SizeAssumption
  PROVE  /\ HexBytes \in Nat /\ HexBytes >= 9 /\ H!Byte = 0..(HexBytes - 1)
         /\ HexBytes * HexBytes \in Nat /\ ImageSize \in Nat \ {0}
         /\ Chunk \in Nat \ {0} /\ Chunk < HexBytes
<1>1. HexDigit \in Nat /\ HexDigit >= 3
  BY DEF H!SizeAssumption
<1>2. HexDigit * HexDigit \in Nat /\ HexDigit * HexDigit >= 9
  <2>1. 3 * 3 <= 3 * HexDigit
    BY <1>1
  <2>2. HexDigit * 3 <= HexDigit * HexDigit
    BY <1>1, ProductOrder
  <2>. QED  BY <1>1, <2>1, <2>2
<1>3. HexBytes \in Nat /\ HexBytes >= 9 /\ H!Byte = 0..(HexBytes - 1)
  BY <1>2 DEF HexBytes, H!Bytes, H!Byte
<1>4. HexBytes * HexBytes \in Nat
  BY <1>3
<1>5. ImageSize \in 1..(HexBytes * HexBytes) /\ Chunk \in H!Byte \ {0}
  BY DEF H!SizeAssumption, HexBytes
<1>. QED  BY <1>3, <1>4, <1>5

\* What reading takes of a text: the bytes of a record.
IsRecord(r) == r \in Seq(H!Byte) /\ Len(r) >= 5 /\ Len(r) = H!Taken(r) + 5
IsRight(r) == H!Total(r) % HexBytes = 0

\* The places a record of data goes to when the base is 0, and what it puts there.
PlacesOf(r) == H!Host(H!ReadAddress(r))..(H!Host(H!ReadAddress(r)) + H!Count(r) - 1)
Puts(r, m) == \A q \in PlacesOf(r) :
                q \in DOMAIN m /\ r[5 + q - H!Host(H!ReadAddress(r))] = m[q]

\* What is written ends in a sum that makes it right.
Suits(data, tag) ==
  /\ data \in Seq(H!Byte) /\ Len(data) < HexBytes
  /\ tag = 1 => Len(data) = 0
  /\ tag = 4 => Len(data) = 2
IsOf(r, tag, a, data) ==
  /\ IsRecord(r) /\ IsRight(r)
  /\ H!Type(r) = tag /\ H!Count(r) = Len(data) /\ H!ReadAddress(r) = a
  /\ \A i \in 1..Len(data) : r[4 + i] = data[i]

LEMMA RecordIs ==
  ASSUME H!SizeAssumption, NEW tag \in {0, 1, 4}, NEW a \in 0..(HexBytes * HexBytes - 1),
         NEW data, Suits(data, tag)
  PROVE  IsOf(H!Record(tag, a, data), tag, a, data)
<1>. DEFINE n == Len(data)
            hi == (a \div HexBytes) % HexBytes
            lo == a % HexBytes
            body == <<n>> \o <<hi, lo>> \o <<tag>> \o data
            x == (-H!Total(body)) % HexBytes
            r == H!Record(tag, a, data)
<1>0. /\ data \in Seq(H!Byte) /\ Len(data) < HexBytes
      /\ tag = 1 => Len(data) = 0
      /\ tag = 4 => Len(data) = 2
  BY DEF Suits
<1>1. /\ HexBytes \in Nat \ {0} /\ HexBytes >= 9 /\ H!Byte = 0..(HexBytes - 1)
  BY HexFacts
<1>2. n \in Nat /\ n \in H!Byte /\ tag \in H!Byte
  BY <1>0, <1>1
<1>3. lo \in H!Byte /\ hi \in H!Byte /\ hi * HexBytes + lo = a
  <2>. DEFINE d == a \div HexBytes
  <2>1. a \in Int /\ a >= 0 /\ a < HexBytes * HexBytes
    BY <1>1
  <2>2. a = HexBytes * d + lo /\ lo \in 0..(HexBytes - 1) /\ d \in Int
    BY <1>1, <2>1, Divided
  <2>3. hi \in 0..(HexBytes - 1)
    BY <1>1, <2>2, Divided
  <2>. HIDE DEF d, lo
  <2>4. d >= 0
    <3>1. SUFFICES ASSUME d <= -1 PROVE FALSE
      BY <2>2
    <3>2. HexBytes * d <= HexBytes * (-1)
      BY <1>1, <2>2, <3>1, ProductOrder
    <3>3. HexBytes * (-1) = -HexBytes /\ HexBytes * d \in Int
      BY <1>1, <2>2
    <3>. QED  BY <1>1, <2>1, <2>2, <3>2, <3>3
  <2>5. d < HexBytes
    <3>1. SUFFICES ASSUME HexBytes <= d PROVE FALSE
      BY <1>1, <2>2
    <3>2. HexBytes * HexBytes <= HexBytes * d
      BY <1>1, <2>2, <3>1, ProductOrder
    <3>3. HexBytes * HexBytes \in Int /\ HexBytes * d \in Int
      BY <1>1, <2>2
    <3>. QED  BY <1>1, <2>1, <2>2, <3>2, <3>3
  <2>6. d % HexBytes = d
    BY <1>1, <2>2, <2>4, <2>5
  <2>7. hi = d
    BY <2>6 DEF d
  <2>8. d * HexBytes = HexBytes * d
    BY <1>1, <2>2
  <2>. QED  BY <1>1, <2>2, <2>3, <2>7, <2>8 DEF d
<1>. HIDE DEF n, hi, lo
<1>4. body \in Seq(H!Byte)
  <2>1. <<n>> \in Seq(H!Byte) /\ <<hi, lo>> \in Seq(H!Byte) /\ <<tag>> \in Seq(H!Byte)
    BY <1>2, <1>3
  <2>. QED  BY <1>0, <2>1
<1>5. /\ Len(body) = 4 + n /\ body[1] = n /\ body[2] = hi /\ body[3] = lo /\ body[4] = tag
      /\ \A i \in 1..n : body[4 + i] = data[i]
  BY <1>0, <1>2 DEF n
<1>6. r = Append(body, x)
  BY DEF H!Record, H!AddressBytes, HexBytes, n, hi, lo
<1>. HIDE DEF body, r
<1>7. body \in Seq(Int)
  BY <1>1, <1>4
<1>8. H!Total(body) \in Int /\ \A y \in Int : H!Total(Append(body, y)) = H!Total(body) + y
  BY <1>7, TotalAppended
<1>9. x \in H!Byte
  <2>1. -H!Total(body) \in Int
    BY <1>8
  <2>2. (-H!Total(body)) % HexBytes \in 0..(HexBytes - 1)
    BY <1>1, <2>1, Divided
  <2>. QED  BY <1>1, <2>2
<1>10. IsRight(r)
  <2>. DEFINE s == H!Total(body)
  <2>1. H!Total(r) = s + x /\ s \in Int /\ x \in Int
    BY <1>1, <1>6, <1>8, <1>9
  <2>2. -s = HexBytes * ((-s) \div HexBytes) + x /\ (-s) \div HexBytes \in Int
    <3>1. -s \in Int
      BY <2>1
    <3>. QED  BY <1>1, <3>1, Divided
  <2>. DEFINE d == (-s) \div HexBytes
  <2>3. -s = HexBytes * d + x /\ d \in Int
    BY <2>2
  <2>. HIDE DEF x, s, d
  <2>4. s + x = HexBytes * (-d) /\ -d \in Int
    <3>1. HexBytes * (-d) = -(HexBytes * d) /\ HexBytes * d \in Int
      BY <1>1, <2>3
    <3>. QED  BY <2>1, <2>3, <3>1
  <2>5. (s + x) % HexBytes = 0 % HexBytes
    <3>. DEFINE e == -d
                y == s + x
    <3>1. e \in Int /\ y \in Int /\ y = HexBytes * e
      BY <2>1, <2>4
    <3>. HIDE DEF e, y
    <3>. DEFINE z == 0
    <3>2. y = z + HexBytes * e /\ z \in Int
      BY <1>1, <3>1
    <3>. HIDE DEF z
    <3>3. y % HexBytes = z % HexBytes
      BY <1>1, <3>1, <3>2, ModOfSum
    <3>. QED  BY <3>3 DEF y, z
  <2>6. 0 % HexBytes = 0
    BY <1>1
  <2>. QED  BY <2>1, <2>5, <2>6 DEF IsRight
<1>. HIDE DEF x
<1>11. /\ r \in Seq(H!Byte) /\ Len(r) = 5 + n
       /\ r[1] = n /\ r[2] = hi /\ r[3] = lo /\ r[4] = tag
       /\ \A i \in 1..n : r[4 + i] = data[i]
  <2>1. r \in Seq(H!Byte) /\ Len(r) = Len(body) + 1 /\ \A k \in 1..Len(body) : r[k] = body[k]
    BY <1>4, <1>6, <1>9
  <2>2. Len(body) \in Nat /\ \A i \in 1..n : 4 + i \in 1..Len(body)
    BY <1>2, <1>5
  <2>. QED  BY <1>2, <1>5, <2>1, <2>2
<1>12. H!Taken(r) = n
  <2>1. CASE tag = 1
    BY <1>0, <1>11, <2>1 DEF H!Taken, H!Type, n
  <2>2. CASE tag = 4
    BY <1>0, <1>11, <2>2 DEF H!Taken, H!Type, n
  <2>3. CASE tag = 0
    BY <1>11, <2>3 DEF H!Taken, H!Type, H!Count, n
  <2>. QED  BY <2>1, <2>2, <2>3
<1>13. IsRecord(r)
  BY <1>2, <1>11, <1>12 DEF IsRecord
<1>14. H!ReadAddress(r) = a
  BY <1>3, <1>11 DEF H!ReadAddress, HexBytes
<1>15. H!Type(r) = tag /\ H!Count(r) = n
  BY <1>11 DEF H!Type, H!Count
<1>. QED  BY <1>10, <1>11, <1>13, <1>14, <1>15 DEF r, n, IsOf

\* A byte that is not what was written makes the sum wrong.
LEMMA ChangeShows ==
  ASSUME H!SizeAssumption, NEW r, IsRecord(r), IsRight(r), NEW i \in DOMAIN r, i \notin {1, 4},
         NEW b \in H!Byte, b # r[i]
  PROVE  IsRecord([r EXCEPT ![i] = b]) /\ ~IsRight([r EXCEPT ![i] = b])
<1>. DEFINE s == [r EXCEPT ![i] = b]
<1>1. HexBytes \in Nat \ {0} /\ H!Byte = 0..(HexBytes - 1)
  BY HexFacts
<1>2. r \in Seq(H!Byte) /\ Len(r) >= 5 /\ r \in Seq(Int) /\ r[i] \in H!Byte /\ Len(r) \in Nat
  BY <1>1 DEF IsRecord
<1>3. s \in Seq(H!Byte) /\ Len(s) = Len(r) /\ s[1] = r[1] /\ s[4] = r[4]
  BY <1>2
<1>4. IsRecord(s)
  BY <1>2, <1>3 DEF IsRecord, H!Taken, H!Type, H!Count
<1>. DEFINE t == H!Total(r)
            d == b - r[i]
<1>5. H!Total(s) = t + d
  <2>1. b \in Int /\ r \in Seq(Int) /\ i \in DOMAIN r
    BY <1>1, <1>2
  <2>. QED  BY <2>1, TotalChanged
<1>6. t \in Int
  BY <1>2, TotalAppended
<1>7. d \in Int /\ d # 0 /\ -HexBytes < d /\ d < HexBytes
  <2>1. PICK h \in Nat : h = HexBytes
    BY <1>1
  <2>2. PICK v \in 0..(h - 1), w \in 0..(h - 1) : v = b /\ w = r[i] /\ v # w
    BY <1>1, <1>2, <2>1
  <2>3. v - w \in Int /\ v - w # 0 /\ -h < v - w /\ v - w < h
    BY <2>1, <2>2
  <2>. QED  BY <2>1, <2>2, <2>3
<1>. HIDE DEF t, d, s
<1>8. ASSUME (t + d) % HexBytes = 0 PROVE FALSE
  <2>1. t = HexBytes * (t \div HexBytes) + 0 /\ t \div HexBytes \in Int
    <3>1. t % HexBytes = 0
      BY DEF IsRight, t
    <3>. QED  BY <1>1, <1>6, <3>1, Divided
  <2>2. t + d = HexBytes * ((t + d) \div HexBytes) + 0 /\ (t + d) \div HexBytes \in Int
    <3>1. t + d \in Int
      BY <1>6, <1>7
    <3>. QED  BY <1>1, <1>8, <3>1, Divided
  <2>. DEFINE p == t \div HexBytes
              q == (t + d) \div HexBytes
  <2>3. t = HexBytes * p /\ t + d = HexBytes * q /\ p \in Int /\ q \in Int
    BY <1>1, <1>6, <1>7, <2>1, <2>2
  <2>. HIDE DEF p, q
  <2>4. d = HexBytes * (q - p) /\ q - p \in Int
    <3>1. HexBytes * (q - p) = HexBytes * q - HexBytes * p
      BY <1>1, <2>3
    <3>2. HexBytes * q \in Int /\ HexBytes * p \in Int
      BY <1>1, <2>3
    <3>. QED  BY <1>7, <2>3, <3>1, <3>2
  <2>. DEFINE e == q - p
  <2>5. d = HexBytes * e /\ e \in Int
    BY <2>4
  <2>. HIDE DEF e
  <2>6. CASE e >= 1
    <3>1. HexBytes * 1 <= HexBytes * e
      BY <1>1, <2>5, <2>6, ProductOrder
    <3>. QED  BY <1>1, <1>7, <2>5, <3>1
  <2>7. CASE e <= -1
    <3>1. HexBytes * e <= HexBytes * (-1)
      BY <1>1, <2>5, <2>7, ProductOrder
    <3>2. HexBytes * (-1) = -HexBytes
      BY <1>1
    <3>. QED  BY <1>1, <1>7, <2>5, <3>1, <3>2
  <2>8. CASE e = 0
    BY <1>1, <1>7, <2>5, <2>8
  <2>. QED  BY <2>5, <2>6, <2>7, <2>8
<1>9. ~IsRight(s)
  BY <1>5, <1>8 DEF IsRight
<1>. QED  BY <1>4, <1>9 DEF s

-----------------------------------------------------------------------------
(* What is written *)

\* One sequence behind the other.
AreJoined(c, a, b, X) ==
  /\ c \in Seq(X) /\ Len(a) \in Nat /\ Len(b) \in Nat /\ Len(c) = Len(a) + Len(b)
  /\ \A k \in 1..Len(a) : c[k] = a[k]
  /\ \A k \in 1..Len(b) : c[Len(a) + k] = b[k]

LEMMA Joined ==
  ASSUME NEW X, NEW a \in Seq(X), NEW b \in Seq(X)
  PROVE  AreJoined(a \o b, a, b, X)
BY DEF AreJoined

\* A byte behind the first one of a region, when the region is in the image.
LEMMA HostBehind ==
  ASSUME H!SizeAssumption, NEW a \in Nat, NEW i \in Nat, H!Host(a) + i < ImageSize
  PROVE  H!Host(a + i) = H!Host(a) + i /\ H!Host(a) \in Nat
<1>1. ImageSize \in Nat \ {0}
  BY HexFacts
<1>. DEFINE d == a \div ImageSize
            h == a % ImageSize
            e == (a + i) \div ImageSize
            g == (a + i) % ImageSize
<1>2. a = ImageSize * d + h /\ h \in 0..(ImageSize - 1) /\ d \in Int
  BY <1>1, Divided
<1>3. a + i = ImageSize * e + g /\ g \in 0..(ImageSize - 1) /\ e \in Int
  <2>1. a + i \in Int
    OBVIOUS
  <2>. QED  BY <1>1, <2>1, Divided
<1>4. h + i < ImageSize
  BY DEF H!Host
<1>. HIDE DEF d, h, e, g
<1>5. h + i \in 0..(ImageSize - 1)
  BY <1>1, <1>2, <1>4
<1>6. ImageSize * d + (h + i) = ImageSize * e + g
  <2>1. ImageSize * d \in Int /\ ImageSize * e \in Int
    BY <1>1, <1>2, <1>3
  <2>. QED  BY <1>1, <1>2, <1>3, <2>1
<1>. DEFINE j == h + i
<1>7. j \in 0..(ImageSize - 1) /\ ImageSize * d + j = ImageSize * e + g
  BY <1>5, <1>6
<1>. HIDE DEF j
<1>8. j = g
  <2>1. d \in Int /\ e \in Int /\ g \in 0..(ImageSize - 1)
    BY <1>2, <1>3
  <2>. QED  BY <1>1, <1>7, <2>1, RemainderUnique
<1>. QED  BY <1>1, <1>2, <1>8 DEF j, h, g, H!Host

\* An image that holds what memory holds in a region.
Shows(m, r) == \A q \in H!Places(r.start, r.size) : q \in DOMAIN m /\ m[q] = memory[q]

\* A record of data.
IsData(r) == IsRecord(r) /\ IsRight(r) /\ H!Type(r) = 0

LEMMA ChunkIs ==
  ASSUME H!SizeAssumption, H!RegionAssumption, memory \in [H!Place -> H!Byte],
         NEW r \in Region, NEW at \in Nat, NEW n \in 1..Chunk, at + n <= r.size
  PROVE  LET c == H!Data(r.start + at, H!Host(r.start) + at, n)
         IN  /\ IsData(c)
             /\ \A m : Shows(m, r) => Puts(c, m)
             /\ PlacesOf(c) = (H!Host(r.start) + at)..(H!Host(r.start) + at + n - 1)
<1>. DEFINE a == r.start + at
            h == H!Host(r.start)
            data == [i \in 1..n |-> memory[h + at + i - 1]]
            c == H!Data(a, h + at, n)
<1>1. /\ HexBytes \in Nat /\ ImageSize \in Nat \ {0} /\ Chunk \in Nat /\ Chunk < HexBytes
      /\ HexBytes * HexBytes \in Nat /\ HexBytes >= 9
  BY HexFacts
<1>2. r.start \in Nat /\ r.size \in Nat /\ r.start + r.size <= HexBytes * HexBytes
  BY DEF H!RegionAssumption, HexBytes
<1>3. n \in Nat /\ n >= 1 /\ n < HexBytes /\ at \in Nat
  BY <1>1
<1>4. \A i \in 0..(r.size - 1) : h + i \in H!Places(r.start, r.size) /\ h + i \in 0..(ImageSize - 1)
  BY DEF H!RegionAssumption, H!Places, H!Image
<1>5. h \in Nat /\ H!Host(a) = h + at
  <2>1. at \in 0..(r.size - 1)
    BY <1>2, <1>3
  <2>2. h + at < ImageSize
    BY <1>1, <1>4, <2>1
  <2>. QED  BY <1>2, <2>2, HostBehind
<1>6. a \in 0..(HexBytes * HexBytes - 1)
  BY <1>1, <1>2, <1>3
<1>. HIDE DEF a, h
<1>7. data \in Seq(H!Byte) /\ Len(data) = n
  <2>1. ASSUME NEW i \in 1..n PROVE memory[h + at + i - 1] \in H!Byte
    <3>1. at + i - 1 \in 0..(r.size - 1) /\ h + (at + i - 1) = h + at + i - 1
      BY <1>2, <1>3, <1>5
    <3>2. h + at + i - 1 \in 0..(ImageSize - 1)
      BY <1>4, <3>1
    <3>3. h + at + i - 1 \in H!Place
      BY <1>1, <3>2 DEF H!Place, HexBytes
    <3>. QED  BY <3>3
  <2>. QED  BY <1>3, <2>1
<1>8. c = H!Record(0, a, data)
  BY DEF H!Data
<1>. HIDE DEF data
<1>9. /\ IsRecord(c) /\ IsRight(c) /\ H!Type(c) = 0 /\ H!Count(c) = n /\ H!ReadAddress(c) = a
      /\ \A i \in 1..n : c[4 + i] = data[i]
  <2>1. Suits(data, 0)
    BY <1>3, <1>7 DEF Suits
  <2>2. IsOf(c, 0, a, data)
    BY <1>6, <1>8, <2>1, RecordIs
  <2>. HIDE DEF c
  <2>. QED  BY <1>7, <2>2 DEF IsOf
<1>. HIDE DEF c
<1>10. PlacesOf(c) = (h + at)..(h + at + n - 1)
  BY <1>5, <1>9 DEF PlacesOf
<1>11. ASSUME NEW m, Shows(m, r), NEW q \in PlacesOf(c)
       PROVE  q \in DOMAIN m /\ c[5 + q - H!Host(H!ReadAddress(c))] = m[q]
  <2>. DEFINE i == q - (h + at) + 1
  <2>1. q \in Int /\ h + at <= q /\ q <= h + at + n - 1 /\ h + at \in Nat
    BY <1>3, <1>5, <1>10, <1>11
  <2>2. i \in 1..n /\ 4 + i = 5 + q - (h + at) /\ h + at + i - 1 = q
    BY <1>3, <2>1
  <2>3. q - h \in 0..(r.size - 1) /\ h + (q - h) = q
    BY <1>2, <1>3, <1>5, <2>1
  <2>4. q \in H!Places(r.start, r.size)
    BY <1>4, <2>3
  <2>. HIDE DEF i
  <2>5. c[4 + i] = data[i]
    BY <1>9, <2>2
  <2>6. data[i] = memory[q]
    BY <2>2 DEF data
  <2>7. q \in DOMAIN m /\ m[q] = memory[q]
    BY <1>11, <2>4 DEF Shows
  <2>. QED  BY <1>5, <1>9, <2>2, <2>5, <2>6, <2>7
<1>12. \A m : Shows(m, r) => Puts(c, m)
  BY <1>11 DEF Puts
<1>. QED  BY <1>9, <1>10, <1>12 DEF IsData, a, h, c

\* The chunks of a region are records of its data, and together of all of it.
AreChunks(c, r) ==
  /\ c \in Seq(Seq(H!Byte))
  /\ \A k \in 1..Len(c) : IsData(c[k]) /\ \A m : Shows(m, r) => Puts(c[k], m)
  /\ \A q \in H!Places(r.start, r.size) : \E k \in 1..Len(c) : q \in PlacesOf(c[k])

LEMMA ChunksAre ==
  ASSUME H!SizeAssumption, H!RegionAssumption, memory \in [H!Place -> H!Byte], NEW r \in Region
  PROVE  AreChunks(H!Chunks(r), r)
<1>. DEFINE h == H!Host(r.start)
            chunk(at, n) == H!Data(r.start + at, h + at, n)
            full == r.size \div Chunk
            rest == r.size % Chunk
            front == [k \in 1..full |-> chunk(Chunk * (k - 1), Chunk)]
            back == IF rest = 0 THEN <<>> ELSE <<chunk(Chunk * full, rest)>>
            c == H!Chunks(r)
            Fits(at, n) == at \in Nat /\ n \in 1..Chunk /\ at + n <= r.size
<1>1. Chunk \in Nat \ {0} /\ r.start \in Nat /\ r.size \in Nat
  BY HexFacts DEF H!RegionAssumption
<1>2. c = front \o back
  BY DEF H!Chunks
<1>3. r.size = Chunk * full + rest /\ rest \in 0..(Chunk - 1) /\ full \in Int
  BY <1>1, Divided
<1>4. h \in Nat
  <2>1. ImageSize \in Nat \ {0} /\ r.start \in Int
    BY <1>1, HexFacts
  <2>2. r.start % ImageSize \in 0..(ImageSize - 1)
    BY <2>1, Divided
  <2>. QED  BY <2>1, <2>2 DEF H!Host
<1>5. ASSUME NEW at, NEW n, Fits(at, n)
      PROVE  /\ IsData(chunk(at, n)) /\ chunk(at, n) \in Seq(H!Byte)
             /\ \A m : Shows(m, r) => Puts(chunk(at, n), m)
             /\ PlacesOf(chunk(at, n)) = (h + at)..(h + at + n - 1)
  <2>1. /\ IsData(chunk(at, n)) /\ \A m : Shows(m, r) => Puts(chunk(at, n), m)
        /\ PlacesOf(chunk(at, n)) = (h + at)..(h + at + n - 1)
    BY <1>5, ChunkIs
  <2>. HIDE DEF chunk
  <2>. QED  BY <2>1 DEF IsData, IsRecord
<1>6. full \in Nat
  <2>. HIDE DEF full, rest
  <2>1. SUFFICES ASSUME full <= -1 PROVE FALSE
    BY <1>3
  <2>2. Chunk * full <= Chunk * (-1)
    BY <1>1, <1>3, <2>1, ProductOrder
  <2>3. Chunk * (-1) = -Chunk /\ Chunk * full \in Int
    BY <1>1, <1>3
  <2>. QED  BY <1>1, <1>3, <2>2, <2>3
<1>. HIDE DEF full, rest, chunk, h
<1>7. ASSUME NEW k \in 1..full PROVE Fits(Chunk * (k - 1), Chunk)
  <2>1. k - 1 \in Nat /\ k \in Int /\ k <= full
    BY <1>6
  <2>2. Chunk * (k - 1) \in Nat
    BY <1>1, <2>1
  <2>3. Chunk * k <= Chunk * full
    BY <1>1, <1>6, <2>1, ProductOrder
  <2>4. Chunk * (k - 1) + Chunk = Chunk * k /\ Chunk * k \in Int /\ Chunk * full \in Int
    BY <1>1, <1>6, <2>1
  <2>. QED  BY <1>1, <1>3, <2>2, <2>3, <2>4
<1>8. rest # 0 => Fits(Chunk * full, rest)
  <2>1. Chunk * full \in Nat
    BY <1>1, <1>6
  <2>. QED  BY <1>1, <1>3, <2>1
<1>9. front \in Seq(Seq(H!Byte)) /\ Len(front) = full
  <2>1. \A k \in 1..full : chunk(Chunk * (k - 1), Chunk) \in Seq(H!Byte)
    BY <1>5, <1>7
  <2>. QED  BY <1>6, <2>1
<1>10. /\ back \in Seq(Seq(H!Byte))
       /\ rest # 0 => Len(back) = 1 /\ back[1] = chunk(Chunk * full, rest)
       /\ rest = 0 => Len(back) = 0
  BY <1>5, <1>8
<1>11. \A k \in 1..full : front[k] = chunk(Chunk * (k - 1), Chunk)
  OBVIOUS
<1>. HIDE DEF front, back, c
<1>12. /\ c \in Seq(Seq(H!Byte)) /\ Len(c) = full + Len(back) /\ Len(back) \in Nat
       /\ \A k \in 1..full : c[k] = front[k]
       /\ \A k \in 1..Len(back) : c[full + k] = back[k]
  <2>. DEFINE X == Seq(H!Byte)
  <2>1. front \in Seq(X) /\ back \in Seq(X) /\ Len(front) = full
    BY <1>9, <1>10
  <2>. HIDE DEF X
  <2>2. AreJoined(front \o back, front, back, X)
    BY <2>1, Joined
  <2>. QED  BY <1>2, <2>1, <2>2 DEF X, AreJoined
<1>13. /\ Len(c) = full + Len(back) /\ Len(back) \in Nat
       /\ Len(back) = IF rest = 0 THEN 0 ELSE 1
  BY <1>10, <1>12
<1>14. rest # 0 => c[full + 1] = chunk(Chunk * full, rest)
  <2>1. ASSUME rest # 0 PROVE c[full + 1] = back[1]
    <3>1. 1 \in 1..Len(back)
      BY <1>13, <2>1
    <3>. QED  BY <1>12, <3>1
  <2>. QED  BY <1>10, <2>1
<1>15. ASSUME NEW k \in 1..Len(c)
       PROVE  \E at, n : Fits(at, n) /\ c[k] = chunk(at, n)
  <2>1. CASE k \in 1..full
    <3>1. Fits(Chunk * (k - 1), Chunk) /\ c[k] = chunk(Chunk * (k - 1), Chunk)
      BY <1>7, <1>11, <1>12, <2>1
    <3>. HIDE DEF Fits
    <3>. QED  BY <3>1
  <2>2. CASE k \notin 1..full
    <3>1. rest # 0 /\ k = full + 1
      BY <1>6, <1>13, <2>2
    <3>2. Fits(Chunk * full, rest) /\ c[k] = chunk(Chunk * full, rest)
      BY <1>8, <1>14, <3>1
    <3>. HIDE DEF Fits
    <3>. QED  BY <3>2
  <2>. QED  BY <2>1, <2>2
<1>16. ASSUME NEW k \in 1..Len(c)
       PROVE  IsData(c[k]) /\ \A m : Shows(m, r) => Puts(c[k], m)
  BY <1>5, <1>15
<1>17. ASSUME NEW q \in H!Places(r.start, r.size)
       PROVE  \E k \in 1..Len(c) : q \in PlacesOf(c[k])
  <2>1. PICK i \in 0..(r.size - 1) : q = h + i
    BY DEF H!Places, h
  <2>. DEFINE d == i \div Chunk
              e == i % Chunk
  <2>2. i = Chunk * d + e /\ e \in 0..(Chunk - 1) /\ d \in Int /\ i \in Nat /\ i < r.size
    BY <1>1, Divided
  <2>. HIDE DEF d, e
  <2>3. d >= 0
    <3>1. SUFFICES ASSUME d <= -1 PROVE FALSE
      BY <2>2
    <3>2. Chunk * d <= Chunk * (-1)
      BY <1>1, <2>2, <3>1, ProductOrder
    <3>3. Chunk * (-1) = -Chunk /\ Chunk * d \in Int
      BY <1>1, <2>2
    <3>. QED  BY <1>1, <2>2, <3>2, <3>3
  <2>4. Chunk * d \in Int /\ Chunk * full \in Int
    BY <1>1, <1>6, <2>2
  <2>5. CASE d < full
    <3>. DEFINE k == d + 1
    <3>1. k \in 1..full /\ k - 1 = d
      BY <1>6, <2>2, <2>3, <2>5
    <3>2. Fits(Chunk * d, Chunk) /\ c[k] = chunk(Chunk * d, Chunk)
      BY <1>7, <1>11, <1>12, <3>1
    <3>3. PlacesOf(c[k]) = (h + Chunk * d)..(h + Chunk * d + Chunk - 1)
      <4>. HIDE DEF Fits, k
      <4>. QED  BY <1>5, <3>2
    <3>4. q \in PlacesOf(c[k])
      <4>. HIDE DEF k
      <4>. QED  BY <1>1, <1>4, <2>1, <2>2, <2>4, <3>3
    <3>5. k \in 1..Len(c)
      BY <1>6, <1>13, <3>1
    <3>. QED  BY <3>4, <3>5
  <2>6. CASE d >= full
    <3>1. Chunk * full <= Chunk * d
      BY <1>1, <1>6, <2>2, <2>6, ProductOrder
    <3>2. rest # 0
      BY <1>1, <1>3, <2>2, <2>4, <3>1
    <3>3. Fits(Chunk * full, rest) /\ c[full + 1] = chunk(Chunk * full, rest)
      BY <1>8, <1>14, <3>2
    <3>4. PlacesOf(c[full + 1]) = (h + Chunk * full)..(h + Chunk * full + rest - 1)
      <4>. HIDE DEF Fits
      <4>. QED  BY <1>5, <3>3
    <3>5. q \in PlacesOf(c[full + 1])
      BY <1>1, <1>3, <1>4, <2>1, <2>2, <2>4, <3>1, <3>4
    <3>6. full + 1 \in 1..Len(c)
      BY <1>6, <1>13, <3>2
    <3>. QED  BY <3>5, <3>6
  <2>. QED  BY <1>6, <2>2, <2>5, <2>6
<1>. QED  BY <1>12, <1>16, <1>17 DEF AreChunks, c

\* What a record says of an image, at its place in a file: data of it, nothing, or, in
\* front, a base of 0.
Means(r, k, m) ==
  \/ H!Type(r) = 0 /\ Puts(r, m)
  \/ H!Type(r) = 1
  \/ H!Type(r) = 4 /\ k = 1 /\ r[5] = 0 /\ r[6] = 0

IsFile(w, m) ==
  /\ w \in Seq(Seq(H!Byte)) /\ w # <<>>
  /\ \A k \in 1..Len(w) : IsRecord(w[k]) /\ IsRight(w[k]) /\ Means(w[k], k, m)
  /\ \A q \in DOMAIN m : \E k \in 1..Len(w) : H!Type(w[k]) = 0 /\ q \in PlacesOf(w[k])

LEMMA EndIs ==
  ASSUME H!SizeAssumption
  PROVE  IsRecord(H!End) /\ IsRight(H!End) /\ H!Type(H!End) = 1
<1>. DEFINE data == <<>>
<1>1. HexBytes \in Nat /\ HexBytes >= 9 /\ HexBytes * HexBytes \in Nat
  BY HexFacts
<1>2. 0 \in 0..(HexBytes * HexBytes - 1)
  <2>1. HexBytes * 1 <= HexBytes * HexBytes
    BY <1>1, ProductOrder
  <2>. QED  BY <1>1, <2>1
<1>3. Suits(data, 1)
  BY <1>1 DEF Suits
<1>4. H!End = H!Record(1, 0, data)
  BY DEF H!End
<1>. HIDE DEF data
<1>5. IsOf(H!End, 1, 0, data)
  BY <1>2, <1>3, <1>4, RecordIs
<1>. QED  BY <1>5 DEF IsOf

LEMMA ExtIs ==
  ASSUME H!SizeAssumption
  PROVE  /\ IsRecord(H!Ext(0)) /\ IsRight(H!Ext(0)) /\ H!Type(H!Ext(0)) = 4
         /\ H!Ext(0)[5] = 0 /\ H!Ext(0)[6] = 0
<1>. DEFINE data == H!AddressBytes(0)
<1>1. HexBytes \in Nat /\ HexBytes >= 9 /\ HexBytes * HexBytes \in Nat /\ H!Byte = 0..(HexBytes - 1)
  BY HexFacts
<1>2. 0 \in 0..(HexBytes * HexBytes - 1)
  <2>1. HexBytes * 1 <= HexBytes * HexBytes
    BY <1>1, ProductOrder
  <2>. QED  BY <1>1, <2>1
<1>3. 0 \div HexBytes = 0 /\ 0 % HexBytes = 0
  BY <1>1
<1>4. data = <<0, 0>>
  BY <1>3 DEF H!AddressBytes, HexBytes
<1>5. /\ data \in Seq(H!Byte) /\ Len(data) = 2 /\ Suits(data, 4)
      /\ data[1] = 0 /\ data[2] = 0
  <2>1. 0 \in H!Byte /\ 2 < HexBytes
    BY <1>1
  <2>2. <<0, 0>> \in Seq(H!Byte) /\ Len(<<0, 0>>) = 2 /\ <<0, 0>>[1] = 0 /\ <<0, 0>>[2] = 0
    BY <2>1
  <2>. HIDE DEF data
  <2>. QED  BY <1>4, <2>1, <2>2 DEF Suits
<1>6. H!Ext(0) = H!Record(4, 0, data)
  BY DEF H!Ext
<1>. HIDE DEF data
<1>7. /\ IsRecord(H!Ext(0)) /\ IsRight(H!Ext(0)) /\ H!Type(H!Ext(0)) = 4
      /\ \A i \in 1..Len(data) : H!Ext(0)[4 + i] = data[i]
  <2>1. IsOf(H!Ext(0), 4, 0, data)
    BY <1>2, <1>5, <1>6, RecordIs
  <2>. QED  BY <2>1 DEF IsOf
<1>8. 1 \in 1..Len(data) /\ 2 \in 1..Len(data) /\ 4 + 1 = 5 /\ 4 + 2 = 6
  BY <1>5
<1>. QED  BY <1>5, <1>7, <1>8

\* Records of an image, with a base in front or none, and the record at the end.
AreRecords(c, m) ==
  /\ c \in Seq(Seq(H!Byte))
  /\ \A k \in 1..Len(c) : IsRecord(c[k]) /\ IsRight(c[k]) /\ Means(c[k], k, m)
  /\ \A q \in DOMAIN m : \E k \in 1..Len(c) : H!Type(c[k]) = 0 /\ q \in PlacesOf(c[k])

LEMMA FileIs ==
  ASSUME H!SizeAssumption, NEW m, NEW c, AreRecords(c, m)
  PROVE  IsFile(c \o <<H!End>>, m)
<1>. DEFINE X == Seq(H!Byte)
            e == <<H!End>>
            w == c \o e
            n == Len(c)
<1>1. IsRecord(H!End) /\ IsRight(H!End) /\ H!Type(H!End) = 1 /\ H!End \in X
  BY EndIs DEF IsRecord
<1>2. c \in Seq(X) /\ e \in Seq(X) /\ Len(e) = 1 /\ e[1] = H!End
  BY <1>1 DEF AreRecords
<1>. HIDE DEF X, e
<1>3. AreJoined(w, c, e, X)
  BY <1>2, Joined
<1>. HIDE DEF w
<1>4. /\ w \in Seq(X) /\ n \in Nat /\ Len(w) = n + 1
      /\ \A k \in 1..n : w[k] = c[k]
      /\ w[n + 1] = H!End
  BY <1>2, <1>3 DEF AreJoined
<1>. HIDE DEF n
<1>5. ASSUME NEW k \in 1..Len(w) PROVE IsRecord(w[k]) /\ IsRight(w[k]) /\ Means(w[k], k, m)
  <2>1. CASE k \in 1..n
    BY <1>4, <2>1 DEF AreRecords, n
  <2>2. CASE k = n + 1
    BY <1>1, <1>4, <2>2 DEF Means
  <2>. QED  BY <1>4, <2>1, <2>2
<1>6. ASSUME NEW q \in DOMAIN m
      PROVE  \E k \in 1..Len(w) : H!Type(w[k]) = 0 /\ q \in PlacesOf(w[k])
  <2>1. PICK k \in 1..n : H!Type(c[k]) = 0 /\ q \in PlacesOf(c[k])
    BY DEF AreRecords, n
  <2>2. k \in 1..Len(w) /\ w[k] = c[k]
    BY <1>4
  <2>. QED  BY <2>1, <2>2
<1>7. w # <<>>
  BY <1>4
<1>. QED  BY <1>4, <1>5, <1>6, <1>7 DEF IsFile, X, w, e

LEMMA WithBaseIsFile ==
  ASSUME H!SizeAssumption, H!RegionAssumption, memory \in [H!Place -> H!Byte], NEW r \in Region,
         NEW m, Shows(m, r), DOMAIN m = H!Places(r.start, r.size)
  PROVE  AreRecords(<<H!Ext(0)>> \o H!Chunks(r), m)
<1>. DEFINE X == Seq(H!Byte)
            e == <<H!Ext(0)>>
            d == H!Chunks(r)
            c == e \o d
<1>1. /\ IsRecord(H!Ext(0)) /\ IsRight(H!Ext(0)) /\ H!Type(H!Ext(0)) = 4
      /\ H!Ext(0)[5] = 0 /\ H!Ext(0)[6] = 0 /\ H!Ext(0) \in X
  BY ExtIs DEF IsRecord
<1>2. e \in Seq(X) /\ Len(e) = 1 /\ e[1] = H!Ext(0)
  BY <1>1
<1>3. AreChunks(d, r)
  BY ChunksAre
<1>4. d \in Seq(X)
  BY <1>3 DEF AreChunks
<1>. HIDE DEF X, e, d
<1>5. AreJoined(c, e, d, X)
  BY <1>2, <1>4, Joined
<1>. HIDE DEF c
<1>6. /\ c \in Seq(X) /\ Len(d) \in Nat /\ Len(c) = 1 + Len(d) /\ c[1] = H!Ext(0)
      /\ \A k \in 1..Len(d) : c[1 + k] = d[k]
  BY <1>2, <1>5 DEF AreJoined
<1>7. \A k \in 1..Len(d) : IsData(d[k]) /\ Puts(d[k], m)
  BY <1>3 DEF AreChunks
<1>8. ASSUME NEW k \in 1..Len(c) PROVE IsRecord(c[k]) /\ IsRight(c[k]) /\ Means(c[k], k, m)
  <2>1. CASE k = 1
    BY <1>1, <1>6, <2>1 DEF Means
  <2>2. CASE k # 1
    <3>1. k - 1 \in 1..Len(d) /\ 1 + (k - 1) = k
      BY <1>6, <2>2
    <3>2. c[k] = d[k - 1]
      BY <1>6, <3>1
    <3>. QED  BY <1>7, <3>1, <3>2 DEF Means, IsData
  <2>. QED  BY <2>1, <2>2
<1>9. ASSUME NEW q \in DOMAIN m
      PROVE  \E k \in 1..Len(c) : H!Type(c[k]) = 0 /\ q \in PlacesOf(c[k])
  <2>1. PICK k \in 1..Len(d) : q \in PlacesOf(d[k])
    BY <1>3 DEF AreChunks
  <2>2. 1 + k \in 1..Len(c) /\ c[1 + k] = d[k]
    BY <1>6
  <2>. QED  BY <1>7, <2>1, <2>2 DEF IsData
<1>. QED  BY <1>6, <1>8, <1>9 DEF AreRecords, X, c, e, d

LEMMA RegionsAreFile ==
  ASSUME H!SizeAssumption, H!RegionAssumption, memory \in [H!Place -> H!Byte],
         NEW r \in Region, NEW s \in Region, NEW m, Shows(m, r), Shows(m, s),
         DOMAIN m = H!Places(r.start, r.size) \cup H!Places(s.start, s.size)
  PROVE  AreRecords(H!Chunks(r) \o H!Chunks(s), m)
<1>. DEFINE X == Seq(H!Byte)
            e == H!Chunks(r)
            d == H!Chunks(s)
            c == e \o d
<1>1. AreChunks(e, r) /\ AreChunks(d, s)
  BY ChunksAre
<1>2. e \in Seq(X) /\ d \in Seq(X)
  BY <1>1 DEF AreChunks
<1>. HIDE DEF X, e, d
<1>3. AreJoined(c, e, d, X)
  BY <1>2, Joined
<1>. HIDE DEF c
<1>4. /\ c \in Seq(X) /\ Len(e) \in Nat /\ Len(d) \in Nat /\ Len(c) = Len(e) + Len(d)
      /\ \A k \in 1..Len(e) : c[k] = e[k]
      /\ \A k \in 1..Len(d) : c[Len(e) + k] = d[k]
  BY <1>3 DEF AreJoined
<1>5. /\ \A k \in 1..Len(e) : IsData(e[k]) /\ Puts(e[k], m)
      /\ \A k \in 1..Len(d) : IsData(d[k]) /\ Puts(d[k], m)
  BY <1>1 DEF AreChunks
<1>6. ASSUME NEW k \in 1..Len(c) PROVE IsData(c[k]) /\ Puts(c[k], m)
  <2>1. CASE k \in 1..Len(e)
    BY <1>4, <1>5, <2>1
  <2>2. CASE k \notin 1..Len(e)
    <3>. DEFINE i == k - Len(e)
    <3>1. i \in 1..Len(d) /\ Len(e) + i = k
      BY <1>4, <2>2
    <3>. HIDE DEF i
    <3>. QED  BY <1>4, <1>5, <3>1
  <2>. QED  BY <2>1, <2>2
<1>7. ASSUME NEW q \in DOMAIN m
      PROVE  \E k \in 1..Len(c) : q \in PlacesOf(c[k])
  <2>1. CASE q \in H!Places(r.start, r.size)
    <3>1. PICK k \in 1..Len(e) : q \in PlacesOf(e[k])
      BY <1>1, <2>1 DEF AreChunks
    <3>2. k \in 1..Len(c) /\ c[k] = e[k]
      BY <1>4
    <3>. QED  BY <3>1, <3>2
  <2>2. CASE q \in H!Places(s.start, s.size)
    <3>1. PICK k \in 1..Len(d) : q \in PlacesOf(d[k])
      BY <1>1, <2>2 DEF AreChunks
    <3>2. Len(e) + k \in 1..Len(c) /\ c[Len(e) + k] = d[k]
      BY <1>4
    <3>. QED  BY <3>1, <3>2
  <2>. QED  BY <2>1, <2>2
<1>. QED  BY <1>4, <1>6, <1>7 DEF AreRecords, Means, IsData, X, c, e, d

-----------------------------------------------------------------------------
(* The invariant of files *)

HexTyped ==
  /\ memory \in [H!Place -> H!Byte] /\ ihrbase \in Nat
  /\ input \in Seq(Seq(H!Byte)) /\ \A k \in 1..Len(input) : IsRecord(input[k])
  /\ file \in Seq(Seq(H!Byte)) /\ \A k \in 1..Len(file) : IsRecord(file[k])

\* What is on the disk shows the image, or that it was damaged.
OnDisk ==
  IF file = <<>> THEN ~damaged
  ELSE IF damaged THEN \E k \in 1..Len(file) : ~IsRight(file[k])
  ELSE IsFile(file, image)

\* Where the first j records put something.
Reached(q, j) == \E k \in 1..j : H!Type(file[k]) = 0 /\ q \in PlacesOf(file[k])

Promised == ~damaged /\ (H!Type(file[1]) = 4 \/ before.ihrbase = 0)

\* After j records: what is left are the others; these j were right; and memory is the image
\* where they put something, the base gone that another file had left.
RecordsRead(j) ==
  /\ Len(input) = Len(file) - j
  /\ \A k \in 1..Len(input) : input[k] = file[j + k]
  /\ \A k \in 1..j : IsRight(file[k])
  /\ Promised =>
       /\ ihrbase = IF j = 0 THEN before.ihrbase ELSE 0
       /\ \A q \in H!Place : memory[q] = IF Reached(q, j) THEN image[q] ELSE before.memory[q]

HexInv ==
  /\ HexTyped /\ OnDisk
  /\ state = "reading" /\ file # <<>> => \E j \in 0..Len(file) : RecordsRead(j)
  /\ H!ReadIsWritten

HexAssumptions == H!SizeAssumption /\ H!RegionAssumption /\ H!FileAssumption

LEMMA FreshTyped ==
  ASSUME HexAssumptions, NEW m \in H!Fresh PROVE m \in [H!Place -> H!Byte]
<1>1. PICK c \in Contents : m = [p \in H!Place |-> IF p \in H!Image THEN c[p] ELSE 0]
  BY DEF H!Fresh
<1>2. c \in [H!Image -> H!Byte] /\ 0 \in H!Byte
  BY HexFacts DEF HexAssumptions, H!FileAssumption
<1>. QED  BY <1>1, <1>2

LEMMA InitHex == HexAssumptions /\ ArithmeticInit => HexInv
<1>. SUFFICES ASSUME HexAssumptions, ArithmeticInit PROVE HexInv
  OBVIOUS
<1>1. /\ memory \in H!Fresh /\ ihrbase = 0 /\ input = <<>> /\ file = <<>> /\ state = "idle"
      /\ damaged = FALSE
  BY DEF ArithmeticInit, H!Init, H!NoFile
<1>2. memory \in [H!Place -> H!Byte]
  BY <1>1, FreshTyped
<1>3. HexTyped
  <2>1. <<>> \in Seq(Seq(H!Byte)) /\ Len(<<>>) = 0
    OBVIOUS
  <2>. QED  BY <1>1, <1>2, <2>1 DEF HexTyped
<1>. QED  BY <1>1, <1>3 DEF HexInv, OnDisk, H!ReadIsWritten, H!NoFile

\* A file is written.
LEMMA FileWritten ==
  ASSUME HexAssumptions, HexInv, NEW regions, NEW c, H!Write(regions, c),
         \A m : DOMAIN m = UNION {H!Places(r.start, r.size) : r \in regions}
                /\ (\A q \in DOMAIN m : m[q] = memory[q]) => AreRecords(c, m)
  PROVE  HexInv'
<1>1. /\ state = "idle" /\ file = <<>> /\ file' = c \o <<H!End>>
      /\ image' = [p \in UNION {H!Places(r.start, r.size) : r \in regions} |-> memory[p]]
      /\ UNCHANGED <<memory, ihrbase, input, state, damaged>>
  BY DEF H!Write, H!NoFile
<1>2. AreRecords(c, image')
  <2>. DEFINE P == UNION {H!Places(r.start, r.size) : r \in regions}
              m == [p \in P |-> memory[p]]
  <2>1. DOMAIN m = P /\ \A q \in DOMAIN m : m[q] = memory[q]
    OBVIOUS
  <2>. HIDE DEF m
  <2>2. AreRecords(c, m)
    BY <2>1
  <2>. QED  BY <1>1, <2>2 DEF m
<1>3. H!SizeAssumption
  BY DEF HexAssumptions
<1>4. IsFile(file', image')
  <2>1. IsFile(c \o <<H!End>>, image')
    BY <1>2, <1>3, FileIs
  <2>. QED  BY <1>1, <2>1
<1>5. ~damaged /\ HexTyped
  BY <1>1 DEF HexInv, OnDisk
<1>6. file' \in Seq(Seq(H!Byte)) /\ file' # <<>> /\ \A k \in 1..Len(file') : IsRecord(file'[k])
  BY <1>4 DEF IsFile
<1>7. HexTyped'
  BY <1>1, <1>5, <1>6 DEF HexTyped
<1>8. OnDisk'
  BY <1>1, <1>4, <1>5, <1>6 DEF OnDisk
<1>. QED  BY <1>1, <1>7, <1>8 DEF HexInv, H!ReadIsWritten

LEMMA BaseWritten ==
  ASSUME HexAssumptions, HexInv, NEW r \in Region, H!WriteWithBase(r) PROVE HexInv'
<1>1. H!SizeAssumption /\ H!RegionAssumption /\ memory \in [H!Place -> H!Byte]
  BY DEF HexAssumptions, HexInv, HexTyped
<1>. DEFINE c == <<H!Ext(0)>> \o H!Chunks(r)
            P == UNION {H!Places(s.start, s.size) : s \in {r}}
<1>2. H!Write({r}, c)
  BY DEF H!WriteWithBase
<1>3. P = H!Places(r.start, r.size)
  OBVIOUS
<1>4. ASSUME NEW m, DOMAIN m = P, \A q \in DOMAIN m : m[q] = memory[q]
      PROVE  AreRecords(c, m)
  <2>. HIDE DEF P
  <2>1. Shows(m, r)
    BY <1>3, <1>4 DEF Shows
  <2>. QED  BY <1>1, <1>3, <1>4, <2>1, WithBaseIsFile
<1>. HIDE DEF c
<1>. QED  BY <1>2, <1>4, FileWritten

LEMMA RegionsWritten ==
  ASSUME HexAssumptions, HexInv, NEW r \in Region, NEW s \in Region, H!WriteRegions(r, s)
  PROVE  HexInv'
<1>1. H!SizeAssumption /\ H!RegionAssumption /\ memory \in [H!Place -> H!Byte]
  BY DEF HexAssumptions, HexInv, HexTyped
<1>. DEFINE c == H!Chunks(r) \o H!Chunks(s)
            P == UNION {H!Places(t.start, t.size) : t \in {r, s}}
<1>2. H!Write({r, s}, c)
  BY DEF H!WriteRegions
<1>3. P = H!Places(r.start, r.size) \cup H!Places(s.start, s.size)
  OBVIOUS
<1>4. ASSUME NEW m, DOMAIN m = P, \A q \in DOMAIN m : m[q] = memory[q]
      PROVE  AreRecords(c, m)
  <2>. HIDE DEF P
  <2>1. Shows(m, r) /\ Shows(m, s)
    BY <1>3, <1>4 DEF Shows
  <2>. QED  BY <1>1, <1>3, <1>4, <2>1, RegionsAreFile
<1>. HIDE DEF c
<1>. QED  BY <1>2, <1>4, FileWritten

\* The image is changed, which the file does not notice.
LEMMA Filled ==
  ASSUME HexAssumptions, HexInv, NEW contents \in Contents, H!Fill(contents) PROVE HexInv'
<1>1. /\ state = "idle"
      /\ memory' = [p \in H!Place |-> IF p \in H!Image THEN contents[p] ELSE memory[p]]
      /\ UNCHANGED <<ihrbase, input, file, state, image, damaged>>
  BY DEF H!Fill
<1>2. memory' \in [H!Place -> H!Byte]
  <2>1. contents \in [H!Image -> H!Byte] /\ memory \in [H!Place -> H!Byte]
    BY DEF HexAssumptions, H!FileAssumption, HexInv, HexTyped
  <2>. QED  BY <1>1, <2>1
<1>3. HexTyped' /\ OnDisk'
  BY <1>1, <1>2 DEF HexInv, HexTyped, OnDisk
<1>. QED  BY <1>1, <1>3 DEF HexInv, H!ReadIsWritten

\* A digit is damaged, which the sum of its record shows.
LEMMA Damages ==
  ASSUME HexAssumptions, HexInv, NEW r \in DOMAIN file, NEW i \in DOMAIN file[r],
         NEW b \in H!Byte, H!Damage(r, i, b)
  PROVE  HexInv'
<1>1. /\ state = "idle" /\ ~damaged /\ i \notin {1, 4} /\ b # file[r][i]
      /\ file' = [file EXCEPT ![r][i] = b] /\ damaged' = TRUE
      /\ UNCHANGED <<memory, ihrbase, input, state, image>>
  BY DEF H!Damage
<1>. DEFINE old == file[r]
            new == [old EXCEPT ![i] = b]
<1>2. /\ HexTyped /\ file \in Seq(Seq(H!Byte)) /\ r \in 1..Len(file) /\ Len(file) \in Nat
      /\ file' = [file EXCEPT ![r] = new] /\ file # <<>>
  BY <1>1 DEF HexInv, HexTyped
<1>3. IsFile(file, image)
  BY <1>1, <1>2 DEF HexInv, OnDisk
<1>4. IsRecord(old) /\ IsRight(old)
  BY <1>2, <1>3 DEF IsFile
<1>. HIDE DEF old
<1>5. IsRecord(new) /\ ~IsRight(new)
  <2>1. H!SizeAssumption /\ i \in DOMAIN old /\ b # old[i]
    BY <1>1 DEF HexAssumptions, old
  <2>. QED  BY <1>1, <1>4, <2>1, ChangeShows
<1>. HIDE DEF new
<1>6. new \in Seq(H!Byte)
  BY <1>5 DEF IsRecord
<1>7. /\ file' \in Seq(Seq(H!Byte)) /\ Len(file') = Len(file) /\ file'[r] = new
      /\ \A k \in 1..Len(file) : k # r => file'[k] = file[k]
  <2>. DEFINE X == Seq(H!Byte)
  <2>1. file \in Seq(X) /\ new \in X
    BY <1>2, <1>6
  <2>. HIDE DEF X
  <2>2. [file EXCEPT ![r] = new] \in Seq(X) /\ Len([file EXCEPT ![r] = new]) = Len(file)
    BY <1>2, <2>1
  <2>. QED  BY <1>2, <2>1, <2>2 DEF X
<1>8. HexTyped'
  <2>1. ASSUME NEW k \in 1..Len(file') PROVE IsRecord(file'[k])
    <3>1. CASE k = r
      BY <1>5, <1>7, <3>1
    <3>2. CASE k # r
      BY <1>2, <1>7, <3>2 DEF HexTyped
    <3>. QED  BY <3>1, <3>2
  <2>. QED  BY <1>1, <1>2, <1>7, <2>1 DEF HexTyped
<1>9. OnDisk'
  <2>1. file' # <<>>
    BY <1>2, <1>7
  <2>2. r \in 1..Len(file') /\ ~IsRight(file'[r])
    BY <1>2, <1>5, <1>7
  <2>. QED  BY <1>1, <2>1, <2>2 DEF OnDisk
<1>. QED  BY <1>1, <1>8, <1>9 DEF HexInv, H!ReadIsWritten

\* Reading begins.
LEMMA ReadBegins ==
  ASSUME HexAssumptions, HexInv, H!ReadFile PROVE HexInv'
<1>1. /\ state = "idle" /\ file # <<>> /\ input' = file /\ state' = "reading"
      /\ before' = [memory |-> memory, ihrbase |-> ihrbase]
      /\ UNCHANGED <<memory, ihrbase, image, damaged, file>>
  BY DEF H!ReadFile, H!Read, H!NoFile
<1>2. HexTyped /\ OnDisk /\ file \in Seq(Seq(H!Byte)) /\ Len(file) \in Nat
  BY DEF HexInv, HexTyped
<1>3. HexTyped' /\ OnDisk'
  BY <1>1, <1>2 DEF HexTyped, OnDisk
<1>4. RecordsRead(0)'
  <2>1. Len(input') = Len(file') - 0 /\ \A k \in 1..Len(input') : input'[k] = file'[0 + k]
    BY <1>1, <1>2
  <2>2. 1..0 = {}
    OBVIOUS
  <2>3. before'.memory = memory' /\ before'.ihrbase = ihrbase'
    BY <1>1
  <2>4. \A q : ~Reached(q, 0)'
    BY <2>2 DEF Reached
  <2>. QED  BY <2>1, <2>2, <2>3, <2>4 DEF RecordsRead
<1>5. 0 \in 0..Len(file')
  BY <1>1, <1>2
<1>. QED  BY <1>1, <1>3, <1>4, <1>5 DEF HexInv, H!ReadIsWritten

LEMMA ForeignBegins ==
  ASSUME HexAssumptions, HexInv, NEW f \in Foreign, H!ReadForeign(f) PROVE HexInv'
<1>1. /\ file = <<>> /\ input' = f /\ state' = "reading"
      /\ UNCHANGED <<memory, ihrbase, image, damaged, file>>
  BY DEF H!ReadForeign, H!Read, H!NoFile
<1>2. f \in Seq(Seq(H!Byte)) /\ \A k \in 1..Len(f) : IsRecord(f[k])
  <2>1. f \in Seq(Seq(H!Byte)) /\ \A k \in DOMAIN f : Len(f[k]) >= 5 /\ Len(f[k]) = H!Taken(f[k]) + 5
    BY DEF HexAssumptions, H!FileAssumption
  <2>2. ASSUME NEW k \in 1..Len(f) PROVE IsRecord(f[k])
    <3>. DEFINE X == Seq(H!Byte)
    <3>1. f \in Seq(X)
      BY <2>1
    <3>. HIDE DEF X
    <3>2. k \in DOMAIN f /\ f[k] \in X
      BY <3>1
    <3>. QED  BY <2>1, <3>2 DEF IsRecord, X
  <2>. QED  BY <2>1, <2>2
<1>3. HexTyped' /\ OnDisk'
  BY <1>1, <1>2 DEF HexInv, HexTyped, OnDisk
<1>. QED  BY <1>1, <1>3 DEF HexInv, H!ReadIsWritten, H!NoFile

\* Storing the data of a record.
LEMMA StoredIs ==
  ASSUME H!SizeAssumption, memory \in [H!Place -> H!Byte], ihrbase \in Nat,
         NEW r, IsRecord(r), H!Type(r) = 0
  PROVE  /\ H!Stored(r) \in [H!Place -> H!Byte]
         /\ ihrbase = 0 => H!Stored(r) =
              [q \in H!Place |-> IF q \in PlacesOf(r)
                                 THEN r[5 + q - H!Host(H!ReadAddress(r))] ELSE memory[q]]
<1>. DEFINE host == H!Host(H!ReadAddress(r) + ihrbase)
            n == H!Count(r)
<1>1. /\ HexBytes \in Nat /\ ImageSize \in Nat \ {0} /\ H!Byte = 0..(HexBytes - 1)
  BY HexFacts
<1>2. r \in Seq(H!Byte) /\ Len(r) = n + 5 /\ n \in H!Byte /\ n \in Nat
  <2>1. H!Taken(r) = H!Count(r)
    BY DEF H!Taken
  <2>. QED  BY <1>1, <2>1 DEF IsRecord, H!Count
<1>3. H!ReadAddress(r) \in Nat
  <2>1. r[2] \in Nat /\ r[3] \in Nat
    BY <1>1, <1>2
  <2>2. r[2] * HexBytes \in Nat
    BY <1>1, <2>1
  <2>. QED  BY <2>1, <2>2 DEF H!ReadAddress, HexBytes
<1>4. host \in Int
  <2>. DEFINE a == H!ReadAddress(r) + ihrbase
  <2>1. a \in Int
    BY <1>3
  <2>. HIDE DEF a
  <2>2. a % ImageSize \in 0..(ImageSize - 1)
    BY <1>1, <2>1, Divided
  <2>. QED  BY <1>1, <2>2 DEF H!Host, a
<1>5. H!Stored(r) = [p \in H!Place |-> IF p \in host..(host + n - 1)
                                       THEN r[5 + p - host] ELSE memory[p]]
  BY DEF H!Stored
<1>6. ihrbase = 0 => host = H!Host(H!ReadAddress(r))
  BY <1>3
<1>. HIDE DEF host, n
<1>7. ASSUME NEW p \in H!Place, p \in host..(host + n - 1) PROVE r[5 + p - host] \in H!Byte
  <2>1. p \in Int /\ 5 + p - host \in 1..Len(r)
    BY <1>2, <1>4, <1>7
  <2>. QED  BY <1>2, <2>1
<1>8. H!Stored(r) \in [H!Place -> H!Byte]
  BY <1>5, <1>7
<1>9. ASSUME ihrbase = 0
      PROVE  H!Stored(r) =
               [q \in H!Place |-> IF q \in PlacesOf(r)
                                  THEN r[5 + q - H!Host(H!ReadAddress(r))] ELSE memory[q]]
  BY <1>5, <1>6, <1>9 DEF PlacesOf, n
<1>. QED  BY <1>8, <1>9

\* What a record does, whatever its type: it is taken from the input, and obeyed.
LEMMA RecordTaken ==
  ASSUME HexAssumptions, HexInv, H!ReadRecord
  PROVE  /\ HexTyped' /\ OnDisk'
         /\ UNCHANGED <<file, image, damaged, before>>
         /\ input # <<>> /\ state = "reading" /\ input' = Tail(input) /\ IsRecord(input[1])
         /\ state' = IF IsRight(input[1]) THEN "reading" ELSE "failed"
<1>. DEFINE r == Head(input)
<1>1. /\ state = "reading" /\ input # <<>> /\ input' = Tail(input)
      /\ UNCHANGED <<file, image, damaged, before>>
      /\ H!Checked
  BY DEF H!ReadRecord, H!ReadData, H!ReadSeg, H!ReadExt, H!ReadOther
<1>2. HexTyped /\ OnDisk /\ H!SizeAssumption
  BY DEF HexInv, HexAssumptions
<1>3. input \in Seq(Seq(H!Byte)) /\ Len(input) \in Nat /\ \A k \in 1..Len(input) : IsRecord(input[k])
  BY <1>2 DEF HexTyped
<1>4. Len(input) > 0 /\ r = input[1] /\ IsRecord(r)
  BY <1>1, <1>3
<1>5. /\ input' \in Seq(Seq(H!Byte)) /\ Len(input') = Len(input) - 1
      /\ \A k \in 1..Len(input') : input'[k] = input[k + 1]
  BY <1>1, <1>3
<1>6. \A k \in 1..Len(input') : IsRecord(input'[k])
  <2>1. ASSUME NEW k \in 1..Len(input') PROVE IsRecord(input'[k])
    <3>1. k + 1 \in 1..Len(input)
      BY <1>3, <1>5
    <3>. QED  BY <1>3, <1>5, <3>1
  <2>. QED  BY <2>1
<1>. HIDE DEF r
<1>7. state' = IF IsRight(r) THEN "reading" ELSE "failed"
  BY <1>1 DEF H!Checked, IsRight, HexBytes, r
<1>8. memory' \in [H!Place -> H!Byte] /\ ihrbase' \in Nat
  <2>1. /\ HexBytes \in Nat /\ H!Byte = 0..(HexBytes - 1)
    BY <1>2, HexFacts
  <2>2. memory \in [H!Place -> H!Byte] /\ ihrbase \in Nat
    BY <1>2 DEF HexTyped
  <2>3. CASE H!Type(r) = 0 /\ H!ReadData(r)
    <3>1. memory' = H!Stored(r) /\ ihrbase' = ihrbase
      BY <2>3 DEF H!ReadData
    <3>. QED  BY <1>2, <1>4, <2>2, <2>3, <3>1, StoredIs
  <2>4. CASE H!Type(r) \in {2, 4} /\ (H!ReadSeg(r) \/ H!ReadExt(r))
    <3>1. Len(r) = 7 /\ r \in Seq(H!Byte)
      <4>1. H!Taken(r) = 2
        BY <2>4 DEF H!Taken
      <4>. QED  BY <1>4, <4>1 DEF IsRecord
    <3>2. r[5] \in Nat /\ r[6] \in Nat
      <4>1. \A b \in H!Byte : b \in Nat
        BY <2>1
      <4>2. r[5] \in H!Byte /\ r[6] \in H!Byte
        <5>1. \A k \in 1..Len(r) : r[k] \in H!Byte
          BY <3>1
        <5>2. 5 \in 1..Len(r) /\ 6 \in 1..Len(r)
          BY <3>1
        <5>. HIDE <3>1
        <5>. QED  BY <5>1, <5>2
      <4>. QED  BY <4>1, <4>2
    <3>. DEFINE v == r[5] * HexBytes + r[6]
    <3>3. v \in Nat
      <4>1. r[5] * HexBytes \in Nat
        BY <2>1, <3>2
      <4>. QED  BY <3>2, <4>1
    <3>4. memory' = memory /\ (ihrbase' = v * HexDigit \/ ihrbase' = v * HexBytes * HexBytes)
      BY <2>4 DEF H!ReadSeg, H!ReadExt, HexBytes
    <3>5. HexDigit \in Nat
      BY <1>2 DEF H!SizeAssumption
    <3>. HIDE DEF v
    <3>6. v * HexDigit \in Nat /\ v * HexBytes \in Nat
      BY <2>1, <3>3, <3>5
    <3>7. (v * HexBytes) * HexBytes \in Nat
      BY <2>1, <3>6
    <3>. QED  BY <2>2, <3>4, <3>6, <3>7
  <2>5. CASE H!ReadOther(r)
    BY <2>2, <2>5 DEF H!ReadOther
  <2>. QED  BY <2>3, <2>4, <2>5 DEF H!ReadRecord, r
<1>9. HexTyped'
  BY <1>1, <1>2, <1>5, <1>6, <1>8 DEF HexTyped
<1>10. OnDisk'
  BY <1>1, <1>2 DEF OnDisk
<1>. QED  BY <1>1, <1>4, <1>7, <1>9, <1>10

\* A record that is right, of a file of ours.
LEMMA RecordObeyed ==
  ASSUME HexAssumptions, HexInv, H!ReadRecord, file # <<>>, IsRight(input[1]),
         NEW j \in 0..Len(file), RecordsRead(j)
  PROVE  j + 1 \in 0..Len(file) /\ RecordsRead(j + 1)'
<1>. DEFINE r == input[1]
<1>1. /\ UNCHANGED <<file, image, damaged, before>> /\ input # <<>> /\ input' = Tail(input)
      /\ IsRecord(r)
  BY RecordTaken
<1>2. HexTyped /\ OnDisk /\ H!SizeAssumption /\ input \in Seq(Seq(H!Byte)) /\ Len(file) \in Nat
  BY DEF HexInv, HexTyped, HexAssumptions
<1>3. Len(input) \in Nat /\ Len(input) > 0 /\ Len(input) = Len(file) - j /\ j \in Nat
  BY <1>1, <1>2 DEF RecordsRead
<1>4. j + 1 \in 1..Len(file) /\ r = file[j + 1]
  <2>1. 1 \in 1..Len(input)
    BY <1>3
  <2>. QED  BY <1>2, <1>3, <2>1 DEF RecordsRead
<1>5. Len(input') = Len(file) - (j + 1) /\ \A k \in 1..Len(input') : input'[k] = file[(j + 1) + k]
  <2>1. Len(input') = Len(input) - 1 /\ \A k \in 1..Len(input') : input'[k] = input[k + 1]
    BY <1>1, <1>2, <1>3
  <2>2. ASSUME NEW k \in 1..Len(input') PROVE input'[k] = file[(j + 1) + k]
    <3>1. k + 1 \in 1..Len(input) /\ j + (k + 1) = (j + 1) + k
      BY <1>3, <2>1
    <3>2. input[k + 1] = file[j + (k + 1)]
      BY <3>1 DEF RecordsRead
    <3>. QED  BY <2>1, <3>1, <3>2
  <2>3. Len(input') = Len(file) - (j + 1)
    BY <1>2, <1>3, <2>1
  <2>. QED  BY <2>2, <2>3
<1>6. \A k \in 1..(j + 1) : IsRight(file[k])
  <2>1. ASSUME NEW k \in 1..(j + 1) PROVE IsRight(file[k])
    <3>1. k = j + 1 \/ k \in 1..j
      BY <1>3
    <3>. QED  BY <1>4, <3>1 DEF RecordsRead
  <2>. QED  BY <2>1
<1>7. ASSUME NEW q PROVE Reached(q, j + 1) <=> Reached(q, j) \/ (H!Type(r) = 0 /\ q \in PlacesOf(r))
  <2>1. \A k : k \in 1..(j + 1) <=> k \in 1..j \/ k = j + 1
    BY <1>3
  <2>. HIDE DEF r
  <2>. QED  BY <1>4, <2>1 DEF Reached
<1>8. ASSUME Promised
      PROVE  /\ ihrbase' = 0
             /\ \A q \in H!Place :
                  memory'[q] = IF Reached(q, j + 1) THEN image[q] ELSE before.memory[q]
  <2>1. Means(r, j + 1, image)
    <3>1. IsFile(file, image)
      BY <1>2, <1>8 DEF OnDisk, Promised
    <3>. HIDE DEF r
    <3>. QED  BY <1>4, <3>1 DEF IsFile
  <2>2. /\ ihrbase = IF j = 0 THEN before.ihrbase ELSE 0
        /\ \A q \in H!Place : memory[q] = IF Reached(q, j) THEN image[q] ELSE before.memory[q]
    BY <1>8 DEF RecordsRead
  <2>3. H!Type(r) # 4 => ihrbase = 0
    <3>1. CASE j = 0
      <4>1. H!Type(r) # 4 => before.ihrbase = 0
        BY <1>4, <1>8, <3>1 DEF Promised
      <4>. QED  BY <2>2, <3>1, <4>1
    <3>2. CASE j # 0
      BY <2>2, <3>2
    <3>. QED  BY <3>1, <3>2
  <2>4. r = Head(input)
    BY <1>1, <1>2
  <2>. HIDE DEF r
  <2>5. CASE H!Type(r) = 0
    <3>1. memory' = H!Stored(r) /\ ihrbase' = ihrbase
      BY <2>4, <2>5 DEF H!ReadRecord, H!ReadData
    <3>2. ihrbase = 0
      BY <2>3, <2>5
    <3>3. H!Stored(r) = [q \in H!Place |-> IF q \in PlacesOf(r)
                           THEN r[5 + q - H!Host(H!ReadAddress(r))] ELSE memory[q]]
      BY <1>1, <1>2, <2>5, <3>2, StoredIs DEF HexTyped, r
    <3>4. Puts(r, image)
      BY <2>1, <2>5 DEF Means
    <3>5. ASSUME NEW q \in H!Place
          PROVE  memory'[q] = IF Reached(q, j + 1) THEN image[q] ELSE before.memory[q]
      <4>1. CASE q \in PlacesOf(r)
        <5>1. memory'[q] = image[q]
          BY <3>1, <3>3, <3>4, <4>1 DEF Puts
        <5>. QED  BY <1>7, <2>5, <4>1, <5>1
      <4>2. CASE q \notin PlacesOf(r)
        <5>1. memory'[q] = memory[q]
          BY <3>1, <3>3, <4>2
        <5>. QED  BY <1>7, <2>2, <4>2, <5>1
      <4>. QED  BY <4>1, <4>2
    <3>. QED  BY <3>1, <3>2, <3>5
  <2>6. CASE H!Type(r) = 1
    <3>1. memory' = memory /\ ihrbase' = ihrbase
      BY <2>4, <2>6 DEF H!ReadRecord, H!ReadOther
    <3>. QED  BY <1>7, <2>2, <2>3, <2>6, <3>1
  <2>7. CASE H!Type(r) = 4
    <3>1. memory' = memory /\ ihrbase' = (r[5] * HexBytes + r[6]) * HexBytes * HexBytes
      BY <2>4, <2>7 DEF H!ReadRecord, H!ReadExt, HexBytes
    <3>2. r[5] = 0 /\ r[6] = 0
      BY <2>1, <2>7 DEF Means
    <3>3. HexBytes \in Nat
      BY <1>2, HexFacts
    <3>4. ihrbase' = 0
      BY <3>1, <3>2, <3>3
    <3>. QED  BY <1>7, <2>2, <2>7, <3>1, <3>4
  <2>. QED  BY <2>1, <2>5, <2>6, <2>7 DEF Means
<1>9. Promised' <=> Promised
  BY <1>1 DEF Promised
<1>10. \A q : Reached(q, j + 1)' <=> Reached(q, j + 1)
  BY <1>1 DEF Reached
<1>11. RecordsRead(j + 1)'
  <2>1. j + 1 # 0
    BY <1>3
  <2>2. Promised' =>
          /\ ihrbase' = IF j + 1 = 0 THEN before'.ihrbase ELSE 0
          /\ \A q \in H!Place :
               memory'[q] = IF Reached(q, j + 1)' THEN image'[q] ELSE before'.memory[q]
    BY <1>1, <1>8, <1>9, <1>10, <2>1
  <2>3. \A k \in 1..(j + 1) : IsRight(file'[k])
    BY <1>1, <1>6
  <2>4. Len(input') = Len(file') - (j + 1) /\ \A k \in 1..Len(input') : input'[k] = file'[(j + 1) + k]
    BY <1>1, <1>5
  <2>. QED  BY <2>2, <2>3, <2>4 DEF RecordsRead
<1>. QED  BY <1>2, <1>4, <1>11

LEMMA ReadsRecord ==
  ASSUME HexAssumptions, HexInv, H!ReadRecord PROVE HexInv'
<1>1. /\ HexTyped' /\ OnDisk' /\ file' = file /\ state = "reading"
      /\ state' = IF IsRight(input[1]) THEN "reading" ELSE "failed"
  BY RecordTaken
<1>2. state' = "reading" /\ file' # <<>> => \E j \in 0..Len(file') : RecordsRead(j)'
  <2>1. SUFFICES ASSUME state' = "reading", file # <<>>
                 PROVE  \E j \in 0..Len(file) : RecordsRead(j)'
    BY <1>1
  <2>2. IsRight(input[1])
    BY <1>1, <2>1
  <2>3. PICK j \in 0..Len(file) : RecordsRead(j)
    BY <1>1, <2>1 DEF HexInv
  <2>4. j + 1 \in 0..Len(file) /\ RecordsRead(j + 1)'
    BY <2>1, <2>2, <2>3, RecordObeyed
  <2>. QED  BY <2>4
<1>3. state' # "read"
  BY <1>1
<1>. QED  BY <1>1, <1>2, <1>3 DEF HexInv, H!ReadIsWritten

\* All records are read, and right: then the file was not damaged, and all places of the
\* image were reached.
LEMMA ReadingEnds ==
  ASSUME HexAssumptions, HexInv, H!ReadEnds PROVE HexInv'
<1>1. /\ state = "reading" /\ input = <<>> /\ state' = "read"
      /\ UNCHANGED <<memory, ihrbase, input, file, image, damaged, before>>
  BY DEF H!ReadEnds
<1>2. HexTyped' /\ OnDisk'
  BY <1>1 DEF HexInv, HexTyped, OnDisk
<1>3. ASSUME file # <<>>, H!Type(file[1]) = 4 \/ before.ihrbase = 0
      PROVE  /\ ~damaged
             /\ \A p \in H!Place :
                  memory[p] = IF p \in DOMAIN image THEN image[p] ELSE before.memory[p]
  <2>1. PICK j \in 0..Len(file) : RecordsRead(j)
    BY <1>1, <1>3 DEF HexInv
  <2>2. Len(file) \in Nat
    BY DEF HexInv, HexTyped
  <2>3. j = Len(file)
    <3>1. Len(input) = 0
      BY <1>1
    <3>. QED  BY <2>1, <2>2, <3>1 DEF RecordsRead
  <2>4. \A k \in 1..Len(file) : IsRight(file[k])
    BY <2>1, <2>3 DEF RecordsRead
  <2>5. ~damaged
    BY <1>3, <2>4 DEF HexInv, OnDisk
  <2>6. IsFile(file, image)
    BY <1>3, <2>5 DEF HexInv, OnDisk
  <2>7. Promised
    BY <1>3, <2>5 DEF Promised
  <2>8. ASSUME NEW p PROVE Reached(p, j) <=> p \in DOMAIN image
    <3>1. ASSUME p \in DOMAIN image PROVE Reached(p, j)
      BY <2>3, <2>6, <3>1 DEF IsFile, Reached
    <3>2. ASSUME Reached(p, j) PROVE p \in DOMAIN image
      <4>1. PICK k \in 1..Len(file) : H!Type(file[k]) = 0 /\ p \in PlacesOf(file[k])
        BY <2>3, <3>2 DEF Reached
      <4>2. Puts(file[k], image)
        BY <2>6, <4>1 DEF IsFile, Means
      <4>. QED  BY <4>1, <4>2 DEF Puts
    <3>. QED  BY <3>1, <3>2
  <2>9. \A p \in H!Place : memory[p] = IF Reached(p, j) THEN image[p] ELSE before.memory[p]
    BY <2>1, <2>7 DEF RecordsRead
  <2>. QED  BY <2>5, <2>8, <2>9
<1>4. H!ReadIsWritten'
  BY <1>1, <1>3 DEF H!ReadIsWritten, H!NoFile
<1>. QED  BY <1>1, <1>2, <1>4 DEF HexInv

LEMMA NextFile == ASSUME HexInv, H!Again PROVE HexInv'
<1>1. /\ file = <<>> /\ state' = "idle" /\ input' = <<>>
      /\ UNCHANGED <<memory, ihrbase, file, image, damaged>>
  BY DEF H!Again, H!NoFile
<1>2. <<>> \in Seq(Seq(H!Byte)) /\ Len(<<>>) = 0
  OBVIOUS
<1>3. HexTyped' /\ OnDisk'
  BY <1>1, <1>2 DEF HexInv, HexTyped, OnDisk
<1>. QED  BY <1>1, <1>3 DEF HexInv, H!ReadIsWritten

LEMMA NextProcess == ASSUME HexAssumptions, HexInv, H!Restart PROVE HexInv'
<1>1. /\ memory' \in H!Fresh /\ ihrbase' = 0 /\ state' = "idle" /\ input' = <<>>
      /\ file' = <<>> /\ damaged' = FALSE
  BY DEF H!Restart, H!NoFile
<1>2. memory' \in [H!Place -> H!Byte]
  BY <1>1, FreshTyped
<1>3. <<>> \in Seq(Seq(H!Byte)) /\ Len(<<>>) = 0
  OBVIOUS
<1>4. HexTyped' /\ OnDisk'
  BY <1>1, <1>2, <1>3 DEF HexTyped, OnDisk
<1>. QED  BY <1>1, <1>4 DEF HexInv, H!ReadIsWritten

LEMMA NextHex == HexAssumptions /\ HexInv /\ [ArithmeticNext]_arithmetic_vars => HexInv'
<1>. SUFFICES ASSUME HexAssumptions, HexInv, [ArithmeticNext]_arithmetic_vars PROVE HexInv'
  OBVIOUS
<1>1. CASE UNCHANGED ofHex
  <2>1. UNCHANGED <<memory, ihrbase, input, file, state, image, damaged, before>>
    BY <1>1 DEF ofHex
  <2>2. HexTyped' /\ OnDisk'
    BY <2>1 DEF HexInv, HexTyped, OnDisk
  <2>3. \A j : RecordsRead(j)' <=> RecordsRead(j)
    BY <2>1 DEF RecordsRead, Promised, Reached
  <2>4. H!ReadIsWritten'
    BY <2>1 DEF HexInv, H!ReadIsWritten
  <2>. QED  BY <2>1, <2>2, <2>3, <2>4 DEF HexInv
<1>2. CASE H!Next
  BY <1>2, BaseWritten, RegionsWritten, Filled, Damages, ReadBegins, ForeignBegins, ReadsRecord,
     ReadingEnds, NextFile, NextProcess DEF H!Next
<1>. QED  BY <1>1, <1>2 DEF ArithmeticNext, arithmetic_vars

\* For images, regions, chunks and files of every size: a file of ours that is read without an
\* error was not damaged in a digit of an address, of data or of a checksum, and
\* puts everything where it was (gen-ihex, parse-ihex), provided that it begins with a base,
\* or that none was left by a file that was read before.
THEOREM ReadIsWrittenCorrect ==
  ASSUME H!SizeAssumption, H!RegionAssumption, H!FileAssumption
  PROVE  ArithmeticSpec => []ReadIsWritten
<1>. HexAssumptions
  BY DEF HexAssumptions
<1>1. HexInv => ReadIsWritten
  BY DEF HexInv, ReadIsWritten
<1>. QED  BY <1>1, InitHex, NextHex, PTL DEF ArithmeticSpec
=============================================================================

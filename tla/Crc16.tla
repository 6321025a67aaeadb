--------------------------------- MODULE Crc16 ---------------------------------
(***************************************************************************)
(* The CRC-16 of crc16.c and crc16.mu4: two functions in C, of which a     *)
(* pointer selects the one that is used, and a third in Forth. Each takes  *)
(* the sum so far and a byte; callers thread the sum through any number of *)
(* calls, byte by byte or a buffer at a time.                              *)
(*                                                                         *)
(* A word is the set of the numbers of its bits that are 1, the bit of     *)
(* weight 1 being number 0: exclusive or is symmetric difference.          *)
(***************************************************************************)
EXTENDS Integers, Sequences, FiniteSets

CONSTANTS Byte,       \* bytes that are summed
          Start,      \* values that callers begin with
          Buffer,     \* buffers that are summed in one call
          MaxLength   \* bytes of a message, at most

Word == SUBSET (0..15)
ByteAssumption == Byte \subseteq SUBSET (0..7)
StartAssumption == Start \subseteq Word
BufferAssumption == Buffer \subseteq Seq(Byte)
LengthAssumption == MaxLength \in Nat

VARIABLES
  crc16_byte,   \* the function in C that is used
  crc,          \* the sum, which is a cell on the stack of the caller
  start,        \* the value it began with, and
  message       \* the bytes since: not in the code

vars == <<crc16_byte, crc, start, message>>

-----------------------------------------------------------------------------
(* Words of 16 bits *)

Xor(v, w) == (v \ w) \cup (w \ v)
Up(w, n) == {i + n : i \in w}
Down(w, n) == {i - n : i \in {j \in w : j >= n}}
Low(w, n) == {i \in w : i < n}

-----------------------------------------------------------------------------
(* The three functions *)

\* x is 16 bits wide in C: what is shifted out of it at the top is lost,
\* and the sum is truncated in the end.
Crc16ByteThierry(sum, b) ==
  LET half == Low(Xor(Down(sum, 8), b), 8)
      x == Xor(half, Down(half, 4))
  IN Low(Xor(Xor(Xor(Up(sum, 8), Up(x, 12)), Up(x, 5)), x), 16)

\* x^16 is the bit that the shift has moved out of the word.
Feedback == {12, 5, 0}
Shifted(sum) ==
  IF 15 \in sum THEN Xor(Low(Up(sum, 1), 16), Feedback) ELSE Low(Up(sum, 1), 16)

\* The loop runs eight times. Mutant: seven times.
Crc16ByteXmodemShort(sum, b) ==
  LET two(w) == Shifted(Shifted(w)) IN Shifted(two(two(two(Xor(sum, Up(b, 8))))))
Crc16ByteXmodem(sum, b) ==
  LET two(w) == Shifted(Shifted(w))
      four(w) == two(two(w))
  IN four(four(Xor(sum, Up(b, 8))))

\* That of crc16.mu4 works on cells: nothing is masked before the end.
Crc16ByteForth(sum, b) ==
  LET half == Xor(b, Down(sum, 8))
      x == Xor(Down(half, 4), half)
  IN Low(Xor(Xor(Xor(Up(sum, 8), Up(x, 12)), Up(x, 5)), x), 16)

Crc16Byte(sum, b) ==
  IF crc16_byte = "thierry" THEN Crc16ByteThierry(sum, b) ELSE Crc16ByteXmodem(sum, b)

Crc16Buf(sum, p) ==
  LET after[i \in 0..Len(p)] == IF i = 0 THEN sum ELSE Crc16Byte(after[i - 1], p[i])
  IN after[Len(p)]

-----------------------------------------------------------------------------
(* A caller *)

Init ==
  /\ crc16_byte = "thierry"
  /\ start \in Start /\ crc = start /\ message = <<>>

UseThierry == crc16_byte' = "thierry" /\ UNCHANGED <<crc, start, message>>
UseXmodem == crc16_byte' = "xmodem" /\ UNCHANGED <<crc, start, message>>

SumByte(b) ==
  /\ Len(message) < MaxLength
  /\ crc' = Crc16Byte(crc, b) /\ message' = Append(message, b)
  /\ UNCHANGED <<crc16_byte, start>>

SumByteForth(b) ==
  /\ Len(message) < MaxLength
  /\ crc' = Crc16ByteForth(crc, b) /\ message' = Append(message, b)
  /\ UNCHANGED <<crc16_byte, start>>

SumBuffer(p) ==
  /\ Len(message) + Len(p) <= MaxLength
  /\ crc' = Crc16Buf(crc, p) /\ message' = message \o p
  /\ UNCHANGED <<crc16_byte, start>>

Next ==
  \/ UseThierry \/ UseXmodem
  \/ \E b \in Byte : SumByte(b) \/ SumByteForth(b)
  \/ \E p \in Buffer : SumBuffer(p)

Spec == Init /\ [][Next]_vars

-----------------------------------------------------------------------------
(* What the sum is *)

\* The polynomial x^16 + x^12 + x^5 + 1 with coefficients in GF(2) divides
\* x^n and leaves Power[n], which is a polynomial of degree less than 16.
Power[n \in 0..(8 * MaxLength + 15)] ==
  IF n < 16 THEN {n}
  ELSE LET times == {i + 1 : i \in Power[n - 1]}
       IN IF 16 \in times THEN Xor(times \ {16}, {12, 5, 0}) ELSE times

\* Remainders are sums, as division is linear: a bit is set if it is in the
\* remainders of an odd number of terms.
WithBit(p, i) == {n \in p : i \in Power[n]}
Remainder(p) == {i \in 0..15 : Cardinality(WithBit(p, i)) % 2 = 1}

\* The message as a polynomial, the first bit of which has the highest
\* degree, times x^16; the value at the start is added to its front.
Polynomial ==
  LET n == Len(message)
      bits == UNION {{8 * (n - k) + i + 16 : i \in message[k]} : k \in 1..n}
      front == {i + 8 * n : i \in start}
  IN Xor(bits, front)

\* However the bytes are divided into calls and whichever function each call
\* uses, also when it is changed within a message, the sum is the remainder
\* that the definition of CCITT asks for: both functions of crc16.c, one a
\* few shifts and the other a loop, and that of crc16.mu4 agree.
CrcIsRemainder == crc = Remainder(Polynomial)
=============================================================================

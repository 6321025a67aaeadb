---------------------------- MODULE ArithmeticMC ----------------------------
(***************************************************************************)
(* Arithmetic with cells of few bits and all their values; all short       *)
(* tokens of a few characters, and numbers at the edges of a wider cell    *)
(* and of the groups of digits; sums of short messages; and small images   *)
(* and hex files.                                                          *)
(***************************************************************************)
EXTENDS Arithmetic

AllCells == Cell
MCTyped == {"$", "'", "#", "%", "-", ".", ",", "1", "8", "a"}
MCPrinted == {0, 1, 7, 8, 9, 10, 999, 1000, 4095, 4096, 32767,
              -1, -8, -1000, -4096, -32767, -32768}

\* Bytes of every kind of pattern; the values with which callers begin.
BitsOf(n) == {i \in 0..15 : (n \div 2^i) % 2 = 1}
SummedBytes == {BitsOf(n) : n \in {0, 1, 8, 16, 49, 85, 128, 240, 255}}
Starts == {BitsOf(0), BitsOf(65535)}
Buffers == {<<>>, <<BitsOf(49), BitsOf(255)>>, <<BitsOf(8), BitsOf(1), BitsOf(128)>>}

\* A region with a chunk that is not full and one at addresses above the image, which
\* wrap; an image with bytes that differ, and an empty one.
HexRegions == {[start |-> 0, size |-> 5], [start |-> 13, size |-> 3], [start |-> 1, size |-> 2]}
HexContents == {[p \in 0..(ImageSize - 1) |-> (5 * p + 3) % (HexDigit * HexDigit)],
                [p \in 0..(ImageSize - 1) |-> 0]}

\* Files with a segment base, and with a linear base and the start of a program;
\* the digits are below 4.
HexForeign ==
    {<<<<2, 0, 0, 2, 0, 1, 11>>, <<1, 0, 2, 0, 7, 6>>, <<0, 0, 0, 1, 15>>>>,
     <<<<2, 0, 0, 4, 0, 1, 9>>, <<2, 0, 0, 0, 9, 8, 13>>, <<4, 0, 0, 3, 0, 0, 0, 6, 3>>,
       <<0, 0, 0, 1, 15>>>>}

ASSUME N!BitsAssumption /\ N!InputAssumption
ASSUME C!ByteAssumption /\ C!StartAssumption /\ C!BufferAssumption /\ C!LengthAssumption
ASSUME H!SizeAssumption /\ H!RegionAssumption /\ H!FileAssumption
=============================================================================

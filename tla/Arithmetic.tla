------------------------------ MODULE Arithmetic ------------------------------
(***************************************************************************)
(* What muforth computes, in one state space: the arithmetic of cells      *)
(* (Cells), numbers as text (Numbers), sums of messages (Crc16), and       *)
(* images written to hex files and read again (HexFile). They share        *)
(* nothing, so a behaviour is one of one of them.                          *)
(***************************************************************************)
EXTENDS Cells, FiniteSets

CONSTANTS
    Parts,                                          \* the components considered
    NumberBits, TokenLength, TypedChar, Printed,    \* of Numbers
    SummedByte, Start, Buffer, MessageLength,       \* of Crc16
    HexDigit, ImageSize, Chunk, Contents, Region, Foreign       \* of HexFile

VARIABLES
    part,
    radix, dpl, separate, pc, number, u, hld, token, printed, chosen,   \* Numbers
    crc16_byte, crc, start, message,                                    \* Crc16
    memory, ihrbase, ihrlast, input, file, state, image, damaged, before    \* HexFile

ofNumbers == <<radix, dpl, separate, pc, number, u, hld, token, printed, chosen>>
ofCrc == <<crc16_byte, crc, start, message>>
ofHex == <<memory, ihrbase, ihrlast, input, file, state, image, damaged, before>>

N == INSTANCE Numbers WITH Bits <- NumberBits
C == INSTANCE Crc16 WITH Byte <- SummedByte, MaxLength <- MessageLength
H == INSTANCE HexFile WITH Digit <- HexDigit

Is(p) == part = p /\ UNCHANGED part

ArithmeticInit ==
    /\ part \in Parts
    /\ Init /\ N!Init /\ C!Init /\ H!Init
    /\ part # "crc" => start = {}
    /\ part # "hex" => memory[0] = 0

ArithmeticNext ==
    \/ Is("cells") /\ Next /\ UNCHANGED <<ofNumbers, ofCrc, ofHex>>
    \/ Is("numbers") /\ N!Next /\ UNCHANGED <<vars, ofCrc, ofHex>>
    \/ Is("crc") /\ C!Next /\ UNCHANGED <<vars, ofNumbers, ofHex>>
    \/ Is("hex") /\ H!Next /\ UNCHANGED <<vars, ofNumbers, ofCrc>>

arithmetic_vars == <<part, vars, ofNumbers, ofCrc, ofHex>>
ArithmeticSpec == ArithmeticInit /\ [][ArithmeticNext]_arithmetic_vars

-----------------------------------------------------------------------------
(* The properties of the components, stated and explained there; some take *)
(* time, and are evaluated in behaviours of their component only.          *)

NumberIsToken == N!NumberIsToken
PrintedReadsBack == N!PrintedReadsBack
CrcIsRemainder == part = "crc" => C!CrcIsRemainder
ReadIsWritten == part = "hex" => H!ReadIsWritten
=============================================================================

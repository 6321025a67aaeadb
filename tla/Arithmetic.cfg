SPECIFICATION ArithmeticSpec
CONSTANTS
    Parts = {"cells", "numbers", "crc", "hex"}
    Bits = 4
    Half = 8
    MaxDepth = 2
    Constant <- AllCells
    NumberBits = 16
    TokenLength = 5
    TypedChar <- MCTyped
    Printed <- MCPrinted
    SummedByte <- SummedBytes
    Start <- Starts
    Buffer <- Buffers
    MessageLength = 3
    HexDigit = 4
    ImageSize = 8
    Chunk = 2
    Contents <- HexContents
    Region <- HexRegions
    Foreign <- HexForeign
INVARIANTS
    DivisionFloors
    StarSignless
    NumberIsToken
    PrintedReadsBack
    CrcIsRemainder
    ReadIsWritten

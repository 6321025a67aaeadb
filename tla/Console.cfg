SPECIFICATION ConsoleSpec
CONSTANTS
    Parts = {"conditional", "source", "line", "dump"}
    LineLength = 5
    FileLength = 2
    MaxLoads = 1
    Line <- TypedLines
    File <- LoadedFiles
    CharsOfFile = 3
    CharsOfString = 1
    SourceFile <- ShortFiles
    String <- ShortStrings
    MaxNest = 1
    Printable = {"a", "b"}
    Blank = "."
    Width = 4
    BufferSize = 4
    MaxEntries = 3
    Source = {"host", "target"}
    Host = "host"
    dumping = "dumping"
    Mode = {"dumping", "disasming"}
    SourceOf <- TwoSources
    AlignOf <- TwoAligns
    LineSize = 4
    CellSize = 2
    Lines = 2
    MaxWrites = 1
    MaxDepth = 1
INVARIANTS
    SelectedIsInterpreted
    LineIsPosition
    ScreenShowsLine
    InspectShowsMemory
PROPERTIES
    TokensAreWords
    UpShowsOlder
CHECK_DEADLOCK FALSE

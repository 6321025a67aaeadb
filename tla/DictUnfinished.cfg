SPECIFICATION LoadingSpec
CONSTANTS
    Parts = {"dict"}
    File = {"build", "target"}
    CommandLine = "command line"
    NoFile = "no file"
    Fd = {3, 4}
    Chosen <- MCChosen
    MaxCalls = 2
    MaxLines = 2
    dup = dup
    DUP = DUP
    long = long
    Name <- MCName
    Long <- MCLong
    Cap <- MCCap
    Fold <- MCFold
    core = core
    Empty = Empty
    muchain = muchain
    MaxEntries = 11
INVARIANTS
    OnlyFinishedFound

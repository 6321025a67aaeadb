SPECIFICATION TargetSpec
CONSTANTS
    Parts = {"tasker", "chat"}
    Chat = "chat"
    Heart = "heart"
    Buttons <- ButtonsMC
    Half = 2
    ButtonEvery = 2
    HeartEvery = 4
    Timeout <- TimeoutMC
    Words <- WordsMC
    MaxWords = 3
    DataSize = 4
    FlashSize = 8
    Page = 4
    Chunk = 2
    Count = 8
    Version <- VersionMC
    Closed <- ClosedMC
    Cut = {17, 19, 24}
INVARIANTS
    PartialIsIdle
    InStep
    ReadsAreTrue
    WritesLand
    VerifyTells
PROPERTIES
    WakeupsConserved
    ChatAnswers
    WordsEnd
CHECK_DEADLOCK FALSE

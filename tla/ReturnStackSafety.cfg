SPECIFICATION FairSpec
CONSTANTS
  radix = radix
  ten = ten
  sixteen = sixteen
  fd = fd
  Var = {radix}
  Val = {ten, sixteen}
  Obj = {fd}
  RoomSize = {1}
  MaxWords = 6
INVARIANTS
  FramePointers
  UnwindHasCatch
  CleanupPendingOnce
PROPERTIES
  DynamicScope
  ImplementsUndoLog
  EveryCleanupRuns

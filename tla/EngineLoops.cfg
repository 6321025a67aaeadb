SPECIFICATION Spec
CONSTANTS
  Program <- MCProgram
  Source <- MCSource
  AbortWord = 1
  MaxWrites = 80
  Half = 4
INVARIANTS
  ActivationsOnStack
  RunsAsWritten
PROPERTIES
  ProgramEnds
CHECK_DEADLOCK FALSE

SPECIFICATION Spec
CONSTANTS
  radix = radix
  ten = ten
  sixteen = sixteen
  fd = fd
  Var = {radix}
  Val = {ten, sixteen}
  Obj = {fd}
  RoomSize = {1}
  MaxWords = 4
PROPERTIES
  RethrowGoesOutward

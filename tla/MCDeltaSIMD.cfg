SPECIFICATION Spec
CONSTANTS
  V = 50
  PerBits = 64
  Byte = 6
  Word = 65536
  Junk = {0, 255}
  Ids = {1, 2, 4, 42, 50}
  MaxLen = 8
  MaxCopies = 2
INVARIANTS
  TypeOK
  LinearMeetsContract
  V3BlocksMeetContract
  TreeSearchExact
CHECK_DEADLOCK FALSE

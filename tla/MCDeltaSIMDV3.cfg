SPECIFICATION Spec
CONSTANTS
  V = 50
  PerBits = 64
  Byte = 6
  Word = 65536
  Junk = {0, 255}
  Ids = {1, 2, 3, 4, 5, 34, 42, 50}
  MaxLen = 8
  MaxCopies = 1
INVARIANT V3MeetsContract
CHECK_DEADLOCK FALSE

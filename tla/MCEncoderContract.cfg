SPECIFICATION Spec
CONSTANTS
  V = 17
  Shift = 8
  Total = 40
  Base = 5
  Word = 20
  HybridBits = 24
  HybridWord = 65536
  MaxInt = 3
  ElementSize = 6
  Params <- MCParams
  Centres = {3, 11}
  Ids = {1, 2, 5, 8, 13, 14, 17}
  MaxLen = 7
  MaxCopies = 2
INVARIANTS
  TypeOK
  HybridMeetsContract
  HybridPathsAgree
  RangeMeetsContract
  WindowIsBest
  CompressedMeetContract
  BloomMeetsContract
  CountMeetsContract
CHECK_DEADLOCK FALSE

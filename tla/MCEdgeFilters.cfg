SPECIFICATION Spec
CONSTANTS
  V = 4
  HashParams <- MCHashParams
  BitHashNums = 1
  IntHashNums = 2
  CountHashNums = 2
  HashSize = 9
  BlockSize = 4
  BlockNums = 2
  BlockParams <- MCBlockParams
  VertexBits = 2
  ElementSize = 9
  ElementNums = 6
  IndexBytes = 1
  CountWord = 65536
  Copies <- MCCopies
  MaxCopies = 2
  MaxOps = 4
INVARIANTS
  TypeOK
  CountsExact
  PackedExact
  CountersNeverDeny
  BuiltEdgesNotDenied
CHECK_DEADLOCK FALSE

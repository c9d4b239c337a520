SPECIFICATION MCSpec
CONSTANTS
  V = 4
  Undirected = {TRUE, FALSE}
  MaxBytesLen = 3
  Copies <- MCCopies
  Bytes <- MCBytes
INVARIANTS
  DirPeelInv
  FilteredArcsNotDenied
  SIMDArcsNotDenied

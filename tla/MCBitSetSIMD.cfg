SPECIFICATION Spec
CONSTANTS
  Bytes = 8
  IndexBytes = 4
  Begins = {0, 1, 6, 7, 8, 9, 13, 16, 20, 32, 35, 47}
  Sizes = {1, 5, 8, 9, 16, 17, 20}
  MaxOps = 2
  Blocks <- MCBlocks
  Values <- MCValues
INVARIANTS
  TypeOK
  WritesExact
  ReadsExact
CHECK_DEADLOCK FALSE

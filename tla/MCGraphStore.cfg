SPECIFICATION Spec
CONSTANTS
  V = 3
  VendTypes <- MCVendTypes
  NoFile = NoFile
  MaxRuns = 4
INVARIANTS
  TypeOK
  QueryExact
  UniformCopies
CHECK_DEADLOCK FALSE

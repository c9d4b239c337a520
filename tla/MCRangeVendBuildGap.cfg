SPECIFICATION GapSpec
CONSTANTS
  V = 7
  MaxKCore = 2
  MaxStray = 0
  encodes_Blank <- MCBlank
  encodes_EncodeVertex <- MCEncodeVertex
  encodes_NEpairTest <- MCNEpairTest
INVARIANT NoFalseNegative
CHECK_DEADLOCK FALSE

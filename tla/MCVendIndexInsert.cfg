SPECIFICATION InsertSpec
CONSTANTS
  Kinds = {"hybrid"}
  V = 6
  PerBits = 11
  Word = 65536
  MaxKCore = 2
  MinEdges = 9
  MaxStray = 8
  MaxOps = 1
  encodes_Blank <- MCBlank
  encodes_EncodeVertex <- MCEncodeVertex
  encodes_NEpairTest <- MCNEpairTest
  encodes_InsertPair <- MCInsertPair
  encodes_DeletePair <- MCDeletePair
INVARIANT NoEdgeDenied
CHECK_DEADLOCK FALSE

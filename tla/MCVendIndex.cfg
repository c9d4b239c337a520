SPECIFICATION LifeSpec
CONSTANTS
  Kinds = {"range", "hybrid", "directed"}
  V = 6
  PerBits = 11
  Word = 65536
  MaxKCore = 2
  MinEdges = 9
  MaxStray = 8
  MaxOps = 2
  encodes_Blank <- MCBlank
  encodes_EncodeVertex <- MCEncodeVertex
  encodes_NEpairTest <- MCNEpairTest
  encodes_InsertPair <- MCInsertPair
  encodes_DeletePair <- MCDeletePair
INVARIANTS
  TypeOK
  FilteredPrefix
  BinTracksFirst
  PeelComplete
  PathsAgree
  DirectedKeepsArcs
PROPERTIES
  BuildEnds
  KeepsPromise
CHECK_DEADLOCK FALSE

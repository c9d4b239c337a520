SPECIFICATION MCSpec
CONSTANTS
  V = 5
  Capacity = 3
  Copies <- MCCopies
  Fits <- MCFits
INVARIANTS
  NoFalseNegative
  PeelInv
  PeelComplete
  EdgeFilteredExact
PROPERTIES
  BuildEnds
  KeepsPromise

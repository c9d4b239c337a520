SPECIFICATION Spec
CONSTANTS
  V = 7
  PerBits = 11
  Word = 65536
  MaxStray = 0
INVARIANT NoArcDenied
CHECK_DEADLOCK FALSE

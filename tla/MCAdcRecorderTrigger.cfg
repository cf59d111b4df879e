CONSTANTS
  Samples = 8
  Pol = FALSE
  CntrSize = 16
  Window = 4
  Pre = 3
  Tot = 7
  MaxPassed = 28
  Burst = 2
  Ring = 8
  Ids = 2
  FifoDepth = 4
  AlmostEmptyOffset = 1
  PorCycles = 1
  MaxWords = 16
  MaxRuns = 1
SPECIFICATION FairSpec
INVARIANTS
  PrintsTheWindow
  ScopeAgreesWithWriter
  StopsWithWindow
PROPERTIES
  RunEnds

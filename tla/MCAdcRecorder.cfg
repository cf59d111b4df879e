CONSTANTS
  Samples = 16
  CntrSize = 32
  MaxPackets = 2
  Burst = 2
  Ring = 8
  Ids = 2
  FifoDepth = 4
  AlmostEmptyOffset = 1
  PorCycles = 2
  MaxWords = 10
  MaxRuns = 2
SPECIFICATION FairRecorderSpec
INVARIANTS
  SamplesAccounted
  PrintsAllButTail
PROPERTIES
  RunEnds

CONSTANTS
  Burst = 16
  Ring = 32
  Ids = 4
  FifoDepth = 24
  AlmostEmptyOffset = 15
  PorCycles = 11
  MaxWords = 72
  Orderly = TRUE
SPECIFICATION FairSpec
INVARIANTS
  TypeOK
  BurstNeverStarves
  BurstMatchesAddress
  OneAddressPerBurst
PROPERTIES
  ImplementsRingLog
  WordsMoveOn

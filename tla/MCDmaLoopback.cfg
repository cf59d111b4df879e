SPECIFICATION AllSpec
CONSTANTS
  Length = 5
  LoopSize = 2
  Cores = {"simple", "sg"}
  Bds = 3
  Packet = 7
  MaxRuns = 3
INVARIANTS
  SourceIsDone
  VerdictIsRight
PROPERTIES
  FailureIsTooEarly
  TestEnds

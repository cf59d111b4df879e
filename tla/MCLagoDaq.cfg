CONSTANTS
  ClkFreq = 12
  CntSize = 13
  Channels = {"a", "b"}
  Samples <- MCSamples
  TrigLevel = 2
  SubtrigLevel = 1
  DataLen = 5
  MetaLen = 3
  SubtrigLen = 3
  MaxLate = 5
SPECIFICATION DaqSpec
INVARIANTS
  SecondsAreEqual
PROPERTIES
  RecordIsWhole
  StallCostsOneWord
  RecordMixesNeighbours

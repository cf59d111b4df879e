CONSTANTS
  Length = 5
  LoopSize = 2
SPECIFICATION LoopbackSpec
INVARIANTS
  DmaIsDoneWithTheBuffers

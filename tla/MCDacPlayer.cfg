CONSTANTS
  Depth = 4
  Threshold = 2
  Chunk = 2
  Factors = {1, 2}
  MaxFile = 5
  MaxWords = 8
SPECIFICATION FairSpec
INVARIANTS
  NoWordLost
PROPERTIES
  PlaysInOrder
  WaitEnds
  StoredIsPlayed

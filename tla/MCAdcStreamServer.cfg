CONSTANTS
  Size = 4
  Half = 2
  PollPace = 1
  SendPace = 2
  PipeSize = 2
  MaxSessions = 2
  MaxWords = 13
\* both processes may end
CHECK_DEADLOCK FALSE
SPECIFICATION FairSpec
INVARIANTS
  TypeOK
  SentInOrder
PROPERTIES
  BlocksArrive
  BothEnd

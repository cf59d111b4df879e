CONSTANTS
  Size = 8
  Half = 4
  PollPace = 2
  SendPace = 4
  PipeSize = 2
  MaxSessions = 2
  MaxWords = 25
\* both processes may end
CHECK_DEADLOCK FALSE
SPECIFICATION SpecInReset
INVARIANTS
  SendsWhenReady

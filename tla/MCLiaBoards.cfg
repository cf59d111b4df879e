\* every process may hang in a write to the status register
CHECK_DEADLOCK FALSE
SPECIFICATION Spec
CONSTANTS
  Procs = {p1, p2}
  MaxFreq = 3
  FreqScale = 2
  IntMax = 5
  GenRequests <- MCGenRequests
  RxRequests <- MCRxRequests
  TxRequests <- MCTxRequests
  NSamples = 2
  Ring = 2
  CountMax = 3
  Depth = 3
INVARIANTS
  ConfiguredBeforeReleased
  LoneRunLeavesReady
  ReleasedAtRest
  PacketsAligned
PROPERTIES
  PlaysWhatIsSet
  ToneGoesOn

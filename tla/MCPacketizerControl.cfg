CONSTANTS
  CntrSize = 4
  MaxPackets = 2
SPECIFICATION FairControlSpec
INVARIANTS
  LastBeatIsLength
  OnePacketThenShut
PROPERTIES
  PacketEnds
  ImplementsRegisterFile
  AccessesEnd

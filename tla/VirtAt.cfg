SPECIFICATION FairVirtAtSpec
CONSTANTS
  Size = 2
  Polls = 1
  CpinTries = 2
  CeregTries = 1
  MaxUrc = 1
INVARIANTS LenIsReceived RoomForGet
PROPERTY SetupEnds
CHECK_DEADLOCK FALSE

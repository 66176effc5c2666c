SPECIFICATION FairPumpSpec
CONSTANTS
  MaxRetransmit = 3
  MaxMid = 3
  MaxInbox = 1
INVARIANT NoDanglingTransaction
PROPERTIES DoneWasGranted ImplementsService ExchangesEnd ExpiredIsLeft
CHECK_DEADLOCK FALSE

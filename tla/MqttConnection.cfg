SPECIFICATION Spec
CONSTANTS
    Topics <- MCTopics
    Script <- MCShortScript
    CleanSession = FALSE
    MaxPingLost = 2
    MaxConnectTimes = 2
    MaxSessions = 2
    MaxBreaks = 1
    MaxInbound = 0
    ChanCap = 2
INVARIANTS
    OneConnectPending
    ConnectedMeansAccepted
    HandledOnItsSocket
    DiscIsFinal
CHECK_DEADLOCK FALSE

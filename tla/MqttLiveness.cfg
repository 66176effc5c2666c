SPECIFICATION FairSpec
CONSTANTS
    Topics <- MCTopics
    Script <- MCShortScript
    CleanSession = TRUE
    MaxPingLost = 1
    MaxConnectTimes = 2
    MaxSessions = 1
    MaxBreaks = 1
    MaxInbound = 0
    ChanCap = 1
PROPERTIES
    Settles
    DisconnectCompletes
    PendingResolved
CHECK_DEADLOCK FALSE

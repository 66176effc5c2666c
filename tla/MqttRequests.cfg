SPECIFICATION Spec
CONSTANTS
    Topics <- MCTopics
    Script <- MCDemoScript
    CleanSession = TRUE
    MaxPingLost = 1
    MaxConnectTimes = 1
    MaxSessions = 1
    MaxBreaks = 0
    MaxInbound = 1
    ChanCap = 1
INVARIANTS
    TableMatchesSession
    PacketIdsUnique
    LockNotStranded
PROPERTIES
    SubscribeReportsTruth
CHECK_DEADLOCK FALSE

SPECIFICATION MCSpec
CONSTANTS
    Procs = {"p1", "p2"}
    Host <- NearHost
    Rank <- NearRank
    PortMax = 2
    o2lite = TRUE
    Broadcasts = {"a"}
    HubOf <- NoHub
    MaxConn = 3
    MaxUdp = 2
    MaxEnd = 1
INVARIANTS OneConnection IntroducedOnce RecordsFollowed HandlesValid
PROPERTIES ProcessesMeet FindsHost
CHECK_DEADLOCK FALSE

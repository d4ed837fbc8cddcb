SPECIFICATION MCSpec
CONSTANTS
    Threads = {"k1", "k2"}
    Services = {"s", "t"}
    HostOffers = {"t"}
    Times = {0, 1, 2}
    MaxSent = 3
    MaxIncoming = 1
    MaxTime = 2
    FinishIn = {"timed"}
INVARIANTS MessagesIntact HandlersFound BridgeIntact
PROPERTY ThreadForgotten
CHECK_DEADLOCK FALSE

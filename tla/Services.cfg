SPECIFICATION MCSpec
CONSTANTS
    Procs = {1, 2}
    Names = {11, 12}
    Props = {7}
    Taps <- TapOne
    Freeable = {}
    MaxConn = 2
    MaxOps = 3
    MaxCrash = 1
    LateHangUp = FALSE
INVARIANTS ActiveProvider NothingDangles
PROPERTIES KeepsProvider Converges
CHECK_DEADLOCK FALSE

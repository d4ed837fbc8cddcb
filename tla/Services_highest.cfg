SPECIFICATION PairSpec
CONSTANTS
    Procs = {1, 2}
    Names = {11}
    Props = {}
    Taps = {}
    Freeable = {11}
    MaxConn = 1
    MaxOps = 2
    MaxCrash = 0
    LateHangUp = FALSE
INVARIANT NeverLower
CHECK_DEADLOCK FALSE

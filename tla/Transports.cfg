CONSTANTS
  Procs = {1, 2, 3}
  Networks = {"open", "x", "y"}
  Crashes = TRUE
  MaxInbox = 1
SPECIFICATION MCSpec
INVARIANTS JoinedOnce  PiecesJoined
PROPERTIES BrokerIntroduces Answered
CHECK_DEADLOCK FALSE

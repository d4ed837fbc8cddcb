CONSTANTS
  Msgs = {m1, m2, m3}
  Few = {m1, m2}
  LocalEnd = 1
  GlobalEnd = 5
  TicksPerBin = 2
  BinsPerSecond = 1
  TableLen = 2
  MaxTime = 5
  StartTimes = {2, 4}
SPECIFICATION MCSpec
INVARIANTS InItsPlace EstimateBound TracksReference
PROPERTIES DispatchedInOrder ContinuousTime AllDispatched
CHECK_DEADLOCK FALSE

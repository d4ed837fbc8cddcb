CONSTANTS
  Msgs = {m1, m2}
  Few = {m1, m2}
  LocalEnd = 10
  GlobalEnd = 10
  TicksPerBin = 2
  BinsPerSecond = 2
  TableLen = 4
  MaxTime = 10
  StartTimes = {4}
SPECIFICATION MCAdjustSpec
PROPERTY JumpKeepsMessages
CHECK_DEADLOCK FALSE

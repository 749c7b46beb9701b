SPECIFICATION Spec
CONSTANTS
  Second = 4
  Durations = {1, 4}
  Graces = 3
  Wrap = 6
  Idle = 3
  SelectWait = 2
  FinishWait = 2
  FinishTries = 3
  AckWait = 3
  AckTries = 2
  Lag = 1
  MaxDelay = 2
  MaxLoss = 3
  MaxDup = 1
  MaxTime = 28
INVARIANTS TypeOK ServerBusyBound ReceiverExitsPromptly ResultNeedsShortLink
  TimeoutNeedsFault ClientEndsInTime
CHECK_DEADLOCK FALSE

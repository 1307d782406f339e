SPECIFICATION FairSpec
CONSTANTS
  Alerts = {a1}
  Nodes = {n1}
  NSteps = 2
  Policy <- RepeatThenSecond
  NextDelay = 1
  AutoClose = 3
  SnoozeFor = {1}
  NoTimer = NoTimer
  MaxTime = 6
  LastInput = 1
  MaxSnoozes = 0
  MaxCrashes = 1
  MaxFaults = 0
CHECK_DEADLOCK FALSE
INVARIANTS FiresAsPlanned
PROPERTIES TimerFires ChainDiesOut

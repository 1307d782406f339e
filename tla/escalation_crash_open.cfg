SPECIFICATION Spec
CONSTANTS
  Alerts = {a1}
  Nodes = {n1}
  NSteps = 2
  Policy <- RepeatThenSecond
  NextDelay = 1
  AutoClose = 0
  SnoozeFor = {1}
  NoTimer = NoTimer
  MaxTime = 4
  LastInput = 2
  MaxSnoozes = 0
  MaxCrashes = 1
  MaxFaults = 0
CHECK_DEADLOCK FALSE
INVARIANT OpenHasChain

SPECIFICATION Spec
CONSTANTS
  Alerts = {a1}
  Nodes = {n1,n2}
  NSteps = 2
  Policy <- ThenSecond
  NextDelay = 1
  AutoClose = 0
  SnoozeFor = {1}
  NoTimer = NoTimer
  MaxTime = 2
  LastInput = 0
  MaxSnoozes = 1
  MaxCrashes = 1
  MaxFaults = 1
CHECK_DEADLOCK FALSE
SYMMETRY SymmetricNodes
CONSTRAINT FailuresAlone
INVARIANTS TypeOK NotEarly StepsInOrder RacesBounded

SPECIFICATION Spec
CONSTANTS
  Items = {i1,i2}
  Nodes = {n1,n2}
  Lease = 2
  Batch = 2
  SendMax = 1
  MaxAttempts = 2
  Base = 1
  Cap = 2
  NoItem = NoItem
  MaxTime = 4
  LastInput = 0
  MaxReplays = 0
  MaxCrashes = 0
  MaxFaults = 0
CHECK_DEADLOCK FALSE
INVARIANTS NoSecondHolder

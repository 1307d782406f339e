SPECIFICATION FairSpec
CONSTANTS
  Items = {i1,i2}
  Nodes = {n1,n2}
  Lease = 2
  Batch = 2
  SendMax = 1
  MaxAttempts = 2
  Base = 1
  Cap = 2
  NoItem = NoItem
  MaxTime = 3
  LastInput = 0
  MaxReplays = 1
  MaxCrashes = 1
  MaxFaults = 1
CHECK_DEADLOCK FALSE
INVARIANTS TypeOK OneHolder DuplicatesExcused
PROPERTIES Implements Settles

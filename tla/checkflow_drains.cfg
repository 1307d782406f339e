SPECIFICATION Spec
CONSTANTS
  router = router
  server = server
  exec = exec
  NoPool = NoPool
  Objects = {router,server}
  Children <- ServerBehind
  Pools = {exec}
  PoolOf <- Kinds
  PoolSize <- OneWorker
  PriorityCap = 1
  OutCap = 1
  ResultsCap = 1
  MaxJobs = 5
  MaxFindings = 2
CHECK_DEADLOCK FALSE
INVARIANTS TypeOK PriorityFirst NeverDropped
PROPERTY Drains

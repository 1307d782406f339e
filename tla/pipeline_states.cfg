SPECIFICATION Spec
CONSTANTS
  router = router
  server = server
  NoState = NoState
  Objects = {router,server}
  Hosts = {router,server}
  Parents <- Behind
  FlapDetection = {router}
  MaxCheckAttempts = 2
  FlapWindow = 2
  FlapLow = 25
  FlapHigh = 50
  Inputs <- SomeResults
  Months = {1,2}
  MaxResults = 3
  MaxTroubles = 2
CHECK_DEADLOCK FALSE
INVARIANTS TypeOK   NothingForgotten EventsKept
PROPERTIES AckSticky

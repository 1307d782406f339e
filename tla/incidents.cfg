SPECIFICATION Spec
CONSTANTS
  a1 = a1
  a2 = a2
  r1 = r1
  r2 = r2
  Alerts <- Two
  Bundled <- First
  Requests <- People
  Threshold = 2
  MaxIncidents = 2
  MaxTickets = 2
  Budgets <- Few
SYMMETRY SymmetricPeople
CHECK_DEADLOCK FALSE
INVARIANTS TypeOK LastOneCloses ResolvedIsDone TicketsFollow
PROPERTIES PutIsSafe

SPECIFICATION Spec
CONSTANTS
  MaxChats = 2
  Approvers = {p1,p2}
  MaxRounds = 2
  MaxTurns = 2
  Budgets <- Small
CHECK_DEADLOCK FALSE
INVARIANTS TypeOK WorkKept OneAnswer RunsOnce
PROPERTY Unlocks

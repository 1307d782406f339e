SPECIFICATION Spec
CONSTANTS
  MaxTenants = 2
  MaxNames = 1
  FormsUsed <- AllForms
  Budgets <- Small
CHECK_DEADLOCK FALSE
INVARIANTS TypeOK EtagIdentifies RightCustomer
PROPERTIES OneReadIsSafe

CONSTANTS
  Actions <- MCActions
  MaxSteps = 3
  MaxPlan = 2
  MaxSessions = 2
SPECIFICATION Spec
INVARIANTS
  TypeOK
  PendingMeansHeld
  OneRunPerToken
  LedgerContiguous
PROPERTIES
  FailureIsFinal
  ImplementsApprovals
  RunTerminates

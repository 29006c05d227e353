CONSTANTS
  Actions <- MCActions
  MaxSteps = 3
  MaxPlan = 2
  MaxSessions = 2
SPECIFICATION Spec
PROPERTY NothingRunsWhileHalted

CONSTANTS
  c1 = c1
  p1 = p1
  NoProcess = NoProcess
  Clients = {c1}
  Payers = {p1}
  Prices = {0, 1, 2, 3}
  MaxPerCall = 2
  MaxSession = 3
  MaxDaily = 2
  MaxPerTransfer = 1
  DiskFaults = FALSE
  LastDay = 0
  MaxCalls = 4
  MaxCrashes = 0
SPECIFICATION Spec
INVARIANT SessionBudgetHolds
CHECK_DEADLOCK FALSE

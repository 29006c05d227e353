CONSTANTS
  p1 = p1
  p2 = p2
  NoProcess = NoProcess
  Clients = {}
  Payers = {p1, p2}
  Prices = {0, 1, 2}
  MaxPerCall = 2
  MaxSession = 3
  MaxDaily = 2
  MaxPerTransfer = 1
  DiskFaults = TRUE
  LastDay = 0
  MaxCalls = 3
  MaxCrashes = 1
SPECIFICATION Spec
INVARIANTS
  NoLostPayment
  SessionBudgetHolds
  ExposureAccounted
PROPERTIES
  ImplementsLedger
  LockReleased
CHECK_DEADLOCK FALSE

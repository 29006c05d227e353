CONSTANTS
  c1 = c1
  c2 = c2
  NoProcess = NoProcess
  Clients = {c1, c2}
  Payers = {}
  Prices = {0, 1, 2, 3}
  MaxPerCall = 2
  MaxSession = 3
  MaxDaily = 2
  MaxPerTransfer = 1
  DiskFaults = TRUE
  LastDay = 1
  MaxCalls = 4
  MaxCrashes = 1
SPECIFICATION Spec
SYMMETRY ClientSymmetry
INVARIANTS
  TypeOK
  SessionCapPerObject
  DailyCapPerObject
CHECK_DEADLOCK FALSE

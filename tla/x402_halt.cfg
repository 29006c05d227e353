CONSTANTS
  p1 = p1
  NoProcess = NoProcess
  Clients = {}
  Payers = {p1}
  Prices = {0, 1, 2, 3}
  MaxPerCall = 2
  MaxSession = 3
  MaxDaily = 2
  MaxPerTransfer = 1
  DiskFaults = FALSE
  LastDay = 0
  MaxCalls = 4
  MaxCrashes = 0
SPECIFICATION Spec
PROPERTY NothingSignedWhileHalted
CHECK_DEADLOCK FALSE

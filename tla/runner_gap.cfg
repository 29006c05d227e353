CONSTANTS
  MaxTicks = 0
  Threshold = 2
  HistorySize = 2
  KeepsGoing = TRUE
  LastTick = 4
  MaxCrashes = 1
SPECIFICATION Spec
PROPERTY NoReplayOverwritten
CHECK_DEADLOCK FALSE

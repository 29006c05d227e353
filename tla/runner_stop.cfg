CONSTANTS
  MaxTicks = 0
  Threshold = 2
  HistorySize = 2
  KeepsGoing = FALSE
  LastTick = 4
  MaxCrashes = 0
SPECIFICATION Spec
PROPERTY NoTickAfterStop
CHECK_DEADLOCK FALSE

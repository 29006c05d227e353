CONSTANTS
  \* AgentRunner
  MaxTicks = 3
  Threshold = 2
  HistorySize = 2
  KeepsGoing = FALSE
  LastTick = 5
  MaxCrashes = 2
  \* MemoryStore
  Environments = {"sandbox", "live"}
  RecordLevels = {"internal", "sensitive"}
  MaxRecords = 3
  ReadLimit = 1
  \* Migration
  Rows = {r1, r2}
  AgentRows = {r2}
  MaxAttempts = 2
  MaxSeconds = 2
  \* Evolution
  EvalInterval = 2
  Floor = 1
  Ceiling = 2
  Proposable = {0, 2}
  MaxProposals = 2
  MaxVersion = 3
  \* WalletVault
  MaxWallets = 2
  MaxBackups = 2
  \* ArtifactSet
  MaxSets = 2
  MaxIterations = 2
  MaxBump = 1
SPECIFICATION PersistSpec
INVARIANTS
  PersistInv
  ReplaysContiguous
  NothingCrossesUnapproved
  ReadersAgree
  TransformedOnce
  OriginalInBackup
  NumbersInBounds
  AcceptedIsSaved
  MnemonicSomewhere
  StaysValid
  BestOnDisk
PROPERTIES
  NoReplayOverwritten
  BreakerExact
  LateStopObeyed
  LateStopEnds
CHECK_DEADLOCK FALSE

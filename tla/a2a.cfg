CONSTANTS
  \* A2ATaskStore
  TaskIds = {t1, t2, t3}
  Clients = {c1, c2}
  MaxTasks = 2
  MaxPerWindow = 2
  Window = 3
  MaxAge = 2
  HandlerStates = {"completed", "input-required"}
  \* X402Gate
  Nonces = {n1, n2}
  Priced = {0, 3}
  Values = {0, 1}
  MaxPayments = 2
  \* LiveOrders
  Tokens = {k1}
  Quotes = {1, 2}
  Amounts = {1, 2}
  Limits = {0, 1}
  StartBalance = 2
  MaxOrder = 1
  MaxTotal = 2
  MaxOpen = 3
  MaxFailures = 2
  MaxDailyLoss = 2
  MaxHolding = 3
  MaxMoved = 7
  \* SpendControls
  SpendAmounts = {0, 1}
  VelocityWindow = 1
  MaxRequests = 2
  Refill = 2
  Chains = {b1}
  Contracts = {usdc}
  MaxPerTx = 1
  MaxRecorded = 8
  \* DataRouting
  Capabilities = {f1}
  CallPrice = 1
  MaxSpending = 2
  MaxErrors = 2
  \* McpStdio
  Threads = {p1, p2}
  MaxCallIds = 3
  MaxNotes = 1
  \* ModelCalls
  Manifests = {{"context"}, {"price", "order"}}
  Undeclared = "wild"
  MaxPlanSteps = 2
  Attempts = 2
  MaxRetries = 2
  MaxDelay = 3
  RetryAfters = {0, 5}
  MaxPlans = 2
  \* CryptoRouting
  Markets = {s1, s2}
  Notionals = {0, 1}
  Ledgers = {l1}
  MaxOrders = 2
  \* AgentRegistry
  Directories = {d1, d2}
  Holders = {h1, h2}
  Minted = {1, 2}
  PublicRpcs = {r1, r2}
  PrivateRpc = r0
  MaxAgents = 2
  MaxMints = 1
SPECIFICATION ServingSpec
INVARIANTS
  ServingInv
  RateLimitHolds
  GateAccounts
  UncountedBounded
  VelocityNeedsHistory
  ChargedIsSpent
  StoppedOpensOnce
  LinesInStep
  PlansAccountedFor
PROPERTY UnfinishedKept
CHECK_DEADLOCK FALSE

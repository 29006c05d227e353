# A verification project for aether-forge

This directory holds TLA+ modules that model the parts of aether-forge that
spend money, gate actions, run sessions, talk to servers and survive crashes; TLC
configurations that check them on small instances; and proofs, checked by TLAPS, that hold
for every size of instance. Paths below are relative to `src/aether_forge/` in the
repository unless they start with a directory name.

Contents: 1 the system and its parts; 2 how the parts interact; 3 the modules and
the code; 4 what each run checks; 5 bounds; 6 fairness; 7 what is proved; 8 where
code and documents disagree; 9 what is not modelled; 10 the plan; 11 running it.

## 1. The system and its parts

aether-forge generates agent directories and runs them. An agent is a loop of
*ticks*; a tick is one *session*, in which a planner proposes steps, a policy
gate judges them, a router executes them and a ledger records them. Agents pay
for things with x402 (a signed USDC authorization sent in an HTTP header) or
by direct transfer, and they answer other agents over A2A.

| Component | State it keeps | Operations | Hard behaviour | What makes it correct |
|---|---|---|---|---|
| x402 client (`x402_client.py`) | totals in memory, `x402_state.json`, halt file (read) | construct, call with 402 retry, budget check, book, save, reset | several processes, one file; a payment that is signed and whose answer is lost; midnight between check and booking; torn writes | no object and no file beyond the session and daily caps |
| agent payments (`agent_payments.py`) | the same file, a flock | `execute_payment` by x402, transfer or escrow | two payments at once, death between broadcast and booking, a file that is emptied before it is written, early returns with the lock held | no payment lost, one budget for all channels, lock released |
| policy gate (`policy.py`) | none | `evaluate_action` | twelve rules in a fixed order, the last match decides | a token lifts approval rules and nothing else |
| runtime session (`runtime.py`) | status, plan queue, pending approvals, step counter, ledger, session state, replay file | `run`, `approve_pending`, replay export, hydration | holds and resumption in another process, replans, exceptions half-way through a step | one execution per approval, contiguous ledger, termination |
| agent runner (`runner.py`, `facade.py`) | tick counter, `_running`, history deque, replay files | `run`, `tick_generator`, `tick`, `stop`, signals, circuit breaker, crash recovery | a stop between any two steps, crashes in the middle of a replay, cool-downs | replays never overwritten, stop obeyed, breaker exact |
| A2A server (`a2a_server.py`) | task store, rate-limit timestamps | message/send, tasks/get, tasks/list, tasks/cancel | a store at its limit, a sliding window, clean-up by age | store bounded, rate respected, unfinished tasks kept |
| x402 server gate (`x402_server.py`) | counters, audit log | verify, settle on chain or simulated, serve | the same header again; a broadcast that is mined later, or never; a capability that raises after it was paid | the books cover what was served and what was executed |
| memory and storage (`memory.py`, `storage.py`) | records in memory or in SQLite, encrypted or not | write, promote, expire, two ways to read, export, restore | chains of promotions; stores that order, encrypt and rank differently | nothing crosses environments unapproved; readers agree |
| migrations (`migrations.py`) | a SQLite file with a write-ahead log, backups | back up, transform row by row, stop, run again | a stop between two rows, an agent writing beside it, two runs in one second | no row transformed twice, originals in a backup |
| evolution (`evolution.py`) | strategy in the process and on disk, proposals | measure, propose, accept, reject, save, restart | a save that fails after the strategy changed | numbers in their bounds, what is accepted is saved |
| live execution (`live_execution.py`, the generated router) | spent, open orders, failures, circuit, paper engine | place an order, paper order, swap, reset, loss, midnight | a failure after the broadcast | what escapes the budget is bounded |
| spend controls (`security.py`, `crypto/session_keys.py`) | transactions with their ages, a token bucket, a key | record, trip, reset, allow, refill, sign | windows and refills at their boundaries | limits hold over every window |
| data layer (`data_layer.py`) | sources in order, tools an MCP source knows, costs | fetch with fallback, connect, pay, subscribe, stop | paid and then failed; a stop between a test and an opening | costs charged once, a stopped stream opens at most once |
| MCP client (`mcp_client.py`) | a child process, a lock, request ids | call, time out, close, respawn | lines that answer something else, a stuck server | lines in step, calls return |
| model clients and planners (`models.py`, `http.py`, `planner.py`, `adapters/function_call.py`) | the failure of the last call, retries | ask, retry, parse, validate, fall back | a failure left over from an earlier plan; Retry-After | plans name declared capabilities and their own failure |
| crypto routers (`crypto/`) | paper orders, simulated accounts | execute or hand on | a chain whose last link answers anything | books agree with orders |
| wallet (`wallet.py`, `security_hardening.py`) | the vault, `wallet.json`, backups, `.gitignore`, modes | provision, show, back up, seal, restore, harden | provisioning again deletes the wallet before; a command cut short | a wallet that was named can be had back |
| artifacts (`generator.py`, `slow_generate.py`, `artifacts.py`, `evals.py`) | the files of one directory, the best candidate | generate, research, evaluate, take back, promote, migrate | files written one by one and in place | the directory loads; the best candidate is on disk |
| agent registry (`agent_registry.py`, `cli.py`, `onchain_registry.py`) | two tables | generate, remove, register on chain, discover | a row that changes while a transaction is signed | rows say what happened |
| everything else | see section 9 and `PROJECT.json`, "components" | | | |

`PROJECT.json` lists all components with their files, also the ones with no
protocol in them, and under "hazards" the places in the code that are hard to test, each at its
line, with the properties that are meant to catch them.

## 2. How the parts interact

* `AgentRunner.tick` creates a `RuntimeSession`, calls its `run()`, clears a
  reported gap, writes memory and the replay, and appends to its history. The
  session calls `NativePolicyGate.evaluate_action` once for each proposed use of a
  capability, and the execution router if the gate says *allow*.
* `forge resume-replay` (`cli.py`) hydrates a session from a replay in another
  process, approves, runs and exports again. Sessions, runner and CLI share nothing
  but the replay file.
* Anything that pays goes through `X402Client.call` or `execute_payment`. Both
  work on `x402_state.json`; only the second takes the flock on `x402_state.lock`,
  and it builds a short-lived `X402Client` under it for the x402 channel.
* `forge halt` and `forge resume` create and remove the halt file, which
  other components look at when they choose to.
* The A2A server lives in a thread of the runner and hands a message to a task
  handler synchronously. With a payment gate, the handler is asked only after the gate
  has verified a header.
* `DataRouter` asks sources of its own: an x402 source holds an `X402Client`, an MCP source an
  `McpStdioClient`.
* A planner calls a model client, whose requests are retried in `models.py` or `http.py`. The
  plan goes to the session; the session hands what the gate allowed to a chain of routers
  (`crypto/routers.py`) or, in a generated agent, to its own router with `LiveExecutor`.
* Generation writes an agent's directory, provisions its wallet and enters it in the registry. The
  research loop of a slow generation and `RuntimeAutoresearch` rewrite files of that directory.

## 3. The modules and the code

| Module | Role |
|---|---|
| `SessionLedger` | abstract specification: one total, one cap, one atomic `Spend` |
| `ApprovalBook` | abstract specification: approvals and claimed tokens by action, each entered and used at most once |
| `X402Budget` | `x402_client.py` and `agent_payments.py` on one agent directory; implements `SessionLedger` |
| `PolicyGate` | `evaluate_action` as a function of the matching rules |
| `RuntimeSession` | the session loop, approvals and replays; EXTENDS `PolicyGate`; implements `ApprovalBook` |
| `AgentRunner` | the runner process over its directory |
| `A2ATaskStore` | task store and rate limit of the A2A server |
| `X402Gate` | the payment gate in front of an agent's capabilities, with the chain as environment |
| `LiveOrders` | orders of a generated agent, live and on paper |
| `SpendControls` | velocity breaker, token bucket, session keys |
| `DataRouting` | `DataRouter`, its sources, and the websocket subscription |
| `McpStdio` | the MCP client and its server over two pipes |
| `ModelCalls` | planners, model clients, and the two retry loops |
| `CryptoRouting` | the chain of routers and the adapters behind it |
| `AgentRegistry` | the tables of agents and peers and the commands that write them |
| `MemoryStore` | both memory stores and promotion |
| `Migration` | migration of a SQLite memory database |
| `Evolution` | proposals and the strategy they change |
| `WalletVault` | the wallet of an agent directory |
| `ArtifactSet` | the artifacts of an agent directory |
| `MCX402Budget`, `MCRuntimeSession` | instances for TLC (symmetry sets, the set of actions) |
| `MCServing`, `MCPersistence` | instances for TLC of several modules each |
| `X402Budget_proofs`, `RuntimeSession_proofs`, `AgentRunner_proofs` | theorems about the module they are named after |
| `Commerce_proofs` | theorems about `A2ATaskStore`, `X402Gate`, `LiveOrders`, `SpendControls`, `CryptoRouting`, `AgentRegistry` |
| `Calls_proofs` | about `DataRouting`, `McpStdio`, `ModelCalls`, and about `MCServing` |
| `Records_proofs` | about `MemoryStore`, `Migration`, `Evolution` |
| `Directory_proofs` | about `WalletVault`, `ArtifactSet`, and about `MCPersistence` |
| `Selection` | the list comprehension of the sources, told by the set of indices it keeps |
| `Facts` | lemmas several proofs rest on: induction over the naturals, sums over finite sets, what is left of a sequence |

The "map" of `PROJECT.json` gives the source lines of every definition that models
code. Definitions whose comment begins with "Mutant:" are plausible
mistakes, not the code: with one of them in place of the definition it varies,
the property named beside it in `PROJECT.json` fails. They show that each property is
sensitive to the code.

`MCServing` takes together what an agent serves, asks for and trades through (`A2ATaskStore`,
`X402Gate`, `LiveOrders`, `SpendControls`, `DataRouting`, `McpStdio`, `ModelCalls`, `CryptoRouting`,
`AgentRegistry`); `MCPersistence` what outlives its process in its directory (`AgentRunner`,
`MemoryStore`, `Migration`, `Evolution`, `WalletVault`, `ArtifactSet`). These modules share no state, so
interleaving them would show nothing that one does not show alone. A behaviour is therefore *one*
part's, chosen in the initial state by `part`, and all others stay in one of their initial states: the
reachable states are those of the parts side by side, their sum and not their product.

### X402Budget

| TLA+ | Code |
|---|---|
| `disk` | `x402_state.json`: `session` is `session_spent_usd`, `daily[d]` the per-day totals |
| `mem[p]` | `X402Client.state`; in a transfer, what `_record_spend` is about to write |
| `lock` | holder of the flock in `execute_payment` |
| `pc[p]` | where a process is between two visible effects: a request, a signature, the opening and the filling of the file |
| `perCall[p]` | the client's `max_per_call_usd` (twice the budget in `pay_via_x402`) |
| `Construct` | `X402Client.__init__`, `_load_state` |
| `BeginCall`, `EndUnpaid`, `SignAndRetry` | `_call` up to the signed retry, with `_preflight` and `_check_budget` |
| `RetryAccepted`, `RetryRejected`, `RetryLost` | the three ends of the retry, with `_save_state` |
| `Acquire`, `CheckBudget`, `DenyPayment`, `PayViaX402` | `execute_payment`, `_execute_payment_locked`, `pay_via_x402` |
| `DenyTransfer`, `BroadcastTransfer`, `TransferFailed` | `_check_transfer_policy`, `_sign_and_send_transfer` and their failures |
| `OpenRecord`, `WriteRecord`, `RecordFails` | `_record_spend`: `open(..., "w")` empties the file before `json.dump` fills it |
| `Crash` | death of a process; the kernel drops its flock |

The ghost variables `recorded`, `exposure`, `failed` and `lost` count, over the
session, what was booked, everything that was signed for, what was signed for and
did not end in a booking, and whether a fault took a booking from the file. No
action reads them in its guard.

Amounts are floats in the code and natural numbers here, so rounding at the caps is
not covered. The escrow method is always refused in this version, as no caller passes a
contract, so it is one of the reasons of `DenyPayment`. The audit log, the EIP-712 encoding and the balance
RPC appear as the possibility that a call ends unpaid. One constant `MaxSession` is
used for clients and payments alike; in the code both are parameters with the same default.

### RuntimeSession and PolicyGate

An *action*, that is a capability with its payload, is the set of policy rules it
matches. This is all the session can tell about it. `PolicyGate!Disposition` takes the last
matching rule in the code's order; `ReasonIds` removes the rules that the code
guards with `has_approval_token`. `status`, `queue`, `pending`, `counter`, `ledger`, `goal` and
`gap` are the fields of the session with nearly the same names; `active` says whether
`run()` is on the stack; `replay` is the last replay file. `ProposePlan` takes any plan of at
most `MaxPlan` proposals from the planner. `RejectStep`, `Replan`, `RequestApproval`,
`ReportGap`, `Reason`, `HoldStep`, `ExecuteStep`, `FailStep` and `RouterRaises` are the branches of the
loop body, each with the step it counts and the ledger entry it writes. A proposal whose
kind is unsupported and a capability the manifest does not declare fail alike and are
both `"unknown"`. `ApprovePending`, `ExportReplay`, `Hydrate` and `EndTick` are `approve_pending`,
`write_session_replay_json`, `hydrate_session_from_replay` and the end of
`AgentRunner.tick`.

An approval is a token in the payload, and the gate asks only whether there is one. A payload is the model's:
`_parse_response` and the function-call planner copy what the model wrote, so a step may come with a token nobody gave
(`Use(a, TRUE)` among the `Proposals`). `_AutoApproveGate`, which a runner started with `--auto-approve` uses (`auto`), adds
one to whatever it is shown. The ghosts keep these apart: `granted` counts the approvals of a reviewer, `claimed` the others.

### AgentRunner

`phase` is the program counter of the process; the session inside a tick is one
step. `replays[n]` is the file of tick *n*: absent, torn, or whole; `OpenReplay` and
`FillReplay` are the two halves of `write_text`. `Boot` is `__init__` with crash recovery, which
counts the files. `Start` and `EnterGenerator` are separate because `run()` and
the first statement of `tick_generator` both set `_running`, and a signal or `stop()` can
come in between. `HostTick` is a host (`facade.py`, or a web handler as in the
documentation's cookbook) calling `tick()` itself; `KeepsGoing` says whether such a host
uses the runner again after a tick raised. The options `persist_replays` and
`crash_recovery` have their default, on.

### A2ATaskStore

The server is a single-threaded `HTTPServer`, so one request is one step, the task
handler included. Timestamps are replaced by ages that stop growing where the code stops
telling them apart (`Older`), which keeps time finite without a bound on it. `Tick` is
the passing of one unit of time. tasks/get, tasks/list and the agent card read only.

### X402Gate

One request of a caller is `PaidRequest`: without a header, or with one that carries the authorization of some nonce, possibly
for the tenth time. A header is what the checks tell apart, in their order: the wrapper (encoding, version, network), the address paid, the value, the length of the
signature, and whether the payer is listed. `verifier` is how the gate was built: `structural` checks only, `onchain` settlement, or
a `host`'s own settlement with a list of payers; `purse` is what sends a transaction for this agent: an OWS wallet, a simulated one, or no SDK at all. The gate keeps no
nonces, so the contract is what accepts an authorization once: `MinePayment` and `RevertPayment` are the chain. `books` are the counters of `record_payment`; `served` and `orphans` (broadcast by a request
that was then rejected) are ghosts. Prices are in half micro-dollars, since the code truncates to whole ones.

### LiveOrders

`LiveOrder` is `LiveExecutor.place_order`: per-order, total and open-order caps, the circuit, the daily loss, then
the order itself. It is refused (`RefuseOrder`), placed and counted as spent, in a dry run too (`PlaceLiveOrder`), or it
fails before or after the broadcast, by a raise or by an answer that is not a dict (`FailLiveOrder`). `moved` is a ghost: what really left the wallet.
`ResetCircuit` is an operator, `RecordLoss` a host, `Midnight` the first look at the daily loss on another day. `FetchPrice`, `PaperOrder` and
`PaperSwap` are the paper engine of the generated router: a price that was fetched, from whatever source, becomes the engine's quote,
and a swap is filled at the quote, or at any price if there is none.

### SpendControls

Three objects, each with its clock, in one module. `RecordSpend` appends to the transactions and looks at
the breaker as `record_spend` does, without being asked `can_spend` first. `SpendsAge` and `RefillBucket` are the passing of time: one for the breaker's window, one for the
bucket, whose tokens are counted in parts of `Refill`. `SignTypedData` is the constrained signer over each kind
of signer it wraps, with `Permits` for `SessionKeyPolicy.permits`; an intent that names no spend passes the cap.

### DataRouting

A fetch walks along `chain`; each source asked is a step of its own. `Connect` is what
`McpDataSource.supports` does before it answers. `PaidAnswers` and `PaidFails` differ in whether
a result was returned that can carry the cost. `Restart` is a new process over the same directory: the client reads its total back from
the file, where another payer may have added to it, and the source starts at 0 (`carried` and `outlay` keep the two apart). `stream.thread` is where the subscription's thread is:
before its test of the stop event (`testing`), between test and connection (`opening`), in `run_forever`, in its one-second wait.

### McpStdio

A request is its id, a line of the server the id it answers, or `Unsolicited`. `pipe` is the operating
system's, `buffer` the reader's: `select` looks at the first and `readline` at both, so a buffered line can wait through
a timeout (`TimeOut` with a non-empty `buffer`). `_rpc` holds the lock from `SendRequest` to the return, `_allocate_id` takes it for
itself. `Drained` is the `read()` of stderr inside the lock on which the timeout's message depends.

### ModelCalls

`request` is the one in the air: for a planner, whose loop is `_with_retry`, or for `http.py`, whose loop is
`_request_with_retry`. `FailTransiently` and `TryAgain` are the loops. What the planner makes of
the end of a request is `ModelRaised`, `ModelAnsweredNonsense` or `ModelAnswered`; each may end in the heuristic's
plan. `failure` is the planner's `last_planner_parse_failure`, with a ghost: the number of the plan it was written for. `CarryOut` takes the plan over.

### CryptoRouting

`top` is the router `wallet-provider` and `provider-mode` choose; each action is one router that executes a
capability, its guard saying that every router before it handed it on. `Mock` answers whatever reaches it. The OWS wallets are external.

### AgentRegistry

`agentRows` and `peerRows` are the two tables. `agent-register` is three steps, `ReadForChain`, `Submit` and
`MarkRegistered`, since other commands run in between; the others are one statement each. Fast
generation draws a new id each time, also for a directory it has generated before, and the row of that directory's earlier agent stays;
`RegisterAgain` is a host that registers an id it knows. `RpcAnswers` and `HoldersSeen` are what a lookup of the chain can return: a public endpoint
that is down falls through to the other public ones, a private one to none, and an owner that could not be read is stored as no address.

### MemoryStore

A record keeps what promotion and reading tell apart: environment, sensitivity, encryption, where its
content was first written (`origin`, a ghost), source and approval. `Reopen` changes whether a key is
configured. `Write` takes a record of any level, "sensitive" among them, as no store compares a level with anything when it writes. `ReadAnswer` and `EnvironmentAnswer` are the two ways to read, with `ReadFails` and `EnvironmentFails` for the errors
each can end in; neither changes the store. `Expire` is the moment a record's `expires_at` passes.

### Migration

`table` is what a connection sees, `mainFile` what is in the main file; `Checkpoint` brings the second up to the
first. The backup copies the main file under a name with the second in it (`SecondPasses`). `ApplyRow` is one row's
transaction; the run may end after any (`EndMigration`) and begin again. `listed` is the list the run works from: each row is written back as
it was when all were listed. `AgentWrites` is the agent beside it, which replaces rows as well as adding them (`byAgent` is whether a row is made of what it wrote).

### Evolution

`strategy` is the `StrategyArtifact` in the process, `strategyFile` what is on disk, or `Torn`: `save` writes in
place. `AcceptProposal` has three outcomes, as the write may raise before or after it has truncated the file. Two
parameters stand for all: one with safety bounds and one without.

### WalletVault

`job` is the command that is running and the step it is at; `CutShort` ends it between any two. `named` is
every wallet `wallet.json` ever named, `shown` those whose words were printed, `cut` those whose
provisioning was cut short. `ImportMnemonic`, `ClearName` and `RetryImport` are the two attempts of `_provision_ows_wallet`
with the deletion between them.

### ArtifactSet

`files` are the artifacts by type, each with its set, its version, the capabilities it declares and the versions it refers to.
All else in one is its body: as generated, another, or one that its schema refuses. `WriteTemplate` writes one of them. `WriteCandidate` and
`EvaluateCandidate` are an iteration of the research loop, whose candidate may replace the spec, the manifest, the policy bundle or the pack; what is measured
is left open, as the evaluation runs all four. `WriteResearchRecord` ends the loop, and may write a record that is refused: the hypothesis and target that a model
answered are copied into it whatever their JSON type. `Valid` is `validate_artifact_directory`, each file's verdict and the checks across files.

## 4. What each run checks

Passing runs:

| Run | Instance | Distinct states | Shows |
|---|---|---|---|
| `x402_clients` | two clients, no flock, torn writes, one crash, a reset, two days | 1,185,622 | `SessionCapPerObject`, `DailyCapPerObject`: although the clients overwrite each other's totals, neither an object nor the file passes a cap |
| `x402_locked` | two `execute_payment` calls, disk faults, one crash | 84,816 | `NoLostPayment`, `SessionBudgetHolds`, `ExposureAccounted`; `ImplementsLedger` (refinement of `SessionLedger`); `LockReleased` (liveness) |
| `session` | plans of up to two proposals with or without tokens, two kinds of action, both gates, two sessions | 833,670 | `PendingMeansHeld`, `OneRunPerToken`, `LedgerContiguous`, `FailureIsFinal`; `ImplementsApprovals` (refinement of `ApprovalBook`); `RunTerminates` (liveness) |
| `a2a` | `MCServing`: each of nine modules by itself | 911,638 | tasks: `RateLimitHolds`, `UnfinishedKept`; gate: `GateAccounts`; orders: `UncountedBounded`; budget: `VelocityNeedsHistory`; fetch and stream: `ChargedIsSpent`, `StoppedOpensOnce`; mcp: `LinesInStep`; models: `PlansAccountedFor`; `ServingInv` for the types and the bounds of all |
| `runner` | `MCPersistence`: each of six modules by itself | 760,513 | runner: `ReplaysContiguous`, `NoReplayOverwritten`, `BreakerExact`, `LateStopObeyed`, `LateStopEnds` (liveness); memory: `NothingCrossesUnapproved`, `ReadersAgree`; migration: `TransformedOnce`, `OriginalInBackup`; strategy: `NumbersInBounds`, `AcceptedIsSaved`; wallet: `MnemonicSomewhere`; artifacts: `StaysValid`, `BestOnDisk`; `PersistInv` for the types of all |

Each module's type invariant is checked too: `TypeOK` by `x402_clients` and `session`, the others as conjuncts of `ServingInv` and
`PersistInv`. `ServingInv` also has `StoreBounded`, `BurstBounded`, `RetriesBounded`, `PaperBooksAgree`, `RegistryExact` and
`ScoresKept`, `PersistInv` also `TicksBounded`.

What the less obvious ones say:

* `DailyCapPerObject` is about the day that changes while a signed request is on its
  way. The check uses one day's total and the booking another's; the property holds because a
  client has one call at a time, so the total of the day it books on cannot have grown meanwhile.
* `ExposureAccounted` relates what was signed to what was booked: `failed` is exactly the
  amount that an endpoint may have settled without the budget knowing. The caps bound
  bookings, and nothing bounds `failed`.
* `PendingMeansHeld` is why `approve_pending`, which sets the status to running whatever
  it was, cannot revive a failed session.
* `OneRunPerToken` counts executions against tokens, across holds, replans that drop
  the approved proposal, and a replay that is hydrated again. It does *not* say that a reviewer saw the action: a token that came
  in the model's own payload, or from the auto-approving gate, counts like an approval, and the code promises no more. What is left of the
  reviewer's promise is `ReviewersCover` (section 7): without such tokens, each run is covered by an approval.
* `ImplementsApprovals` says with `OneRunPerToken` that a token lifts nothing but approval rules (`TokenLiftsNothingElse`). That matters
  because a later *hold* overwrites an earlier *deny*: the reviewer is asked about an action that is also denied. The run includes such an
  action; after approval the deny is what is left and it wins.
* `BreakerExact` compares the code's look at a bounded deque with a ghost that counts failures in a row.
* `GateAccounts` does not say that an authorization buys one answer: it buys as many as it is sent, until it is mined, and
  each is counted as a payment. It says that the books never fall behind the services and the settlements.
* `UncountedBounded` says how much money the budget of live orders can miss: a failure after the broadcast is not spent, so a
  run of `MaxFailures` - 1 of them may precede each order that is placed, and `MaxFailures` each reset by an operator.
* `VelocityNeedsHistory` says when the breaker *cannot* trip. The last spends are compared with an average they are part of, so
  even the largest spend trips nothing before there are more than three times the threshold of them.
* `ChargedIsSpent` bounds what the results of a paid source charge, together, from above and below. Above is what its calls paid *and
  what its client found in `x402_state.json`* when it was made: after a restart the first result is charged all of an earlier process's spending
  (`carried`), once. Below, the charges lag behind by calls that paid and raised, and catch up with the next result. After `reset_session`, which nothing
  in the repository calls on this client, results are charged too little until the new total passes the old; the lower bound is not claimed then.
* `StoppedOpensOnce`: a stop that falls between the thread's test and its connection is not obeyed by that connection.
* `LinesInStep` says what keeps the MCP client in step although it compares no ids: a timeout does not return while the server
  keeps its stderr (this is `mcp_stuck`), and so never leaves a request behind. A notification is enough to put every later call one line off.
* `PlansAccountedFor`: a plan made in place of the model's is explained by a failure of *its own* call.
* `ReadersAgree` compares the two ways to read over every order of writes, promotions, restores and key changes: where both answer they
  agree. SQLite's `read_for_environment` fails whenever its `read` does; it leaves a "sensitive" record out of every answer without a word. The in-memory `read`
  answers alone where such a record, or a ceiling its other order does not rank, makes `read_for_environment` raise.
* `TransformedOnce` also says what the migration may do to the agent's rows: what an agent wrote is what the row is made of, transformed or not,
  unless it wrote after the run had listed the row. In that case the run may overwrite it with what it made of the row as listed.
* `OriginalInBackup` names the three ways an original can be missing from the backups: it was in the write-ahead log only,
  an agent wrote it since, or a second run in the same second replaced its backup.
* `AcceptedIsSaved` speaks of the status "accepted"; a proposal whose save failed keeps the status "proposed" with
  its mutation in force, and is saved with the next one.
* `MnemonicSomewhere` includes what was shown to the user, who may have written it down; provisioning again deletes the wallet before.
* `StaysValid` holds with the exceptions it names in `disturbed`, and does not cover the research record's own schema (`ButForTheRecord`): a model's answer of an unexpected type
  makes a record that its schema refuses, and the directory does not load until that file is removed. Nothing else a model proposes is left behind.
* `BestOnDisk` compares all four artifacts with those of the candidate kept last; a candidate is on disk before it is measured.

Runs that are expected to find a violation, one property each, are described in section 8:
`x402_overspend`, `x402_halt`, `session_halt`, `a2a_full`, `runner_stop`, `runner_gap`, `mcp_stuck`.

## 5. Bounds

* *X402Budget.* `MaxCalls`, `MaxCrashes` and `LastDay` bound the counters. Prices 0..3 against a
  per-call cap of 2, a session cap of 3 and a daily cap of 2 make every comparison
  fall on both sides and on the boundary, and include the refused amount 0. `x402_clients` has
  four calls, so that two clients can each pay twice and one of them can rewrite the file over the
  other in either order; one crash puts a client that re-reads the file among
  them. `x402_locked` has three payments, enough to go over the cap with the price 2,
  and two processes, enough for one to wait for the other at every step; the theorems of section 7 cover
  the rest. There `LastDay = 0`, since the transfer path is not checked against the daily cap.
* *RuntimeSession.* Three steps are enough for hold, approval, execution and one more step;
  plans of two leave a proposal in the queue behind a hold; two sessions are one
  original and one hydrated from its replay, which may be written again by the second.
  The two actions are one that is held and allowed with a token, and one that is held for
  approval and denied with a token. An action that is allowed without one adds runs that no property counts, and a
  hold with nobody to ask is what the second action leaves once the token is there.
* *AgentRunner.* The threshold equals the history size, the tightest case in which the
  breaker can trip; `LastTick` = 5 leaves room for ticks before and after each of
  two deaths.
* *A2ATaskStore.* One id more than the store holds; a window of three units with a rate of
  two has requests that leave the window one by one; an age limit of two has
  tasks of each age on both sides. No counter is capped by a guard.
* *X402Gate.* Two nonces and two payments: the same header twice, and another between. Prices of zero and of three half
  micro-dollars, values 0 and 1, so that what truncation drops decides whether a header pays enough.
* *LiveOrders.* Two failures trip the circuit, so there are runs of failures broken by an order, by a reset and by
  the circuit; total 2 against orders of 1 reaches the cap; `MaxMoved` is well past what two rounds of failures can move.
* *SpendControls.* A window of one unit and eight transactions. `Threshold` has the code's own constants (10, 5, 3 and 2), so with eight
  transactions only the level "production" can trip, which needs more than six of them, and all four levels are among the initial states; one chain and one contract, each in a key's list or not, and declared by an intent or not; two requests and a refill of two parts have the bucket empty, partly filled and full.
* *DataRouting.* One capability that each source may have or lack, all six orders of the three sources, a paid session of two calls, two errors each, restarts that find any total up to two. Nothing in a
  stream is bounded.
* *McpStdio.* Two threads, one waiting for the other; three requests, so that a line left behind can be taken
  by each of the two after it; one notification.
* *ModelCalls.* A manifest with one capability and one with two; two attempts of each loop; Retry-After below and above the
  longest delay; two plans, so that a failure of the first may be left over in the second; plans of two steps.
* *CryptoRouting.* Two symbols and two orders: of one symbol, or of each. *AgentRegistry.* Two agents, of two directories or
  one after the other of the same; two tokens and two holders; one private endpoint and two public ones.
* *MemoryStore.* Three records: a chain of two promotions, or one that is rewritten; a read limit of one, which makes order matter;
  the sensitivities "internal" and "sensitive", of which only the first is in both of the code's orders, and as ceilings the levels of both orders. *Migration.* Two rows, of which an agent may write one,
  which may be there before; two runs in two seconds.
* *Evolution.* Bounds 1..2 with proposable values below and within and one that is not ordered (a text, NaN); two open proposals, three versions. *WalletVault.* Two wallets, two
  backups. *ArtifactSet.* Two generations over each other, two iterations of research, one bump of a version.

Deadlock is checked for `RuntimeSession`. Elsewhere it is not: with its calls, ids or versions used up
by a bound a part has nothing left to do, and a runner that has stopped for good stops.

Symmetry is declared for clients in `x402_clients` only, which checks no liveness.

## 6. Fairness

* `X402Budget`: weak fairness of each payer's steps once it is inside a payment. Every request
  in that code carries a timeout and there is no other wait while the lock is held. Nothing is
  assumed of clients, of starting a payment, of crashes or of the operator.
* `RuntimeSession`: weak fairness of `LoopStep`. `run()` is a plain loop without waits of its own;
  what is assumed is that planner and router answer or raise, which their own timeouts see to.
* `AgentRunner`: weak fairness of `RunnerStep`: the thread in `run()` keeps going, the
  interval and cool-down sleeps end by their own clocks. No fairness on signals, hosts, deaths or reboots.
* `A2ATaskStore`: time passes (weak fairness of `Tick`) and clients keep asking (strong fairness of
  `Send`, as a request may be refused for its rate again and again). This is the environment's
  part; only `FullStoreRecovers` uses it, and that property fails in spite of it.
* `McpStdio`: weak fairness of a thread's reading, of its timeout and of the end of a drain, strong fairness of sending, since the
  lock comes and goes. Nothing is assumed of the server, which is what `CallsReturn` is about.
* `MCPersistence`: that of the runner, while it is the part that moves. `MCServing` checks no liveness.

## 7. What is proved

Every theorem holds for all values of the constants that satisfy the named ASSUMEs of its modules (amounts and bounds are
natural numbers, sets that the code keeps apart are disjoint, and the like), which TLC evaluates in every run of the module; a hypothesis
beyond these stands in the column "Under". All invariants and action properties that the passing runs check are theorems, a few of them under such a hypothesis. The
three liveness properties are not (the prover has no support for ENABLED and fairness); for each there is a theorem about
how many steps remain, which leaves to fairness only that these steps are taken.

### The budget (`X402Budget_proofs`)

| Theorem | Under | Statement |
|---|---|---|
| `TypeCorrect` | | `Spec => []TypeOK` |
| `ClientsKeepSessionCap` | no payers | `[]SessionCapPerObject` |
| `ClientsKeepDailyCap` | no payers | `[]DailyCapPerObject` |
| `PayersKeepSessionCap` | no clients | `[]SessionCapPerObject` |
| `LockLosesNoPayment` | no clients | `[]NoLostPayment` |
| `LockPreventsOverspending` | no clients | `[]SessionBudgetHolds` |
| `LockAccountsForExposure` | no clients | `[]ExposureAccounted` |
| `LockImplementsLedger` | no clients | `Spec => ImplementsLedger` |
| `LockIsHeldInside` | | `[]HolderInside` |
| `PaymentsAreShort` | | `Spec => PaymentAdvances` |

The two hypotheses are the two disciplines of the code. Mixed, the budget does not hold:
that is the run `x402_overspend`.

*Clients.* `ClientInv` strengthens the caps with what holds of a client that has
signed and not been answered: its memory plus the amount in flight still fits the session
cap and, for today and every later day, the daily cap; and that no total of a later day exists yet. The
caps alone are not inductive: the step that books an accepted payment adds an amount that was checked two steps
before, possibly on the day before. `ClientStepKeepsCaps` goes through the actions one by one.

*Payers.* `LockedInv` has four parts: `LockInv` (whoever is past `Acquire` holds the lock, so at
most one process is), `FileInv` (what the lock holder remembers is what the file
holds, and the payment it is about to book fits), the caps, and the three accounting
properties. Mutual exclusion is proved first (`LockStep`). Then the lemma `HolderStep`
states once what any step of the lock holder must establish, all other processes being off,
and `LockedStep` discharges that for each action. The accounting properties are not inductive without `FileInv`,
as the check and the booking are steps apart and only the lock keeps the file unchanged between them.

*Refinement.* `LedgerStep` shows that each step is a `Spend`, a `Fault` or a stutter of
`SessionLedger` with `spent <- recorded` and `faulted <- lost`; `SessionBudgetHolds`, as part of the invariant,
gives the cap in the guard of `Spend`.

*The lock itself.* `HolderInside`, with clients or without: a payer holds the lock exactly while it is inside a payment. `StepsLeft` counts down with
each of its steps, four at most, on the early returns and the exceptions as well. Together they are the safety half of `LockReleased`.

### The runner (`AgentRunner_proofs`)

| Theorem | Under | Statement |
|---|---|---|
| `RunnerTypeCorrect` | | `Spec => []TypeOK` |
| `LateStopIsObeyed` | | `Spec => LateStopObeyed` |
| `LateStopIsNear` | | `Spec => StopAdvances` |
| `FilesContiguous` | `KeepsGoing = FALSE` | `[]ReplaysContiguous` |
| `FilesKept` | `KeepsGoing = FALSE` | `Spec => NoReplayOverwritten` |
| `TicksStayBounded` | | `[]TicksBounded` |
| `BreakerIsExact` | `Threshold <= HistorySize` | `Spec => BreakerExact` |

`FilesInv` says that for some *n* exactly the files 1 to *n* exist and that the tick count is *n*, or *n* + 1
inside a tick that has not yet opened its file, or anything once the process will run no
more. The last case is what a raising tick needs, and why a host that goes on breaks it (run
`runner_gap`). That `Boot` gets *n* by counting is a fact about cardinalities of
intervals. `StopInv` says that a late request leaves `_running` false for good, as both statements
that set it lie behind; with that, `StepsToStop` falls with each step of the thread, five at most, which is the
safety half of `LateStopEnds`. `TypeInv` adds to the types that failures in a row never outnumber the ticks begun.

`BreakerExact` relates the tail of a bounded list to a number that is not bounded. `HistoryInv` says how: the history ends with the failures in
a row, as many as it holds, and before them stands a tick that did not fail. The hypothesis is one the code does not check:
the deque holds 200 ticks and the threshold is a parameter (5 by default). With a threshold above 200 the cool-down would never come.

### The session (`RuntimeSession_proofs`)

| Theorem | Statement |
|---|---|
| `SessionTyped` | `Spec => []TypeOK` |
| `PendingIsHeld` | `[]PendingMeansHeld` |
| `LedgerInOrder` | `[]LedgerContiguous` |
| `FailedStaysFailed` | `Spec => FailureIsFinal` |
| `OtherRulesStand` | `[]TokenLiftsNothingElse` |
| `OneRunForEachToken` | `[]OneRunPerToken` |
| `ReviewersCoverTheRest` | `[]ReviewersCover` |
| `SessionImplementsApprovals` | `Spec => ImplementsApprovals` |
| `RunIsBounded` | `Spec => []RunBounded /\ RunAdvances` |

`SessionInv` says of the replay file what the properties say of the session in
use, since `Hydrate` makes the one the other, and that a running loop has a session in use. That a hydrated
session has not counted past `MaxSteps` follows from the order of its ledger (`LedgerFits`): the type invariant is not inductive
without that. `TakenStep` and `TakingKeeps` say once what every branch of the loop does that takes a
proposal. `OneRunPerToken` needs to know how many tokens are still out: `TokensUsed` adds to an action's runs the proposals in the queue that
carry a token for it (`Queued`), and a proposal that waits for an approval carries none, or it would not have been held for one. Plans, replans and approvals change
the two sides alike; `PlacesOfTail` and its kin in `Facts` count the places of a sequence and of its tail. `OtherRulesStand`
rests on a lemma about the gate: what it allows has no reason left, whichever rule decides.

*Refinement.* `ApprovalStep` shows that each step is an `Approve`, a `Claim`, a `Run` or a stutter of `ApprovalBook` with `given <- granted` and `used <- executed`. The
guard of `Run` is what `TokensUsed` and the gate give together (`RunsAreCovered`): the proposal that runs carries a token, which is in the queue
as one not yet used, or the gate claims one in the same step.

`RunIsBounded` is the safety half of `RunTerminates`. `StepsToGo` is two for each step that `max_steps` leaves, since the planner may be asked before it, and
a few for the end; every branch of the loop lowers it, a replan too, so a call takes at most 2 * `max_steps` + 3 steps.

### Money and tasks (`Commerce_proofs`)

| Theorem | Statement |
|---|---|
| `StoreStaysBounded` | `Spec => []StoreBounded` |
| `NothingUnfinishedPurged` | `Spec => UnfinishedKept` |
| `RatesHold` | `Spec => []RateLimitHolds` |
| `GateBooksAccount` | `GateSpec => []GateAccounts` |
| `UncountedIsBounded` | `OrdersSpec => []UncountedBounded` |
| `BreakerNeedsHistory` | `ControlsSpec => []VelocityNeedsHistory` |
| `BurstsBounded` | `ControlsSpec => []BurstBounded` |
| `BooksAgree` | `CryptoSpec => []PaperBooksAgree` |
| `RegistryExactAlways` | `RegistryExact` and `ScoresKept` always |

* `StoreInv` adds to the bound that the store's ids are among finitely many; a store of more could not be counted.
* `RateInv`: a client's list says exactly when its requests were let through, as far as the window goes, so what the code counts is what
  the property counts. That pruning a list loses nothing inside the window is a fact about counting, age by age (`Count`, `CountBelow`).
* `BooksInv` counts nonces: what was mined is among what was broadcast, and that is covered by the payments on record and the orphans. Cardinalities of
  finite sets of nonces carry the argument, from `IsFiniteSet(Nonces)`.
* `OrdersInv` keeps, beside the bound, that failures in a row stay below the number that trips the circuit while it is
  closed, and that all counts are natural; the arithmetic, which multiplies by the cap, is in lemmas of its own (`PlacedCovers`, `ResetCovers`).
* `BreakerInv`: the last three spends of the window sum to no more than all that was spent. The code compares the average of the three with the threshold
  times the average of all, which can only be above it when there are more than three times the threshold of them (`TooFastLate`).
* `BucketInv` bounds, for every *k*, what was allowed in the last *k* units together with what the bucket holds by a full bucket and *k* refills: the
  property for a window follows from the last of them, and a refill moves each bound one unit on.
* `CryptoInv` states the exchange's total as a sum over the indices of the orders, so that one more order adds its notional to it.
* `RegistryInv` says why a row that changes while a transaction is signed does no harm: an agent once removed keeps its row, archived or registered, and an
  `agent-register` under way is for a row that was listed when it began, and marks only a submission that was answered.

### Calls to others (`Calls_proofs`)

| Theorem | Statement |
|---|---|
| `ChargedOnceAndCarried` | `DataSpec => []ChargedIsSpent` |
| `StopOpensOnce` | `DataSpec => []StoppedOpensOnce` |
| `QuietServerInStep` | `McpSpec => []LinesInStep` |
| `PlansAreAccountedFor` | `ModelSpec => []PlansAccountedFor` |
| `RetriesStayBounded` | `ModelSpec => []RetriesBounded` |
| `EachPartServes` | `ServingSpec` implies every part's behaviour |
| `ServingInOrder` | `ServingSpec => []ServingInv` |

* `DataInv`: the charges and what the next result would be charged beyond its own payment (`Uncharged`) are within the outlay and the carried amount,
  also after a reset; without one the totals agree (`TotalsAgree`). A thread was past
  its last test of the stop event before `stop` only if it was at the opening then.
* `McpInv` says of a server that has only answered that nothing is in the pipe, the buffer or on its way while the lock is free, and
  otherwise one request or its answer. `LinesInStep` is silent about the free lock. `LockMatches` makes "the thread that
  holds the lock" and "the thread that waits" one. It assumes that no thread is called as the free lock's holder.
* `ModelInv` has `PlanInv`, that no plan is carried out while the planner waits for a model (so no failure can be overwritten under it), and
  `RequestInv`, the attempts and delays of the request in the air by whose loop it is in.

### What is kept (`Records_proofs`)

| Theorem | Statement |
|---|---|
| `NothingUnapproved` | `MemorySpec => []NothingCrossesUnapproved` |
| `BothReadersAgree` | `MemorySpec => []ReadersAgree` |
| `RowsTransformedOnce` | `MigrationSpec => []TransformedOnce` |
| `OriginalsKept` | `MigrationSpec => []OriginalInBackup` |
| `BoundsHold` | `EvolutionSpec => []NumbersInBounds` |
| `AcceptedAreSaved` | `EvolutionSpec => []AcceptedIsSaved` |

* `NothingCrossesUnapproved` is inductive with the types of `MemoryInv`. `ReadersAgree` is about two ways to select from one
  sequence (what SQLite finds of any levels is what `read_for_environment` finds, `SameFound`): that a selection cut to its limit begins with the newest element is proved from `Kept`'s ranks (`KeptRank`, `KeptIs`).
* `RowsInv`: where no agent writes, the main file is the table of an earlier moment, and a row still to be handled by a migration was of the old version when it was
  listed and is still as listed; where one writes, it was listed with what the agent had written, or is among those written since (`PendingFits`). `BackupInv` speaks of more rows than the property: from the copy to the end of the run also those that are still to be
  transformed are in it, since a row is in a backup before it is transformed and not because it was.
* `NumbersInBounds` is inductive: an acceptance compares the number it sets. `AcceptedIsSaved` is not: a save puts the process's strategy in the place of the
  file's, so `SavedInv` says that everything accepted is in the process's history too, through any number of failed saves.

### An agent's directory (`Directory_proofs`)

| Theorem | Statement |
|---|---|
| `NamedWalletsKept` | `VaultSpec => []MnemonicSomewhere` |
| `DirectoryStaysValid` | `ArtifactSpec => []StaysValid` |
| `BestIsOnDisk` | `ArtifactSpec => []BestOnDisk` |
| `EachPartBehaves` | `PersistSpec` implies every part's behaviour |
| `DirectoryInOrder` | `PersistSpec => []PersistInv` |

* `NamedAreShown` strengthens `MnemonicSomewhere`, and needs neither the vault nor a backup: a wallet that was named has had its words shown, or is the one
  being provisioned, or its provisioning was cut short.
* `ArtifactInv` says, for each stage of a command, what of the directory is in order already (`WhileWritten`, `WhileExtended`) and,
  while a candidate is tried, that what would be taken back is what was kept (`WhileEvaluated`). `EntriesInv` adds the entries: that nothing measured improves on
  the best needs that improvements are transitive (`ImprovesOn`), since each new best is compared with the one before only.

### The compositions

`EachPartServes` and `EachPartBehaves` show that a behaviour of a composition is one of each part's specification (without
the fairness that some parts add): `StepOfEachServed` and `StepOfEach` go through the moves. Every theorem about a part therefore holds in its
composition, and `ServingInOrder` and `DirectoryInOrder` follow for all that the runs `a2a` and `runner` check as one invariant, the types of all parts among it.

### Data

The library states induction with an operator for a parameter, which none of the provers can instantiate. `Facts` states it of a *set* of naturals (`SetInduction`), which
needs no such parameter: to prove *P*(*n*) for all *n*, one takes the set of those *n*. From it come the sums over finite sets that the limits, the books and the
breaker need (`SumSplits`, `SumsRenamed`, `SumOfPart`: `SumFunctionOnSet` of the community modules is defined by a CHOOSE of an element, so that the
order does not matter is itself a theorem), and what a selection keeps of a sequence (`KeptRank`, `KeptInjective`, `KeptCount`).

### Only model-checked

`LockReleased`, `RunTerminates` and `LateStopEnds`, under fairness; and that the seven properties of section 8 fail.

## 8. Where code and documents disagree

Each is a run that finds a violation; `PROJECT.json` quotes the lines.

* `x402_overspend`: a long-lived client neither locks nor re-reads the file, so a client and
  one `execute_payment` pass the session cap together. The documents promise one budget
  over all channels, atomic through the flock.
* `x402_halt`: a transfer never looks at the halt file and is signed while it exists.
* `session_halt`: the halt check in front of the policy gate reads attributes that no session has,
  so capabilities run while halted.
* `a2a_full`: `is_full()` is asked before `create_task`, the only caller of the clean-up:
  a full store of old, finished tasks stays full.
* `runner_stop`: `tick_generator` sets `_running` a second time, and a stop that came
  before its first tick is lost. (A later one is obeyed: `LateStopObeyed`, `LateStopEnds`.)
* `runner_gap`: a host that keeps its runner after a tick raised leaves a gap in the replay
  numbers; after a restart, counting the files gives a number that is in use, and the newest
  replay is overwritten. With `KeepsGoing = FALSE` the property holds (run `runner`).
* `mcp_stuck`: the timeout meant for a stuck MCP server asks for the server's stderr to its end, inside the
  client's lock. A server that is stuck and alive does not end it, so neither that call nor a later one returns.

## 9. What is not modelled, and why

* *Checks of one value.* `defi_safety.py` compares one quote or one health factor with a limit; its `ExposureTracker`, and
  `simulate_tx` and `check_slippage`, have no caller outside the tests. `versioning.py` compares version numbers, `InputSanitizer` matches patterns.
  A model would restate the comparisons.
* *Byte layouts.* The encoders under `protocols/`, EIP-712 and RLP, `attestation.py` (one document hashed and signed), the cipher of `secrets`: out of TLC's
  reach, and without a protocol. What depends on their success or failure is in the modules that use them.
* *One blocking request.* The A2A client keeps no state between calls; `market_data.py` asks one public endpoint
  after another and keeps nothing; `scaffold_router.py` loads one file.
* *Text.* Prompts (`prompting.py`), skills and their download, `strategy_parser.py`, the templates of the generator, printing and parsing in `cli.py`: of
  these the models keep which files are written and in which order, and what a model's answer can be.
* *Best effort.* The knowledge layer wraps an external package and swallows every failure; event sinks, `doctor` and shell completion only print.
  Configuration and secrets are read once and looked up by name.
* The TypeScript SDK, the documentation site and the examples hold no logic of the framework.
* In modelled components: audit and JSON logs, health and metrics endpoints, the PID file,
  working set and memory contents, the queue of A2A messages in the runner
  (nothing reads it), the text of payloads, permission bits beyond locked or not. Amounts are natural numbers: rounding of floats and negative prices are left
  out, and so is NaN except in `Evolution`. JSON-schema validation and scenario scoring appear as their verdicts. `RateLimiter.reset` has no caller.

## 10. The plan

Done: the budget (module, abstract ledger, runs, proofs); the session with the gate (module, run, proofs of all its safety
properties); the runner (module, runs, proofs); the A2A store; then the services (`X402Gate`, `LiveOrders`, `SpendControls`, `DataRouting`,
`McpStdio`, `ModelCalls`, `CryptoRouting`, `AgentRegistry`) and what persists (`MemoryStore`, `Migration`, `Evolution`, `WalletVault`,
`ArtifactSet`), each with a property proved or checked that is about a hazard of its code.

Every safety property that a passing run checks is also a theorem, for the parts and for both compositions; of the three
liveness properties, the bound on the steps that remain is.

Proofs next: that `A2ATaskStore` and `X402Gate` refine abstract specifications of their own, a bounded store with a rate and a book of payments, as `X402Budget`
refines `SessionLedger` and `RuntimeSession` refines `ApprovalBook`.

Compositions: `AgentRunner` with `RuntimeSession` is joined through the replay file only; a
module that composes them, with the tick's memory record written before the replay, would check that what a tick leaves can be
resumed and what a repeated tick leaves twice. `X402Gate` with `X402Budget` would relate what an agent booked to what a server settled.

Runs are kept few: a new question on a module joins an existing run where its bounds allow.

## 11. Running it

    tlc -workers 2 -config x402_locked.cfg MCX402Budget.tla
    tlapm X402Budget_proofs.tla

The other modules with proofs are `AgentRunner_proofs`, `RuntimeSession_proofs`, `Facts`, `Records_proofs`, `Commerce_proofs`, `Calls_proofs`
and `Directory_proofs`.

`PROJECT.json` ("runs") names the module of each configuration. Every run ends within about three and a
half minutes on two cores, most in less than one; the longest proof takes a few minutes.

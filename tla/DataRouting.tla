---------------------------- MODULE DataRouting -----------------------------
(***************************************************************************)
(* The data layer (data_layer.py): DataRouter asks its sources in order,   *)
(* and falls back to the next where one raises.  A free HTTP source, a     *)
(* paid x402 source over a client of its own, an MCP source that learns    *)
(* its tools when it is first asked, and a websocket subscription with its *)
(* thread.                                                                 *)
(*                                                                         *)
(* One fetch at a time; each source it asks is a step, as the servers may  *)
(* change in between.  Costs are whole units.                              *)
(***************************************************************************)
EXTENDS Integers, Sequences, FiniteSets

CONSTANTS
  Capabilities,  \* names of capabilities
  CallPrice,     \* what a paid call costs
  MaxSpending,   \* bound: the x402 client's session
  MaxErrors      \* bound: errors counted on a source

ASSUME DataAssumption ==
  CallPrice \in Nat /\ MaxSpending \in Nat /\ MaxErrors \in Nat

VARIABLES
  chain,    \* the sources, in the order they were added
  offers,   \* by source, the capabilities its server has
  fetching, \* the fetch: its capability, the source it is at, the errors so far
  fetched,  \* what the last fetch came to
  known,    \* McpDataSource: _connected, _tools
  spent,    \* the x402 client's session_spent_usd
  billed,   \* X402DataSource.total_cost_usd
  charged,  \* ghost: cost.amount_usd of all results of this source
  carried,  \* ghost: what its client found in x402_state.json
  outlay,   \* ghost: what its calls have paid
  zeroed,   \* ghost: was reset_session called on the client?
  errors,   \* error_count by source
  stream,   \* the subscription: its thread and, once stop() was called, where the thread was
  opened    \* ghost: connections the subscription opened after stop()

account == <<spent, billed, charged, carried, outlay, zeroed>>
fetchVars == <<chain, offers, fetching, fetched, known, account, errors>>
dataVars == <<fetchVars, stream, opened>>

Sources == {"http", "x402", "mcp"}
ThreadAt == {"testing", "opening", "running", "waiting", "ended"}
Idle == [capability |-> "none", at |-> 0, failed |-> 0]

Orders == {s \in [1 .. Cardinality(Sources) -> Sources] : \A i, j \in DOMAIN s : s[i] = s[j] => i = j}

DataTypeOK ==
  /\ chain \in Orders
  /\ offers \in [Sources -> SUBSET Capabilities]
  /\ fetching \in [capability : Capabilities, at : 1 .. Cardinality(Sources) + 1, failed : 0 .. 3]
                  \union {Idle}
  /\ fetched \in Sources \union {"none", "unsupported", "failed"}
  /\ known \in [connected : BOOLEAN, tools : SUBSET Capabilities]
  /\ spent \in 0 .. MaxSpending /\ billed \in 0 .. MaxSpending /\ charged \in Nat
  /\ carried \in 0 .. MaxSpending /\ outlay \in Nat /\ zeroed \in BOOLEAN
  /\ errors \in [Sources -> 0 .. MaxErrors]
  /\ stream \in [thread : ThreadAt \union {"none"}, stoppedAt : ThreadAt \union {"never"}]
  /\ opened \in Nat

DataInit ==
  /\ chain \in Orders
  /\ offers \in [Sources -> SUBSET Capabilities]
  /\ fetching = Idle /\ fetched = "none"
  /\ known = [connected |-> FALSE, tools |-> {}]
  /\ spent \in 0 .. MaxSpending /\ carried = spent
  /\ billed = 0 /\ charged = 0 /\ outlay = 0 /\ zeroed = FALSE
  /\ errors = [s \in Sources |-> 0]
  /\ stream = [thread |-> "none", stoppedAt |-> "never"]
  /\ opened = 0

-----------------------------------------------------------------------------
(* DataRouter.fetch *)

Done(what) == fetching' = Idle /\ fetched' = what

BeginFetch(capability) ==
  /\ fetching = Idle
  /\ fetching' = [capability |-> capability, at |-> 1, failed |-> 0]
  /\ fetched' = "none"
  /\ UNCHANGED <<chain, offers, known, account, errors, stream, opened>>

At(s) == fetching # Idle /\ fetching.at \in DOMAIN chain /\ chain[fetching.at] = s

\* supports(): what the source was configured with, or the tools it knows.
Supports(s) ==
  fetching.capability \in IF s = "mcp" THEN known.tools ELSE offers[s]

ErrorOn(s) ==
  /\ errors[s] < MaxErrors
  /\ errors' = [errors EXCEPT ![s] = @ + 1]

Skip(s) ==
  /\ At(s) /\ (s = "mcp" => known.connected) /\ ~Supports(s)
  /\ fetching' = [fetching EXCEPT !.at = @ + 1]
  /\ UNCHANGED <<chain, offers, fetched, known, account, errors, stream, opened>>

\* supports() of an MCP source that is not connected connects it, over a new client ...
Connect ==
  /\ At("mcp") /\ ~known.connected
  /\ known' = [connected |-> TRUE, tools |-> offers["mcp"]]
  /\ UNCHANGED <<chain, offers, fetching, fetched, account, errors, stream, opened>>

\* ... or counts an error and is passed over, without the router knowing why.
ConnectFails ==
  /\ At("mcp") /\ ~known.connected
  /\ ErrorOn("mcp")
  /\ fetching' = [fetching EXCEPT !.at = @ + 1]
  /\ UNCHANGED <<chain, offers, fetched, known, account, stream, opened>>

\* The next source is asked.
SourceFails(s) ==
  /\ At(s) /\ Supports(s) /\ (s = "mcp" => known.connected)
  /\ ErrorOn(s)
  /\ fetching' = [fetching EXCEPT !.at = @ + 1, !.failed = @ + 1]

\* An HTTP source raises if its server cannot be reached.
HttpFails ==
  /\ SourceFails("http")
  /\ UNCHANGED <<chain, offers, fetched, known, account, stream, opened>>

\* An answer with an error status is an answer.
HttpAnswers ==
  /\ At("http") /\ Supports("http")
  /\ Done("http")
  /\ UNCHANGED <<chain, offers, known, account, errors, stream, opened>>

\* The server of an MCP source may have dropped a tool since.
McpAnswers ==
  /\ At("mcp") /\ known.connected /\ Supports("mcp") /\ fetching.capability \in offers["mcp"]
  /\ Done("mcp")
  /\ UNCHANGED <<chain, offers, known, account, errors, stream, opened>>

McpFails ==
  /\ SourceFails("mcp")
  /\ UNCHANGED <<chain, offers, fetched, known, account, stream, opened>>

Pays == {0} \union (IF spent + CallPrice <= MaxSpending THEN {CallPrice} ELSE {})

\* A call pays p, or nothing.
Pay(p) == spent' = spent + p /\ outlay' = outlay + p

\* Mutant: each result is charged the session's total.
PaidAnswersInFull(p) ==
  /\ At("x402") /\ Supports("x402")
  /\ Pay(p)
  /\ charged' = charged + spent' /\ billed' = spent'
  /\ Done("x402")
  /\ UNCHANGED <<chain, offers, known, carried, zeroed, errors, stream, opened>>

\* X402DataSource.fetch: the result is charged what the client's total grew by since the
\* last result, or since 0: this call's payment, those of calls that raised, and at first
\* whatever the client found in its file.
PaidAnswers(p) ==
  /\ At("x402") /\ Supports("x402")
  /\ Pay(p)
  /\ charged' = charged + (IF spent' > billed THEN spent' - billed ELSE 0)
  /\ billed' = spent'
  /\ Done("x402")
  /\ UNCHANGED <<chain, offers, known, carried, zeroed, errors, stream, opened>>

\* The client raised, perhaps after it had paid.
PaidFails(p) ==
  /\ SourceFails("x402")
  /\ Pay(p)
  /\ UNCHANGED <<chain, offers, fetched, known, billed, charged, carried, zeroed, stream, opened>>

\* reset_session of its client (bound: once for each client).
ResetSession ==
  /\ ~zeroed
  /\ spent' = 0 /\ zeroed' = TRUE
  /\ UNCHANGED <<chain, offers, fetching, fetched, known, billed, charged, carried, outlay, errors, stream, opened>>

\* The process ends and another one starts with sources of its own.  The client reads
\* x402_state.json, where its last total is, or an older one if a save failed, or
\* that of another payer of the directory; the source counts from 0.
Restart ==
  /\ spent' \in 0 .. MaxSpending /\ carried' = spent'
  /\ billed' = 0 /\ charged' = 0 /\ outlay' = 0 /\ zeroed' = FALSE
  /\ Done("none")
  /\ known' = [connected |-> FALSE, tools |-> {}]
  /\ errors' = [s \in Sources |-> 0]
  /\ stream' = [thread |-> "none", stoppedAt |-> "never"] /\ opened' = 0
  /\ UNCHANGED <<chain, offers>>

\* No source is left: ValueError if none was asked, RuntimeError otherwise.
NoSourceLeft ==
  /\ fetching # Idle /\ fetching.at \notin DOMAIN chain
  /\ Done(IF fetching.failed = 0 THEN "unsupported" ELSE "failed")
  /\ UNCHANGED <<chain, offers, known, account, errors, stream, opened>>

\* McpDataSource.close: the tools are remembered, but not asked for.
CloseMcp ==
  /\ fetching = Idle /\ known.connected
  /\ known' = [known EXCEPT !.connected = FALSE]
  /\ UNCHANGED <<chain, offers, fetching, fetched, account, errors, stream, opened>>

\* An MCP server changes its tools.
ServerChanges ==
  /\ \E tools \in SUBSET Capabilities : offers' = [offers EXCEPT !["mcp"] = tools]
  /\ UNCHANGED <<chain, fetching, fetched, known, account, errors, stream, opened>>

FetchNext ==
  \/ \E capability \in Capabilities : BeginFetch(capability)
  \/ \E s \in Sources : Skip(s)
  \/ Connect \/ ConnectFails \/ CloseMcp \/ ServerChanges
  \/ HttpAnswers \/ HttpFails \/ McpAnswers \/ McpFails
  \/ \E p \in Pays : PaidAnswers(p) \/ PaidFails(p)
  \/ ResetSession
  \/ NoSourceLeft

-----------------------------------------------------------------------------
(* WebSocketDataSource.subscribe *)

\* stop_event is set.
Stopped == stream.stoppedAt # "never"

Stream(from, to) == stream.thread = from /\ stream' = [stream EXCEPT !.thread = to]

Subscribe ==
  /\ Stream("none", "testing")
  /\ UNCHANGED <<fetchVars, opened>>

\* Mutant: it is tested before the first connection only.
TestStopOnce ==
  /\ Stream("testing", "opening")
  /\ UNCHANGED <<fetchVars, opened>>

\* The thread tests stop_event before each connection ...
TestStop ==
  /\ Stream("testing", IF Stopped THEN "ended" ELSE "opening")
  /\ UNCHANGED <<fetchVars, opened>>

\* ... and run_forever opens one, even if ws was closed before it was called.
OpenStream ==
  /\ Stream("opening", "running")
  /\ opened' = IF Stopped THEN opened + 1 ELSE opened
  /\ UNCHANGED fetchVars

\* The connection ends, by the server or by close(); run_forever may raise instead.
LoseStream ==
  /\ stream.thread = "running"
  /\ \E raised \in BOOLEAN :
       stream' = [stream EXCEPT !.thread = IF raised \/ Stopped THEN "ended" ELSE "waiting"]
  /\ UNCHANGED <<fetchVars, opened>>

\* One second later.
WaitOver ==
  /\ Stream("waiting", "testing")
  /\ UNCHANGED <<fetchVars, opened>>

\* stop(): sets the event and closes the connection there is, which the thread then loses.
StopStream ==
  /\ stream.thread # "none" /\ ~Stopped
  /\ stream' = [stream EXCEPT !.stoppedAt = stream.thread]
  /\ UNCHANGED <<fetchVars, opened>>

StreamNext == Subscribe \/ TestStop \/ OpenStream \/ LoseStream \/ WaitOver \/ StopStream

DataNext == FetchNext \/ StreamNext \/ Restart

DataSpec == DataInit /\ [][DataNext]_dataVars

-----------------------------------------------------------------------------
(* Properties *)

\* The results of a paid source are charged no more than its calls paid and its client
\* found in the file when it was made: no payment is charged twice by one source, but what
\* an earlier process paid is charged once more, to the first result.  Short of a reset
\* of the session, the charges lag behind only by what calls that raised have paid since
\* the last result; before the first there are none (X402DataSource.fetch).
ChargedIsSpent ==
  /\ charged <= carried + outlay
  /\ \/ zeroed
     \/ charged = 0 /\ outlay <= errors["x402"] * CallPrice
     \/ charged + errors["x402"] * CallPrice >= carried + outlay

\* A subscription that was stopped opens a connection after that only if stop() came between
\* the test and the opening, and then one, which stop() does not close: messages arrive
\* until the server ends it (_WSSubscription.stop, WebSocketDataSource.subscribe).
StoppedOpensOnce == opened <= IF stream.stoppedAt = "opening" THEN 1 ELSE 0
=============================================================================

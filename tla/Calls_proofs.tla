---------------------------- MODULE Calls_proofs ----------------------------
(***************************************************************************)
(* Theorems about an agent's calls to others, DataRouting, McpStdio and    *)
(* ModelCalls, for any offers, prices, threads, answers and delays, and    *)
(* about all the parts that MCServing composes, together.                  *)
(*                                                                         *)
(* A paid source charges no payment of its own twice, and a stopped        *)
(* subscription opens at most once; a server that only answers is never    *)
(* out of step; plans are accounted for, and retries are bounded; and a    *)
(* behaviour of the composition is one of every part.                      *)
(***************************************************************************)
EXTENDS Commerce_proofs, MCServing

-----------------------------------------------------------------------------
(* DataRouting *)

FetchTypes ==
  /\ chain \in Orders
  /\ offers \in [Sources -> SUBSET Capabilities]
  /\ fetching \in [capability : Capabilities, at : 1 .. 4, failed : 0 .. 3] \union {Idle}
  /\ fetching # Idle => fetching.failed < fetching.at
  /\ fetched \in Sources \union {"none", "unsupported", "failed"}
  /\ known \in [connected : BOOLEAN, tools : SUBSET Capabilities]

\* What the next result would be charged on top of its own payment.
Uncharged == IF spent > billed THEN spent - billed ELSE 0

\* While the session is not reset, the totals agree, and what calls that raised have paid
\* since the last result is at most a price for each error.
TotalsAgree ==
  /\ charged = billed /\ billed <= spent /\ spent = carried + outlay
  /\ \/ charged = 0 /\ outlay <= errors["x402"] * CallPrice
     \/ spent - billed <= errors["x402"] * CallPrice

Charges ==
  /\ errors \in [Sources -> 0 .. MaxErrors]
  /\ spent \in 0 .. MaxSpending /\ billed \in 0 .. MaxSpending /\ carried \in 0 .. MaxSpending
  /\ charged \in Nat /\ outlay \in Nat /\ zeroed \in BOOLEAN
  /\ charged + Uncharged <= carried + outlay
  /\ zeroed \/ TotalsAgree

\* Only a thread that was at the opening when stop() was called is at it afterwards, and
\* that before it has opened any.
StreamInv ==
  /\ stream \in [thread : ThreadAt \union {"none"}, stoppedAt : ThreadAt \union {"never"}]
  /\ opened \in Nat
  /\ stream.stoppedAt # "opening" => opened = 0
  /\ stream.stoppedAt \notin {"never", "opening"} => stream.thread # "opening"
  /\ stream.stoppedAt = "opening" =>
       \/ stream.thread = "opening" /\ opened = 0
       \/ stream.thread \in {"running", "ended"} /\ opened <= 1

DataInv == FetchTypes /\ Charges /\ StreamInv

LEMMA ThreeSources == Cardinality(Sources) = 3
<1>1. IsFiniteSet({"mcp"}) /\ Cardinality({"mcp"}) = 1
  BY FS_Singleton
<1>2. IsFiniteSet({"mcp"} \union {"x402"}) /\ Cardinality({"mcp"} \union {"x402"}) = 2
  BY <1>1, FS_AddElement
<1>3. Cardinality(({"mcp"} \union {"x402"}) \union {"http"}) = 3
  BY <1>2, FS_AddElement
<1>4. Sources = ({"mcp"} \union {"x402"}) \union {"http"}
  BY DEF Sources
<1> QED
  BY <1>3, <1>4

LEMMA DataInitially == DataInit => DataInv
<1> SUFFICES ASSUME DataInit PROVE DataInv
  OBVIOUS
<1>1. FetchTypes
  BY DEF DataInit, FetchTypes
<1>2. Charges
  <2>1. /\ spent \in 0 .. MaxSpending /\ carried = spent /\ billed = 0 /\ charged = 0
        /\ outlay = 0 /\ zeroed = FALSE /\ errors = [s \in Sources |-> 0]
    BY DEF DataInit
  <2>2. Uncharged = spent /\ spent \in Nat /\ outlay \in Nat
    BY <2>1, DataAssumption DEF Uncharged
  <2>3. errors["x402"] * CallPrice = 0
    BY <2>1, DataAssumption DEF Sources
  <2>4. TotalsAgree
    BY <2>1, <2>3 DEF TotalsAgree
  <2>5. charged + Uncharged <= carried + outlay
    BY <2>1, <2>2
  <2>6. errors \in [Sources -> 0 .. MaxErrors]
    BY DataAssumption DEF DataInit
  <2>7. billed \in 0 .. MaxSpending /\ charged \in Nat
    BY DataAssumption DEF DataInit
  <2>8. zeroed \in BOOLEAN /\ zeroed = FALSE
    BY DEF DataInit
  <2>9. spent \in 0 .. MaxSpending /\ carried \in 0 .. MaxSpending
    BY DEF DataInit
  <2> QED
    BY <2>2, <2>4, <2>5, <2>6, <2>7, <2>8, <2>9 DEF Charges
<1>3. StreamInv
  BY DEF DataInit, StreamInv
<1> QED
  BY <1>1, <1>2, <1>3 DEF DataInv

LEMMA SourceAsked ==
  ASSUME FetchTypes, NEW s, At(s)
  PROVE  /\ fetching \in [capability : Capabilities, at : 1 .. 3, failed : 0 .. 3] /\ fetching.failed < fetching.at
         /\ [fetching EXCEPT !.at = @ + 1] \in [capability : Capabilities, at : 1 .. 4, failed : 0 .. 3]
         /\ [fetching EXCEPT !.at = @ + 1].failed < [fetching EXCEPT !.at = @ + 1].at
         /\ [fetching EXCEPT !.at = @ + 1, !.failed = @ + 1] \in [capability : Capabilities, at : 1 .. 4, failed : 0 .. 3]
         /\ [fetching EXCEPT !.at = @ + 1, !.failed = @ + 1].failed < [fetching EXCEPT !.at = @ + 1, !.failed = @ + 1].at
<1>1. DOMAIN chain = 1 .. 3
  BY ThreeSources DEF FetchTypes, Orders
<1>2. fetching \in [capability : Capabilities, at : 1 .. 3, failed : 0 .. 3] /\ fetching.failed < fetching.at
  BY <1>1 DEF At, FetchTypes
<1>3. PICK c \in Capabilities, a \in 1 .. 3, n \in 0 .. 3 :
        fetching = [capability |-> c, at |-> a, failed |-> n]
  BY <1>2
<1> DEFINE f == [capability |-> c, at |-> a, failed |-> n]
<1>4. [f EXCEPT !.at = @ + 1] = [capability |-> c, at |-> a + 1, failed |-> n]
  OBVIOUS
<1>6. [f EXCEPT !.at = @ + 1, !.failed = @ + 1] = [capability |-> c, at |-> a + 1, failed |-> n + 1]
  <2> DEFINE g == [f EXCEPT !.at = @ + 1, !.failed = @ + 1]
  <2>1. g = [x \in {"capability", "at", "failed"} |-> g[x]]
    BY Zenon
  <2>2. g.capability = c /\ g.at = a + 1 /\ g.failed = n + 1
    OBVIOUS
  <2>3. g = [capability |-> c, at |-> a + 1, failed |-> n + 1]
    <3> HIDE DEF g
    <3> QED
      BY <2>1, <2>2
  <2> QED
    BY <2>3
<1>5. n < a
  BY <1>2, <1>3
<1> QED
  BY <1>2, <1>3, <1>4, <1>5, <1>6

LEMMA FetchKeepsTypes == FetchTypes /\ FetchNext => FetchTypes'
<1> SUFFICES ASSUME FetchTypes, FetchNext PROVE FetchTypes'
  OBVIOUS
<1>1. ASSUME NEW capability \in Capabilities, BeginFetch(capability) PROVE FetchTypes'
  BY <1>1 DEF BeginFetch, FetchTypes
<1>2. ASSUME NEW s \in Sources, Skip(s) PROVE FetchTypes'
  <2>1. At(s)
    BY <1>2 DEF Skip
  <2> QED
    BY <1>2, <2>1, SourceAsked DEF Skip, FetchTypes
<1>3. CASE Connect
  BY <1>3 DEF Connect, FetchTypes, Sources
<1>4. CASE ConnectFails
  <2>1. At("mcp")
    BY <1>4 DEF ConnectFails
  <2> QED
    BY <1>4, <2>1, SourceAsked DEF ConnectFails, FetchTypes
<1>5. CASE CloseMcp
  BY <1>5 DEF CloseMcp, FetchTypes
<1>6. CASE ServerChanges
  BY <1>6 DEF ServerChanges, FetchTypes, Sources
<1>7. ASSUME HttpAnswers \/ McpAnswers \/ \E p \in Pays : PaidAnswers(p) PROVE FetchTypes'
  BY <1>7 DEF HttpAnswers, McpAnswers, PaidAnswers, Done, FetchTypes, Sources
<1>8. ASSUME NEW s \in Sources, SourceFails(s), UNCHANGED <<chain, offers, fetched, known>> PROVE FetchTypes'
  <2>1. At(s)
    BY <1>8 DEF SourceFails
  <2> QED
    BY <1>8, <2>1, SourceAsked DEF SourceFails, FetchTypes
<1>9. CASE HttpFails \/ McpFails \/ \E p \in Pays : PaidFails(p)
  BY <1>8, <1>9 DEF HttpFails, McpFails, PaidFails, Sources
<1>10. CASE NoSourceLeft
  BY <1>10 DEF NoSourceLeft, Done, FetchTypes
<1>11. CASE ResetSession
  BY <1>11 DEF ResetSession, FetchTypes
<1> QED
  BY <1>1, <1>2, <1>3, <1>4, <1>5, <1>6, <1>7, <1>9, <1>10, <1>11 DEF FetchNext

\* Multiplication, once, for the prover.
LEMMA OneMoreError ==
  ASSUME NEW n \in Nat
  PROVE  (n + 1) * CallPrice = n * CallPrice + CallPrice /\ n * CallPrice \in Nat
  BY DataAssumption

LEMMA ErrorsGrow ==
  ASSUME Charges, NEW s \in Sources, ErrorOn(s)
  PROVE  /\ errors' \in [Sources -> 0 .. MaxErrors]
         /\ errors'["x402"] = (IF s = "x402" THEN errors["x402"] + 1 ELSE errors["x402"])
  BY DataAssumption DEF ErrorOn, Charges, Sources

LEMMA AnswerKeepsCharges == ASSUME Charges, NEW p \in Pays, PaidAnswers(p) PROVE Charges'
<1>1. p \in Nat /\ spent + p \in 0 .. MaxSpending
  BY DataAssumption DEF Pays, Charges
<1>2. /\ spent' = spent + p /\ billed' = spent + p /\ outlay' = outlay + p
      /\ carried' = carried /\ zeroed' = zeroed /\ errors' = errors
      /\ charged' = charged + (IF spent' > billed THEN spent' - billed ELSE 0)
  BY DEF PaidAnswers, Pay
<1>3. Uncharged' = 0
  BY <1>1, <1>2 DEF Uncharged
<1>4. charged' \in Nat /\ charged' <= carried + outlay + p
  BY <1>1, <1>2 DEF Charges, Uncharged
<1>5. errors["x402"] \in Nat /\ errors["x402"] * CallPrice \in Nat
  <2>1. errors["x402"] \in Nat
    BY DataAssumption DEF Charges, Sources
  <2> QED
    BY <2>1, OneMoreError
<1>6. zeroed' \/ TotalsAgree'
  <2> SUFFICES ASSUME ~zeroed PROVE TotalsAgree'
    BY <1>2
  <2>1. charged = billed /\ billed <= spent /\ spent = carried + outlay
    BY DEF Charges, TotalsAgree
  <2>2. charged' = spent + p
    BY <1>1, <1>2, <2>1 DEF Charges
  <2>3. /\ charged' = billed' /\ billed' <= spent' /\ spent' = carried' + outlay'
        /\ spent' - billed' = 0
    BY <1>1, <1>2, <2>1, <2>2 DEF Charges
  <2>4. errors'["x402"] * CallPrice >= 0
    BY <1>2, <1>5
  <2> QED
    BY <2>3, <2>4 DEF TotalsAgree
<1>7. charged' + Uncharged' <= carried' + outlay'
  BY <1>1, <1>2, <1>3, <1>4 DEF Charges
<1>8. /\ errors' \in [Sources -> 0 .. MaxErrors] /\ outlay' \in Nat /\ zeroed' \in BOOLEAN
      /\ spent' \in 0 .. MaxSpending /\ billed' \in 0 .. MaxSpending /\ carried' \in 0 .. MaxSpending
  BY <1>1, <1>2 DEF Charges
<1> QED
  BY <1>4, <1>6, <1>7, <1>8 DEF Charges

LEMMA FailureKeepsCharges == ASSUME Charges, NEW p \in Pays, PaidFails(p) PROVE Charges'
<1>1. p \in Nat /\ p <= CallPrice /\ spent + p \in 0 .. MaxSpending
  BY DataAssumption DEF Pays, Charges
<1>2. /\ spent' = spent + p /\ outlay' = outlay + p /\ ErrorOn("x402")
      /\ UNCHANGED <<billed, charged, carried, zeroed>>
  BY DEF PaidFails, SourceFails, Pay
<1>3. errors' \in [Sources -> 0 .. MaxErrors] /\ errors'["x402"] = errors["x402"] + 1
  BY <1>2, ErrorsGrow DEF Sources
<1>4. errors["x402"] \in Nat
  BY DataAssumption DEF Charges, Sources
<1>5. errors'["x402"] * CallPrice = errors["x402"] * CallPrice + CallPrice
      /\ errors["x402"] * CallPrice \in Nat
  BY <1>3, <1>4, OneMoreError
<1>6. charged' + Uncharged' <= carried' + outlay'
  <2>1. charged + Uncharged <= carried + outlay /\ charged \in Nat /\ carried \in Nat /\ outlay \in Nat
    BY DataAssumption DEF Charges
  <2>2. charged' = charged /\ carried' = carried /\ outlay' = outlay + p
    BY <1>2
  <2>3. p \in Nat /\ spent \in Nat /\ billed \in Nat /\ spent' = spent + p /\ billed' = billed
    BY <1>1, <1>2, DataAssumption DEF Charges
  <2> QED
    BY <2>1, <2>2, <2>3 DEF Uncharged
<1>7. zeroed' \/ TotalsAgree'
  <2> SUFFICES ASSUME ~zeroed PROVE TotalsAgree'
    BY <1>2
  <2>1. TotalsAgree
    BY DEF Charges
  <2>2. charged' = billed' /\ billed' <= spent' /\ spent' = carried' + outlay'
    BY <1>1, <1>2, <2>1 DEF Charges, TotalsAgree
  <2>3. \/ charged' = 0 /\ outlay' <= errors'["x402"] * CallPrice
        \/ spent' - billed' <= errors'["x402"] * CallPrice
    BY <1>1, <1>2, <1>5, <2>1, DataAssumption DEF Charges, TotalsAgree
  <2> QED
    BY <2>2, <2>3 DEF TotalsAgree
<1> QED
  BY <1>1, <1>2, <1>3, <1>6, <1>7 DEF Charges

LEMMA ResetKeepsCharges == ASSUME Charges, ResetSession PROVE Charges'
<1>1. /\ spent' = 0 /\ zeroed' = TRUE /\ UNCHANGED <<billed, charged, carried, outlay, errors>>
  BY DEF ResetSession
<1>2. Uncharged' = 0 /\ Uncharged \in Nat
  BY <1>1 DEF Charges, Uncharged
<1>3. charged + Uncharged <= carried + outlay /\ charged \in Nat /\ carried \in Nat /\ outlay \in Nat
  BY DataAssumption DEF Charges
<1>4. charged' + Uncharged' <= carried' + outlay'
  BY <1>1, <1>2, <1>3
<1> QED
  BY <1>1, <1>4, DataAssumption DEF Charges

LEMMA FetchKeepsCharges == Charges /\ FetchNext => Charges'
<1> SUFFICES ASSUME Charges, FetchNext PROVE Charges'
  OBVIOUS
<1>1. ASSUME UNCHANGED <<account, errors>> PROVE Charges'
  BY <1>1 DEF Charges, Uncharged, TotalsAgree, account
<1>2. ASSUME NEW s \in {"http", "mcp"}, ErrorOn(s), UNCHANGED account PROVE Charges'
  <2>1. errors' \in [Sources -> 0 .. MaxErrors] /\ errors'["x402"] = errors["x402"]
    BY <1>2, ErrorsGrow DEF Sources
  <2> QED
    BY <1>2, <2>1 DEF Charges, Uncharged, TotalsAgree, account
<1>3. ASSUME NEW p \in Pays, PaidAnswers(p) \/ PaidFails(p) PROVE Charges'
  BY <1>3, AnswerKeepsCharges, FailureKeepsCharges
<1>4. CASE ResetSession
  BY <1>4, ResetKeepsCharges
<1>5. ASSUME \/ \E s \in Sources : Skip(s)
             \/ Connect \/ CloseMcp \/ ServerChanges \/ HttpAnswers \/ McpAnswers \/ NoSourceLeft
      PROVE  Charges'
  BY <1>1, <1>5 DEF Skip, Connect, CloseMcp, ServerChanges, HttpAnswers, McpAnswers, NoSourceLeft
<1>6. ASSUME NEW capability \in Capabilities, BeginFetch(capability) PROVE Charges'
  BY <1>1, <1>6 DEF BeginFetch
<1>7. CASE ConnectFails \/ HttpFails \/ McpFails
  BY <1>2, <1>7 DEF ConnectFails, HttpFails, McpFails, SourceFails
<1> QED
  BY <1>3, <1>4, <1>5, <1>6, <1>7 DEF FetchNext

LEMMA StreamKeepsInv == StreamInv /\ StreamNext => StreamInv'
<1> SUFFICES ASSUME StreamInv, StreamNext PROVE StreamInv'
  OBVIOUS
<1>1. CASE Subscribe \/ WaitOver
  BY <1>1 DEF Subscribe, WaitOver, Stream, StreamInv, ThreadAt
<1>2. CASE TestStop
  BY <1>2 DEF TestStop, Stream, Stopped, StreamInv, ThreadAt
<1>3. CASE OpenStream
  BY <1>3 DEF OpenStream, Stream, Stopped, StreamInv, ThreadAt
<1>4. CASE LoseStream
  BY <1>4 DEF LoseStream, Stopped, StreamInv, ThreadAt
<1>5. CASE StopStream
  BY <1>5 DEF StopStream, Stopped, StreamInv, ThreadAt
<1> QED
  BY <1>1, <1>2, <1>3, <1>4, <1>5 DEF StreamNext

LEMMA DataStep == DataInv /\ [DataNext]_dataVars => DataInv'
<1> SUFFICES ASSUME DataInv, [DataNext]_dataVars PROVE DataInv'
  OBVIOUS
<1>1. CASE FetchNext
  <2>1. UNCHANGED <<stream, opened>>
    BY <1>1 DEF FetchNext, BeginFetch, Skip, Connect, ConnectFails, CloseMcp, ServerChanges, HttpAnswers,
                HttpFails, McpAnswers, McpFails, PaidAnswers, PaidFails, ResetSession, NoSourceLeft
  <2>2. StreamInv'
    BY <2>1 DEF DataInv, StreamInv
  <2> QED
    BY <1>1, <2>2, FetchKeepsTypes, FetchKeepsCharges DEF DataInv
<1>2. CASE StreamNext
  <2>1. UNCHANGED fetchVars
    BY <1>2 DEF StreamNext, Subscribe, TestStop, OpenStream, LoseStream, WaitOver, StopStream
  <2>2. FetchTypes' /\ Charges'
    BY <2>1 DEF fetchVars, account, DataInv, FetchTypes, Charges, Uncharged, TotalsAgree
  <2> QED
    BY <1>2, <2>2, StreamKeepsInv DEF DataInv
<1>3. CASE Restart
  <2>1. FetchTypes'
    BY <1>3 DEF Restart, Done, DataInv, FetchTypes
  <2>2. PICK found \in 0 .. MaxSpending :
          spent' = found /\ carried' = found /\ billed' = 0 /\ charged' = 0 /\ outlay' = 0
    BY <1>3 DEF Restart
  <2>3. Charges'
    <3>8. found \in Nat
      BY <2>2, DataAssumption
    <3>1. Uncharged' = found
      BY <2>2, <3>8 DEF Uncharged
    <3>2. errors'["x402"] * CallPrice = 0
      BY <1>3, DataAssumption DEF Restart, Sources
    <3>3. TotalsAgree'
      BY <2>2, <3>8, <3>2 DEF TotalsAgree
    <3>4. charged' + Uncharged' <= carried' + outlay'
      BY <2>2, <3>1, <3>8
    <3>5. billed' \in 0 .. MaxSpending /\ charged' \in Nat /\ carried' \in 0 .. MaxSpending
      BY <2>2, DataAssumption
    <3>7. zeroed' \in BOOLEAN
      BY <1>3 DEF Restart
    <3>6. errors' \in [Sources -> 0 .. MaxErrors]
      BY <1>3, DataAssumption DEF Restart
    <3> QED
      BY <2>2, <3>1, <3>3, <3>4, <3>5, <3>6, <3>7 DEF Charges
  <2>4. StreamInv'
    BY <1>3 DEF Restart, StreamInv
  <2> QED
    BY <2>1, <2>3, <2>4 DEF DataInv
<1>4. CASE UNCHANGED dataVars
  BY <1>4 DEF dataVars, fetchVars, account, DataInv, FetchTypes, Charges, Uncharged, TotalsAgree, StreamInv
<1> QED
  BY <1>1, <1>2, <1>3, <1>4 DEF DataNext

LEMMA DataTyped == DataInv => DataTypeOK
  BY ThreeSources, DataAssumption DEF DataInv, FetchTypes, Charges, StreamInv, DataTypeOK

\* A paid source charges its results, together, no more than its calls paid and its client
\* found in the file: what an earlier process paid can be charged once more, to the first
\* result, and nothing else twice.  Short of a reset they lag behind only by what calls that
\* raised have paid, through any routing, failures, restarts and other payers of the
\* directory (X402DataSource.fetch, X402Client._load_state, DataRouter.fetch).
THEOREM ChargedOnceAndCarried == DataSpec => []ChargedIsSpent
<1>1. ASSUME Charges PROVE ChargedIsSpent
  <2>1. Uncharged \in Nat /\ charged \in Nat /\ carried \in Nat /\ outlay \in Nat
    BY <1>1, DataAssumption DEF Charges, Uncharged
  <2>2. charged <= carried + outlay
    BY <1>1, <2>1 DEF Charges
  <2>3. errors["x402"] \in Nat
    BY <1>1, DataAssumption DEF Charges, Sources
  <2>4. errors["x402"] * CallPrice \in Nat
    BY <2>3, OneMoreError
  <2>5. zeroed \/ TotalsAgree
    BY <1>1 DEF Charges
  <2>6. TotalsAgree => \/ charged = 0 /\ outlay <= errors["x402"] * CallPrice
                       \/ charged + errors["x402"] * CallPrice >= carried + outlay
    BY <2>1, <2>4 DEF TotalsAgree
  <2> QED
    BY <2>2, <2>5, <2>6 DEF ChargedIsSpent
<1>2. DataInv => ChargedIsSpent
  BY <1>1 DEF DataInv
<1> QED
  BY <1>2, DataInitially, DataStep, PTL DEF DataSpec

\* However the thread of a subscription and stop() interleave, a stopped subscription opens at
\* most the one connection its thread was about to open (_WSSubscription.stop, subscribe).
THEOREM StopOpensOnce == DataSpec => []StoppedOpensOnce
<1>1. DataInv => StoppedOpensOnce
  BY DEF DataInv, StreamInv, StoppedOpensOnce
<1> QED
  BY <1>1, DataInitially, DataStep, PTL DEF DataSpec

-----------------------------------------------------------------------------
(* McpStdio *)

\* A server that has only answered since it was spawned.
Quiet == server.up /\ notes = 0 /\ server.stderr

\* The lock is held by the thread whose request is out, and by no other.
LockMatches ==
  /\ call \in [Threads -> [at : {"idle", "numbered", "reading", "draining"},
                           id : CallIds \union {Unsolicited}]]
  /\ lock \in Threads \union {Nobody}
  /\ \A t \in Threads : (call[t].at \in {"reading", "draining"}) = (lock = t)

\* LinesInStep says nothing of the lines while no request is out; a quiet server's pipe has
\* to be known empty then, and while one is out, to hold either its answer or nothing.
Empty == inbox = {} /\ pipe = <<>>

InStep(id) == \/ inbox = {id} /\ pipe = <<>>
              \/ inbox = {} /\ pipe = <<id>>

QuietInv ==
  Quiet =>
    /\ buffer = <<>>
    /\ lock = Nobody => Empty
    /\ \A t \in Threads : lock = t => InStep(call[t].id)

McpInv == LockMatches /\ QuietInv

-----------------------------------------------------------------------------

LEMMA NobodyIsNoThread == \A t \in Threads : t # Nobody
  BY McpAssumption DEF Nobody

LEMMA InitMcp == McpInit => McpInv
  BY NobodyIsNoThread
  DEF McpInit, McpInv, LockMatches, QuietInv, Quiet, Empty

\* What the client's steps do to one thread's call.
LEMMA ReturnIdles ==
  ASSUME LockMatches, NEW t \in Threads, NEW what, Return(t, what)
  PROVE  /\ call' \in [Threads -> [at : {"idle", "numbered", "reading", "draining"},
                                   id : CallIds \union {Unsolicited}]]
         /\ call'[t].at = "idle"
         /\ \A u \in Threads \ {t} : call'[u] = call[u]
  BY DEF LockMatches, Return

\* With one line or none, and nothing buffered, a line that is read leaves none.
LEMMA OneLine ==
  ASSUME NEW id, buffer = <<>>, pipe = <<id>>
  PROVE  buffer \o pipe = <<id>> /\ Tail(buffer \o pipe) = <<>>
<1>1. buffer \o pipe = <<id>>
  OBVIOUS
<1> QED
  BY <1>1

-----------------------------------------------------------------------------
(* The client's steps *)

LEMMA AllocateKeeps ==
  ASSUME McpInv, NEW t \in Threads, AllocateId(t), nextId \in 0 .. MaxCallIds
  PROVE  McpInv'
<1>1. LockMatches'
  BY NobodyIsNoThread, McpAssumption DEF McpInv, LockMatches, AllocateId, CallIds
<1>2. QuietInv'
  BY NobodyIsNoThread DEF McpInv, AllocateId, QuietInv, Quiet, Empty
<1> QED
  BY <1>1, <1>2 DEF McpInv

LEMMA SendKeeps ==
  ASSUME McpInv, NEW t \in Threads, SendRequest(t)
  PROVE  McpInv'
<1>1. CASE server.up
  <2>1. /\ lock = Nobody /\ lock' = t
        /\ call' = [call EXCEPT ![t].at = "reading"] /\ inbox' = inbox \union {call[t].id}
        /\ UNCHANGED <<pipe, buffer, server, notes>>
    BY <1>1 DEF SendRequest
  <2>2. LockMatches'
    BY <2>1, NobodyIsNoThread DEF McpInv, LockMatches
  <2>3. call'[t].id = call[t].id
    BY <2>1 DEF McpInv, LockMatches
  <2>4. QuietInv'
    BY <2>1, <2>3 DEF McpInv, QuietInv, Quiet, Empty, InStep
  <2> QED
    BY <2>2, <2>4 DEF McpInv
<1>2. CASE ~server.up
  <2>1. Return(t, "error") /\ lock = Nobody /\ UNCHANGED <<lock, server>>
    BY <1>2 DEF SendRequest
  <2>2. LockMatches'
    BY <2>1, ReturnIdles, NobodyIsNoThread DEF McpInv, LockMatches
  <2> QED
    BY <1>2, <2>1, <2>2 DEF McpInv, QuietInv, Quiet
<1> QED
  BY <1>1, <1>2

\* A call that returns gives the lock back.
LEMMA ReturnUnlocks ==
  ASSUME LockMatches, NEW t \in Threads, NEW what, Return(t, what), lock = t, lock' = Nobody
  PROVE  LockMatches'
  BY ReturnIdles, NobodyIsNoThread DEF LockMatches

LEMMA ReadKeeps ==
  ASSUME McpInv, NEW t \in Threads, ReadLine(t)
  PROVE  McpInv'
<1>1. lock = t /\ lock' = Nobody /\ UNCHANGED <<inbox, server, notes>>
  BY DEF ReadLine, McpInv, LockMatches
<1>2. LockMatches'
  BY <1>1, ReturnUnlocks DEF ReadLine, McpInv
<1>3. ASSUME Quiet PROVE buffer' = <<>> /\ pipe' = <<>> /\ inbox' = {}
  <2>1. buffer = <<>> /\ InStep(call[t].id)
    BY <1>1, <1>3 DEF McpInv, QuietInv
  <2>2. pipe # <<>>
    BY <1>3 DEF ReadLine, Quiet
  <2>3. pipe = <<call[t].id>> /\ inbox = {}
    BY <2>1, <2>2 DEF InStep
  <2>4. buffer \o pipe = <<call[t].id>> /\ Tail(buffer \o pipe) = <<>>
    BY <2>1, <2>3, OneLine
  <2>5. buffer \o pipe # <<>>
    BY <2>4
  <2> QED
    BY <1>1, <2>3, <2>4, <2>5 DEF ReadLine
<1>4. QuietInv'
  BY <1>1, <1>3, NobodyIsNoThread DEF QuietInv, Quiet, Empty
<1> QED
  BY <1>2, <1>4 DEF McpInv

LEMMA TimeOutKeeps ==
  ASSUME McpInv, NEW t \in Threads, TimeOut(t)
  PROVE  McpInv'
<1>1. LockMatches'
  BY DEF McpInv, LockMatches, TimeOut
<1>2. \A u \in Threads : call'[u].id = call[u].id
  BY DEF McpInv, LockMatches, TimeOut
<1>3. QuietInv'
  BY <1>2 DEF McpInv, TimeOut, QuietInv, Quiet, Empty, InStep
<1> QED
  BY <1>1, <1>3 DEF McpInv

\* A timeout returns only when the server's stderr is at its end: it is not quiet then.
LEMMA DrainedKeeps ==
  ASSUME McpInv, NEW t \in Threads, Drained(t)
  PROVE  McpInv'
<1>1. lock = t /\ lock' = Nobody /\ Return(t, "timeout")
  BY DEF Drained, McpInv, LockMatches
<1>2. ~Quiet'
  BY DEF Drained, Quiet
<1> QED
  BY <1>1, <1>2, ReturnUnlocks DEF McpInv, QuietInv

-----------------------------------------------------------------------------
(* The server's steps *)

LEMMA RespawnKeeps == ASSUME McpInv, CloseAndRespawn PROVE McpInv'
  BY NobodyIsNoThread
  DEF McpInv, LockMatches, CloseAndRespawn, QuietInv, Quiet, Empty

LEMMA AnswerKeeps ==
  ASSUME McpInv, NEW id \in CallIds, Answer(id)
  PROVE  McpInv'
<1>1. LockMatches'
  BY DEF McpInv, LockMatches, Answer
<1>2. ASSUME Quiet
      PROVE  /\ buffer' = <<>> /\ lock # Nobody
             /\ \A t \in Threads : lock = t => inbox' = {} /\ pipe' = <<call[t].id>>
  <2>1. buffer' = <<>> /\ inbox # {} /\ lock # Nobody
    BY <1>2 DEF McpInv, QuietInv, Empty, Answer
  <2>2. ASSUME NEW t \in Threads, lock = t
        PROVE  inbox' = {} /\ pipe' = <<call[t].id>>
    <3>1. InStep(call[t].id)
      BY <1>2, <2>2 DEF McpInv, QuietInv
    <3>2. inbox = {id} /\ id = call[t].id /\ pipe = <<>>
      BY <2>1, <3>1 DEF InStep, Answer
    <3> QED
      BY <3>2 DEF Answer
  <2> QED
    BY <2>1, <2>2
<1>3. QuietInv'
  BY <1>2 DEF Answer, QuietInv, Quiet, InStep
<1> QED
  BY <1>1, <1>3 DEF McpInv

\* The other steps end the quiet.
LEMMA UnquietKeeps ==
  ASSUME McpInv, Notify \/ CloseStderr \/ ServerEnds, notes \in Nat, server \in [up : BOOLEAN, stderr : BOOLEAN]
  PROVE  McpInv'
<1>1. UNCHANGED <<call, lock>>
  BY DEF Notify, CloseStderr, ServerEnds
<1>2. ~Quiet'
  BY DEF Notify, CloseStderr, ServerEnds, Quiet
<1> QED
  BY <1>1, <1>2 DEF McpInv, LockMatches, QuietInv
-----------------------------------------------------------------------------

\* What the steps need of the other variables.
Counted ==
  /\ nextId \in 0 .. MaxCallIds /\ notes \in Nat
  /\ server \in [up : BOOLEAN, stderr : BOOLEAN]

LEMMA StepCounted == ASSUME Counted, [McpNext]_mcpVars PROVE Counted'
<1>1. CASE UNCHANGED <<nextId, notes, server>>
  BY <1>1 DEF Counted
<1>2. ASSUME NEW t \in Threads, AllocateId(t) PROVE Counted'
  BY <1>2, McpAssumption DEF AllocateId, Counted
<1>3. CASE CloseAndRespawn
  BY <1>3 DEF CloseAndRespawn, Counted
<1>4. CASE Notify
  BY <1>4 DEF Notify, Counted
<1>5. CASE CloseStderr
  BY <1>5 DEF CloseStderr, Counted
<1>6. CASE ServerEnds
  BY <1>6 DEF ServerEnds, Counted
<1> QED
  BY <1>1, <1>2, <1>3, <1>4, <1>5, <1>6
  DEF McpNext, mcpVars, Client, SendRequest, ReadLine, TimeOut, Drained, Answer

LEMMA StepMcp == ASSUME McpInv, Counted, [McpNext]_mcpVars PROVE McpInv'
<1>1. CASE UNCHANGED mcpVars
  BY <1>1 DEF mcpVars, McpInv, LockMatches, QuietInv, Quiet, Empty, InStep
<1>2. ASSUME NEW t \in Threads, Client(t) PROVE McpInv'
  BY <1>2, AllocateKeeps, SendKeeps, ReadKeeps, TimeOutKeeps, DrainedKeeps DEF Client, Counted
<1>3. CASE CloseAndRespawn
  BY <1>3, RespawnKeeps
<1>4. ASSUME NEW id \in CallIds, Answer(id) PROVE McpInv'
  BY <1>4, AnswerKeeps
<1>5. CASE Notify \/ CloseStderr \/ ServerEnds
  BY <1>5, UnquietKeeps DEF Counted
<1> QED
  BY <1>1, <1>2, <1>3, <1>4, <1>5 DEF McpNext

\* A server that only answers, and keeps its stderr, never has a line for another request
\* than the one that waits, although no id is looked at (McpStdioClient._rpc).
THEOREM QuietServerInStep == McpSpec => []LinesInStep
<1>1. McpInit => Counted
  BY McpAssumption DEF McpInit, Counted
<1>2. McpInv => LinesInStep
  <2> DEFINE lines == buffer \o pipe
             unanswered == inbox \union {lines[i] : i \in DOMAIN lines}
  <2> SUFFICES ASSUME McpInv, Quiet
               PROVE  /\ Len(lines) <= 1
                      /\ \A t \in Threads :
                           call[t].at \in {"reading", "draining"} => unanswered = {call[t].id}
    BY DEF LinesInStep, Quiet
  <2>1. CASE lock = Nobody
    <3>1. buffer = <<>> /\ pipe = <<>>
      BY <2>1 DEF McpInv, QuietInv, Empty
    <3> QED
      BY <2>1, <3>1, NobodyIsNoThread DEF McpInv, LockMatches
  <2>2. ASSUME NEW t \in Threads, lock = t
        PROVE  Len(lines) <= 1 /\ unanswered = {call[t].id}
    <3>1. buffer = <<>> /\ InStep(call[t].id)
      BY <2>2 DEF McpInv, QuietInv
    <3>2. CASE inbox = {call[t].id} /\ pipe = <<>>
      <4>1. lines = <<>>
        BY <3>1, <3>2
      <4> QED
        BY <3>2, <4>1
    <3>3. CASE inbox = {} /\ pipe = <<call[t].id>>
      <4>1. lines = <<call[t].id>> /\ Len(lines) = 1 /\ DOMAIN lines = {1} /\ lines[1] = call[t].id
        BY <3>1, <3>3
      <4> HIDE DEF lines
      <4> QED
        BY <3>3, <4>1
    <3> QED
      BY <3>1, <3>2, <3>3 DEF InStep
  <2> HIDE DEF lines, unanswered
  <2> QED
    BY <2>1, <2>2 DEF McpInv, LockMatches
<1> QED
  BY <1>1, <1>2, InitMcp, StepCounted, StepMcp, PTL DEF McpSpec
-----------------------------------------------------------------------------
(* Types of McpStdio *)

LinesTyped ==
  /\ inbox \subseteq CallIds
  /\ pipe \in Seq(CallIds \union {Unsolicited}) /\ buffer \in Seq(CallIds \union {Unsolicited})
  /\ notes \in 0 .. MaxNotes
  /\ outcome \in [Threads -> {"none", "own", "other", "empty", "error", "timeout"}]
  /\ \A t \in Threads : call[t].at = "numbered" => call[t].id \in CallIds

LEMMA McpTypes ==
  ASSUME McpInv, Counted, LinesTyped
  PROVE  McpTypeOK
  BY DEF McpInv, LockMatches, Counted, LinesTyped, McpTypeOK

LEMMA LinesInitially ==
  ASSUME McpInit
  PROVE  LinesTyped /\ Counted
<1>1. 0 \in 0 .. MaxCallIds /\ 0 \in 0 .. MaxNotes
  BY McpAssumption
<1>2. LinesTyped
  BY <1>1 DEF McpInit, LinesTyped
<1>3. Counted
  BY <1>1 DEF McpInit, Counted
<1> QED
  BY <1>2, <1>3

LEMMA LinesStep ==
  ASSUME McpInv, Counted, LinesTyped, [McpNext]_mcpVars
  PROVE  LinesTyped'
<1> DEFINE Lines == CallIds \union {Unsolicited}
           Calls == [at : {"idle", "numbered", "reading", "draining"}, id : Lines]
           Outcomes == {"none", "own", "other", "empty", "error", "timeout"}
<1>0. call \in [Threads -> Calls]
  BY DEF McpInv, LockMatches
<1>1. CASE UNCHANGED mcpVars
  BY <1>1 DEF LinesTyped, mcpVars
<1>r. ASSUME NEW t \in Threads, NEW what \in Outcomes, Return(t, what)
      PROVE  /\ outcome' \in [Threads -> Outcomes]
             /\ \A u \in Threads : call'[u].at = "numbered" => call'[u].id \in CallIds
  <2>1. outcome' \in [Threads -> Outcomes]
    BY <1>r DEF LinesTyped, Return
  <2>2. call'[t].at = "idle" /\ \A u \in Threads \ {t} : call'[u] = call[u]
    BY <1>0, <1>r DEF Return
  <2> QED
    BY <2>1, <2>2 DEF LinesTyped
<1>2. ASSUME NEW t \in Threads, AllocateId(t) PROVE LinesTyped'
  <2>1. outcome' \in [Threads -> Outcomes]
    BY <1>2 DEF AllocateId, LinesTyped
  <2>2. nextId + 1 \in CallIds
    BY <1>2, McpAssumption DEF AllocateId, Counted, CallIds
  <2>3. call'[t].id = nextId + 1 /\ \A u \in Threads \ {t} : call'[u] = call[u]
    BY <1>0, <1>2 DEF AllocateId
  <2> QED
    BY <1>2, <2>1, <2>2, <2>3 DEF AllocateId, LinesTyped
<1>3. ASSUME NEW t \in Threads, SendRequest(t) PROVE LinesTyped'
  <2>1. CASE server.up
    <3>1. call[t].at = "numbered" /\ inbox' = inbox \union {call[t].id}
          /\ call' = [call EXCEPT ![t].at = "reading"] /\ UNCHANGED <<outcome, pipe, buffer, notes>>
      BY <1>3, <2>1 DEF SendRequest
    <3>2. \A u \in Threads : call'[u].at = "numbered" => call'[u] = call[u]
      BY <1>0, <3>1
    <3> QED
      BY <3>1, <3>2 DEF LinesTyped
  <2>2. CASE ~server.up
    <3>1. Return(t, "error") /\ UNCHANGED <<inbox, pipe, buffer, notes>>
      BY <1>3, <2>2 DEF SendRequest
    <3> QED
      BY <1>r, <3>1 DEF LinesTyped
  <2> QED
    BY <2>1, <2>2
<1>4. ASSUME NEW t \in Threads, ReadLine(t) PROVE LinesTyped'
  <2>1. buffer \o pipe \in Seq(Lines)
    BY DEF LinesTyped
  <2>2. CASE buffer \o pipe = <<>>
    <3>1. Return(t, "empty") /\ UNCHANGED <<inbox, pipe, buffer, notes>>
      BY <1>4, <2>2 DEF ReadLine
    <3> QED
      BY <1>r, <3>1 DEF LinesTyped
  <2>3. CASE buffer \o pipe # <<>>
    <3>1. /\ Return(t, IF FirstLine(t) = call[t].id THEN "own" ELSE "other")
          /\ buffer' = Tail(buffer \o pipe) /\ pipe' = <<>> /\ UNCHANGED <<inbox, notes>>
      BY <1>4, <2>3 DEF ReadLine
    <3>2. buffer' \in Seq(Lines) /\ pipe' \in Seq(Lines)
      BY <2>1, <2>3, <3>1
    <3> QED
      BY <1>r, <3>1, <3>2 DEF LinesTyped
  <2> QED
    BY <2>2, <2>3
<1>5. ASSUME NEW t \in Threads, TimeOut(t) PROVE LinesTyped'
  <2>1. \A u \in Threads : call'[u].at = "numbered" => call'[u] = call[u]
    BY <1>0, <1>5 DEF TimeOut
  <2> QED
    BY <1>5, <2>1 DEF TimeOut, LinesTyped
<1>6. ASSUME NEW t \in Threads, Drained(t) PROVE LinesTyped'
  BY <1>r, <1>6 DEF Drained, LinesTyped
<1>7. CASE CloseAndRespawn
  <2>1. 0 \in 0 .. MaxNotes
    BY McpAssumption
  <2> QED
    BY <1>7, <2>1 DEF CloseAndRespawn, LinesTyped
<1>8. ASSUME NEW id \in CallIds, Answer(id) PROVE LinesTyped'
  <2>1. pipe' \in Seq(Lines)
    <3>1. pipe \in Seq(Lines) /\ id \in Lines
      BY DEF LinesTyped
    <3> HIDE DEF Lines
    <3>2. Append(pipe, id) \in Seq(Lines)
      BY <3>1
    <3> QED
      BY <1>8, <3>2 DEF Answer
  <2> QED
    BY <1>8, <2>1 DEF Answer, LinesTyped
<1>9. CASE Notify
  <2>1. pipe' \in Seq(Lines)
    <3>1. pipe \in Seq(Lines) /\ Unsolicited \in Lines
      BY DEF LinesTyped
    <3> HIDE DEF Lines
    <3>2. Append(pipe, Unsolicited) \in Seq(Lines)
      BY <3>1
    <3> QED
      BY <1>9, <3>2 DEF Notify
  <2>2. notes' \in 0 .. MaxNotes
    BY <1>9, McpAssumption DEF Notify, LinesTyped
  <2> QED
    BY <1>9, <2>1, <2>2 DEF Notify, LinesTyped
<1>10. CASE CloseStderr \/ ServerEnds
  BY <1>10 DEF CloseStderr, ServerEnds, LinesTyped
<1> QED
  BY <1>1, <1>2, <1>3, <1>4, <1>5, <1>6, <1>7, <1>8, <1>9, <1>10 DEF McpNext, Client

-----------------------------------------------------------------------------
(* ModelCalls *)

\* What a step may name, whoever proposed it: the heuristic also reads memory.
Nameable(who) == declared \union (IF who = "heuristic" THEN {"memory.read"} ELSE {})

ProperSteps(who) ==
  {s \in [kind : Kinds, capability : declared \union {Undeclared, "none", "memory.read"}] :
     s.kind \in {"use", "approve"} => s.capability \in Nameable(who)}

PlanInv ==
  /\ plan \in Seq(ProperSteps(origin))
  /\ plans \in Nat
  /\ plan # <<>> /\ origin = "heuristic" => failure.plan = plans
  /\ request.of = "planner" => plan = <<>>

RequestInv ==
  /\ DOMAIN request = {"of", "attempt", "delay", "at"}
  /\ request.at = "idle" => request = NoRequest
  /\ request.at # "idle" =>
       /\ request.of \in {"planner", "http"}
       /\ request.attempt \in 1 .. Limit(request.of)
       /\ request.at = "waiting" =>
            /\ request.attempt < Limit(request.of)
            /\ \/ request.delay <= MaxDelay
               \/ request.of = "planner" /\ request.delay \in RetryAfters

ModelInv == PlanInv /\ RequestInv

LEMMA LimitIs == ASSUME NEW of PROVE Limit(of) \in Nat /\ Limit(of) >= 1
  BY ModelAssumption DEF Limit

LEMMA ModelInitially == ModelInit => ModelInv
<1> SUFFICES ASSUME ModelInit PROVE ModelInv
  OBVIOUS
<1>1. PlanInv
  BY DEF ModelInit, PlanInv, NoRequest
<1>2. RequestInv
  BY DEF ModelInit, RequestInv, NoRequest
<1> QED
  BY <1>1, <1>2 DEF ModelInv

LEMMA HeuristicIsProper == HeuristicPlan \in Seq(ProperSteps("heuristic"))
<1>1. \A c \in declared \union {"memory.read"} : Step("use", c) \in ProperSteps("heuristic")
  BY DEF Step, ProperSteps, Nameable, Kinds
<1>2. Step("finish", "none") \in ProperSteps("heuristic") /\ Step("gap", "none") \in ProperSteps("heuristic")
  BY DEF Step, ProperSteps, Nameable, Kinds
<1> DEFINE due(i) == Wishes[i] \in declared \ held /\ (i \in {2, 3, 4} => Wishes[i] \in inputs)
           first == {i \in DOMAIN Wishes : due(i) /\ \A j \in 1 .. i - 1 : ~due(j)}
<1>3. first # {} => Wishes[CHOOSE i \in first : TRUE] \in declared
  OBVIOUS
<1>4. CASE goal
  BY <1>4 DEF HeuristicPlan
<1>5. CASE ~goal /\ ~recalled
  BY <1>1, <1>5 DEF HeuristicPlan
<1>6. CASE ~goal /\ recalled /\ first # {}
  <2>1. \A c \in declared :
          <<Step("use", c)>> \o (IF c = "context" THEN <<Step("finish", "none")>> ELSE <<>>) \in Seq(ProperSteps("heuristic"))
    <3> HIDE DEF first, due
    <3> TAKE c \in declared
    <3>1. <<Step("use", c)>> \in Seq(ProperSteps("heuristic"))
      BY <1>1
    <3>2. <<Step("finish", "none")>> \in Seq(ProperSteps("heuristic")) /\ <<>> \in Seq(ProperSteps("heuristic"))
      BY <1>2
    <3> QED
      BY <3>1, <3>2
  <2> QED
    BY <1>3, <1>6, <2>1 DEF HeuristicPlan
<1>7. CASE ~goal /\ recalled /\ first = {}
  BY <1>2, <1>7 DEF HeuristicPlan
<1> QED
  BY <1>4, <1>5, <1>6, <1>7

LEMMA FallBackPlans ==
  ASSUME PlanInv, NEW kind, FallBack(kind), plans' = plans + 1, UNCHANGED declared, request'.of # "planner"
  PROVE  PlanInv'
<1>1. plan' \in Seq(ProperSteps("heuristic")) /\ origin' = "heuristic" /\ failure'.plan = plans'
  BY HeuristicIsProper DEF FallBack
<1>2. ProperSteps(origin)' = ProperSteps("heuristic")
  BY <1>1 DEF ProperSteps, Nameable
<1> QED
  BY <1>1, <1>2 DEF PlanInv

LEMMA AnswerIsProper ==
  ASSUME NEW answer \in ModelPlans
  PROVE  answer \in Seq(ProperSteps("model"))
<1>1. \A s \in ModelSteps : s \in [kind : Kinds \ {"gap"}, capability : declared \union {Undeclared, "none"}]
                             /\ (s.capability \notin declared \union {Undeclared} => s.kind \notin {"use", "approve"})
  BY DEF ModelSteps, Step, Kinds
<1>2. ASSUME NEW n \in Nat, NEW s \in [1 .. n -> ModelSteps]
      PROVE  Translated(s) \in Seq(ProperSteps("model"))
  <2>1. \A i \in 1 .. n : Translated(s)[i] \in ProperSteps("model")
    <3> TAKE i \in 1 .. n
    <3>1. s[i] \in ModelSteps
      OBVIOUS
    <3>2. CASE s[i].kind \in {"use", "approve"} /\ s[i].capability \notin declared
      BY <1>1, <3>1, <3>2 DEF Translated, Step, ProperSteps, Nameable, Kinds
    <3>3. CASE ~(s[i].kind \in {"use", "approve"} /\ s[i].capability \notin declared)
      BY <1>1, <3>1, <3>3 DEF Translated, ProperSteps, Nameable, Kinds
    <3> QED
      BY <3>2, <3>3
  <2>2. Translated(s) \in [1 .. n -> ProperSteps("model")]
    BY <2>1 DEF Translated
  <2> QED
    BY <2>2
<1>3. <<Step("reason", "none")>> \in Seq(ProperSteps("model"))
  BY DEF Step, ProperSteps, Kinds
<1> DEFINE steps == UNION {[1 .. n -> ModelSteps] : n \in 0 .. MaxPlanSteps}
<1>4. \A s \in steps : \E n \in 0 .. MaxPlanSteps : s \in [1 .. n -> ModelSteps]
  OBVIOUS
<1>5. answer \in {Translated(s) : s \in steps}
        \union (IF toolMode = "on" THEN {<<Step("reason", "none")>> \o Translated(s) : s \in steps} ELSE {})
  BY DEF ModelPlans
<1> HIDE DEF steps
<1>6. PICK s \in steps : answer = Translated(s) \/ answer = <<Step("reason", "none")>> \o Translated(s)
  BY <1>5
<1>7. Translated(s) \in Seq(ProperSteps("model"))
  BY <1>2, <1>4, ModelAssumption
<1> QED
  BY <1>3, <1>6, <1>7

LEMMA PlansStep == ASSUME PlanInv, RequestInv, [ModelNext]_modelVars PROVE PlanInv'
<1>1. CASE UNCHANGED modelVars
  BY <1>1 DEF PlanInv, ProperSteps, Nameable, modelVars, plannerVars
<1>2. CASE SendHttp
  BY <1>2 DEF SendHttp, PlanInv, ProperSteps, Nameable, plannerVars
<1>3. CASE FailTransiently \/ TryAgain \/ EndRequest
  <2>1. request'.of = request.of
    BY <1>3 DEF FailTransiently, TryAgain, EndRequest, RequestInv
  <2>2. UNCHANGED plannerVars
    BY <1>3 DEF FailTransiently, TryAgain, EndRequest
  <2> QED
    BY <2>1, <2>2 DEF PlanInv, ProperSteps, Nameable, plannerVars
<1>4. CASE TakeHttpAnswer
  BY <1>4 DEF TakeHttpAnswer, PlanInv, ProperSteps, Nameable, plannerVars, NoRequest
<1>5. CASE AskModel
  <2>1. CASE toolMode = "unable"
    BY <1>5, <2>1, FallBackPlans DEF AskModel, NoRequest
  <2>2. CASE toolMode # "unable"
    BY <1>5, <2>2 DEF AskModel, PlanInv, ProperSteps, Nameable
  <2> QED
    BY <2>1, <2>2
<1>6. CASE ModelRaised
  BY <1>6, FallBackPlans DEF ModelRaised, NoRequest
<1>7. CASE ModelAnsweredNonsense
  BY <1>7, FallBackPlans DEF ModelAnsweredNonsense, NoRequest
<1>8. CASE ModelAnswered
  <2>1. PICK answer \in ModelPlans :
          IF answer = <<>> THEN FallBack("empty-plan")
          ELSE plan' = answer /\ origin' = "model" /\ UNCHANGED failure
    BY <1>8 DEF ModelAnswered
  <2>2. plans' = plans + 1 /\ request' = NoRequest /\ UNCHANGED declared
    BY <1>8 DEF ModelAnswered
  <2>3. CASE answer = <<>>
    BY <2>1, <2>2, <2>3, FallBackPlans DEF NoRequest
  <2>4. CASE answer # <<>>
    <3>1. plan' = answer /\ origin' = "model"
      BY <2>1, <2>4
    <3>2. ProperSteps(origin)' = ProperSteps("model")
      BY <2>2, <3>1 DEF ProperSteps, Nameable
    <3> QED
      BY <2>2, <3>1, <3>2, AnswerIsProper DEF PlanInv, NoRequest
  <2> QED
    BY <2>3, <2>4
<1>9. CASE CarryOut
  <2>1. Tail(plan) \in Seq(ProperSteps(origin)) /\ request.of # "planner" /\ plan # <<>>
    BY <1>9 DEF CarryOut, PlanInv
  <2> QED
    BY <1>9, <2>1 DEF CarryOut, PlanInv, ProperSteps, Nameable
<1> QED
  BY <1>1, <1>2, <1>3, <1>4, <1>5, <1>6, <1>7, <1>8, <1>9 DEF ModelNext

LEMMA RequestsStep == ASSUME RequestInv, [ModelNext]_modelVars PROVE RequestInv'
<1> USE LimitIs DEF RequestInv
<1>1. CASE request' = request
  BY <1>1 DEF Limit
<1>2. CASE request' = NoRequest
  BY <1>2 DEF NoRequest
<1>3. CASE SendHttp \/ (AskModel /\ request' # request)
  BY <1>3, ModelAssumption DEF SendHttp, AskModel, Limit
<1>4. CASE FailTransiently
  <2>1. PICK retryAfter \in RetryAfters :
          request' = [request EXCEPT !.at = "waiting", !.delay = WaitTime(retryAfter)]
    BY <1>4 DEF FailTransiently
  <2>2. /\ DOMAIN request' = {"of", "attempt", "delay", "at"}
        /\ request'.of = request.of /\ request'.attempt = request.attempt
        /\ request'.at = "waiting" /\ request'.delay = WaitTime(retryAfter)
    BY <2>1
  <2>3. request.attempt < Limit(request.of) /\ request.at = "sending"
    BY <1>4 DEF FailTransiently, LastTry
  <2>4. request.of \in {"planner", "http"}
    BY <2>3
  <2>5. Least(request.delay, MaxDelay) <= MaxDelay /\ Least(retryAfter, MaxDelay) <= MaxDelay
    BY ModelAssumption DEF Least
  <2>6. \/ WaitTime(retryAfter) <= MaxDelay
        \/ request.of = "planner" /\ WaitTime(retryAfter) \in RetryAfters
    BY <2>4, <2>5 DEF WaitTime
  <2> QED
    BY <2>2, <2>3, <2>4, <2>6, ModelAssumption DEF Limit
<1>5. CASE TryAgain
  <2>1. /\ DOMAIN request' = {"of", "attempt", "delay", "at"}
        /\ request'.of = request.of /\ request'.attempt = request.attempt + 1 /\ request'.at = "sending"
    BY <1>5 DEF TryAgain
  <2> QED
    BY <1>5, <2>1, ModelAssumption DEF TryAgain, Limit
<1>6. CASE EndRequest
  <2>1. PICK at \in {"answered", "raised", "refused"} : request' = [request EXCEPT !.at = at]
    BY <1>6 DEF EndRequest
  <2>2. /\ DOMAIN request' = {"of", "attempt", "delay", "at"}
        /\ request'.of = request.of /\ request'.attempt = request.attempt /\ request'.at = at
    BY <2>1
  <2> QED
    BY <1>6, <2>2, ModelAssumption DEF EndRequest, Limit
<1> QED
  BY <1>1, <1>2, <1>3, <1>4, <1>5, <1>6
     DEF ModelNext, modelVars, TakeHttpAnswer, AskModel, ModelRaised, ModelAnsweredNonsense, ModelAnswered, CarryOut

LEMMA ModelAlways == ModelSpec => []ModelInv
<1>1. ModelInv /\ [ModelNext]_modelVars => ModelInv'
  BY PlansStep, RequestsStep DEF ModelInv
<1> QED
  BY ModelInitially, <1>1, PTL DEF ModelSpec

\* Whatever a model answers, and however often it is asked, a plan the heuristic made carries
\* the failure that led to it, and its steps name declared capabilities
\* (PromptDrivenPlanner, PlannerParseError).
THEOREM PlansAreAccountedFor == ModelSpec => []PlansAccountedFor
<1>1. ModelInv => PlansAccountedFor
  BY DEF ModelInv, PlanInv, ProperSteps, Nameable, PlansAccountedFor
<1> QED
  BY <1>1, ModelAlways, PTL

\* For any limits, delays and answers, no loop sends or waits beyond its bounds, but a model's
\* waits for what its server asks (_request_with_retry, _with_retry).
THEOREM RetriesStayBounded == ModelSpec => []RetriesBounded
<1>1. ModelInv => RetriesBounded
  BY LimitIs DEF ModelInv, RequestInv, RetriesBounded
<1> QED
  BY <1>1, ModelAlways, PTL
-----------------------------------------------------------------------------
(* Types of ModelCalls *)

ModelTyped ==
  /\ toolMode \in {"off", "on", "unable"}
  /\ declared \in Manifests
  /\ recalled \in BOOLEAN /\ goal \in BOOLEAN /\ inputs \subseteq {"order", "price", "basis"} /\ spiking \in BOOLEAN
  /\ origin \in {"none", "model", "heuristic"}
  /\ failure.plan \in 0 .. MaxPlans /\ plans \in 0 .. MaxPlans
  /\ request.of \in {"none", "planner", "http"}
  /\ request.at \in {"idle", "sending", "waiting", "answered", "refused", "raised"}
  /\ request.of = "planner" => plans < MaxPlans

LEMMA ModelTypes ==
  ASSUME ModelInv, ModelTyped
  PROVE  ModelTypeOK
<1>1. \A i \in DOMAIN plan : plan[i].kind \in Kinds
  <2>1. \A i \in DOMAIN plan : plan[i] \in ProperSteps(origin)
    BY DEF ModelInv, PlanInv
  <2> QED
    BY <2>1 DEF ProperSteps
<1> QED
  BY <1>1 DEF ModelTyped, ModelTypeOK

LEMMA ModelTypedInitially ==
  ASSUME ModelInit
  PROVE  ModelTyped
<1>1. 0 \in 0 .. MaxPlans
  BY ModelAssumption
<1>2. plans = 0 /\ failure = [kind |-> "none", plan |-> 0] /\ request = NoRequest /\ origin = "none" /\ goal = FALSE
  BY DEF ModelInit
<1>3. goal \in BOOLEAN
  BY <1>2
<1>4. recalled \in BOOLEAN /\ spiking \in BOOLEAN
  BY DEF ModelInit
<1>5. toolMode \in {"off", "on", "unable"} /\ declared \in Manifests /\ inputs \subseteq {"order", "price", "basis"}
  BY DEF ModelInit
<1>6. request.of = "none" /\ request.at = "idle" /\ failure.plan = 0
  BY <1>2 DEF NoRequest
<1> QED
  BY <1>1, <1>2, <1>3, <1>4, <1>5, <1>6 DEF ModelTyped

LEMMA FallBackTyped ==
  ASSUME ModelTyped, NEW kind, FallBack(kind), plans < MaxPlans, plans' = plans + 1,
         UNCHANGED <<toolMode, declared, held, recalled, goal, inputs, spiking>>,
         request' = NoRequest
  PROVE  ModelTyped'
<1>1. plans' \in 0 .. MaxPlans /\ failure'.plan = plans' /\ origin' = "heuristic"
  BY ModelAssumption DEF ModelTyped, FallBack
<1>2. request'.of = "none" /\ request'.at = "idle"
  BY DEF NoRequest
<1> QED
  BY <1>1, <1>2 DEF ModelTyped

LEMMA ModelTypedStep ==
  ASSUME ModelTyped, RequestInv, [ModelNext]_modelVars
  PROVE  ModelTyped'
<1>1. CASE UNCHANGED modelVars
  BY <1>1 DEF ModelTyped, modelVars, plannerVars
<1>2. CASE UNCHANGED plannerVars /\ request'.of \in {"none", "http", request.of}
           /\ request'.at \in {"idle", "sending", "waiting", "answered", "refused", "raised"}
  <2>1. request'.of \in {"none", "planner", "http"} /\ (request'.of = "planner" => request.of = "planner")
    BY <1>2 DEF ModelTyped
  <2> QED
    BY <1>2, <2>1 DEF ModelTyped, plannerVars
<1>3. CASE SendHttp \/ TakeHttpAnswer
  BY <1>2, <1>3 DEF SendHttp, TakeHttpAnswer, NoRequest
<1>4. CASE FailTransiently \/ TryAgain \/ EndRequest
  <2>1. /\ request'.of = request.of
        /\ request'.at \in {"sending", "waiting", "answered", "refused", "raised"}
    BY <1>4 DEF FailTransiently, TryAgain, EndRequest, RequestInv
  <2> QED
    BY <1>2, <1>4, <2>1 DEF FailTransiently, TryAgain, EndRequest
<1>5. CASE AskModel
  <2>1. CASE toolMode = "unable"
    BY <1>5, <2>1, FallBackTyped DEF AskModel
  <2>2. CASE toolMode # "unable"
    <3>1. request'.of = "planner" /\ request'.at = "sending" /\ plans' < MaxPlans
      BY <1>5, <2>2 DEF AskModel
    <3> QED
      BY <1>5, <2>2, <3>1 DEF AskModel, ModelTyped
  <2> QED
    BY <2>1, <2>2
<1>6. CASE ModelRaised
  BY <1>6, FallBackTyped DEF ModelRaised, ModelTyped
<1>7. CASE ModelAnsweredNonsense
  BY <1>7, FallBackTyped DEF ModelAnsweredNonsense, ModelTyped
<1>8. CASE ModelAnswered
  <2>1. plans < MaxPlans /\ plans' = plans + 1 /\ request' = NoRequest
        /\ UNCHANGED <<toolMode, declared, held, recalled, goal, inputs, spiking>>
    BY <1>8 DEF ModelAnswered, ModelTyped
  <2>2. CASE FallBack("empty-plan")
    BY <2>1, <2>2, FallBackTyped
  <2>3. CASE origin' = "model" /\ UNCHANGED failure
    <3>1. plans' \in 0 .. MaxPlans
      BY <2>1, ModelAssumption DEF ModelTyped
    <3>2. request'.of = "none" /\ request'.at = "idle"
      BY <2>1 DEF NoRequest
    <3> QED
      BY <2>1, <2>3, <3>1, <3>2 DEF ModelTyped
  <2> QED
    BY <1>8, <2>2, <2>3 DEF ModelAnswered
<1>9. CASE CarryOut
  <2>1. UNCHANGED <<toolMode, declared, inputs, spiking, origin, failure, plans, request>>
    BY <1>9 DEF CarryOut
  <2>2. recalled' \in BOOLEAN
    BY <1>9 DEF CarryOut
  <2>3. goal' \in BOOLEAN
    BY <1>9 DEF CarryOut
  <2> QED
    BY <2>1, <2>2, <2>3 DEF ModelTyped
<1> QED
  BY <1>1, <1>3, <1>4, <1>5, <1>6, <1>7, <1>8, <1>9 DEF ModelNext

-----------------------------------------------------------------------------
(* The parts together *)

\* A step of the composition is a step of each part, or leaves its variables alone.
LEMMA StepOfEachServed ==
  ASSUME [ServingNext]_servingVars
  PROVE  /\ [Next]_vars /\ [GateNext]_gateVars /\ [OrdersNext]_orderVars
         /\ [ControlsNext]_controlVars /\ [DataNext]_dataVars /\ [McpNext]_mcpVars
         /\ [ModelNext]_modelVars /\ [CryptoNext]_cryptoVars
         /\ [AgentsNext \/ PeersNext]_registryVars
<1>1. CASE TasksMove
  BY <1>1 DEF TasksMove
<1>2. CASE GateMoves
  BY <1>2 DEF GateMoves
<1>3. CASE OrdersMove
  BY <1>3 DEF OrdersMove
<1>4. CASE McpMoves
  BY <1>4 DEF McpMoves
<1>5. CASE ModelMoves
  BY <1>5 DEF ModelMoves
<1>6. CASE CryptoMoves
  BY <1>6 DEF CryptoMoves
<1>7. CASE ControlsMove
  BY <1>7 DEF ControlsMove, ControlsNext
<1>8. CASE DataMoves
  BY <1>8 DEF DataMoves, DataNext
<1>9. CASE RegistryMoves
  BY <1>9 DEF RegistryMoves
<1>10. CASE UNCHANGED servingVars
  BY <1>10 DEF servingVars
<1> QED
  BY <1>1, <1>2, <1>3, <1>4, <1>5, <1>6, <1>7, <1>8, <1>9, <1>10 DEF ServingNext

LEMMA StartOfEachServed ==
  ServingInit => /\ Init /\ GateInit /\ OrdersInit /\ ControlsInit /\ DataInit /\ McpInit
                 /\ ModelInit /\ CryptoInit /\ RegistryInit
  BY DEF ServingInit

\* A behaviour of the composition is a behaviour of every part, so what is proved of a part's
\* specification holds of the part beside the others.  The fairness that Spec and
\* McpSpec add is not in ServingSpec.
THEOREM EachPartServes ==
  ServingSpec => /\ Init /\ [][Next]_vars /\ GateSpec /\ OrdersSpec /\ ControlsSpec /\ DataSpec
                 /\ McpInit /\ [][McpNext]_mcpVars /\ ModelSpec /\ CryptoSpec
                 /\ RegistryInit /\ [][AgentsNext \/ PeersNext]_registryVars
  BY StartOfEachServed, StepOfEachServed, PTL
  DEF ServingSpec, GateSpec, OrdersSpec, ControlsSpec, DataSpec, ModelSpec, CryptoSpec

\* In the composition every part's variables keep their types, and the bounds and books that
\* ServingInv names are kept, for any limits, amounts, threads, peers and orders of calls.
THEOREM ServingInOrder == ServingSpec => []ServingInv
<1>1. Init /\ [][Next]_vars => [](TypeOK /\ StoreBounded)
  BY InitStoreInv, StepStoreInv, RateInitially, RateStep, TasksInitially, TasksStep, StoreTyped, PTL
<1>2. OrdersSpec => []OrdersTypeOK
  BY OrdersInvInit, OrdersInvStep, PaperInitially, PaperStep, OrdersTyped, PTL DEF OrdersSpec
<1>3. ControlsSpec => [](ControlsTypeOK /\ BurstBounded)
  BY BreakerInitially, BreakerStep, BucketInitially, BucketStep, BucketIsBound,
     ControlsTypedInitially, ControlsTypedStep, ControlsTypes, PTL DEF ControlsSpec
<1>4. DataSpec => []DataTypeOK
  BY DataInitially, DataStep, DataTyped, PTL DEF DataSpec
<1>5. McpInit /\ [][McpNext]_mcpVars => []McpTypeOK
  BY InitMcp, StepMcp, StepCounted, LinesInitially, LinesStep, McpTypes, PTL
<1>6. ModelSpec => []ModelTypeOK
  <2>1. ModelInv => RequestInv
    BY DEF ModelInv
  <2> QED
    BY <2>1, ModelAlways, ModelTypedInitially, ModelTypedStep, ModelTypes, PTL DEF ModelSpec
<1>7. CryptoSpec => []CryptoInv
  BY CryptoInitially, CryptoStep, PTL DEF CryptoSpec
<1>8. RegistryInit /\ [][AgentsNext \/ PeersNext]_registryVars => []RegistryInv
  BY RegistryInitially, RegistryStep, PTL
<1>9. /\ TypeOK /\ StoreBounded /\ GateTypeOK /\ OrdersTypeOK /\ ControlsTypeOK /\ BurstBounded /\ DataTypeOK
      /\ McpTypeOK /\ ModelTypeOK /\ RetriesBounded /\ CryptoInv /\ RegistryInv
      => ServingInv
  BY DEF ServingInv, CryptoInv, RegistryInv
<1> QED
  BY <1>1, <1>2, <1>3, <1>4, <1>5, <1>6, <1>7, <1>8, <1>9, GateTypes, RetriesStayBounded, EachPartServes, PTL
=============================================================================

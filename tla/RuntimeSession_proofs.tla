------------------------ MODULE RuntimeSession_proofs -----------------------
(***************************************************************************)
(* Proofs about RuntimeSession, for any actions, number of steps, length   *)
(* of plans and number of sessions: what a reviewer is asked, what a token *)
(* lifts and how often, whoever it is from, and the ledger, through holds, *)
(* approvals, exports and hydrations in any order; and how long a run is.  *)
(***************************************************************************)
EXTENDS RuntimeSession, Facts

-----------------------------------------------------------------------------
(* The gate *)

\* Without a reason the gate allows, with any it does not, whichever rule decides.
LEMMA AllowMeansNoReason ==
  ASSUME NEW reasons, Disposition(reasons) = "allow" PROVE reasons = {}
  BY DEF Disposition

\* What is allowed matches rules that a token lifts, and only if it has one.
LEMMA AllowedAction ==
  ASSUME NEW matched, NEW token \in BOOLEAN, Disposition(ReasonIds(matched, token)) = "allow"
  PROVE  matched \subseteq TokenRules /\ (matched # {} => token)
<1>1. ReasonIds(matched, token) = {}
  BY AllowMeansNoReason
<1> QED
  BY <1>1 DEF ReasonIds

-----------------------------------------------------------------------------
(* Proposals *)

LEMMA ProposalShape ==
  ASSUME NEW p \in Proposals
  PROVE  /\ p.token \in BOOLEAN
         /\ p.kind = "use-capability" => p.action \in Actions /\ p = Use(p.action, p.token)
<1>1. CASE \E k \in OtherKinds : p = Simple(k)
  <2>1. PICK k \in OtherKinds : p = Simple(k)
    BY <1>1
  <2>2. k # "use-capability"
    BY DEF OtherKinds
  <2>3. p.kind = k /\ p.token = FALSE
    BY <2>1 DEF Simple
  <2> QED
    BY <2>2, <2>3
<1>2. CASE \E a \in Actions, token \in BOOLEAN : p = Use(a, token)
  <2>1. PICK a \in Actions, token \in BOOLEAN : p = Use(a, token)
    BY <1>2
  <2>2. p.action = a /\ p.token = token
    BY <2>1 DEF Use
  <2> QED
    BY <2>1, <2>2
<1>3. \/ \E k \in OtherKinds : p = Simple(k)
      \/ \E a \in Actions, token \in BOOLEAN : p = Use(a, token)
  BY DEF Proposals
<1> QED
  BY <1>1, <1>2, <1>3

LEMMA TokenProposal ==
  ASSUME NEW a \in Actions
  PROVE  /\ Use(a, TRUE) \in Proposals /\ Use(a, TRUE).token = TRUE
         /\ Use(a, TRUE).action = a
<1> DEFINE e == Use(a, TRUE)
<1>1. \E b \in Actions, token \in BOOLEAN : e = Use(b, token)
  OBVIOUS
<1>2. Use(a, TRUE).token = TRUE /\ Use(a, TRUE).action = a
  BY DEF Use
<1>3. e \in Proposals
  <2> HIDE DEF e
  <2> QED
    BY <1>1 DEF Proposals
<1> QED
  BY <1>2, <1>3

LEMMA PlanShape ==
  ASSUME NEW plan \in Plans PROVE plan \in Seq(Proposals)
<1>1. PICK n \in 0 .. MaxPlan : plan \in [1 .. n -> Proposals]
  BY DEF Plans
<1>2. n \in Nat
  BY SessionBoundsAssumption
<1> QED
  BY <1>1, <1>2

LEMMA TailShape ==
  ASSUME NEW S, NEW seq \in Seq(S), seq # <<>>
  PROVE  /\ Head(seq) \in S /\ Head(seq) = seq[1] /\ Tail(seq) \in Seq(S) /\ Len(seq) \in Nat \ {0}
         /\ Len(Tail(seq)) = Len(seq) - 1
         /\ \A i \in 1 .. Len(Tail(seq)) : Tail(seq)[i] = seq[i + 1]
  OBVIOUS

LEMMA InFrontShape ==
  ASSUME NEW S, NEW seq \in Seq(S), NEW e \in S
  PROVE  /\ <<e>> \o seq \in Seq(S) /\ Len(<<e>> \o seq) = Len(seq) + 1
         /\ (<<e>> \o seq)[1] = e /\ \A i \in 1 .. Len(seq) : (<<e>> \o seq)[i + 1] = seq[i]
  OBVIOUS

LEMMA TypedElement ==
  ASSUME NEW S, NEW seq \in Seq(S), NEW i \in 1 .. Len(seq) PROVE seq[i] \in S
  OBVIOUS

LEMMA AppendShape ==
  ASSUME NEW S, NEW seq \in Seq(S), NEW e \in S
  PROVE  /\ Append(seq, e) \in Seq(S) /\ Len(Append(seq, e)) = Len(seq) + 1 /\ Len(seq) \in Nat
         /\ \A i \in 1 .. Len(seq) : Append(seq, e)[i] = seq[i]
         /\ Append(seq, e)[Len(seq) + 1] = e
  OBVIOUS

-----------------------------------------------------------------------------
(* The inductive invariant *)

InOrder(entries) == \A i \in 1 .. Len(entries) : entries[i] = i

PendingFits(st, waiting) == waiting # <<>> => st \in {"hold", "complete"} /\ Len(waiting) = 1

ReplayTyped ==
  /\ replay.status \in Statuses
  /\ replay.pending \in Seq(Proposals)
  /\ replay.ledger \in Seq(1 .. MaxSteps)
  /\ replay.goal \in BOOLEAN /\ replay.gap \in BOOLEAN

\* Of the variables a run of the loop changes.
LoopTyped ==
  /\ status \in Statuses /\ queue \in Seq(Proposals) /\ pending \in Seq(Proposals)
  /\ counter \in 0 .. MaxSteps /\ ledger \in Seq(1 .. MaxSteps)

FlagsTyped ==
  /\ active \in BOOLEAN /\ goal \in BOOLEAN /\ gap \in BOOLEAN /\ alive \in BOOLEAN
  /\ auto \in BOOLEAN /\ halted \in BOOLEAN

CountsTyped ==
  executed \in [Actions -> Nat] /\ granted \in [Guarded -> Nat] /\ claimed \in [Guarded -> Nat]

\* The properties of the session in use hold of the next one only if they hold of the
\* replay file, and only if the loop runs on a session that is still in use.
LoopInv ==
  /\ LoopTyped
  /\ active => alive
  /\ alive => counter = Len(ledger)
  /\ InOrder(ledger)
  /\ PendingFits(status, pending)

ReplayInv ==
  replay # NoReplay =>
    ReplayTyped /\ InOrder(replay.ledger) /\ PendingFits(replay.status, replay.pending)

SessionInv == LoopInv /\ ReplayInv /\ FlagsTyped /\ CountsTyped /\ session \in 1 .. MaxSessions

\* What the loop has once it takes a step.
LEMMA TakenStep ==
  ASSUME LoopInv, TakeStep
  PROVE  /\ counter' \in 0 .. MaxSteps /\ ledger' \in Seq(1 .. MaxSteps)
         /\ counter' = Len(ledger') /\ InOrder(ledger')
         /\ status = "running" /\ pending = <<>> /\ active /\ alive
         /\ Proposal \in Proposals /\ Tail(queue) \in Seq(Proposals) /\ queue # <<>>
<1>1. /\ counter = Len(ledger) /\ counter \in 0 .. MaxSteps /\ counter < MaxSteps
      /\ queue # <<>> /\ status = "running" /\ active /\ alive
      /\ counter' = counter + 1 /\ ledger' = Append(ledger, counter + 1)
  BY DEF TakeStep, Looping, LoopInv, LoopTyped
<1>2. counter + 1 \in 1 .. MaxSteps
  BY <1>1, SessionBoundsAssumption
<1>3. ledger \in Seq(1 .. MaxSteps) /\ queue \in Seq(Proposals)
  BY DEF LoopInv, LoopTyped
<1>4. /\ ledger' \in Seq(1 .. MaxSteps) /\ Len(ledger') = Len(ledger) + 1
      /\ \A i \in 1 .. Len(ledger) : ledger'[i] = ledger[i]
      /\ ledger'[Len(ledger) + 1] = Len(ledger) + 1
  BY <1>1, <1>2, <1>3, AppendShape
<1>5. InOrder(ledger')
  BY <1>1, <1>4 DEF LoopInv, InOrder
<1>6. Proposal \in Proposals /\ Tail(queue) \in Seq(Proposals)
  BY <1>1, <1>3, TailShape DEF Proposal
<1>7. pending = <<>>
  BY <1>1 DEF LoopInv, PendingFits
<1> QED
  BY <1>1, <1>2, <1>4, <1>5, <1>6, <1>7

\* Appending to no pending approvals makes one.
LEMMA OnePending ==
  ASSUME NEW p \in Proposals, pending = <<>>
  PROVE  Append(pending, p) \in Seq(Proposals) /\ Len(Append(pending, p)) = 1
<1>1. pending \in Seq(Proposals) /\ Len(pending) = 0
  OBVIOUS
<1> QED
  BY <1>1, AppendShape

\* A step of the loop that takes a proposal: the queue shrinks or goes, and whoever is
\* asked is asked while the session is held.
LEMMA TakingKeeps ==
  ASSUME LoopInv, TakeStep,
         queue' \in {Tail(queue), <<>>},
         \/ pending' = pending /\ status' \in Statuses
         \/ pending' = Append(pending, Proposal) /\ status' = "hold",
         active' = active, alive' = alive
  PROVE  LoopInv'
<1>1. /\ counter' \in 0 .. MaxSteps /\ ledger' \in Seq(1 .. MaxSteps)
      /\ counter' = Len(ledger') /\ InOrder(ledger')
      /\ pending = <<>> /\ alive /\ Proposal \in Proposals /\ Tail(queue) \in Seq(Proposals)
  BY TakenStep
<1>2. queue' \in Seq(Proposals)
  <2>1. <<>> \in Seq(Proposals)
    OBVIOUS
  <2> QED
    BY <1>1, <2>1
<1>3. CASE pending' = pending /\ status' \in Statuses
  BY <1>1, <1>2, <1>3 DEF LoopInv, LoopTyped, PendingFits, InOrder
<1>4. CASE pending' = Append(pending, Proposal) /\ status' = "hold"
  <2>1. pending' \in Seq(Proposals) /\ Len(pending') = 1
    BY <1>1, <1>4, OnePending
  <2> QED
    BY <1>1, <1>2, <1>4, <2>1 DEF LoopInv, LoopTyped, PendingFits, InOrder, Statuses
<1> QED
  BY <1>3, <1>4

-----------------------------------------------------------------------------
(* The steps of the loop *)

LEMMA ConcludeStatus ==
  ASSUME NEW complete \in BOOLEAN, NEW replan \in BOOLEAN, Conclude(complete, replan)
  PROVE  /\ queue' \in {Tail(queue), <<>>}
         /\ status \in Statuses => status' \in Statuses
         /\ goal \in BOOLEAN => goal' \in BOOLEAN
<1>1. queue' \in {Tail(queue), <<>>} /\ (status \in Statuses => status' \in Statuses)
  BY DEF Conclude, Statuses
<1>2. goal \in BOOLEAN => goal' \in BOOLEAN
  BY Zenon DEF Conclude
<1> QED
  BY <1>1, <1>2

LEMMA CountOneMore ==
  ASSUME NEW S, NEW counts \in [S -> Nat], NEW a
  PROVE  LET more == [counts EXCEPT ![a] = @ + 1] IN
         /\ more \in [S -> Nat]
         /\ \A b \in S : more[b] = IF b = a THEN counts[b] + 1 ELSE counts[b]
<1> DEFINE more == [counts EXCEPT ![a] = @ + 1]
<1>1. DOMAIN more = S
  OBVIOUS
<1>2. \A b \in S : more[b] = IF b = a THEN counts[b] + 1 ELSE counts[b]
  OBVIOUS
<1>3. \A b \in S : more[b] \in Nat
  BY <1>2
<1> QED
  BY <1>1, <1>2, <1>3

LEMMA RanCounts ==
  ASSUME CountsTyped, Ran, granted' = granted PROVE CountsTyped'
<1>1. /\ executed \in [Actions -> Nat] /\ executed' = [executed EXCEPT ![Proposal.action] = @ + 1]
      /\ claimed \in [Guarded -> Nat]
      /\ claimed' \in {claimed, [claimed EXCEPT ![Proposal.action] = @ + 1]}
  BY DEF CountsTyped, Ran
<1>2. executed' \in [Actions -> Nat]
  BY <1>1, CountOneMore
<1>3. claimed' \in [Guarded -> Nat]
  BY <1>1, CountOneMore
<1> QED
  BY <1>2, <1>3 DEF CountsTyped

\* How often a token for an action stands in a queue, and what a step of it changes.
LEMMA TokensCounted ==
  ASSUME NEW proposals \in Seq(Proposals), NEW a
  PROVE  /\ Tokens(proposals, a) \in Nat
         /\ proposals = <<>> => Tokens(proposals, a) = 0
         /\ proposals # <<>> =>
              /\ Tokens(Tail(proposals), a) \in Nat
              /\ Tokens(proposals, a)
                   = Tokens(Tail(proposals), a) + (IF Head(proposals) = Use(a, TRUE) THEN 1 ELSE 0)
<1>1. CASE proposals = <<>>
  <2>1. {i \in DOMAIN proposals : proposals[i] = Use(a, TRUE)} = {}
    BY <1>1
  <2> QED
    BY <1>1, <2>1, FS_EmptySet DEF Tokens
<1>2. CASE proposals # <<>>
  <2> DEFINE v == Use(a, TRUE)
  <2>1. /\ Tokens(proposals, a) = Cardinality(Places(proposals, v))
        /\ Tokens(Tail(proposals), a) = Cardinality(Places(Tail(proposals), v))
    BY DEF Tokens, Places
  <2> HIDE DEF v
  <2>2. /\ Cardinality(Places(proposals, v)) \in Nat /\ Cardinality(Places(Tail(proposals), v)) \in Nat
        /\ Cardinality(Places(proposals, v))
             = Cardinality(Places(Tail(proposals), v)) + (IF Head(proposals) = v THEN 1 ELSE 0)
    BY <1>2, PlacesOfTail
  <2> QED
    BY <1>2, <2>1, <2>2 DEF v
<1> QED
  BY <1>1, <1>2

LEMMA ClaimsCounted ==
  ASSUME CountsTyped, NEW plan \in Plans, ProposePlan(plan)
  PROVE  CountsTyped' /\ \A a \in Guarded : claimed'[a] = claimed[a] + Tokens(plan, a)
<1>1. /\ claimed' = [a \in Guarded |-> claimed[a] + Tokens(plan, a)]
      /\ executed' = executed /\ granted' = granted
  BY DEF ProposePlan
<1>2. \A a \in Guarded : Tokens(plan, a) \in Nat
  BY PlanShape, TokensCounted
<1> QED
  BY <1>1, <1>2 DEF CountsTyped

LEMMA LoopStepKeepsLoop == ASSUME LoopInv, LoopStep PROVE LoopInv'
<1> USE DEF LoopStep
<1>s. status \in Statuses /\ {"hold", "failed", "complete", "paused"} \subseteq Statuses
  BY DEF LoopInv, LoopTyped, Statuses
<1>1. ASSUME NEW plan \in Plans, ProposePlan(plan) PROVE LoopInv'
  <2>1. plan \in Seq(Proposals)
    BY PlanShape
  <2>2. pending = <<>>
    BY <1>1 DEF ProposePlan, Looping, LoopInv, PendingFits
  <2> QED
    BY <1>1, <1>s, <2>1, <2>2
    DEF ProposePlan, LoopInv, LoopTyped, PendingFits, InOrder, outside
<1>2. CASE PlannerRaises
  BY <1>2 DEF PlannerRaises, LoopInv, LoopTyped, PendingFits, InOrder
<1>3. CASE RejectStep
  BY <1>3, <1>s, TakingKeeps DEF RejectStep, outside
<1>4. CASE Replan
  BY <1>4, <1>s, TakingKeeps DEF Replan, outside
<1>5. CASE RequestApproval
  BY <1>5, TakingKeeps DEF RequestApproval, outside
<1>6. CASE ReportGap
  BY <1>6, <1>s, TakingKeeps DEF ReportGap, outside
<1>7. ASSUME NEW complete \in BOOLEAN, NEW replan \in BOOLEAN,
             Reason(complete, replan) \/ ExecuteStep(complete, replan)
      PROVE  LoopInv'
  <2>1. /\ TakeStep /\ Conclude(complete, replan)
        /\ pending' = pending /\ active' = active /\ alive' = alive
    BY <1>7 DEF Reason, ExecuteStep, outside
  <2> QED
    BY <1>s, <2>1, ConcludeStatus, TakingKeeps
<1>8. CASE HoldStep
  BY <1>8, <1>s, TakingKeeps DEF HoldStep, outside
<1>9. CASE FailStep
  BY <1>9, <1>s, TakingKeeps DEF FailStep, outside
<1>10. CASE RouterRaises
  <2>1. counter + 1 \in 0 .. MaxSteps /\ Tail(queue) \in Seq(Proposals)
    BY <1>10, TailShape, SessionBoundsAssumption DEF RouterRaises, Looping, LoopInv, LoopTyped
  <2> QED
    BY <1>10, <2>1 DEF RouterRaises, LoopInv, LoopTyped, PendingFits, InOrder
<1>11. CASE EndRun
  BY <1>11, <1>s DEF EndRun, LoopInv, LoopTyped, PendingFits, InOrder, outside
<1> QED
  BY <1>1, <1>2, <1>3, <1>4, <1>5, <1>6, <1>7, <1>8, <1>9, <1>10, <1>11

LEMMA LoopStepKeepsRest ==
  ASSUME FlagsTyped, CountsTyped, LoopStep
  PROVE  FlagsTyped' /\ CountsTyped' /\ UNCHANGED <<replay, session>>
<1>1. UNCHANGED <<replay, session, auto, halted>>
  BY DEF LoopStep, ProposePlan, PlannerRaises, RejectStep, Replan, RequestApproval, ReportGap,
         Reason, ExecuteStep, HoldStep, FailStep, RouterRaises, EndRun, outside
<1>2. CountsTyped'
  BY RanCounts, ClaimsCounted
  DEF LoopStep, PlannerRaises, RejectStep, Replan, RequestApproval, ReportGap,
      Reason, ExecuteStep, HoldStep, FailStep, RouterRaises, EndRun, ghosts, CountsTyped
<1>3. active' \in BOOLEAN /\ alive' \in BOOLEAN /\ gap' \in BOOLEAN
  BY DEF FlagsTyped, LoopStep, ProposePlan, PlannerRaises, RejectStep, Replan, RequestApproval,
         ReportGap, Reason, ExecuteStep, HoldStep, FailStep, RouterRaises, EndRun, outside
<1>4. goal' \in BOOLEAN
  <2>1. goal \in BOOLEAN
    BY DEF FlagsTyped
  <2>2. \/ goal' = goal
        \/ \E complete, replan \in BOOLEAN : Conclude(complete, replan)
    BY DEF LoopStep, ProposePlan, PlannerRaises, RejectStep, Replan, RequestApproval,
           ReportGap, Reason, ExecuteStep, HoldStep, FailStep, RouterRaises, EndRun
  <2> QED
    BY <2>1, <2>2, ConcludeStatus
<1> QED
  BY <1>1, <1>2, <1>3, <1>4 DEF FlagsTyped

-----------------------------------------------------------------------------
(* Between runs *)

LEMMA ApproveShape ==
  ASSUME LoopInv, NEW i \in 1 .. Len(pending), ApprovePending(i)
  PROVE  /\ pending' = <<>> /\ pending[i] \in Proposals
         /\ queue' \in {queue, <<Use(pending[i].action, TRUE)>> \o queue}
         /\ queue' # queue => pending[i].kind = "use-capability"
<1>1. pending \in Seq(Proposals)
  BY DEF LoopInv, LoopTyped
<1>2. Len(pending) = 1 /\ i = 1
  <2>1. pending # <<>>
    BY <1>1
  <2>2. Len(pending) = 1
    BY <2>1 DEF LoopInv, PendingFits
  <2> QED
    BY <2>2
<1>3. SubSeq(pending, 1, i - 1) = <<>> /\ SubSeq(pending, i + 1, Len(pending)) = <<>>
  BY <1>1, <1>2
<1>4. pending' = <<>> /\ pending[i] \in Proposals
  <2>1. pending' = <<>> \o <<>>
    BY <1>3 DEF ApprovePending
  <2>2. pending[i] \in Proposals
    BY <1>1, TypedElement
  <2> QED
    BY <2>1, <2>2
<1> QED
  BY <1>4 DEF ApprovePending

\* What comes back to the front of the queue.
LEMMA ApprovedQueue ==
  ASSUME NEW a \in Actions, queue \in Seq(Proposals)
  PROVE  LET resumed == <<Use(a, TRUE)>> \o queue IN
         /\ resumed \in Seq(Proposals) /\ Len(resumed) = Len(queue) + 1
         /\ resumed[1] = Use(a, TRUE) /\ \A i \in 1 .. Len(queue) : resumed[i + 1] = queue[i]
<1> DEFINE e == Use(a, TRUE)
<1>1. e \in Proposals
  BY TokenProposal
<1> HIDE DEF e
<1>2. /\ <<e>> \o queue \in Seq(Proposals) /\ Len(<<e>> \o queue) = Len(queue) + 1
      /\ (<<e>> \o queue)[1] = e /\ \A i \in 1 .. Len(queue) : (<<e>> \o queue)[i + 1] = queue[i]
  BY <1>1, InFrontShape
<1> QED
  BY <1>2 DEF e

LEMMA ApproveKeeps ==
  ASSUME LoopInv, NEW i \in 1 .. Len(pending), ApprovePending(i)
  PROVE  LoopInv'
<1>1. /\ pending' = <<>> /\ pending[i] \in Proposals
      /\ queue' \in {queue, <<Use(pending[i].action, TRUE)>> \o queue}
      /\ queue' # queue => pending[i].kind = "use-capability"
  BY ApproveShape
<1>2. queue \in Seq(Proposals)
  BY DEF LoopInv, LoopTyped
<1>3. queue' \in Seq(Proposals)
  BY <1>1, <1>2, ProposalShape, ApprovedQueue
<1>4. pending' \in Seq(Proposals)
  BY <1>1
<1> QED
  BY <1>1, <1>3, <1>4
  DEF ApprovePending, LoopInv, LoopTyped, PendingFits, InOrder, outside, Statuses

\* A replay that is written holds what the session in use holds.
LEMMA ExportKeeps ==
  ASSUME LoopInv, FlagsTyped, NEW st \in Statuses, replay' = Exported(st),
         st \in {status, "complete"}
  PROVE  ReplayInv'
<1>1. /\ replay'.status = st /\ replay'.pending = pending /\ replay'.ledger = ledger
      /\ replay'.goal = goal /\ replay'.gap = gap
  BY DEF Exported
<1>2. ReplayTyped'
  BY <1>1 DEF ReplayTyped, LoopInv, LoopTyped, FlagsTyped
<1>3. PendingFits(st, pending)
  BY DEF LoopInv, PendingFits
<1> QED
  BY <1>1, <1>2, <1>3 DEF ReplayInv, LoopInv, InOrder, PendingFits

\* Entries in order number no more steps than there are.
LEMMA LedgerFits ==
  ASSUME NEW entries \in Seq(1 .. MaxSteps), InOrder(entries) PROVE Len(entries) \in 0 .. MaxSteps
<1>1. CASE entries = <<>>
  BY <1>1, SessionBoundsAssumption
<1>2. CASE entries # <<>>
  <2>1. Len(entries) \in 1 .. Len(entries)
    BY <1>2
  <2>2. entries[Len(entries)] = Len(entries)
    BY <2>1 DEF InOrder
  <2>3. entries[Len(entries)] \in 1 .. MaxSteps
    BY <2>1, TypedElement
  <2> QED
    BY <2>2, <2>3, SessionBoundsAssumption
<1> QED
  BY <1>1, <1>2

LEMMA HydrateKeeps == ASSUME SessionInv, Hydrate PROVE SessionInv'
<1>1. ReplayTyped /\ InOrder(replay.ledger) /\ PendingFits(replay.status, replay.pending)
  BY DEF Hydrate, SessionInv, ReplayInv
<1>2. Len(replay.ledger) \in 0 .. MaxSteps
  BY <1>1, LedgerFits DEF ReplayTyped
<1>3. LoopInv'
  BY <1>1, <1>2 DEF Hydrate, LoopInv, LoopTyped, ReplayTyped, InOrder, PendingFits
<1>4. FlagsTyped' /\ CountsTyped'
  BY <1>1 DEF Hydrate, SessionInv, FlagsTyped, ReplayTyped, CountsTyped, ghosts
<1>5. session' \in 1 .. MaxSessions
  BY SessionBoundsAssumption DEF Hydrate, SessionInv
<1>6. ReplayInv'
  BY DEF Hydrate, SessionInv, ReplayInv, ReplayTyped, PendingFits, InOrder
<1> QED
  BY <1>3, <1>4, <1>5, <1>6 DEF SessionInv

LEMMA InitSession == Init => SessionInv
<1> SUFFICES ASSUME Init PROVE SessionInv
  OBVIOUS
<1>1. LoopInv
  BY SessionBoundsAssumption DEF Init, LoopInv, LoopTyped, Statuses, InOrder, PendingFits
<1>2. CountsTyped
  BY DEF Init, CountsTyped
<1>3. FlagsTyped
  BY DEF Init, FlagsTyped
<1>4. session \in 1 .. MaxSessions
  BY SessionBoundsAssumption DEF Init
<1>5. ReplayInv
  BY DEF Init, ReplayInv
<1> QED
  BY <1>1, <1>2, <1>3, <1>4, <1>5 DEF SessionInv

LEMMA StepSession == ASSUME SessionInv, [Next]_vars PROVE SessionInv'
<1> USE DEF SessionInv
<1>0. ASSUME UNCHANGED <<replay>> PROVE ReplayInv'
  BY <1>0 DEF ReplayInv, ReplayTyped, InOrder, PendingFits
<1>1. CASE UNCHANGED vars
  BY <1>0, <1>1
  DEF vars, LoopInv, LoopTyped, FlagsTyped, CountsTyped, InOrder, PendingFits
<1>2. CASE StartRun
  BY <1>0, <1>2
  DEF StartRun, outside, ghosts, LoopInv, LoopTyped, FlagsTyped, CountsTyped, InOrder, PendingFits
<1>3. CASE LoopStep
  BY <1>0, <1>3, LoopStepKeepsLoop, LoopStepKeepsRest
<1>4. ASSUME NEW i \in 1 .. Len(pending), ApprovePending(i)
      PROVE  SessionInv'
  <2>1. LoopInv'
    BY <1>4, ApproveKeeps
  <2>2. FlagsTyped' /\ UNCHANGED <<replay, session>>
    BY <1>4 DEF ApprovePending, FlagsTyped, outside
  <2>3. CountsTyped'
    <3>1. executed' = executed /\ claimed' = claimed
      BY <1>4 DEF ApprovePending
    <3>2. granted' \in {granted, [granted EXCEPT ![pending[i].action] = @ + 1]}
      BY <1>4 DEF ApprovePending
    <3>3. granted' \in [Guarded -> Nat]
      BY <3>2, CountOneMore DEF CountsTyped
    <3> QED
      BY <3>1, <3>3 DEF CountsTyped
  <2> QED
    BY <1>0, <2>1, <2>2, <2>3
<1>5. CASE ClearGap
  BY <1>0, <1>5
  DEF ClearGap, outside, ghosts, LoopInv, LoopTyped, FlagsTyped, CountsTyped, InOrder,
      PendingFits, Statuses
<1>6. CASE ExportReplay
  <2>1. ReplayInv'
    BY <1>6, ExportKeeps DEF ExportReplay, LoopInv, LoopTyped
  <2> QED
    BY <1>6, <2>1
    DEF ExportReplay, ghosts, LoopInv, LoopTyped, FlagsTyped, CountsTyped, InOrder, PendingFits
<1>7. CASE EndTick
  <2>1. status' \in Statuses /\ status' \in {status, "complete"}
    BY <1>7 DEF EndTick, LoopInv, LoopTyped, Statuses
  <2>2. ReplayInv'
    BY <1>7, <2>1, ExportKeeps DEF EndTick
  <2>3. LoopInv'
    BY <1>7, <2>1 DEF EndTick, LoopInv, LoopTyped, InOrder, PendingFits
  <2> QED
    BY <1>7, <2>2, <2>3 DEF EndTick, ghosts, FlagsTyped, CountsTyped
<1>8. CASE Hydrate
  BY <1>8, HydrateKeeps
<1>9. CASE ToggleHalt
  BY <1>0, <1>9
  DEF ToggleHalt, ghosts, LoopInv, LoopTyped, FlagsTyped, CountsTyped, InOrder, PendingFits
<1> QED
  BY <1>1, <1>2, <1>3, <1>4, <1>5, <1>6, <1>7, <1>8, <1>9 DEF Next

\* The session in use, and the replay another may be hydrated from, both stay in order.
THEOREM SessionAlways == Spec => []SessionInv
<1> QED
  BY InitSession, StepSession, PTL DEF Spec

\* Every variable keeps its type: in particular a session hydrated from a replay counts on
\* from no more steps than max_steps.
THEOREM SessionTyped == Spec => []TypeOK
<1>1. SessionInv => TypeOK
  BY DEF SessionInv, LoopInv, LoopTyped, FlagsTyped, CountsTyped, ReplayInv, ReplayTyped, TypeOK
<1> QED
  BY <1>1, SessionAlways, PTL

\* What approve_pending can set running again is one held session, or one that a tick
\* wrote as complete (RuntimeSession.approve_pending, AgentRunner.tick).
THEOREM PendingIsHeld == Spec => []PendingMeansHeld
<1>1. SessionInv => PendingMeansHeld
  BY DEF SessionInv, LoopInv, PendingFits, PendingMeansHeld
<1> QED
  BY <1>1, SessionAlways, PTL

\* The ledger numbers every step of the session once, across hydrations.
THEOREM LedgerInOrder == Spec => []LedgerContiguous
<1>1. SessionInv => LedgerContiguous
  BY DEF SessionInv, LoopInv, InOrder, LedgerContiguous
<1> QED
  BY <1>1, SessionAlways, PTL

\* approve_pending cannot revive a session that failed, nor can anything else but to
\* hydrate another one.
THEOREM FailedStaysFailed == Spec => FailureIsFinal
<1> DEFINE Final == status = "failed" /\ session' = session => status' = "failed"
<1>1. ASSUME SessionInv, Next PROVE Final
  <2> SUFFICES ASSUME status = "failed", session' = session PROVE status' = "failed"
    OBVIOUS
  <2>1. pending = <<>>
    BY <1>1 DEF SessionInv, LoopInv, PendingFits
  <2>2. ~Looping /\ ~TakeStep
    BY DEF Looping, TakeStep
  <2>3. CASE LoopStep
    BY <2>2, <2>3
    DEF LoopStep, ProposePlan, PlannerRaises, RejectStep, Replan, RequestApproval, ReportGap,
        Reason, ExecuteStep, HoldStep, FailStep, RouterRaises, EndRun
  <2>4. ~ \E i \in 1 .. Len(pending) : ApprovePending(i)
    BY <2>1
  <2>5. ~Hydrate
    BY <1>1 DEF Hydrate, SessionInv
  <2> QED
    BY <1>1, <2>3, <2>4, <2>5 DEF Next, StartRun, ClearGap, ExportReplay, EndTick, ToggleHalt
<1>2. SessionInv /\ [Next]_vars => [Final]_vars
  BY <1>1
<1> QED
  BY <1>2, SessionAlways, PTL DEF Spec, FailureIsFinal

-----------------------------------------------------------------------------
(* Approvals *)

LEMMA RunStep ==
  ASSUME SessionInv,
         \/ FailStep \/ RouterRaises
         \/ \E complete, replan \in BOOLEAN : ExecuteStep(complete, replan)
  PROVE  /\ Proposal \in Proposals /\ Allowed /\ queue # <<>> /\ Ran
         /\ queue' \in {Tail(queue), <<>>} /\ granted' = granted
<1>1. Allowed /\ Ran /\ queue # <<>> /\ granted' = granted
  BY DEF FailStep, RouterRaises, ExecuteStep, TakeStep
<1>2. queue' \in {Tail(queue), <<>>}
  BY ConcludeStatus DEF FailStep, RouterRaises, ExecuteStep
<1>3. Proposal \in Proposals
  BY <1>1, TailShape DEF SessionInv, LoopInv, LoopTyped, Proposal
<1> QED
  BY <1>1, <1>2, <1>3

LEMMA OtherSteps ==
  ASSUME LoopStep
  PROVE  \/ FailStep \/ RouterRaises
         \/ \E complete, replan \in BOOLEAN : ExecuteStep(complete, replan)
         \/ executed' = executed /\ \E plan \in Plans : ProposePlan(plan)
         \/ UNCHANGED ghosts
  BY DEF LoopStep, ProposePlan, PlannerRaises, RejectStep, Replan, RequestApproval, ReportGap,
         Reason, HoldStep, EndRun, ghosts

LEMMA LoopStepExecutes ==
  ASSUME SessionInv, LoopStep
  PROVE  \/ executed' = executed
         \/ Proposal \in Proposals /\ Allowed /\ queue # <<>> /\ Ran /\ granted' = granted
  BY OtherSteps, RunStep DEF ghosts

\* What runs matches rules a token lifts, and if it matches any the planner, a reviewer or
\* the gate itself gave it one.
LEMMA RunsLifted ==
  ASSUME Proposal \in Proposals, Allowed, FlagsTyped
  PROVE  /\ Proposal.action \in Actions /\ Proposal.action \subseteq TokenRules
         /\ Proposal.action # {} => Proposal.token \/ auto
         /\ Proposal = Use(Proposal.action, Proposal.token)
<1> DEFINE shown == Proposal.token \/ auto
<1>1. /\ Proposal.kind = "use-capability" /\ Disposition(ReasonIds(Proposal.action, shown)) = "allow"
  BY DEF Allowed, Reasons
<1>2. shown \in BOOLEAN
  BY ProposalShape DEF FlagsTyped
<1> HIDE DEF shown
<1>3. Proposal.action \subseteq TokenRules /\ (Proposal.action # {} => shown)
  BY <1>1, <1>2, AllowedAction
<1> QED
  BY <1>1, <1>3, ProposalShape DEF shown

LEMMA OutsideLoopRunsNothing ==
  ASSUME [Next]_vars, ~LoopStep PROVE executed' = executed
  BY DEF Next, vars, StartRun, ApprovePending, ClearGap, ExportReplay, EndTick, Hydrate,
         ToggleHalt, ghosts

\* An action that matches a rule no token lifts never runs, whatever is approved, claimed
\* or held, and whichever disposition decided (NativePolicyGate.evaluate_action).
THEOREM OtherRulesStand == Spec => []TokenLiftsNothingElse
<1>1. Init => TokenLiftsNothingElse
  BY DEF Init, TokenLiftsNothingElse
<1>2. ASSUME TokenLiftsNothingElse, SessionInv, [Next]_vars
      PROVE  TokenLiftsNothingElse'
  <2>1. CASE executed' = executed
    BY <1>2, <2>1 DEF TokenLiftsNothingElse
  <2>2. CASE LoopStep /\ executed' # executed
    <3>1. /\ executed' = [executed EXCEPT ![Proposal.action] = @ + 1]
          /\ Proposal.action \subseteq TokenRules
      BY <1>2, <2>2, LoopStepExecutes, RunsLifted DEF SessionInv, Ran
    <3>2. \A b \in Actions : executed'[b] = IF b = Proposal.action THEN executed[b] + 1 ELSE executed[b]
      BY <1>2, <3>1, CountOneMore DEF SessionInv, CountsTyped
    <3> QED
      BY <1>2, <3>1, <3>2 DEF TokenLiftsNothingElse
  <2> QED
    BY <1>2, <2>1, <2>2, OutsideLoopRunsNothing
<1> QED
  BY <1>1, <1>2, SessionAlways, PTL DEF Spec

\* A token is either used or still in the queue, once for each time it was given or
\* claimed: where it stands there and what is in front of it does not matter.
Queued(a) == Tokens(queue, a)
Later(a) == Tokens(Tail(queue), a)

TokensUsed == \A a \in Guarded : executed[a] + Queued(a) <= granted[a] + claimed[a]

LEMMA NothingQueued == ASSUME NEW a PROVE Tokens(<<>>, a) = 0
<1>1. <<>> \in Seq(Proposals)
  OBVIOUS
<1> QED
  BY <1>1, TokensCounted

LEMMA CountedIn ==
  ASSUME SessionInv, NEW a \in Guarded
  PROVE  /\ executed[a] \in Nat /\ granted[a] \in Nat /\ claimed[a] \in Nat /\ Queued(a) \in Nat
         /\ queue # <<>> =>
              /\ Later(a) \in Nat /\ Later(a) <= Queued(a)
              /\ Proposal = Use(a, TRUE) => Queued(a) = Later(a) + 1
<1>1. executed[a] \in Nat /\ granted[a] \in Nat /\ claimed[a] \in Nat
  BY DEF SessionInv, CountsTyped, Guarded
<1>2. queue \in Seq(Proposals)
  BY DEF SessionInv, LoopInv, LoopTyped
<1>3. Queued(a) \in Nat
  BY <1>2, TokensCounted DEF Queued
<1>4. ASSUME queue # <<>>
      PROVE  /\ Later(a) \in Nat /\ Later(a) <= Queued(a)
             /\ Proposal = Use(a, TRUE) => Queued(a) = Later(a) + 1
  <2> DEFINE first == Proposal = Use(a, TRUE)
  <2>1. Later(a) \in Nat /\ Queued(a) = Later(a) + (IF first THEN 1 ELSE 0)
    BY <1>2, <1>4, TokensCounted DEF Queued, Later, Proposal
  <2> HIDE DEF first
  <2>2. Later(a) <= Queued(a) /\ (first => Queued(a) = Later(a) + 1)
    BY <2>1
  <2> QED
    BY <2>1, <2>2 DEF first
<1>5. queue # <<>> => /\ Later(a) \in Nat /\ Later(a) <= Queued(a)
                      /\ Proposal = Use(a, TRUE) => Queued(a) = Later(a) + 1
  BY <1>4, Zenon
<1> QED
  BY <1>1, <1>3, <1>5, Zenon

\* What is left in the queue once a proposal is taken.
LEMMA LeftInQueue ==
  ASSUME SessionInv, queue # <<>>, queue' \in {Tail(queue), <<>>}, NEW a \in Guarded
  PROVE  Queued(a)' \in Nat /\ Queued(a)' <= Later(a)
<1>1. Queued(a)' = Tokens(queue', a)
  BY DEF Queued
<1>2. Later(a) \in Nat
  BY CountedIn
<1>3. CASE queue' = Tail(queue)
  <2>1. Queued(a)' = Later(a)
    BY <1>1, <1>3 DEF Later
  <2> QED
    BY <1>2, <2>1
<1>4. CASE queue' = <<>>
  <2>1. Queued(a)' = 0
    BY <1>1, <1>4, NothingQueued
  <2> QED
    BY <1>2, <2>1
<1> QED
  BY <1>3, <1>4

\* A step that runs nothing and plans nothing takes tokens away at most.
LEMMA TakingKeepsTokens ==
  ASSUME TokensUsed, SessionInv, UNCHANGED ghosts,
         queue' = queue \/ queue' = <<>> \/ (queue # <<>> /\ queue' = Tail(queue))
  PROVE  TokensUsed'
<1> SUFFICES ASSUME NEW a \in Guarded
             PROVE  executed'[a] + Queued(a)' <= granted'[a] + claimed'[a]
  BY DEF TokensUsed
<1>1. Queued(a)' \in Nat /\ Queued(a)' <= Queued(a)
  <2>0. Queued(a) \in Nat
    BY CountedIn
  <2>1. CASE queue' = queue
    <3>1. Queued(a)' = Queued(a)
      BY <2>1 DEF Queued
    <3> QED
      BY <2>0, <3>1
  <2>2. CASE queue' = <<>>
    <3>1. Queued(a)' = 0
      BY <2>2, NothingQueued DEF Queued
    <3> QED
      BY <2>0, <3>1
  <2>3. CASE queue # <<>> /\ queue' = Tail(queue)
    <3>1. Queued(a)' \in Nat /\ Queued(a)' <= Later(a)
      BY <2>3, LeftInQueue
    <3>2. Later(a) \in Nat /\ Later(a) <= Queued(a) /\ Queued(a) \in Nat
      BY <2>3, CountedIn
    <3> QED
      BY <3>1, <3>2
  <2> QED
    BY <2>1, <2>2, <2>3
<1>2. executed[a] + Queued(a) <= granted[a] + claimed[a]
  BY DEF TokensUsed
<1>3. executed[a] \in Nat /\ granted[a] \in Nat /\ claimed[a] \in Nat /\ Queued(a) \in Nat
  BY CountedIn
<1>4. executed'[a] = executed[a] /\ granted'[a] = granted[a] /\ claimed'[a] = claimed[a]
  BY DEF ghosts
<1> QED
  BY <1>1, <1>2, <1>3, <1>4

LEMMA StillCovered ==
  ASSUME NEW used \in Nat, NEW queued \in Nat, NEW later \in Nat, NEW given \in Nat, NEW by \in Nat,
         NEW ran \in {0, 1}, NEW claims \in {0, 1},
         used + queued <= given + by, later <= queued, ran = 1 => queued = later + 1 \/ claims = 1
  PROVE  (used + ran) + later <= given + (by + claims)
<1>1. CASE ran = 0
  BY <1>1
<1>2. CASE ran = 1
  BY <1>2
<1> QED
  BY <1>1, <1>2

\* A run of a guarded action uses up the token at the front, or the one its gate adds.
LEMMA RunUsesToken ==
  ASSUME TokensUsed, SessionInv, Proposal \in Proposals, Allowed, queue # <<>>, Ran,
         granted' = granted, NEW a \in Guarded
  PROVE  /\ executed'[a] + Later(a) <= granted[a] + claimed'[a]
         /\ executed'[a] \in Nat /\ claimed'[a] \in Nat
<1>1. /\ Proposal.action \in Actions /\ (Proposal.action # {} => Proposal.token \/ auto)
      /\ Proposal = Use(Proposal.action, Proposal.token) /\ Proposal.token \in BOOLEAN
  BY RunsLifted, ProposalShape DEF SessionInv
<1>2. executed[a] + Queued(a) <= granted[a] + claimed[a]
  BY DEF TokensUsed
<1>3. a # {} /\ a \in Actions
  BY DEF Guarded
<1>4. executed'[a] = IF a = Proposal.action THEN executed[a] + 1 ELSE executed[a]
  BY <1>3, CountOneMore DEF Ran, SessionInv, CountsTyped
<1>5. /\ executed[a] \in Nat /\ granted[a] \in Nat /\ claimed[a] \in Nat /\ Queued(a) \in Nat
      /\ Later(a) \in Nat /\ Later(a) <= Queued(a)
      /\ Proposal = Use(a, TRUE) => Queued(a) = Later(a) + 1
  BY CountedIn
<1>6. PICK claims \in {0, 1} : claimed'[a] = claimed[a] + claims
  <2>1. claimed' \in {claimed, [claimed EXCEPT ![Proposal.action] = @ + 1]}
    BY DEF Ran
  <2>2. claimed'[a] = claimed[a] \/ claimed'[a] = claimed[a] + 1
    BY <2>1, CountOneMore DEF SessionInv, CountsTyped
  <2>3. claimed[a] + 0 = claimed[a]
    BY <1>5
  <2> QED
    BY <2>2, <2>3
<1>7. PICK ran \in {0, 1} : executed'[a] = executed[a] + ran /\ (ran = 1 => Proposal.action = a)
  <2>1. executed[a] + 0 = executed[a]
    BY <1>5
  <2> QED
    BY <1>4, <2>1
<1>8. ran = 1 => Queued(a) = Later(a) + 1 \/ claims = 1
  <2> SUFFICES ASSUME Proposal.action = a PROVE Queued(a) = Later(a) + 1 \/ claims = 1
    BY <1>7
  <2>1. CASE Proposal.token = TRUE
    BY <1>1, <1>5, <2>1
  <2>2. CASE Proposal.token = FALSE
    <3>1. auto
      BY <1>1, <1>3, <2>2
    <3>2. claimed' = [claimed EXCEPT ![Proposal.action] = @ + 1]
      BY <2>2, <3>1 DEF Ran
    <3>3. claimed'[a] = claimed[a] + 1
      BY <3>2, CountOneMore DEF SessionInv, CountsTyped
    <3>4. claimed[a] + claims = claimed[a] + 1
      BY <1>6, <3>3
    <3> QED
      BY <1>5, <3>4
  <2> QED
    BY <1>1, <2>1, <2>2
<1>9. (executed[a] + ran) + Later(a) <= granted[a] + (claimed[a] + claims)
  BY <1>2, <1>5, <1>8, StillCovered
<1>10. executed[a] + ran \in Nat /\ claimed[a] + claims \in Nat
  BY <1>5
<1> QED
  BY <1>6, <1>7, <1>9, <1>10

LEMMA LoopStepKeepsTokens ==
  ASSUME TokensUsed, SessionInv, LoopStep PROVE TokensUsed'
<1>1. ASSUME NEW plan \in Plans, ProposePlan(plan) PROVE TokensUsed'
  <2> SUFFICES ASSUME NEW a \in Guarded
               PROVE  executed'[a] + Queued(a)' <= granted'[a] + claimed'[a]
    BY DEF TokensUsed
  <2>1. executed[a] + Queued(a) <= granted[a] + claimed[a]
    BY DEF TokensUsed
  <2>2. executed' = executed /\ granted' = granted
    BY <1>1 DEF ProposePlan
  <2>3. claimed'[a] = claimed[a] + Tokens(plan, a)
    BY <1>1, ClaimsCounted DEF SessionInv
  <2>4. Tokens(plan, a) \in Nat
    BY PlanShape, TokensCounted
  <2>5. Queued(a)' = Tokens(plan, a)
    BY <1>1 DEF ProposePlan, Queued
  <2>6. executed[a] \in Nat /\ granted[a] \in Nat /\ claimed[a] \in Nat /\ Queued(a) \in Nat
    BY CountedIn
  <2> HIDE DEF Tokens
  <2> QED
    BY <2>1, <2>2, <2>3, <2>4, <2>5, <2>6
<1>2. CASE PlannerRaises \/ EndRun
  BY <1>2, TakingKeepsTokens DEF PlannerRaises, EndRun
<1>3. CASE RejectStep \/ Replan \/ RequestApproval \/ ReportGap \/ HoldStep
  BY <1>3, TakingKeepsTokens
  DEF RejectStep, Replan, RequestApproval, ReportGap, HoldStep, TakeStep
<1>4. ASSUME NEW complete \in BOOLEAN, NEW replan \in BOOLEAN, Reason(complete, replan)
      PROVE  TokensUsed'
  <2>1. queue' \in {Tail(queue), <<>>} /\ queue # <<>> /\ UNCHANGED ghosts
    BY <1>4, ConcludeStatus DEF Reason, TakeStep
  <2> QED
    BY <2>1, TakingKeepsTokens
<1>5. CASE /\ Proposal \in Proposals /\ Allowed /\ queue # <<>> /\ Ran
           /\ queue' \in {Tail(queue), <<>>} /\ granted' = granted
  <2> SUFFICES ASSUME NEW a \in Guarded
               PROVE  executed'[a] + Queued(a)' <= granted'[a] + claimed'[a]
    BY DEF TokensUsed
  <2>1. /\ executed'[a] + Later(a) <= granted[a] + claimed'[a]
        /\ executed'[a] \in Nat /\ claimed'[a] \in Nat
    BY <1>5, RunUsesToken
  <2>2. Queued(a)' \in Nat /\ Queued(a)' <= Later(a)
    BY <1>5, LeftInQueue
  <2>3. Later(a) \in Nat /\ granted[a] \in Nat /\ granted'[a] = granted[a]
    BY <1>5, CountedIn
  <2> QED
    BY <2>1, <2>2, <2>3
<1>6. CASE \/ FailStep \/ RouterRaises
           \/ \E complete, replan \in BOOLEAN : ExecuteStep(complete, replan)
  BY <1>5, <1>6, RunStep
<1> QED
  BY <1>1, <1>2, <1>3, <1>4, <1>6 DEF LoopStep

LEMMA ApproveKeepsTokens ==
  ASSUME TokensUsed, SessionInv, NEW i \in 1 .. Len(pending), ApprovePending(i) PROVE TokensUsed'
<1>1. /\ pending[i] \in Proposals /\ executed' = executed /\ claimed' = claimed
      /\ \/ queue' = queue /\ granted' = granted
         \/ /\ pending[i].kind = "use-capability"
            /\ queue' = <<Use(pending[i].action, TRUE)>> \o queue
            /\ granted' = [granted EXCEPT ![pending[i].action] = @ + 1]
  BY ApproveShape DEF ApprovePending, SessionInv
<1>2. CASE queue' = queue /\ granted' = granted
  BY <1>1, <1>2, TakingKeepsTokens DEF ghosts
<1>3. CASE /\ pending[i].kind = "use-capability"
           /\ queue' = <<Use(pending[i].action, TRUE)>> \o queue
           /\ granted' = [granted EXCEPT ![pending[i].action] = @ + 1]
  <2> DEFINE given == pending[i].action
             e == Use(given, TRUE)
  <2>1. given \in Actions /\ e \in Proposals
    BY <1>1, <1>3, ProposalShape, TokenProposal
  <2>2. queue \in Seq(Proposals)
    BY DEF SessionInv, LoopInv, LoopTyped
  <2> SUFFICES ASSUME NEW a \in Guarded
               PROVE  executed'[a] + Queued(a)' <= granted'[a] + claimed'[a]
    BY DEF TokensUsed
  <2>3. granted'[a] = IF a = given THEN granted[a] + 1 ELSE granted[a]
    BY <1>3, CountOneMore DEF SessionInv, CountsTyped
  <2>4. e = Use(a, TRUE) => a = given
    BY DEF Use
  <2>5. queue' = <<e>> \o queue
    BY <1>3
  <2> HIDE DEF given, e
  <2>6. queue' \in Seq(Proposals) /\ queue' # <<>> /\ Tail(queue') = queue /\ Head(queue') = e
    BY <2>1, <2>2, <2>5
  <2>7. /\ Queued(a)' \in Nat
        /\ Queued(a)' = Queued(a) + (IF e = Use(a, TRUE) THEN 1 ELSE 0)
    BY <2>6, TokensCounted DEF Queued
  <2>8. executed[a] + Queued(a) <= granted[a] + claimed[a]
    BY DEF TokensUsed
  <2>9. executed[a] \in Nat /\ granted[a] \in Nat /\ claimed[a] \in Nat /\ Queued(a) \in Nat
    BY CountedIn
  <2>10. Queued(a)' <= Queued(a) + (IF a = given THEN 1 ELSE 0)
    <3>1. CASE e = Use(a, TRUE)
      BY <2>4, <2>7, <2>9, <3>1
    <3>2. CASE e # Use(a, TRUE)
      BY <2>7, <2>9, <3>2
    <3> QED
      BY <3>1, <3>2
  <2>11. executed'[a] = executed[a] /\ claimed'[a] = claimed[a]
    BY <1>1
  <2>12. CASE a = given
    <3>1. granted'[a] = granted[a] + 1 /\ Queued(a)' <= Queued(a) + 1
      BY <2>3, <2>10, <2>12
    <3>2. Queued(a)' \in Nat
      BY <2>7
    <3> QED
      BY <2>8, <2>9, <2>11, <3>1, <3>2
  <2>13. CASE a # given
    <3>1. granted'[a] = granted[a] /\ Queued(a)' <= Queued(a) + 0
      BY <2>3, <2>10, <2>13
    <3>2. Queued(a)' \in Nat
      BY <2>7
    <3> QED
      BY <2>8, <2>9, <2>11, <3>1, <3>2
  <2> QED
    BY <2>12, <2>13
<1> QED
  BY <1>1, <1>2, <1>3

LEMMA StepTokens == ASSUME TokensUsed, SessionInv, [Next]_vars PROVE TokensUsed'
<1>1. CASE UNCHANGED <<queue, executed, granted, claimed>>
  BY <1>1, TakingKeepsTokens DEF ghosts
<1>2. CASE Hydrate
  BY <1>2, TakingKeepsTokens DEF Hydrate
<1> QED
  BY <1>1, <1>2, LoopStepKeepsTokens, ApproveKeepsTokens
  DEF Next, vars, StartRun, ClearGap, ExportReplay, EndTick, ToggleHalt, ghosts

LEMMA InitTokens == Init => TokensUsed
<1> SUFFICES ASSUME Init, NEW a \in Guarded
             PROVE  executed[a] + Queued(a) <= granted[a] + claimed[a]
  BY DEF TokensUsed
<1>1. executed[a] = 0 /\ granted[a] = 0 /\ claimed[a] = 0
  BY DEF Init, Guarded
<1>2. Queued(a) = 0
  BY NothingQueued DEF Init, Queued
<1> QED
  BY <1>1, <1>2

\* Through holds, replans and resumed replays, an action that requires approval runs at
\* most once for each token: a reviewer's (RuntimeSession.approve_pending), one the model
\* put in a payload (PromptDrivenPlanner._parse_response), or an _AutoApproveGate's.
THEOREM OneRunForEachToken == Spec => []OneRunPerToken
<1>1. TokensUsed /\ SessionInv => OneRunPerToken
  <2> SUFFICES ASSUME TokensUsed, SessionInv, NEW a \in Guarded
               PROVE  executed[a] <= granted[a] + claimed[a]
    BY DEF OneRunPerToken
  <2>1. executed[a] + Queued(a) <= granted[a] + claimed[a]
    BY DEF TokensUsed
  <2>2. executed[a] \in Nat /\ granted[a] \in Nat /\ claimed[a] \in Nat /\ Queued(a) \in Nat
    BY CountedIn
  <2> QED
    BY <2>1, <2>2
<1> QED
  BY <1>1, InitTokens, StepTokens, SessionAlways, PTL DEF Spec

\* What holds of an action for which no token was ever claimed.
ReviewersCover == \A a \in Guarded : claimed[a] = 0 => executed[a] <= granted[a]

\* With a planner that sends no token and a gate that adds none, a reviewer's approvals
\* cover every run of an action that requires them.
THEOREM ReviewersCoverTheRest == Spec => []ReviewersCover
<1>1. ASSUME OneRunPerToken, SessionInv, NEW a \in Guarded, claimed[a] = 0
      PROVE  executed[a] <= granted[a]
  <2>1. executed[a] \in Nat /\ granted[a] \in Nat /\ claimed[a] \in Nat
    BY <1>1, CountedIn
  <2> QED
    BY <1>1, <2>1 DEF OneRunPerToken
<1>2. OneRunPerToken /\ SessionInv => ReviewersCover
  BY <1>1 DEF ReviewersCover
<1> QED
  BY <1>2, OneRunForEachToken, SessionAlways, PTL

-----------------------------------------------------------------------------
(* The book of tokens *)

\* What runs is not barred, and if it needs a token one is left.
LEMMA RunsAreCovered ==
  ASSUME TokensUsed, SessionInv,
         \/ FailStep \/ RouterRaises
         \/ \E complete, replan \in BOOLEAN : ExecuteStep(complete, replan)
  PROVE  \E a \in Actions : Approvals!Run(a)
<1> DEFINE a == Proposal.action
<1>1. /\ Proposal \in Proposals /\ Allowed /\ queue # <<>> /\ Ran /\ granted' = granted
      /\ executed' = [executed EXCEPT ![a] = @ + 1]
  BY RunStep DEF Ran
<1>2. a \in Actions /\ a \subseteq TokenRules
  BY <1>1, RunsLifted DEF SessionInv
<1>3. claimed' \in {claimed, [claimed EXCEPT ![a] = @ + 1]}
  BY <1>1 DEF Ran
<1> HIDE DEF a
<1>4. ASSUME a \in Guarded PROVE executed[a] < granted[a] + claimed'[a]
  <2>1. executed'[a] + Later(a) <= granted[a] + claimed'[a] /\ claimed'[a] \in Nat
    BY <1>1, <1>4, RunUsesToken
  <2>2. executed'[a] = executed[a] + 1
    BY <1>1, <1>2, CountOneMore DEF SessionInv, CountsTyped
  <2>3. executed[a] \in Nat /\ granted[a] \in Nat /\ Later(a) \in Nat
    BY <1>1, <1>4, CountedIn
  <2> QED
    BY <2>1, <2>2, <2>3
<1>5. Approvals!Run(a)
  BY <1>1, <1>2, <1>3, <1>4 DEF Approvals!Run
<1> QED
  BY <1>2, <1>5

LEMMA PlansClaim ==
  ASSUME SessionInv, NEW plan \in Plans, ProposePlan(plan) PROVE Approvals!Claim
<1>1. /\ claimed' \in [Guarded -> Nat] /\ executed' = executed /\ granted' = granted
      /\ \A a \in Guarded : claimed'[a] = claimed[a] + Tokens(plan, a)
  BY ClaimsCounted DEF SessionInv, CountsTyped, ProposePlan
<1>2. \A a \in Guarded : Tokens(plan, a) \in Nat
  BY PlanShape, TokensCounted
<1>3. \A a \in Guarded : claimed'[a] >= claimed[a]
  <2>1. \A a \in Guarded : claimed[a] \in Nat
    BY DEF SessionInv, CountsTyped
  <2> QED
    BY <1>1, <1>2, <2>1
<1> QED
  BY <1>1, <1>3 DEF Approvals!Claim

LEMMA ApprovalStep ==
  ASSUME TokensUsed, SessionInv, [Next]_vars PROVE [Approvals!Next]_<<granted, claimed, executed>>
<1>1. CASE UNCHANGED <<granted, claimed, executed>>
  BY <1>1
<1>2. CASE \E plan \in Plans : ProposePlan(plan)
  BY <1>2, PlansClaim DEF Approvals!Next
<1>3. CASE \/ FailStep \/ RouterRaises
           \/ \E complete, replan \in BOOLEAN : ExecuteStep(complete, replan)
  BY <1>3, RunsAreCovered DEF Approvals!Next
<1>4. ASSUME NEW i \in 1 .. Len(pending), ApprovePending(i)
      PROVE  [Approvals!Next]_<<granted, claimed, executed>>
  <2>1. executed' = executed /\ claimed' = claimed
    BY <1>4 DEF ApprovePending
  <2>2. CASE pending[i].kind = "use-capability" /\ pending[i].action \in Guarded
    <3>1. Approvals!Approve(pending[i].action)
      BY <1>4, <2>1, <2>2 DEF ApprovePending, Approvals!Approve
    <3> QED
      BY <2>2, <3>1 DEF Approvals!Next
  <2>3. CASE ~(pending[i].kind = "use-capability" /\ pending[i].action \in Guarded)
    <3>1. granted' \in {granted, [granted EXCEPT ![pending[i].action] = @ + 1]}
      BY <1>4 DEF ApprovePending
    <3>2. pending[i].kind = "use-capability" \/ granted' = granted
      BY <1>4 DEF ApprovePending
    <3>3. granted \in [Guarded -> Nat]
      BY DEF SessionInv, CountsTyped
    <3>4. granted' = granted
      BY <2>3, <3>1, <3>2, <3>3
    <3> QED
      BY <2>1, <3>4
  <2> QED
    BY <2>2, <2>3
<1> QED
  BY <1>1, <1>2, <1>3, <1>4, OtherSteps
  DEF Next, vars, StartRun, ClearGap, ExportReplay, EndTick, Hydrate, ToggleHalt, ghosts

\* Whoever sees only what was approved, what was claimed and what ran, sees the book of
\* tokens: an action no token lifts never runs, and one that requires approval uses up one
\* token for each run, whoever it is from (NativePolicyGate.evaluate_action,
\* RuntimeSession.approve_pending, hydration).
THEOREM SessionImplementsApprovals == Spec => ImplementsApprovals
<1>1. Init => Approvals!Init
  BY DEF Init, Approvals!Init
<1>2. TokensUsed /\ SessionInv /\ [Next]_vars => [Approvals!Next]_<<granted, claimed, executed>>
  BY ApprovalStep
<1>3. TokensUsed /\ SessionInv /\ [Next]_vars => TokensUsed'
  BY StepTokens
<1> QED
  BY <1>1, <1>2, <1>3, InitTokens, SessionAlways, PTL DEF Spec, ImplementsApprovals, Approvals!Spec

-----------------------------------------------------------------------------
(* How long a run is *)

\* The steps of the loop that a call of run() may still take: a step uses up one of
\* max_steps, and before each of them the planner may be asked once; then the loop is left.
StepsToGo ==
  IF ~active THEN 0
  ELSE IF status # "running" THEN 1
  ELSE 2 * (MaxSteps - counter) + (IF queue = <<>> THEN 1 ELSE 0) + 2

RunBounded == StepsToGo \in 0 .. 2 * MaxSteps + 3

\* Every step of the loop brings run() nearer to its end; nothing else that happens
\* meanwhile moves it away.
RunAdvances ==
  [][active => /\ LoopStep => StepsToGo' < StepsToGo
               /\ ~LoopStep => StepsToGo' = StepsToGo]_vars

LEMMA StepsInBounds == ASSUME SessionInv PROVE RunBounded
<1>1. counter \in 0 .. MaxSteps /\ MaxSteps \in Nat
  BY SessionBoundsAssumption DEF SessionInv, LoopInv, LoopTyped
<1> QED
  BY <1>1 DEF RunBounded, StepsToGo

\* A step that counts is worth more than the question to the planner it may lead to.
LEMMA CountedStepAdvances ==
  ASSUME SessionInv, Looping, counter' = counter + 1 \/ active' = FALSE
  PROVE  StepsToGo' < StepsToGo
<1>1. counter \in Nat /\ MaxSteps \in Nat /\ counter < MaxSteps /\ active /\ status = "running"
  BY SessionBoundsAssumption DEF SessionInv, LoopInv, LoopTyped, Looping
<1>2. StepsToGo >= 2 * (MaxSteps - counter) + 2 /\ StepsToGo \in Nat
  BY <1>1 DEF StepsToGo
<1>3. CASE active' = FALSE
  BY <1>1, <1>2, <1>3 DEF StepsToGo
<1>4. CASE counter' = counter + 1
  <2>1. StepsToGo' <= 2 * (MaxSteps - (counter + 1)) + 3 /\ StepsToGo' \in Int
    BY <1>1, <1>4 DEF StepsToGo
  <2> QED
    BY <1>1, <1>2, <2>1
<1> QED
  BY <1>3, <1>4

LEMMA LoopStepAdvances == ASSUME SessionInv, LoopStep PROVE StepsToGo' < StepsToGo
<1>c. counter \in 0 .. MaxSteps /\ MaxSteps \in Nat
  BY SessionBoundsAssumption DEF SessionInv, LoopInv, LoopTyped
<1>1. ASSUME NEW plan \in Plans, ProposePlan(plan) PROVE StepsToGo' < StepsToGo
  <2>1. /\ active /\ status = "running" /\ queue = <<>> /\ counter < MaxSteps
        /\ active' = active /\ counter' = counter /\ queue' = plan
        /\ plan = <<>> => status' # "running"
    BY <1>1 DEF ProposePlan, Looping
  <2>2. StepsToGo = 2 * (MaxSteps - counter) + 3
    BY <1>c, <2>1 DEF StepsToGo
  <2>3. CASE plan = <<>>
    <3>1. StepsToGo' = 1
      BY <2>1, <2>3 DEF StepsToGo
    <3> QED
      BY <1>c, <2>1, <2>2, <3>1
  <2>4. CASE plan # <<>>
    <3>1. StepsToGo' \in {1, 2 * (MaxSteps - counter) + 2}
      BY <1>c, <2>1, <2>4 DEF StepsToGo
    <3> QED
      BY <1>c, <2>1, <2>2, <3>1
  <2> QED
    BY <2>3, <2>4
<1>2. CASE PlannerRaises \/ RouterRaises
  BY <1>2, CountedStepAdvances DEF PlannerRaises, RouterRaises
<1>3. CASE TakeStep
  BY <1>3, CountedStepAdvances DEF TakeStep
<1>4. CASE EndRun
  <2>1. active /\ ~Looping /\ active' = FALSE
    BY <1>4 DEF EndRun
  <2>2. StepsToGo' = 0
    BY <2>1 DEF StepsToGo
  <2>3. StepsToGo > 0
    BY <1>c, <2>1 DEF StepsToGo
  <2> QED
    BY <2>2, <2>3
<1> QED
  BY <1>1, <1>2, <1>3, <1>4
  DEF LoopStep, RejectStep, Replan, RequestApproval, ReportGap, Reason, ExecuteStep, HoldStep, FailStep

\* A call of run() takes at most 2 * max_steps + 3 steps, whatever the planner proposes:
\* replans, holds and reviews use up steps as well (RuntimeSession.run).
THEOREM RunIsBounded == Spec => []RunBounded /\ RunAdvances
<1> DEFINE Advances ==
      active => /\ LoopStep => StepsToGo' < StepsToGo
                /\ ~LoopStep => StepsToGo' = StepsToGo
<1>1. ASSUME SessionInv, Next PROVE Advances
  <2> SUFFICES ASSUME active, ~LoopStep PROVE StepsToGo' = StepsToGo
    BY <1>1, LoopStepAdvances
  <2>1. UNCHANGED <<active, status, counter, queue>>
    BY <1>1
    DEF Next, StartRun, ApprovePending, ClearGap, ExportReplay, EndTick, Hydrate, ToggleHalt
  <2> QED
    BY <2>1 DEF StepsToGo
<1>2. SessionInv /\ [Next]_vars => [Advances]_vars
  BY <1>1
<1> QED
  BY <1>2, StepsInBounds, SessionAlways, PTL DEF Spec, RunAdvances
=============================================================================

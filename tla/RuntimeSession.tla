--------------------------- MODULE RuntimeSession ---------------------------
(***************************************************************************)
(* RuntimeSession: the loop that takes proposals from a planner, passes    *)
(* each through the policy gate, executes it and writes the step ledger;   *)
(* approve_pending, by which a reviewer resumes a held session; and the    *)
(* replay file from which another process hydrates the session.            *)
(*                                                                         *)
(* The planner, the execution router, the reviewer and the operator of the *)
(* halt file are the environment.  An action (a capability and a payload)  *)
(* is the set of policy rules it matches.  Its payload is the model's, so  *)
(* it may carry an approval token that nobody gave, which the gate takes   *)
(* like any other; and a runner may use a gate that adds one to each.      *)
(***************************************************************************)
EXTENDS PolicyGate, FiniteSets

CONSTANTS
  Actions,      \* the actions a planner may propose, as sets of rules
  MaxSteps,     \* max_steps of run()
  MaxPlan,      \* bound: proposals in one plan
  MaxSessions   \* bound: sessions hydrated from the replay, and the first one

ASSUME ActionsAssumption == Actions \subseteq SUBSET Rules
ASSUME SessionBoundsAssumption ==
  MaxSteps \in Nat /\ MaxPlan \in Nat \ {0} /\ MaxSessions \in Nat \ {0}

VARIABLES
  status,     \* session.status
  active,     \* is run() in its loop?
  queue,      \* plan_queue
  pending,    \* pending_approvals
  counter,    \* _step_counter
  ledger,     \* step_ledger: the step number of each entry
  goal,       \* session_state["goal_satisfied"]
  gap,        \* session_state["reported_gap"]
  alive,      \* is the session object still in use?
  replay,     \* the replay file, or NoReplay
  session,    \* which session object this is (bounded by MaxSessions)
  auto,       \* is policy_gate an _AutoApproveGate?
  halted,     \* does the halt file exist?
  executed,   \* ghost: times the router or the memory store ran each action
  granted,    \* ghost: approvals a reviewer gave for each action
  claimed     \* ghost: tokens for it that came from no reviewer

vars == <<status, active, queue, pending, counter, ledger, goal, gap, alive, replay,
          session, auto, halted, executed, granted, claimed>>

Statuses == {"running", "hold", "paused", "failed", "complete"}

\* The actions that require a reviewer's approval.
Guarded == {a \in Actions : "approval-required" \in a /\ a \subseteq TokenRules}

\* A proposal: its kind and, for use-capability, the action and whether its
\* payload carries an approval token.
Simple(kind) == [kind |-> kind, action |-> {}, token |-> FALSE]
Use(action, token) == [kind |-> "use-capability", action |-> action, token |-> token]

\* "unknown": a kind that is none of StepKind, or a capability that the manifest
\* does not declare.
OtherKinds == {"unknown", "replan", "request-approval", "report-gap", "reason"}

\* The payload of a model's step or tool call is taken as it is, token and all.
Proposals ==
  {Simple(k) : k \in OtherKinds} \union {Use(a, token) : a \in Actions, token \in BOOLEAN}

Plans == UNION {[1 .. n -> Proposals] : n \in 0 .. MaxPlan}

\* The proposals among these that carry a token for an action.
Tokens(proposals, a) ==
  Cardinality({i \in DOMAIN proposals : proposals[i] = Use(a, TRUE)})

NoReplay == [status |-> "none"]

TypeOK ==
  /\ status \in Statuses
  /\ active \in BOOLEAN
  /\ queue \in Seq(Proposals)
  /\ pending \in Seq(Proposals)
  /\ counter \in 0 .. MaxSteps
  /\ ledger \in Seq(1 .. MaxSteps)
  /\ goal \in BOOLEAN /\ gap \in BOOLEAN /\ alive \in BOOLEAN
  /\ \/ replay = NoReplay
     \/ /\ replay.status \in Statuses
        /\ replay.pending \in Seq(Proposals)
        /\ replay.ledger \in Seq(1 .. MaxSteps)
        /\ replay.goal \in BOOLEAN /\ replay.gap \in BOOLEAN
  /\ session \in 1 .. MaxSessions
  /\ auto \in BOOLEAN /\ halted \in BOOLEAN
  /\ executed \in [Actions -> Nat] /\ granted \in [Guarded -> Nat]
  /\ claimed \in [Guarded -> Nat]

Init ==
  /\ status = "running"
  /\ active = FALSE
  /\ queue = <<>> /\ pending = <<>>
  /\ counter = 0 /\ ledger = <<>>
  /\ goal = FALSE /\ gap = FALSE
  /\ alive = TRUE
  /\ replay = NoReplay
  /\ session = 1
  /\ auto \in BOOLEAN
  /\ halted = FALSE
  /\ executed = [a \in Actions |-> 0]
  /\ granted = [a \in Guarded |-> 0] /\ claimed = [a \in Guarded |-> 0]

ghosts == <<executed, granted, claimed>>
outside == <<alive, replay, session, auto, halted>>

-----------------------------------------------------------------------------
(* run() *)

StartRun ==
  /\ alive /\ ~active
  /\ active' = TRUE
  /\ UNCHANGED <<status, queue, pending, counter, ledger, goal, gap, outside, ghosts>>

\* Mutant: one step too many.
LoopingPastBound == active /\ status = "running" /\ counter <= MaxSteps

Looping == active /\ status = "running" /\ counter < MaxSteps

\* Mutant: whoever used up the steps is paused, also a session that failed.
EndRunPausingAll ==
  /\ active
  /\ ~Looping
  /\ active' = FALSE
  /\ status' = IF counter = MaxSteps THEN "paused" ELSE status
  /\ UNCHANGED <<queue, pending, counter, ledger, goal, gap, outside, ghosts>>

\* The loop is left; a session that still runs has used up its steps.
EndRun ==
  /\ active
  /\ ~Looping
  /\ active' = FALSE
  /\ status' = IF status = "running" THEN "paused" ELSE status
  /\ UNCHANGED <<queue, pending, counter, ledger, goal, gap, outside, ghosts>>

\* propose_plan is asked only when the queue is empty; an empty plan ends the run.
ProposePlan(plan) ==
  /\ Looping
  /\ queue = <<>>
  /\ queue' = plan
  /\ status' = IF plan # <<>> THEN status ELSE IF goal THEN "complete" ELSE "failed"
  /\ claimed' = [a \in Guarded |-> claimed[a] + Tokens(plan, a)]
  /\ UNCHANGED <<active, pending, counter, ledger, goal, gap, outside, executed, granted>>

\* The memory read at the head of the loop raises, or the planner does: the
\* exception leaves run() and ends the session's use.
PlannerRaises ==
  /\ Looping
  /\ active' = FALSE
  /\ alive' = FALSE
  /\ UNCHANGED <<status, queue, pending, counter, ledger, goal, gap, replay, session, auto, halted, ghosts>>

\* The next proposal is taken and the step counted and entered in the ledger.
TakeStep ==
  /\ Looping
  /\ queue # <<>>
  /\ counter' = counter + 1
  /\ ledger' = Append(ledger, counter + 1)

Proposal == Head(queue)

RejectStep ==
  /\ TakeStep
  /\ Proposal.kind = "unknown"
  /\ status' = "failed"
  /\ queue' = Tail(queue)
  /\ UNCHANGED <<active, pending, goal, gap, outside, ghosts>>

\* Mutant: a replan does not use up a step.
ReplanUncounted ==
  /\ Looping
  /\ queue # <<>>
  /\ Proposal.kind = "replan"
  /\ queue' = <<>>
  /\ UNCHANGED <<status, active, pending, counter, ledger, goal, gap, outside, ghosts>>

Replan ==
  /\ TakeStep
  /\ Proposal.kind = "replan"
  /\ queue' = <<>>
  /\ UNCHANGED <<status, active, pending, goal, gap, outside, ghosts>>

\* Mutant: the request does not hold the session.
RequestApprovalAndGoOn ==
  /\ TakeStep
  /\ Proposal.kind = "request-approval"
  /\ pending' = Append(pending, Proposal)
  /\ queue' = Tail(queue)
  /\ UNCHANGED <<status, active, goal, gap, outside, ghosts>>

RequestApproval ==
  /\ TakeStep
  /\ Proposal.kind = "request-approval"
  /\ pending' = Append(pending, Proposal)
  /\ status' = "hold"
  /\ queue' = Tail(queue)
  /\ UNCHANGED <<active, goal, gap, outside, ghosts>>

ReportGap ==
  /\ TakeStep
  /\ Proposal.kind = "report-gap"
  /\ gap' = TRUE
  /\ status' = "hold"
  /\ queue' = Tail(queue)
  /\ UNCHANGED <<active, pending, goal, outside, ghosts>>

\* Mutant: the proposal is looked at and not taken off the queue.
ConcludeWithoutPop(complete, replan) ==
  /\ goal' = (goal \/ complete)
  /\ status' = IF complete THEN "complete" ELSE status
  /\ queue' = IF replan THEN <<>> ELSE queue

\* mark_complete and requires_replan: what a reason step or a result asks for.
Conclude(complete, replan) ==
  /\ goal' = (goal \/ complete)
  /\ status' = IF complete THEN "complete" ELSE status
  /\ queue' = IF replan THEN <<>> ELSE Tail(queue)

Reason(complete, replan) ==
  /\ TakeStep
  /\ Proposal.kind = "reason"
  /\ Conclude(complete, replan)
  /\ UNCHANGED <<active, pending, gap, outside, ghosts>>

\* An auto-approving gate puts a token of its own in what it is shown.
Reasons == ReasonIds(Proposal.action, Proposal.token \/ auto)

\* The gate does not allow the action: the session is held, and a reviewer is
\* asked only if "approval-required" itself is among the reasons.
HoldStep ==
  /\ TakeStep
  /\ Proposal.kind = "use-capability"
  /\ Disposition(Reasons) # "allow"
  /\ pending' = IF "approval-required" \in Reasons THEN Append(pending, Proposal) ELSE pending
  /\ status' = "hold"
  /\ queue' = Tail(queue)
  /\ UNCHANGED <<active, goal, gap, outside, ghosts>>

\* The halt check in front of the gate looks for an attribute no session is
\* given, so it stops nothing: halted is not in the guard.
Allowed ==
  /\ Proposal.kind = "use-capability"
  /\ Disposition(Reasons) = "allow"

\* The router or the memory store is called; if the gate added the token, that
\* one counts as well.
Ran ==
  /\ executed' = [executed EXCEPT ![Proposal.action] = @ + 1]
  /\ claimed' = IF auto /\ ~Proposal.token THEN [claimed EXCEPT ![Proposal.action] = @ + 1]
                ELSE claimed

ExecuteStep(complete, replan) ==
  /\ TakeStep
  /\ Allowed
  /\ Ran
  /\ Conclude(complete, replan)
  /\ UNCHANGED <<active, pending, gap, outside, granted>>

FailStep ==
  /\ TakeStep
  /\ Allowed
  /\ Ran
  /\ status' = "failed"
  /\ queue' = Tail(queue)
  /\ UNCHANGED <<active, pending, goal, gap, outside, granted>>

\* The router raises instead of answering: the step is counted, not entered in
\* the ledger.
RouterRaises ==
  /\ Looping
  /\ queue # <<>>
  /\ Allowed
  /\ Ran
  /\ counter' = counter + 1
  /\ queue' = Tail(queue)
  /\ active' = FALSE
  /\ alive' = FALSE
  /\ UNCHANGED <<status, pending, ledger, goal, gap, replay, session, auto, halted, granted>>

LoopStep ==
  \/ \E plan \in Plans : ProposePlan(plan)
  \/ PlannerRaises
  \/ RejectStep
  \/ Replan
  \/ RequestApproval
  \/ ReportGap
  \/ \E complete, replan \in BOOLEAN : Reason(complete, replan) \/ ExecuteStep(complete, replan)
  \/ HoldStep
  \/ FailStep
  \/ RouterRaises
  \/ EndRun

-----------------------------------------------------------------------------
(* Between runs *)

\* approve_pending: a capability comes back to the front of the queue with the
\* token in its payload, any other proposal just resumes the session.
ApprovePending(i) ==
  /\ alive /\ ~active
  /\ i \in 1 .. Len(pending)
  /\ pending' = SubSeq(pending, 1, i - 1) \o SubSeq(pending, i + 1, Len(pending))
  /\ IF pending[i].kind = "use-capability"
       THEN /\ queue' = <<Use(pending[i].action, TRUE)>> \o queue
            /\ granted' = [granted EXCEPT ![pending[i].action] = @ + 1]
       ELSE UNCHANGED <<queue, granted>>
  /\ status' = "running"
  /\ UNCHANGED <<active, counter, ledger, goal, gap, outside, executed, claimed>>

\* AgentRunner.tick, auto-approving: a reported gap is cleared and the session
\* set running if nothing waits for approval.
ClearGap ==
  /\ alive /\ ~active
  /\ auto
  /\ status = "hold" /\ pending = <<>> /\ gap
  /\ gap' = FALSE
  /\ status' = "running"
  /\ UNCHANGED <<active, queue, pending, counter, ledger, goal, outside, ghosts>>

\* write_session_replay_json: the plan queue and the step counter are not in it.
Exported(finalStatus) ==
  [status |-> finalStatus, pending |-> pending, ledger |-> ledger, goal |-> goal, gap |-> gap]

\* `forge resume-replay` writes the session back as it is.
ExportReplay ==
  /\ alive /\ ~active
  /\ replay' = Exported(status)
  /\ UNCHANGED <<status, active, queue, pending, counter, ledger, goal, gap, alive, session,
                 auto, halted, ghosts>>

\* AgentRunner.tick ends: a held or paused session is written as a complete one,
\* pending approvals and all, and is dropped.
EndTick ==
  /\ alive /\ ~active
  /\ status' = IF status \in {"hold", "paused"} THEN "complete" ELSE status
  /\ replay' = Exported(status')
  /\ alive' = FALSE
  /\ UNCHANGED <<active, queue, pending, counter, ledger, goal, gap, session, auto, halted, ghosts>>

\* Mutant: the step counter starts over.
HydrateFromZero ==
  /\ ~active
  /\ replay # NoReplay
  /\ session < MaxSessions
  /\ session' = session + 1
  /\ status' = replay.status
  /\ pending' = replay.pending
  /\ ledger' = replay.ledger
  /\ counter' = 0
  /\ goal' = replay.goal /\ gap' = replay.gap
  /\ alive' = TRUE
  /\ queue' = <<>>
  /\ auto' = FALSE
  /\ UNCHANGED <<active, replay, halted, ghosts>>

\* hydrate_session_from_replay, in a new process, maybe not for the first time.
\* The command that does it leaves the session its plain gate.
Hydrate ==
  /\ ~active
  /\ replay # NoReplay
  /\ session < MaxSessions
  /\ session' = session + 1
  /\ status' = replay.status
  /\ pending' = replay.pending
  /\ ledger' = replay.ledger
  /\ counter' = Len(replay.ledger)
  /\ goal' = replay.goal /\ gap' = replay.gap
  /\ alive' = TRUE
  /\ queue' = <<>>
  /\ auto' = FALSE
  /\ UNCHANGED <<active, replay, halted, ghosts>>

ToggleHalt ==
  /\ halted' = ~halted
  /\ UNCHANGED <<status, active, queue, pending, counter, ledger, goal, gap, alive, replay,
                 session, auto, ghosts>>

Next ==
  \/ StartRun
  \/ LoopStep
  \/ \E i \in 1 .. Len(pending) : ApprovePending(i)
  \/ ClearGap
  \/ ExportReplay
  \/ EndTick
  \/ Hydrate
  \/ ToggleHalt

\* run() is a plain loop: once called it takes its steps.
Spec == Init /\ [][Next]_vars /\ WF_vars(LoopStep)

-----------------------------------------------------------------------------
(* Properties *)

\* approve_pending sets the session running whatever its status.  What it can
\* revive is a held session, or one that a runner's tick wrote as complete, and
\* never more than one approval is pending.
PendingMeansHeld ==
  pending # <<>> => status \in {"hold", "complete"} /\ Len(pending) = 1

\* A session that failed stays failed; only another one, hydrated from an older
\* replay, starts over.
FailureIsFinal == [][status = "failed" /\ session' = session => status' = "failed"]_vars

\* A token is good for one run: an action that requires approval runs at most
\* once for each approval a reviewer gave, each proposal the planner made with a
\* token of its own and each token of an auto-approving gate, through holds,
\* replans and resumed replays.  With neither of the last two, every run is
\* covered by a reviewer.
OneRunPerToken == \A a \in Guarded : executed[a] <= granted[a] + claimed[a]

\* A token lifts the approval rules and no other: an action that matches any
\* other rule never runs, although a later hold hides an earlier deny.
TokenLiftsNothingElse ==
  \A a \in Actions : executed[a] > 0 => a \subseteq TokenRules

\* To a reviewer, planning, holds, replans, retries and hydrations are a book of
\* tokens, each used at most once and then in one step.
Approvals == INSTANCE ApprovalBook
               WITH Barred <- {a \in Actions : ~(a \subseteq TokenRules)},
                    given <- granted, used <- executed
ImplementsApprovals == Approvals!Spec

\* The ledger accounts for every step, in order and without gaps or repeats,
\* also after the session was hydrated from a replay.
LedgerContiguous ==
  /\ alive => counter = Len(ledger)
  /\ \A i \in 1 .. Len(ledger) : ledger[i] = i

\* run() returns: replans and reviews use up steps as well.
RunTerminates == active ~> ~active

\* No capability runs while the halt file exists (runtime.py, "Global halt check
\* BEFORE policy evaluation and execution").
NothingRunsWhileHalted == [][executed' # executed => ~halted]_vars
=============================================================================

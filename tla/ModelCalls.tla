----------------------------- MODULE ModelCalls -----------------------------
(***************************************************************************)
(* PromptDrivenPlanner and HeuristicPlanner (planner.py), the model        *)
(* clients they call (models.py, adapters/function_call.py), and the two   *)
(* loops that retry a request: _with_retry of the models and               *)
(* _request_with_retry of http.py.                                         *)
(*                                                                         *)
(* A response is what the planner makes of it: steps, none, or a failure.  *)
(* A step is its kind and the capability it names.  Delays are whole units *)
(* and jitter is left out.                                                 *)
(***************************************************************************)
EXTENDS Integers, Sequences, SequencesExt

CONSTANTS
  Manifests,     \* sets of declared capabilities
  Undeclared,    \* a capability no manifest declares
  MaxPlanSteps,  \* max_plan_steps
  Attempts,      \* retry_attempts of a model
  MaxRetries,    \* RetryPolicy.max_retries
  MaxDelay,      \* the cap on the delay of both
  RetryAfters,   \* values of the Retry-After header, 0 if there is none
  MaxPlans       \* bound: plans proposed

ASSUME ModelAssumption ==
  /\ MaxPlanSteps \in Nat /\ Attempts \in Nat /\ MaxRetries \in Nat
  /\ MaxDelay \in Nat \ {0} /\ RetryAfters \subseteq Nat /\ MaxPlans \in Nat

VARIABLES
  toolMode,   \* tool_mode, and whether the model has complete_with_tools
  declared,   \* capability ids of the manifest
  held,       \* the working set
  recalled,   \* memory.read is in the ledger, or there is nothing to read
  goal,       \* goal_satisfied
  inputs,     \* what scenario_inputs has values for
  spiking,    \* volatilityRegime is "spike"
  plan,       \* steps proposed and not yet carried out
  origin,     \* ghost: who proposed them
  failure,    \* last_planner_parse_failure: its kind, and ghost: at which plan
  plans,      \* ghost: plans proposed
  request     \* the request under way: whose, attempts so far, delay, where it is

plannerVars == <<toolMode, declared, held, recalled, goal, inputs, spiking, plan, origin, failure, plans>>
modelVars == <<plannerVars, request>>

NoRequest == [of |-> "none", attempt |-> 0, delay |-> 0, at |-> "idle"]

Step(kind, capability) == [kind |-> kind, capability |-> capability]

Kinds == {"use", "approve", "reason", "finish", "gap"}

ModelTypeOK ==
  /\ toolMode \in {"off", "on", "unable"}
  /\ declared \in Manifests
  /\ recalled \in BOOLEAN /\ goal \in BOOLEAN /\ inputs \subseteq {"order", "price", "basis"} /\ spiking \in BOOLEAN
  /\ \A i \in DOMAIN plan : plan[i].kind \in Kinds
  /\ origin \in {"none", "model", "heuristic"}
  /\ failure.plan \in 0 .. MaxPlans /\ plans \in 0 .. MaxPlans
  /\ request.of \in {"none", "planner", "http"}
  /\ request.at \in {"idle", "sending", "waiting", "answered", "refused", "raised"}

ModelInit ==
  /\ toolMode \in {"off", "on", "unable"}
  /\ declared \in Manifests
  /\ held = {} /\ recalled \in BOOLEAN /\ goal = FALSE /\ spiking \in BOOLEAN
  /\ inputs \in SUBSET ({"order", "price", "basis"} \intersect declared)
  /\ plan = <<>> /\ origin = "none"
  /\ failure = [kind |-> "none", plan |-> 0] /\ plans = 0
  /\ request = NoRequest

-----------------------------------------------------------------------------
(* Requests *)

Least(a, b) == IF a <= b THEN a ELSE b

\* max_retries + 1 requests of http.py; of a model, attempts, and one at least.
Limit(of) == IF of = "http" THEN MaxRetries + 1 ELSE IF Attempts = 0 THEN 1 ELSE Attempts

LastTry == request.attempt = Limit(request.of)

SendHttp ==
  /\ request = NoRequest /\ plan = <<>>
  /\ request' = [of |-> "http", attempt |-> 1, delay |-> 1, at |-> "sending"]
  /\ UNCHANGED plannerVars

\* Mutant: the header is obeyed as it is.
WaitTimeUncapped(retryAfter) ==
  IF retryAfter > 0 THEN retryAfter ELSE Least(request.delay, MaxDelay)

\* How long to wait: what the server asks for, which http.py caps and models.py does not.
WaitTime(retryAfter) ==
  IF retryAfter = 0 THEN Least(request.delay, MaxDelay)
  ELSE IF request.of = "http" THEN Least(retryAfter, MaxDelay) ELSE retryAfter

\* A transient status, a connection that fails, or a timeout, which a request of a model
\* does not have: there is another try.
FailTransiently ==
  /\ request.at = "sending" /\ ~LastTry
  /\ \E retryAfter \in RetryAfters :
       request' = [request EXCEPT !.at = "waiting", !.delay = WaitTime(retryAfter)]
  /\ UNCHANGED plannerVars

\* The next delay doubles this one in http.py, and depends on the attempt in models.py.
TryAgain ==
  /\ request.at = "waiting"
  /\ request' = [request EXCEPT !.at = "sending", !.attempt = @ + 1,
                                !.delay = IF request.of = "http" THEN Least(2 * @, MaxDelay)
                                          ELSE 2 ^ request.attempt]
  /\ UNCHANGED plannerVars

\* On the last try an error is raised, as one that is not transient is at once; http.py
\* returns the body of an error status if it is JSON, as if it were the answer.
EndRequest ==
  /\ request.at = "sending"
  /\ \E at \in {"answered", "raised"} \union (IF request.of = "http" THEN {"refused"} ELSE {}) :
       request' = [request EXCEPT !.at = at]
  /\ UNCHANGED plannerVars

TakeHttpAnswer ==
  /\ request.of = "http" /\ request.at \in {"answered", "refused", "raised"}
  /\ request' = NoRequest
  /\ UNCHANGED plannerVars

-----------------------------------------------------------------------------
(* Planning *)

\* HeuristicPlanner.propose_plan, in the order of its returns: memory first, then the
\* declared capability the working set lacks, those the scenario has an input for before
\* the others; an order only if the scenario asks for one.
Wishes == <<"context", "order", "price", "basis", "price", "basis">>

HeuristicPlan ==
  LET due(i) == Wishes[i] \in declared \ held /\ (i \in {2, 3, 4} => Wishes[i] \in inputs)
      first  == {i \in DOMAIN Wishes : due(i) /\ \A j \in 1 .. i - 1 : ~due(j)}
      finish == <<Step("finish", "none")>>
  IN CASE goal                    -> <<>>
       [] ~goal /\ ~recalled      -> <<Step("use", "memory.read")>>
       [] ~goal /\ recalled /\ first # {} ->
            LET c == Wishes[CHOOSE i \in first : TRUE]
            IN <<Step("use", c)>> \o (IF c = "context" THEN finish ELSE <<>>)
       [] OTHER -> IF spiking \/ held \intersect {"order", "basis", "context"} # {}
                   THEN finish ELSE <<Step("gap", "none")>>

\* Mutant: an empty plan is not recorded.
FallBackQuietly(kind) ==
  /\ failure' = IF kind = "empty-plan" THEN failure ELSE [kind |-> kind, plan |-> plans + 1]
  /\ plan' = HeuristicPlan
  /\ origin' = "heuristic"

\* _record_planner_failure, then the fallback planner.
FallBack(kind) ==
  /\ failure' = [kind |-> kind, plan |-> plans + 1]
  /\ plan' = HeuristicPlan
  /\ origin' = "heuristic"

\* _parse_response and FunctionCallTranslator: a capability that is not declared becomes
\* a gap; a step that is none is left out.
Translated(steps) ==
  [i \in DOMAIN steps |->
     IF steps[i].kind \in {"use", "approve"} /\ steps[i].capability \notin declared
     THEN Step("gap", steps[i].capability) ELSE steps[i]]

\* A tool call uses a capability; a JSON plan also asks for approval, reasons and ends.
ModelSteps ==
  LET steps(kinds) == {Step(kind, c) : kind \in kinds, c \in declared \union {Undeclared}} IN
  IF toolMode = "on" THEN steps({"use"})
  ELSE steps({"use", "approve"}) \union {Step("reason", "none"), Step("finish", "none")}

\* The steps beyond max_plan_steps are cut off; in tool mode the text of the answer is a
\* step more, and may be the only one.
ModelPlans ==
  LET steps == UNION {[1 .. n -> ModelSteps] : n \in 0 .. MaxPlanSteps} IN
  {Translated(s) : s \in steps}
    \union (IF toolMode = "on" THEN {<<Step("reason", "none")>> \o Translated(s) : s \in steps} ELSE {})

\* propose_plan asks the model, where it can be asked.
AskModel ==
  /\ request = NoRequest /\ plan = <<>> /\ ~goal /\ plans < MaxPlans
  /\ IF toolMode = "unable"
     THEN FallBack("model-error") /\ plans' = plans + 1 /\ UNCHANGED request
     ELSE /\ request' = [of |-> "planner", attempt |-> 1, delay |-> 1, at |-> "sending"]
          /\ UNCHANGED <<plan, origin, failure, plans>>
  /\ UNCHANGED <<toolMode, declared, held, recalled, goal, inputs, spiking>>

\* The model raised.
ModelRaised ==
  /\ request.of = "planner" /\ request.at = "raised"
  /\ FallBack("model-error")
  /\ plans' = plans + 1 /\ request' = NoRequest
  /\ UNCHANGED <<toolMode, declared, held, recalled, goal, inputs, spiking>>

\* It answered what does not parse.  A tool-mode response always does.
ModelAnsweredNonsense ==
  /\ request.of = "planner" /\ request.at = "answered" /\ toolMode = "off"
  /\ FallBack("parse-failure")
  /\ plans' = plans + 1 /\ request' = NoRequest
  /\ UNCHANGED <<toolMode, declared, held, recalled, goal, inputs, spiking>>

\* It answered a plan, perhaps an empty one.  The failure of an earlier plan stays.
ModelAnswered ==
  /\ request.of = "planner" /\ request.at = "answered"
  /\ \E answer \in ModelPlans :
       IF answer = <<>> THEN FallBack("empty-plan")
       ELSE plan' = answer /\ origin' = "model" /\ UNCHANGED failure
  /\ plans' = plans + 1 /\ request' = NoRequest
  /\ UNCHANGED <<toolMode, declared, held, recalled, goal, inputs, spiking>>

\* The runtime carries out the next step, or does not: it may be held or fail.
CarryOut ==
  /\ plan # <<>>
  /\ \E done \in BOOLEAN :
       /\ held' = IF done /\ Head(plan).kind = "use" THEN held \union {Head(plan).capability} ELSE held
       /\ goal' = (goal \/ (done /\ Head(plan).kind = "finish"))
  /\ recalled' = (recalled \/ Head(plan) = Step("use", "memory.read"))
  /\ plan' = Tail(plan)
  /\ UNCHANGED <<toolMode, declared, inputs, spiking, origin, failure, plans, request>>

ModelNext ==
  \/ SendHttp \/ FailTransiently \/ TryAgain \/ EndRequest \/ TakeHttpAnswer
  \/ AskModel \/ ModelRaised \/ ModelAnsweredNonsense \/ ModelAnswered
  \/ CarryOut

ModelSpec == ModelInit /\ [][ModelNext]_modelVars

-----------------------------------------------------------------------------
(* Properties *)

\* A plan the heuristic made in the model's place is labeled with a failure of its own,
\* not one left over from an earlier plan, and whoever made the plan, each step it would
\* carry out names a declared capability, or is the heuristic's reading of memory
\* (PromptDrivenPlanner, PlannerParseError).
PlansAccountedFor ==
  plan # <<>> =>
    /\ origin = "heuristic" => failure.plan = plans
    /\ \A i \in DOMAIN plan : plan[i].kind \in {"use", "approve"} =>
         plan[i].capability \in declared
           \union (IF origin = "heuristic" THEN {"memory.read"} ELSE {})

\* No request is sent more often than its loop allows, and no loop waits longer than its
\* cap, but a model's where the server asks for more (_request_with_retry, _with_retry).
RetriesBounded ==
  request # NoRequest =>
    /\ request.attempt <= Limit(request.of)
    /\ request.at = "waiting" =>
         \/ request.delay <= MaxDelay
         \/ request.of = "planner" /\ request.delay \in RetryAfters
=============================================================================

----------------------------- MODULE Evolution ------------------------------
(***************************************************************************)
(* The self-improvement loop of evolution.py: RuntimeAutoresearch measures *)
(* the agent every eval_interval ticks, has a model propose mutations of   *)
(* the strategy, and applies a proposal its user accepts.  The strategy is *)
(* strategy.json, written in place; proposals live in the process.         *)
(*                                                                         *)
(* Two parameters stand for all: "bounded" is one of _PARAM_SAFETY_BOUNDS, *)
(* "free" is none of them.  Values are numbers or, as a model may well     *)
(* propose, Unordered: a text, which is not compared with the bounds, or   *)
(* NaN, which is, and is neither below nor above them.                     *)
(***************************************************************************)
EXTENDS Integers, Sequences, SequencesExt

CONSTANTS
  EvalInterval,   \* eval_interval
  Floor, Ceiling, \* the safety bounds of the bounded parameter
  Proposable,     \* numbers a model proposes
  MaxProposals,   \* bound: proposals of one process
  MaxVersion      \* bound: strategy versions

ASSUME EvolutionAssumption ==
  /\ EvalInterval \in Nat \ {0} /\ Floor \in Nat /\ Ceiling \in Nat /\ Floor <= Ceiling
  /\ Proposable \subseteq Nat
  /\ MaxProposals \in Nat /\ MaxVersion \in Nat \ {0}

VARIABLES
  strategy,     \* StrategyArtifact in the process: version, parameters, history
  strategyFile, \* strategy.json, or Torn
  proposals,    \* _proposals: a mutation, its status, and whether criteria refuse it
  sinceEval,    \* _tick_since_eval
  loaded,       \* the loop's process is up
  saveFailed    \* ghost: a save has raised in this process

evolutionVars == <<strategy, strategyFile, proposals, sinceEval, loaded, saveFailed>>

Unordered == -1
Parameters == {"bounded", "free"}
Settings == Proposable \union {Unordered}

Mutations == [parameter : Parameters \union {"unknown"}, setting : Settings, weakens : BOOLEAN]

Strategies ==
  [version : 1 .. MaxVersion, parameters : [Parameters -> Settings \union {Floor}],
   history : Seq(Mutations)]

Torn == [version |-> 0]

EvolutionTypeOK ==
  /\ strategy \in Strategies
  /\ strategyFile \in Strategies \union {Torn}
  /\ proposals \in Seq([mutation : Mutations, status : {"proposed", "accepted", "rejected"}])
  /\ sinceEval \in 0 .. EvalInterval - 1
  /\ loaded \in BOOLEAN /\ saveFailed \in BOOLEAN

EvolutionInit ==
  /\ strategy = [version |-> 1, parameters |-> [p \in Parameters |-> Floor], history |-> <<>>]
  /\ strategyFile = strategy
  /\ proposals = <<>> /\ sinceEval = 0
  /\ loaded = TRUE /\ saveFailed = FALSE

-----------------------------------------------------------------------------
(* Measuring and proposing *)

Propose(mutation) ==
  /\ Len(proposals) < MaxProposals
  /\ proposals' = Append(proposals, [mutation |-> mutation, status |-> "proposed"])

\* on_tick_complete.  Whether the metrics of all ticks so far meet the criteria, and
\* what the model answers, is open; it may answer nothing that parses.
CompleteTick ==
  /\ loaded
  /\ IF sinceEval + 1 < EvalInterval
     THEN sinceEval' = sinceEval + 1 /\ UNCHANGED proposals
     ELSE /\ sinceEval' = 0
          /\ UNCHANGED proposals \/ \E mutation \in Mutations : Propose(mutation)
  /\ UNCHANGED <<strategy, strategyFile, loaded, saveFailed>>

-----------------------------------------------------------------------------
(* The user's answer *)

OutOfBounds(value) == value # Unordered /\ (value < Floor \/ value > Ceiling)

\* Mutant: only the upper bound is compared.
WeakensCriteriaAbove(mutation) ==
  \/ mutation.weakens
  \/ mutation.parameter = "bounded" /\ mutation.setting > Ceiling

\* _weakens_criteria: a lower minimum or a higher maximum, or a bounded parameter's number
\* out of its bounds.
WeakensCriteria(mutation) ==
  \/ mutation.weakens
  \/ mutation.parameter = "bounded" /\ OutOfBounds(mutation.setting)

\* Mutations of what is neither a parameter nor the entry rules are dropped.
Mutated(mutation) ==
  [version    |-> strategy.version + 1,
   parameters |-> [p \in Parameters |-> IF p = mutation.parameter THEN mutation.setting
                                        ELSE strategy.parameters[p]],
   history    |-> Append(strategy.history, mutation)]

Pending(i) == proposals[i].status = "proposed"

Answer(i, status) == proposals' = [proposals EXCEPT ![i].status = status]

\* accept_proposal of what weakens the criteria.
RefuseWeakening(i) ==
  /\ loaded /\ Pending(i) /\ WeakensCriteria(proposals[i].mutation)
  /\ Answer(i, "rejected")
  /\ UNCHANGED <<strategy, strategyFile, sinceEval, loaded, saveFailed>>

\* Mutant: the proposal is marked before the strategy is saved.
AcceptProposalEarly(i, outcome) ==
  /\ loaded /\ Pending(i) /\ ~WeakensCriteria(proposals[i].mutation)
  /\ strategy.version < MaxVersion
  /\ strategy' = Mutated(proposals[i].mutation)
  /\ strategyFile' = CASE outcome = "saved" -> strategy' [] outcome = "torn" -> Torn
                       [] outcome = "untouched" -> strategyFile
  /\ Answer(i, "accepted")
  /\ saveFailed' = (outcome # "saved")
  /\ UNCHANGED <<sinceEval, loaded>>

\* accept_proposal: the strategy is mutated in the process, then written; where the write
\* raises, before or after the file was truncated, the proposal stays as it was.
AcceptProposal(i, outcome) ==
  /\ loaded /\ Pending(i) /\ ~WeakensCriteria(proposals[i].mutation)
  /\ strategy.version < MaxVersion
  /\ strategy' = Mutated(proposals[i].mutation)
  /\ strategyFile' = CASE outcome = "saved" -> strategy' [] outcome = "torn" -> Torn
                       [] outcome = "untouched" -> strategyFile
  /\ IF outcome = "saved" THEN Answer(i, "accepted") ELSE UNCHANGED proposals
  /\ saveFailed' = (outcome # "saved")
  /\ UNCHANGED <<sinceEval, loaded>>

\* reject_proposal.
RejectProposal(i) ==
  /\ loaded /\ Pending(i)
  /\ Answer(i, "rejected")
  /\ UNCHANGED <<strategy, strategyFile, sinceEval, loaded, saveFailed>>

-----------------------------------------------------------------------------
(* The process *)

\* It ends, perhaps in the middle of a save; its proposals are gone.
EndProcess ==
  /\ loaded
  /\ loaded' = FALSE
  /\ proposals' = <<>> /\ sinceEval' = 0 /\ saveFailed' = FALSE
  /\ strategyFile' \in {strategyFile} \union (IF \E i \in DOMAIN proposals : Pending(i)
                                             THEN {Torn} ELSE {})
  /\ UNCHANGED strategy

\* StrategyArtifact.load; what was torn does not parse, and the process does not start.
LoadStrategy ==
  /\ ~loaded /\ strategyFile # Torn
  /\ loaded' = TRUE
  /\ strategy' = strategyFile
  /\ UNCHANGED <<strategyFile, proposals, sinceEval, saveFailed>>

EvolutionNext ==
  \/ CompleteTick
  \/ \E i \in DOMAIN proposals :
       \/ RefuseWeakening(i) \/ RejectProposal(i)
       \/ \E outcome \in {"saved", "torn", "untouched"} : AcceptProposal(i, outcome)
  \/ EndProcess \/ LoadStrategy

EvolutionSpec == EvolutionInit /\ [][EvolutionNext]_evolutionVars

-----------------------------------------------------------------------------
(* Properties *)

\* No number out of its safety bounds gets into the strategy, in the process or on disk,
\* "regardless of what the LLM proposes", over any sequence of proposals, failed saves and
\* restarts; a text or NaN in its place does (_PARAM_SAFETY_BOUNDS, _weakens_criteria).
NumbersInBounds ==
  /\ ~OutOfBounds(strategy.parameters["bounded"])
  /\ strategyFile # Torn => ~OutOfBounds(strategyFile.parameters["bounded"])

\* A proposal that is marked accepted is on disk, and so in the next process too, unless
\* a later save tore the file; what is on disk is behind the process only after a save
\* raised, and the strategy's version tells how many mutations made it (accept_proposal).
AcceptedIsSaved ==
  LET held == strategyFile # Torn IN
  /\ \A i \in DOMAIN proposals : proposals[i].status = "accepted" /\ held =>
       proposals[i].mutation \in ToSet(strategyFile.history)
  /\ loaded /\ held /\ ~saveFailed => strategyFile = strategy
  /\ held => strategyFile.version = Len(strategyFile.history) + 1
=============================================================================

---------------------------- MODULE ArtifactSet -----------------------------
(***************************************************************************)
(* One agent directory's artifacts: fast and slow generation (generator.py,*)
(* slow_generate.py), validation (artifacts.py), promotion records         *)
(* (evals.py) and the migration of one artifact (migrations.py).  Files    *)
(* are written in place, one after the other, and a command may be cut     *)
(* short between two.                                                      *)
(*                                                                         *)
(* An artifact is its artifact set, its version, the capabilities it names *)
(* (a manifest: declares), the versions it refers to, and a body for all   *)
(* else in it: as generated, another one, or one that its schema or a      *)
(* check of this artifact alone refuses.  What an evaluation measures      *)
(* depends on every body, in a way that is left open.                      *)
(***************************************************************************)
EXTENDS Integers, Sequences, SequencesExt

CONSTANTS
  MaxSets,        \* bound: generations
  MaxIterations,  \* max_iterations of a slow generation
  MaxBump         \* bound: versions of an artifact

ASSUME ArtifactAssumption == MaxSets \in Nat /\ MaxIterations \in Nat /\ MaxBump \in Nat

VARIABLES
  files,       \* the artifact files
  lastSet,     \* the artifact set generated last
  work,        \* the command under way: its mode, its step, files written
  best,        \* current_metrics of the loop under way
  original,    \* its original_text, of the target of the iteration
  iterations,  \* its entries: parents, decisions, what was measured; the first is the baseline
  kept,        \* ghost: the artifacts a candidate may change, as they were when it was kept
  disturbed    \* ghost: what may have made the directory invalid since it was valid

artifactVars == <<files, lastSet, work, best, original, iterations, kept, disturbed>>

Templates == <<"spec", "manifest", "bundle", "pack", "scaffold">>   \* in the order written
Pinned == {"spec", "manifest", "bundle", "pack"}
Types == ToSet(Templates) \union {"promotion", "research"}
Missing == [set |-> 0]
TornFile == [set |-> -1]
NoWork == [mode |-> "none", step |-> "idle", written |-> 0]
NoMetrics == [matched |-> 0, passed |-> 0]
Metrics == [matched : 0 .. 1, passed : 0 .. 1]
Decisions == {"keep", "discard", "failure"}
Bodies == {"generated", "other", "refused"}
NothingKept == [t \in {} |-> Missing]

Present(t) == files[t] # Missing
Parses(t) == files[t] \notin {Missing, TornFile}

ArtifactTypeOK ==
  /\ \A t \in Types : Parses(t) =>
       files[t].set \in 1 .. MaxSets /\ files[t].version \in 0 .. MaxBump /\ files[t].body \in Bodies
  /\ lastSet \in 0 .. MaxSets
  /\ work.mode \in {"none", "fast", "slow"} /\ work.written \in 0 .. Len(Templates)
  /\ work.step \in {"idle", "write", "capabilities", "refs", "baseline", "propose", "evaluate", "record"}
  /\ best \in Metrics
  /\ \A i \in DOMAIN iterations :
       iterations[i].decision \in Decisions /\ iterations[i].measured \subseteq Metrics
  /\ DOMAIN kept \in {{}, Pinned}
  /\ disturbed \subseteq {"cut", "leftover", "migrated"}

Artifact(set, names, pins) ==
  [set |-> set, version |-> 0, names |-> names, pins |-> pins, body |-> "generated"]

NoPins == [t \in {} |-> 0]

ArtifactInit ==
  /\ files = [t \in Types |-> Missing]
  /\ lastSet = 0 /\ work = NoWork
  /\ best = NoMetrics /\ original = Missing /\ iterations = <<>> /\ kept = NothingKept
  /\ disturbed = {}

-----------------------------------------------------------------------------
(* validate_artifact_directory *)

Refused(f) == f \notin {Missing, TornFile} /\ f.body = "refused"

PinsResolve(d, t) ==
  \A u \in DOMAIN d[t].pins : d[u] # Missing /\ d[u].version = d[t].pins[u]

Valid(d) ==
  /\ \A t \in Types : d[t] # TornFile /\ ~Refused(d[t])
  /\ \A t \in ToSet(Templates) : d[t] # Missing
  /\ \A t, u \in Types : d[t] # Missing /\ d[u] # Missing => d[t].set = d[u].set
  /\ d["spec"].names \subseteq d["manifest"].names
  /\ \A t \in {"spec", "promotion"} : d[t] # Missing => PinsResolve(d, t)

-----------------------------------------------------------------------------
(* Generation *)

GoOn(step) == work' = [work EXCEPT !.step = step]

\* The command returns, and its local variables are gone.
Leave ==
  /\ work' = NoWork /\ best' = NoMetrics /\ original' = Missing /\ iterations' = <<>>
  /\ kept' = NothingKept

\* generate_fast_artifact_set, by itself or as the baseline of a slow one.
Generate(mode) ==
  /\ work = NoWork /\ lastSet < MaxSets
  /\ lastSet' = lastSet + 1
  /\ work' = [mode |-> mode, step |-> "write", written |-> 0]
  /\ disturbed' = IF \E t \in {"promotion", "research"} : Present(t) THEN {"leftover"} ELSE {}
  /\ UNCHANGED <<files, best, original, iterations, kept>>

\* Each template is written at version 0.1.0 with the new set's id.
WriteTemplate ==
  /\ work.step = "write"
  /\ LET t == Templates[work.written + 1] IN
       files' = [files EXCEPT ![t] =
                   Artifact(lastSet, IF t \in {"spec", "manifest"} THEN {"core"} ELSE {},
                            IF t = "spec" THEN [u \in {"pack"} |-> 0] ELSE NoPins)]
  /\ work' = [work EXCEPT !.written = @ + 1,
                          !.step = IF work.written + 1 < Len(Templates) THEN "write" ELSE "capabilities"]
  /\ UNCHANGED <<lastSet, best, original, iterations, kept, disturbed>>

\* Mutant: the references are added to the agent spec before the manifest has them.
AddCapabilitiesLast(t) ==
  files' = [files EXCEPT ![IF t = "spec" THEN "manifest" ELSE "spec"].names = @ \union {"skill"}]

\* Installed skills: capabilities of the manifest, then references of the spec.
AddCapabilities(t) == files' = [files EXCEPT ![t].names = @ \union {"skill"}]

AfterFast == IF work.mode = "slow" THEN GoOn("baseline") ELSE work' = NoWork

InstallSkills ==
  /\ \/ work.step = "capabilities" /\ AddCapabilities("manifest") /\ GoOn("refs")
     \/ work.step = "capabilities" /\ UNCHANGED files /\ AfterFast
     \/ work.step = "refs" /\ AddCapabilities("spec") /\ AfterFast
  /\ UNCHANGED <<lastSet, best, original, iterations, kept, disturbed>>

-----------------------------------------------------------------------------
(* The research loop of a slow generation *)

\* last_candidate_id, as the number of its iteration; 0 before the baseline.  It is set
\* before a kept candidate is entered, which so becomes its own parent.
LastKept(decision) ==
  IF decision = "keep" /\ iterations # <<>> THEN Len(iterations) + 1
  ELSE SelectLastInSeq(iterations, LAMBDA entry : entry.decision = "keep")

Decided(decision, measured) ==
  iterations' = Append(iterations, [parent |-> LastKept(decision), decision |-> decision, measured |-> measured])

Keep == kept' = [t \in Pinned |-> files[t]]

\* evaluate_scenario_pack loads the directory, which raises where it is not valid, and so may
\* a scenario; for the baseline that ends the command.
Baseline ==
  /\ work.step = "baseline"
  /\ \/ /\ Valid(files)
        /\ best' \in Metrics
        /\ Decided("keep", {best'}) /\ Keep /\ GoOn("propose") /\ UNCHANGED original
     \/ Leave
  /\ UNCHANGED <<files, lastSet, disturbed>>

\* The model fails, answers what does not parse, or names what may not be changed.
NoCandidate ==
  /\ work.step = "propose" /\ Len(iterations) <= MaxIterations
  /\ Decided("failure", {})
  /\ UNCHANGED <<files, lastSet, work, best, original, kept, disturbed>>

\* A candidate is written over its target, whichever of the four it is: what an evaluation
\* measures may change with each.  It may be refused, name a capability there is none of, or
\* change the version.
WriteCandidate ==
  /\ work.step = "propose" /\ Len(iterations) <= MaxIterations
  /\ \E t \in Pinned : \E body \in Bodies, version \in 0 .. MaxBump,
        wild \in SUBSET (IF t \in {"spec", "manifest"} THEN {"wild"} ELSE {}) :
       /\ original' = [type |-> t, file |-> files[t]]
       /\ files' = [files EXCEPT ![t] = [files[t] EXCEPT !.body = body, !.names = files[t].names \union wild,
                                                          !.version = version]]
  /\ GoOn("evaluate")
  /\ UNCHANGED <<lastSet, best, iterations, kept, disturbed>>

\* _is_improvement of metrics over others.
Improves(m, than) ==
  /\ m.matched >= than.matched /\ m.passed >= than.passed
  /\ m # than

\* Two discarded candidates in a row end the loop.
Diminished(decision) ==
  decision = "discard" /\ iterations # <<>> /\ Last(iterations).decision = "discard"

\* The decision on a candidate that measures one of measured, or raises where that is empty.
Decision(measured) ==
  IF measured = {} THEN "failure"
  ELSE IF \E m \in measured : Improves(m, best) THEN "keep" ELSE "discard"

\* Mutant: only a candidate that cannot be evaluated is taken back.
TakeBackFailed(decision) ==
  files' = IF decision # "failure" THEN files ELSE [files EXCEPT ![original.type] = original.file]

\* The target of a candidate is restored unless it is kept.
TakeBack(decision) ==
  files' = IF decision = "keep" THEN files ELSE [files EXCEPT ![original.type] = original.file]

\* What it measures becomes current_metrics where it is kept.
EvaluateCandidate ==
  /\ work.step = "evaluate"
  /\ \E measured \in {{}} \union (IF Valid(files) THEN {{m} : m \in Metrics} ELSE {}) :
       LET decision == Decision(measured) IN
       /\ TakeBack(decision)
       /\ IF decision = "keep" THEN best' \in measured /\ Keep ELSE UNCHANGED <<best, kept>>
       /\ Decided(decision, measured)
       /\ GoOn(IF Diminished(decision) THEN "record" ELSE "propose")
  /\ original' = Missing
  /\ UNCHANGED <<lastSet, disturbed>>

\* The research record, when the budget is spent, the candidates diminish, or there is no
\* model.  A hypothesis or a target that a model answered is copied into it whatever its
\* type, and the record is then one that its schema refuses.
WriteResearchRecord ==
  /\ work.step \in {"propose", "record"}
  /\ work.step = "propose" => Len(iterations) > MaxIterations \/ Len(iterations) = 1
  /\ \E body \in {"generated"} \union (IF Len(iterations) > 1 THEN {"refused"} ELSE {}) :
       files' = [files EXCEPT !["research"] =
                   [Artifact(lastSet, {}, [u \in {"pack"} |-> files["pack"].version]) EXCEPT !.body = body]]
  /\ Leave
  /\ disturbed' = (disturbed \ {"leftover"}) \union (IF Present("promotion") THEN {"leftover"} ELSE {})
  /\ UNCHANGED lastSet

-----------------------------------------------------------------------------
(* Other commands *)

\* promote-draft: an evaluation, and a record of the versions it was made of, over the
\* one before.
PromoteDraft ==
  /\ work = NoWork /\ Valid(files)
  /\ files' = [files EXCEPT !["promotion"] =
                 Artifact(files["spec"].set, {}, [t \in Pinned |-> files[t].version])]
  /\ UNCHANGED <<lastSet, work, best, original, iterations, kept, disturbed>>

\* apply_to_artifact_file: after a copy beside it, the artifact is rewritten at a later
\* version; references to the earlier one stay.  Where the write raises, it may be torn.
\* Bound: once between two generations.
MigrateArtifact(t) ==
  /\ work = NoWork /\ Parses(t) /\ files[t].version < MaxBump
  /\ "migrated" \notin disturbed
  /\ \/ files' = [files EXCEPT ![t].version = @ + 1]
     \/ files' = [files EXCEPT ![t] = TornFile]
  /\ disturbed' = disturbed \union {"migrated"}
  /\ UNCHANGED <<lastSet, work, best, original, iterations, kept>>

\* The command is cut short: its process dies, or it raises, as _apply_mutations does of
\* mutations that are not objects.  That may leave templates of two sets, or a candidate.
CutCommand ==
  /\ work # NoWork
  /\ Leave
  /\ disturbed' = disturbed \union (IF work.step \in {"write", "evaluate"} THEN {"cut"} ELSE {})
  /\ UNCHANGED <<files, lastSet>>

ArtifactNext ==
  \/ \E mode \in {"fast", "slow"} : Generate(mode)
  \/ WriteTemplate \/ InstallSkills
  \/ Baseline \/ NoCandidate \/ WriteCandidate \/ EvaluateCandidate \/ WriteResearchRecord
  \/ PromoteDraft \/ (\E t \in Types : MigrateArtifact(t)) \/ CutCommand

ArtifactSpec == ArtifactInit /\ [][ArtifactNext]_artifactVars

-----------------------------------------------------------------------------
(* Properties *)

\* The directory without a research record that its schema refuses.
ButForTheRecord(d) ==
  IF Refused(d["research"]) THEN [d EXCEPT !["research"] = Missing] ELSE d

\* Whatever a model proposes, the directory that generation, research and promotion leave
\* behind loads, or would without a research record that its schema refuses: nothing else is
\* wrong in it unless a command was cut short among its templates or with a candidate in
\* place, an artifact was migrated alone, or it was generated over the records of an earlier
\* set (generate_slow_artifact_set, validate_artifact_directory).
StaysValid ==
  work = NoWork /\ lastSet > 0 /\ disturbed = {} => Valid(ButForTheRecord(files))

\* Between two iterations the spec, manifest, policy bundle and pack on disk are those of the
\* candidate kept last, and no candidate measured so far improves on what it measured: what
\* was discarded or failed has been taken back whole (generate_slow_artifact_set).
BestOnDisk ==
  work.step \in {"propose", "record"} =>
    /\ Valid(files)
    /\ \A t \in Pinned : files[t] = kept[t]
    /\ \A i \in DOMAIN iterations : \A m \in iterations[i].measured : ~Improves(m, best)
=============================================================================

----------------------------- MODULE Migration ------------------------------
(***************************************************************************)
(* MigrationRunner.apply_to_memory_store (migrations.py) on a SQLite       *)
(* memory database: a contract takes the rows of one version to another.   *)
(* Each row is a transaction of its own, the run may stop between any two, *)
(* and is started again by the operator.  The database is in WAL mode: its *)
(* main file, which is all the backup copies, gets rows at a checkpoint.   *)
(*                                                                         *)
(* "old" is fromVersion; a row is its version, how many times it has been  *)
(* transformed, and whether its content is of what the agent wrote: another*)
(* process, which writes rows meanwhile, those that are listed among them. *)
(***************************************************************************)
EXTENDS Integers, Sequences, SequencesExt, FiniteSetsExt

CONSTANTS
  Rows,          \* memory ids
  AgentRows,     \* ids the agent writes while the database is migrated
  MaxAttempts,   \* bound: migrations started
  MaxSeconds     \* bound: seconds, of the backup's timestamp

ASSUME MigrationAssumption ==
  /\ IsFiniteSet(Rows) /\ AgentRows \subseteq Rows
  /\ MaxAttempts \in Nat /\ MaxSeconds \in Nat \ {0}

VARIABLES
  table,     \* the rows: version, and how often transformed
  mainFile,  \* the rows as they are in the main file
  backups,   \* by second: the copy of the main file; NoBackup holds no row
  contract,  \* the run: dry_run, lossy_ok, and whether it drops fields and names a transform
  migrating, \* where the run is: "idle", "begun", "saved", "applying"
  pending,   \* rows listed and not yet handled
  listed,    \* the candidates as they were when they were listed
  issues,    \* the run has reported an issue
  second,    \* the wall clock
  attempts,  \* runs started
  missed,    \* ghost: rows only in the log at a backup, and whether one replaced another
  wrote,     \* ghost: rows the agent has written
  behind     \* ghost: those it wrote when they were listed and not yet handled

migrationVars ==
  <<table, mainFile, backups, contract, migrating, pending, listed, issues, second, attempts, missed, wrote, behind>>

NoRow == [version |-> "none", transformed |-> 0, byAgent |-> FALSE]
OldRow == [version |-> "old", transformed |-> 0, byAgent |-> FALSE]
NoBackup == [r \in Rows |-> NoRow]

RowStates == [version : {"old", "new"}, transformed : 0 .. 2, byAgent : BOOLEAN] \union {NoRow}

Contracts ==
  [dryRun : BOOLEAN, lossy : BOOLEAN, lossyOk : BOOLEAN, transform : BOOLEAN]

MigrationTypeOK ==
  /\ table \in [Rows -> RowStates] /\ mainFile \in [Rows -> RowStates]
  /\ DOMAIN backups = 1 .. MaxSeconds
  /\ \A s \in DOMAIN backups : backups[s] \in [Rows -> RowStates]
  /\ contract \in Contracts
  /\ migrating \in {"idle", "begun", "saved", "applying"}
  /\ pending \in Seq(Rows) /\ IsInjective(pending)
  /\ listed \in [Rows -> RowStates]
  /\ issues \in BOOLEAN
  /\ second \in 1 .. MaxSeconds /\ attempts \in 0 .. MaxAttempts
  /\ missed \in [logged : SUBSET Rows, replaced : BOOLEAN]
  /\ wrote \subseteq AgentRows /\ behind \subseteq AgentRows

\* Rows of an older release, some of them still in the write-ahead log only; of those the
\* agent is to write, some are there and some are not.
MigrationInit ==
  /\ table \in {[r \in Rows |-> IF r \in absent THEN NoRow ELSE OldRow] : absent \in SUBSET AgentRows}
  /\ mainFile \in {[r \in Rows |-> IF r \in saved THEN table[r] ELSE NoRow] : saved \in SUBSET Rows}
  /\ backups = [s \in 1 .. MaxSeconds |-> NoBackup]
  /\ contract \in Contracts
  /\ migrating = "idle" /\ pending = <<>> /\ listed = NoBackup /\ issues = FALSE
  /\ second = 1 /\ attempts = 0
  /\ missed = [logged |-> {}, replaced |-> FALSE]
  /\ wrote = {} /\ behind = {}

-----------------------------------------------------------------------------
(* The run *)

\* The operator starts the run, or starts it again, perhaps for real after a dry run.
BeginMigration ==
  /\ migrating = "idle" /\ attempts < MaxAttempts
  /\ \E dry \in BOOLEAN : contract' = [contract EXCEPT !.dryRun = dry]
  /\ attempts' = attempts + 1
  /\ migrating' = "begun" /\ issues' = FALSE /\ pending' = <<>>
  /\ UNCHANGED <<table, mainFile, backups, listed, second, missed, wrote, behind>>

\* _check_lossy and _resolve_transform.
Applicable == (contract.lossy => contract.lossyOk) /\ contract.transform

RefuseContract ==
  /\ migrating = "begun" /\ ~Applicable
  /\ issues' = TRUE /\ migrating' = "idle"
  /\ UNCHANGED <<table, mainFile, backups, contract, pending, listed, second, attempts, missed, wrote, behind>>

\* Mutant: what iter_records_below(inclusive) streams is not filtered.
CandidatesBelow == {r \in Rows : table[r].version # "none"}

\* _iter_candidate_rows.
Candidates == {r \in Rows : table[r].version = "old"}

\* _backup_sqlite copies the main file, over the copy of the same second if there is one.
BackUp ==
  /\ migrating = "begun" /\ Applicable
  /\ IF contract.dryRun THEN UNCHANGED <<backups, missed>>
     ELSE /\ backups' = [backups EXCEPT ![second] = mainFile]
          /\ missed' = [logged   |-> missed.logged \union {r \in Candidates : mainFile[r] = NoRow},
                        replaced |-> missed.replaced \/ backups[second] # NoBackup]
  /\ migrating' = "saved"
  /\ UNCHANGED <<table, mainFile, contract, pending, listed, issues, second, attempts, wrote, behind>>

\* The copy raised.
BackUpFails ==
  /\ migrating = "begun" /\ Applicable /\ ~contract.dryRun
  /\ issues' = TRUE /\ migrating' = "idle"
  /\ UNCHANGED <<table, mainFile, backups, contract, pending, listed, second, attempts, missed, wrote, behind>>

\* Mutant: the rows are listed, and written, without waiting for the copy.
ListRowsUnsaved ==
  /\ migrating = "begun" /\ Applicable
  /\ pending' \in SetToSeqs(Candidates)
  /\ listed' = [r \in Rows |-> IF r \in Candidates THEN table[r] ELSE NoRow]
  /\ migrating' = "applying"
  /\ UNCHANGED <<table, mainFile, backups, contract, issues, second, attempts, missed, wrote, behind>>

\* All candidates are listed before the first is written.
ListRows ==
  /\ migrating = "saved"
  /\ pending' \in SetToSeqs(Candidates)
  /\ listed' = [r \in Rows |-> IF r \in Candidates THEN table[r] ELSE NoRow]
  /\ migrating' = "applying"
  /\ UNCHANGED <<table, mainFile, backups, contract, issues, second, attempts, missed, wrote, behind>>

\* The transform raised, or did not return a dict of toVersion: skipped.
SkipRow ==
  /\ migrating = "applying" /\ pending # <<>>
  /\ pending' = Tail(pending) /\ issues' = TRUE
  /\ UNCHANGED <<table, mainFile, backups, contract, migrating, listed, second, attempts, missed, wrote, behind>>

\* What the transform makes of a row.
Transformed(row) ==
  [version |-> "new", transformed |-> row.transformed + 1, byAgent |-> row.byAgent]

\* store.write replaces the row, whatever it is by now, with what was made of it as listed.
ApplyRow ==
  /\ migrating = "applying" /\ pending # <<>>
  /\ table' = IF contract.dryRun THEN table
              ELSE [table EXCEPT ![Head(pending)] = Transformed(listed[Head(pending)])]
  /\ pending' = Tail(pending)
  /\ UNCHANGED <<mainFile, backups, contract, migrating, listed, issues, second, attempts, missed, wrote, behind>>

\* The report is returned; or write raised, on a secret-like key of the transformed
\* record; or the process died.  The rows written so far stay written.
EndMigration ==
  /\ migrating # "idle"
  /\ migrating' = "idle" /\ pending' = <<>> /\ listed' = NoBackup
  /\ UNCHANGED <<table, mainFile, backups, contract, issues, second, attempts, missed, wrote, behind>>

-----------------------------------------------------------------------------
(* Around it *)

\* SQLite moves the log to the main file: by itself, at close, or every 500 writes.
Checkpoint ==
  /\ mainFile' = table
  /\ UNCHANGED <<table, backups, contract, migrating, pending, listed, issues, second, attempts, missed, wrote, behind>>

\* The agent writes a row, over the one of the same id if there is one, in the version of
\* its own release; once for each row, which is a bound.
AgentWrites(r) ==
  /\ r \in AgentRows \ wrote
  /\ \E v \in {"old", "new"} :
       table' = [table EXCEPT ![r] = [version |-> v, transformed |-> 0, byAgent |-> TRUE]]
  /\ wrote' = wrote \union {r}
  /\ behind' = IF r \in ToSet(pending) THEN behind \union {r} ELSE behind
  /\ UNCHANGED <<mainFile, backups, contract, migrating, pending, listed, issues, second, attempts, missed>>

SecondPasses ==
  /\ second < MaxSeconds
  /\ second' = second + 1
  /\ UNCHANGED <<table, mainFile, backups, contract, migrating, pending, listed, issues, attempts, missed, wrote, behind>>

MigrationNext ==
  \/ BeginMigration \/ RefuseContract \/ BackUp \/ BackUpFails \/ ListRows
  \/ SkipRow \/ ApplyRow \/ EndMigration
  \/ Checkpoint \/ SecondPasses
  \/ \E r \in Rows : AgentWrites(r)

MigrationSpec == MigrationInit /\ [][MigrationNext]_migrationVars

-----------------------------------------------------------------------------
(* Properties *)

\* However often a migration is stopped midway and started again, beside an agent that
\* writes, no row is transformed twice, one is of the new version only because it was
\* transformed or an agent wrote it so, and what an agent wrote is what the row is made of,
\* unless the run had listed the row before the agent wrote it (apply_to_memory_store).
TransformedOnce ==
  \A r \in Rows :
    /\ table[r].transformed <= 1
    /\ table[r].version = "old" => table[r].transformed = 0
    /\ table[r].version = "new" /\ table[r].transformed = 0 => table[r].byAgent
    /\ r \in wrote \ behind => table[r].byAgent

\* The original of a transformed row is in a backup, unless the row was only in the
\* write-ahead log when the backup was made, an agent wrote it since, or a second run in
\* the same second replaced the backup ("a backup before any mutation", _backup_sqlite).
OriginalInBackup ==
  \A r \in Rows \ (AgentRows \union missed.logged) :
    table[r].transformed > 0 /\ ~missed.replaced =>
      \E s \in 1 .. MaxSeconds : backups[s][r].version = "old"
=============================================================================

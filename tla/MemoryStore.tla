---------------------------- MODULE MemoryStore -----------------------------
(***************************************************************************)
(* Layer-3 memory: InMemoryMemoryStore (memory.py) and SqliteMemoryStore   *)
(* (storage.py), which keeps the same records in a table and may encrypt   *)
(* their content.  A call is one transaction of the one connection.        *)
(*                                                                         *)
(* Of a record the model keeps its environment, its sensitivity, whether   *)
(* its row is encrypted, the environment its content was first written     *)
(* in, and of its provenance the source and whether an approval is in it.  *)
(***************************************************************************)
EXTENDS Integers, Sequences, SequencesExt, Selection

CONSTANTS
  Environments,     \* environments of records
  RecordLevels,     \* sensitivities in use; no store checks them when it writes
  MaxRecords,       \* bound: ids; promote takes the next one
  ReadLimit         \* MemoryQuery.limit

ASSUME MemoryAssumption == MaxRecords \in Nat /\ ReadLimit \in Nat

VARIABLES
  backend,    \* "memory" or "sqlite"
  encryption, \* a MemoryEncryption is configured
  records,    \* the rows, by id; NoRecord for an id not in use
  written,    \* the ids, by updated_at, the oldest first
  expired     \* ids whose expires_at has passed

memoryVars == <<backend, encryption, records, written, expired>>

Ids == 1 .. MaxRecords

NoRecord == [environment |-> "none"]

MemoryRecords ==
  [environment : Environments, level : RecordLevels, sealed : BOOLEAN,
   origin : Environments, source : Ids \union {0}, approved : BOOLEAN]

Stored == {id \in Ids : records[id] # NoRecord}

MemoryTypeOK ==
  /\ backend \in {"memory", "sqlite"} /\ encryption \in BOOLEAN
  /\ backend = "memory" => ~encryption
  /\ records \in [Ids -> MemoryRecords \union {NoRecord}]
  /\ written \in Seq(Ids) /\ IsInjective(written) /\ ToSet(written) = Stored
  /\ expired \subseteq Stored

MemoryInit ==
  /\ backend \in {"memory", "sqlite"} /\ encryption \in BOOLEAN
  /\ backend = "memory" => ~encryption
  /\ records = [id \in Ids |-> NoRecord]
  /\ written = <<>> /\ expired = {}

-----------------------------------------------------------------------------
(* Reading *)

SensitivityOrder == <<"public", "internal", "confidential", "restricted">>
QueryOrder       == <<"public", "internal", "sensitive", "restricted">>

\* The levels up to the ceiling.  The in-memory store's read has the schema's order of
\* them, all other reads have SENSITIVITY_LEVELS.
UpTo(order, ceiling) == {order[i] : i \in {j \in 1 .. Len(order) :
                          \E k \in j .. Len(order) : order[k] = ceiling}}

\* _row_to_record parses content as JSON before _decrypt_record is called, and an
\* encrypted content is none.
Readable(id) == ~records[id].sealed

Ceilings == ToSet(SensitivityOrder) \union ToSet(QueryOrder) \union RecordLevels

Queries == [environment : Environments, ceiling : Ceilings]

Newest(ids) == Reverse(Kept(written, {i \in DOMAIN written : written[i] \in ids}))

Limited(ids) == SubSeq(ids, 1, IF Len(ids) < ReadLimit THEN Len(ids) ELSE ReadLimit)

InEnvironment(query) == {id \in Stored : records[id].environment = query.environment}

Found(order, query) ==
  Newest({id \in InEnvironment(query) \ expired :
            records[id].level \in UpTo(order, query.ceiling)})

\* Mutant: the rows are limited first.
ReadAnswerInLimit(query) ==
  LET rows == Limited(Newest(InEnvironment(query)))
  IN  Kept(rows, {i \in DOMAIN rows : rows[i] \in ToSet(Found(SensitivityOrder, query))})

\* read().
ReadAnswer(query) ==
  Limited(Found(IF backend = "memory" THEN QueryOrder ELSE SensitivityOrder, query))

\* read() raises: the in-memory store asks for the rank of the ceiling and of each record
\* that matches otherwise, the expired ones included; SQLite asks for that of the ceiling,
\* selects the rows whose level is below it, and these may be unreadable.
ReadFails(query) ==
  IF backend = "memory"
  THEN \E id \in InEnvironment(query) :
         ~({records[id].level, query.ceiling} \subseteq ToSet(QueryOrder))
  ELSE \/ query.ceiling \notin ToSet(SensitivityOrder)
       \/ \E id \in ToSet(ReadAnswer(query)) : ~Readable(id)

\* read_for_environment: no limit, and the stored order of levels for both stores.
EnvironmentAnswer(query) == Found(SensitivityOrder, query)

\* It raises for a ceiling that has no rank; the in-memory store also for a record that
\* has none, SQLite for a row that cannot be read.
EnvironmentFails(query) ==
  \/ query.ceiling \notin ToSet(SensitivityOrder)
  \/ IF backend = "memory"
     THEN \E id \in InEnvironment(query) \ expired : records[id].level \notin ToSet(SensitivityOrder)
     ELSE \E id \in ToSet(EnvironmentAnswer(query)) : ~Readable(id)

Read == UNCHANGED memoryVars

-----------------------------------------------------------------------------
(* Writing *)

\* Rows of a store with a key are encrypted, whichever way they get there.
Upsert(id, record) ==
  /\ records' = [records EXCEPT ![id] = [record EXCEPT !.sealed = encryption]]
  /\ written' = Append(Kept(written, {i \in DOMAIN written : written[i] # id}), id)

\* write: the record replaces the row with its id.  Its provenance and environment are the
\* caller's.
Write(id, environment, level) ==
  /\ Upsert(id, [environment |-> environment, level |-> level, sealed |-> FALSE,
                 origin |-> environment, source |-> 0, approved |-> FALSE])
  /\ expired' = expired \ {id}
  /\ UNCHANGED <<backend, encryption>>

\* A record that fails _validate_record raises.
RefuseRecord == UNCHANGED memoryVars

\* Mutant: the environments of the request are compared with each other only.
CanPromoteAnyway(id, request) ==
  /\ records[id].environment = request.source
  /\ request.source # request.target

\* MemoryPromotionPolicy.can_promote.
CanPromote(id, request) ==
  /\ records[id].environment = request.source
  /\ request.source # request.target
  /\ request.approved

Promotions == [source : Environments, target : Environments, approved : BOOLEAN]

\* promote: a new record with a new id; the source stays.  An expired record may be
\* promoted, and its copy is expired.
Promote(id, request) ==
  LET new == Len(written) + 1 IN
  /\ id \in Stored /\ new \in Ids \ Stored
  /\ Readable(id) /\ CanPromote(id, request)
  /\ Upsert(new, [records[id] EXCEPT !.environment = request.target, !.source = id,
                                     !.approved = @ \/ request.approved])
  /\ expired' = IF id \in expired THEN expired \union {new} ELSE expired
  /\ UNCHANGED <<backend, encryption>>

\* Not found, refused by the policy, or the row cannot be read.
Unpromotable(id, request) == id \in Stored => ~Readable(id) \/ ~CanPromote(id, request)

RefusePromotion ==
  /\ {id \in Ids : {request \in Promotions : Unpromotable(id, request)} # {}} # {}
  /\ UNCHANGED memoryVars

\* expires_at passes.
Expire(id) ==
  /\ id \in Stored \ expired
  /\ expired' = expired \union {id}
  /\ UNCHANGED <<backend, encryption, records, written>>

\* The database is opened again, with a key or without: the schema is as it was, and
\* rows stay as they were written.
Reopen(key) ==
  /\ backend = "sqlite"
  /\ encryption' = key
  /\ UNCHANGED <<backend, records, written, expired>>

\* export_records, then from_exported into an empty store of the same kind.  The SQLite
\* store exports the newest first and writes in that order, without a key.
ExportAndRestore ==
  /\ \A id \in Stored : Readable(id)
  /\ written' = IF backend = "sqlite" THEN Reverse(written) ELSE written
  /\ encryption' = FALSE
  /\ UNCHANGED <<backend, records, expired>>

MemoryNext ==
  \/ Read \/ RefuseRecord \/ RefusePromotion
  \/ \E id \in Ids, environment \in Environments, level \in RecordLevels :
       /\ \A lower \in 1 .. id - 1 : lower \in Stored
       /\ Write(id, environment, level)
  \/ \E id \in Ids, request \in Promotions : Promote(id, request)
  \/ \E id \in Ids : Expire(id)
  \/ \E key \in BOOLEAN : Reopen(key)
  \/ ExportAndRestore

MemorySpec == MemoryInit /\ [][MemoryNext]_memoryVars

-----------------------------------------------------------------------------
(* Properties *)

\* Content is in an environment other than the one it was written in only with an
\* approval on its record, over any chain of promotions, rewrites, exports and
\* reopenings, and the record it was promoted from is still there to trace it to
\* (MemoryPromotionPolicy.can_promote, promote).
NothingCrossesUnapproved ==
  \A id \in Stored :
    /\ records[id].environment # records[id].origin => records[id].approved
    /\ records[id].source # 0 => records[id].source \in Stored \ {id}

\* The two ways to read agree where both answer: read answers the newest of what
\* read_for_environment answers, whatever was promoted, rewritten, expired or restored.
\* SQLite's read never fails alone.  The in-memory store's read answers alone only for a
\* ceiling that read_for_environment cannot rank, or in an environment with a record of
\* level "sensitive", which is the schema's name for what SENSITIVITY_LEVELS calls
\* "confidential" (InMemoryMemoryStore.read, SqliteMemoryStore.read, read_for_environment).
ReadersAgree ==
  \A query \in Queries :
    /\ ~ReadFails(query) /\ ~EnvironmentFails(query) =>
         ReadAnswer(query) = Limited(EnvironmentAnswer(query))
    /\ backend = "sqlite" /\ ReadFails(query) => EnvironmentFails(query)
    /\ backend = "memory" /\ ~ReadFails(query) /\ EnvironmentFails(query) =>
         \/ query.ceiling \notin ToSet(SensitivityOrder)
         \/ \E id \in InEnvironment(query) \ expired : records[id].level = "sensitive"
=============================================================================

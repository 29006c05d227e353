--------------------------- MODULE Records_proofs ---------------------------
(***************************************************************************)
(* Theorems about what an agent's process leaves for the next:             *)
(* MemoryStore, Migration and Evolution, for any ids, rows, limits and     *)
(* numbers.                                                                *)
(*                                                                         *)
(* A record crosses environments only with an approval, and both ways to   *)
(* read the store agree; a row is transformed once, and its original is in *)
(* a backup; no number leaves its safety bounds, and what is marked        *)
(* accepted is saved.                                                      *)
(***************************************************************************)
EXTENDS MemoryStore, Migration, Evolution, Facts

-----------------------------------------------------------------------------
(* MemoryStore *)

MemoryInv == MemoryTypeOK /\ NothingCrossesUnapproved

LEMMA StoredRecords ==
  ASSUME MemoryTypeOK
  PROVE  \A id \in Stored : id \in Ids /\ records[id] \in MemoryRecords
  BY DEF MemoryTypeOK, Stored

LEMMA MemoryInitially == MemoryInit => MemoryInv
<1> SUFFICES ASSUME MemoryInit PROVE MemoryInv
  OBVIOUS
<1>1. Stored = {}
  BY DEF MemoryInit, Stored
<1>2. written \in Seq(Ids) /\ IsInjective(written) /\ ToSet(written) = {}
  BY DEF MemoryInit, IsInjective, ToSet
<1> QED
  BY <1>1, <1>2 DEF MemoryInit, MemoryInv, MemoryTypeOK, NothingCrossesUnapproved

\* A row that is written, with the id it replaces taken from its place and put last.
LEMMA Upserted ==
  ASSUME MemoryTypeOK, NEW id \in Ids, NEW record \in MemoryRecords, Upsert(id, record)
  PROVE  /\ records' \in [Ids -> MemoryRecords \union {NoRecord}]
         /\ Stored' = Stored \union {id}
         /\ \A other \in Ids \ {id} : records'[other] = records[other]
         /\ records'[id] = [record EXCEPT !.sealed = encryption]
         /\ written' \in Seq(Ids) /\ IsInjective(written') /\ ToSet(written') = Stored'
<1> DEFINE at == {i \in DOMAIN written : written[i] # id}
           kept == Kept(written, at)
           row == [record EXCEPT !.sealed = encryption]
<1>1. row \in MemoryRecords /\ row # NoRecord
  BY DEF MemoryTypeOK, MemoryRecords, NoRecord
<1>2. records' = [records EXCEPT ![id] = row] /\ written' = Append(kept, id)
  BY DEF Upsert
<1>3. records \in [Ids -> MemoryRecords \union {NoRecord}]
  BY DEF MemoryTypeOK
<1> HIDE DEF row
<1>4. /\ records' \in [Ids -> MemoryRecords \union {NoRecord}]
      /\ \A other \in Ids \ {id} : records'[other] = records[other]
      /\ records'[id] = row
  BY <1>1, <1>2, <1>3
<1>5. Stored' = Stored \union {id}
  BY <1>1, <1>4 DEF Stored
<1>6. kept \in Seq(Ids) /\ IsInjective(kept) /\ {kept[n] : n \in DOMAIN kept} = {written[i] : i \in at}
  BY KeptIs, KeptInjective DEF MemoryTypeOK
<1>7. {written[i] : i \in at} = Stored \ {id}
  BY DEF MemoryTypeOK, ToSet
<1> HIDE DEF kept, at
<1>8. \A n \in DOMAIN kept : kept[n] # id
  BY <1>6, <1>7
<1>9. written' \in Seq(Ids) /\ IsInjective(written')
  BY <1>2, <1>6, <1>8 DEF IsInjective
<1>10. ToSet(written') = {kept[n] : n \in DOMAIN kept} \union {id}
  BY <1>2, <1>6 DEF ToSet
<1>11. id \in Stored' /\ ToSet(written') = Stored'
  BY <1>5, <1>6, <1>7, <1>10
<1> QED
  BY <1>4, <1>5, <1>9, <1>11 DEF row

LEMMA WriteKeeps ==
  ASSUME MemoryInv, NEW id \in Ids, NEW environment \in Environments, NEW level \in RecordLevels,
         Write(id, environment, level)
  PROVE  MemoryInv'
<1> DEFINE new == [environment |-> environment, level |-> level, sealed |-> FALSE,
                   origin |-> environment, source |-> 0, approved |-> FALSE]
<1>1. new \in MemoryRecords
  BY DEF MemoryRecords
<1>2. MemoryTypeOK /\ NothingCrossesUnapproved
  BY DEF MemoryInv
<1>3. Upsert(id, new) /\ expired' = expired \ {id} /\ UNCHANGED <<backend, encryption>>
  BY DEF Write
<1>4. /\ records'[id].environment = environment /\ records'[id].origin = environment
      /\ records'[id].source = 0
  <2>1. /\ [new EXCEPT !.sealed = encryption].environment = environment
        /\ [new EXCEPT !.sealed = encryption].origin = environment
        /\ [new EXCEPT !.sealed = encryption].source = 0
    OBVIOUS
  <2> HIDE DEF new
  <2>2. records'[id] = [new EXCEPT !.sealed = encryption]
    BY <1>1, <1>2, <1>3, Upserted
  <2> QED
    BY <2>1, <2>2
<1> HIDE DEF new
<1>5. MemoryTypeOK'
  BY <1>1, <1>2, <1>3, Upserted DEF MemoryTypeOK
<1>6. NothingCrossesUnapproved'
  <2>1. /\ Stored' = Stored \union {id} /\ Stored \subseteq Ids
        /\ \A other \in Ids \ {id} : records'[other] = records[other]
    BY <1>1, <1>2, <1>3, Upserted DEF Stored
  <2> QED
    BY <1>2, <1>4, <2>1 DEF NothingCrossesUnapproved
<1> QED
  BY <1>5, <1>6 DEF MemoryInv

LEMMA PromoteKeeps ==
  ASSUME MemoryInv, NEW id \in Ids, NEW request \in Promotions, Promote(id, request)
  PROVE  MemoryInv'
<1> DEFINE new == Len(written) + 1
           copy == [records[id] EXCEPT !.environment = request.target, !.source = id,
                                       !.approved = @ \/ request.approved]
<1>1. MemoryTypeOK /\ NothingCrossesUnapproved
  BY DEF MemoryInv
<1>2. /\ id \in Stored /\ new \in Ids /\ new \notin Stored
      /\ request.source = records[id].environment /\ request.approved
      /\ Upsert(new, copy)
      /\ expired' \subseteq expired \union {new} /\ UNCHANGED <<backend, encryption>>
  BY DEF Promote, CanPromote
<1>3. /\ records[id] \in MemoryRecords
      /\ request.target \in Environments /\ request.approved \in BOOLEAN
  BY <1>1, <1>2, StoredRecords DEF Promotions
<1>4. copy \in MemoryRecords
  BY <1>3 DEF MemoryRecords
<1>5. copy.approved /\ copy.source = id
  BY <1>2, <1>3 DEF MemoryRecords
<1>6. [copy EXCEPT !.sealed = encryption].approved /\ [copy EXCEPT !.sealed = encryption].source = id
  <2> HIDE DEF copy
  <2> QED
    BY <1>4, <1>5 DEF MemoryRecords
<1> HIDE DEF copy, new
<1>7. /\ records' \in [Ids -> MemoryRecords \union {NoRecord}]
      /\ Stored' = Stored \union {new}
      /\ \A other \in Ids \ {new} : records'[other] = records[other]
      /\ records'[new] = [copy EXCEPT !.sealed = encryption]
      /\ written' \in Seq(Ids) /\ IsInjective(written') /\ ToSet(written') = Stored'
  BY <1>1, <1>2, <1>4, Upserted
<1>8. MemoryTypeOK'
  BY <1>1, <1>2, <1>7 DEF MemoryTypeOK
<1>9. NothingCrossesUnapproved'
  <2>1. Stored \subseteq Ids
    BY DEF Stored
  <2> QED
    BY <1>1, <1>2, <1>6, <1>7, <2>1 DEF NothingCrossesUnapproved
<1> QED
  BY <1>8, <1>9 DEF MemoryInv

LEMMA RestoreKeeps ==
  ASSUME MemoryInv, ExportAndRestore
  PROVE  MemoryInv'
<1>1. MemoryTypeOK /\ NothingCrossesUnapproved
  BY DEF MemoryInv
<1>2. UNCHANGED <<backend, records, expired>> /\ encryption' = FALSE /\ Stored' = Stored
  BY DEF ExportAndRestore, Stored
<1>3. written \in Seq(Ids) /\ IsInjective(written) /\ ToSet(written) = Stored
  BY <1>1 DEF MemoryTypeOK
<1>4. Reverse(written) \in Seq(Ids) /\ IsInjective(Reverse(written)) /\ ToSet(Reverse(written)) = Stored
  <2> DEFINE n == Len(written)
  <2>1. n \in Nat /\ DOMAIN written = 1 .. n /\ \A i \in 1 .. n : written[i] \in Ids
    BY <1>3
  <2>2. /\ Reverse(written) = [i \in 1 .. n |-> written[(n - i) + 1]]
        /\ \A i \in 1 .. n : (n - i) + 1 \in 1 .. n
    BY <2>1 DEF Reverse
  <2> HIDE DEF n
  <2>3. Reverse(written) \in Seq(Ids)
    BY <2>1, <2>2
  <2>4. IsInjective(Reverse(written))
    <3>1. \A i, j \in 1 .. n : written[i] = written[j] => i = j
      BY <1>3, <2>1 DEF IsInjective
    <3>2. ASSUME NEW i \in 1 .. n, NEW j \in 1 .. n, written[(n - i) + 1] = written[(n - j) + 1]
          PROVE  i = j
      <4>1. (n - i) + 1 = (n - j) + 1
        BY <2>2, <3>1, <3>2
      <4> QED
        BY <2>1, <4>1
    <3> QED
      BY <2>2, <3>2 DEF IsInjective
  <2>5. ToSet(Reverse(written)) = ToSet(written)
    <3>1. \A i \in 1 .. n : \E j \in 1 .. n : i = (n - j) + 1
      <4> TAKE i \in 1 .. n
      <4>1. i = (n - ((n - i) + 1)) + 1
        BY <2>1
      <4> QED
        BY <2>2, <4>1
    <3>2. \A i \in 1 .. n : \E j \in 1 .. n : Reverse(written)[j] = written[i]
      BY <2>2, <3>1
    <3>3. \A j \in 1 .. n : \E i \in 1 .. n : Reverse(written)[j] = written[i]
      BY <2>2
    <3>4. DOMAIN Reverse(written) = 1 .. n
      BY <2>2
    <3> DEFINE back == Reverse(written)
    <3> HIDE DEF back
    <3>5. DOMAIN back = DOMAIN written /\ DOMAIN written = 1 .. n
      BY <2>1, <3>4 DEF back
    <3>6. {back[i] : i \in 1 .. n} = {written[i] : i \in 1 .. n}
      BY <3>2, <3>3 DEF back
    <3>7. ToSet(back) = {back[i] : i \in 1 .. n} /\ ToSet(written) = {written[i] : i \in 1 .. n}
      BY <3>5 DEF ToSet
    <3> QED
      BY <3>6, <3>7 DEF back
  <2> QED
    BY <1>3, <2>3, <2>4, <2>5
<1>5. MemoryTypeOK'
  BY <1>1, <1>2, <1>3, <1>4 DEF ExportAndRestore, MemoryTypeOK
<1>6. NothingCrossesUnapproved'
  BY <1>1, <1>2 DEF NothingCrossesUnapproved
<1> QED
  BY <1>5, <1>6 DEF MemoryInv

LEMMA MemoryStep == MemoryInv /\ [MemoryNext]_memoryVars => MemoryInv'
<1> SUFFICES ASSUME MemoryInv, [MemoryNext]_memoryVars PROVE MemoryInv'
  OBVIOUS
<1>1. MemoryTypeOK /\ NothingCrossesUnapproved
  BY DEF MemoryInv
<1>2. CASE UNCHANGED memoryVars
  BY <1>1, <1>2 DEF memoryVars, MemoryInv, MemoryTypeOK, NothingCrossesUnapproved, Stored
<1>3. CASE Read \/ RefuseRecord \/ RefusePromotion
  BY <1>2, <1>3 DEF Read, RefuseRecord, RefusePromotion
<1>4. ASSUME NEW id \in Ids, Expire(id) PROVE MemoryInv'
  BY <1>1, <1>4 DEF Expire, MemoryInv, MemoryTypeOK, NothingCrossesUnapproved, Stored
<1>5. ASSUME NEW key \in BOOLEAN, Reopen(key) PROVE MemoryInv'
  BY <1>1, <1>5 DEF Reopen, MemoryInv, MemoryTypeOK, NothingCrossesUnapproved, Stored
<1> QED
  BY <1>2, <1>3, <1>4, <1>5, WriteKeeps, PromoteKeeps, RestoreKeeps DEF MemoryNext

\* Over any chain of writes, promotions, exports and reopenings, content is in another
\* environment than its own only with an approval, and traces to a record that is still there
\* (MemoryPromotionPolicy.can_promote, promote).
THEOREM NothingUnapproved == MemorySpec => []NothingCrossesUnapproved
<1> QED
  BY MemoryInitially, MemoryStep, PTL DEF MemorySpec, MemoryInv

-----------------------------------------------------------------------------

LEMMA NewestRows ==
  ASSUME MemoryTypeOK, NEW ids
  PROVE  /\ Newest(ids) \in Seq(Ids) /\ ToSet(Newest(ids)) \subseteq ids
         /\ Limited(Newest(ids)) \in Seq(Ids)
         /\ ToSet(Limited(Newest(ids))) \subseteq ToSet(Newest(ids))
<1> DEFINE at == {i \in DOMAIN written : written[i] \in ids}
           kept == Kept(written, at)
           n == Len(kept)
           rows == Newest(ids)
<1>1. kept \in Seq(Ids) /\ {kept[i] : i \in DOMAIN kept} = {written[i] : i \in at}
  <2>1. written \in Seq(Ids) /\ at \in SUBSET DOMAIN written
    BY DEF MemoryTypeOK
  <2> HIDE DEF at
  <2> QED
    BY <2>1, KeptIs
<1>2. \A i \in DOMAIN kept : kept[i] \in ids
  BY <1>1
<1>3. rows = Reverse(kept)
  BY DEF Newest
<1> HIDE DEF kept, rows
<1>4. n \in Nat /\ DOMAIN kept = 1 .. n /\ \A i \in 1 .. n : kept[i] \in Ids
  BY <1>1
<1>5. rows = [i \in 1 .. n |-> kept[(n - i) + 1]] /\ \A i \in 1 .. n : (n - i) + 1 \in 1 .. n
  BY <1>3, <1>4 DEF Reverse
<1> HIDE DEF n
<1>6. rows \in Seq(Ids) /\ ToSet(rows) \subseteq ids
  BY <1>2, <1>4, <1>5 DEF ToSet
<1>7. Limited(rows) \in Seq(Ids) /\ ToSet(Limited(rows)) \subseteq ToSet(rows)
  <2> DEFINE m == IF Len(rows) < ReadLimit THEN Len(rows) ELSE ReadLimit
  <2>1. m \in Nat /\ m <= Len(rows)
    BY <1>6, MemoryAssumption
  <2>2. Limited(rows) = SubSeq(rows, 1, m)
    BY DEF Limited
  <2> HIDE DEF m
  <2>3. SubSeq(rows, 1, m) \in Seq(Ids) /\ Len(SubSeq(rows, 1, m)) = m
        /\ \A i \in 1 .. m : SubSeq(rows, 1, m)[i] = rows[i]
    BY <1>6, <2>1
  <2> QED
    BY <1>6, <2>1, <2>2, <2>3 DEF ToSet
<1> QED
  BY <1>6, <1>7 DEF rows

\* The two orders agree on the levels they share.
LEMMA SameFound ==
  ASSUME MemoryTypeOK, NEW query \in Queries, ~ReadFails(query), ~EnvironmentFails(query), backend = "memory"
  PROVE  Found(QueryOrder, query) = Found(SensitivityOrder, query)
<1>1. \A id \in InEnvironment(query) : records[id].level \in ToSet(QueryOrder) /\ query.ceiling \in ToSet(QueryOrder)
  BY DEF ReadFails
<1>2. ToSet(QueryOrder) = {"public", "internal", "sensitive", "restricted"}
  BY DEF ToSet, QueryOrder
<1>3. ToSet(SensitivityOrder) = {"public", "internal", "confidential", "restricted"}
  BY DEF ToSet, SensitivityOrder
<1>4. /\ query.ceiling \in ToSet(SensitivityOrder)
      /\ \A id \in InEnvironment(query) \ expired : records[id].level \in ToSet(SensitivityOrder)
  BY DEF EnvironmentFails
<1>5. ASSUME NEW ceiling \in {"public", "internal", "restricted"}, NEW level \in {"public", "internal", "restricted"}
      PROVE  level \in UpTo(QueryOrder, ceiling) <=> level \in UpTo(SensitivityOrder, ceiling)
  <2> DEFINE At(order) == {j \in 1 .. 4 : \E k \in j .. 4 : order[k] = ceiling}
  <2>1. Len(QueryOrder) = 4 /\ Len(SensitivityOrder) = 4
    BY DEF QueryOrder, SensitivityOrder
  <2>2. /\ QueryOrder[1] = "public" /\ QueryOrder[2] = "internal" /\ QueryOrder[3] = "sensitive" /\ QueryOrder[4] = "restricted"
        /\ SensitivityOrder[1] = "public" /\ SensitivityOrder[2] = "internal" /\ SensitivityOrder[3] = "confidential" /\ SensitivityOrder[4] = "restricted"
    BY DEF QueryOrder, SensitivityOrder
  <2>3. At(QueryOrder) = At(SensitivityOrder)
    BY <2>2
  <2>4. UpTo(QueryOrder, ceiling) = {QueryOrder[i] : i \in At(QueryOrder)}
        /\ UpTo(SensitivityOrder, ceiling) = {SensitivityOrder[i] : i \in At(SensitivityOrder)}
    BY <2>1 DEF UpTo
  <2>5. \A i \in 1 .. 4 : QueryOrder[i] = level <=> SensitivityOrder[i] = level
    BY <2>2
  <2> QED
    BY <2>3, <2>4, <2>5
<1>6. \A id \in InEnvironment(query) \ expired :
        records[id].level \in UpTo(QueryOrder, query.ceiling) <=> records[id].level \in UpTo(SensitivityOrder, query.ceiling)
  BY <1>1, <1>2, <1>3, <1>4, <1>5
<1> QED
  BY <1>6 DEF Found

LEMMA ReadersOfStore == MemoryTypeOK => ReadersAgree
<1> SUFFICES ASSUME MemoryTypeOK, NEW query \in Queries
             PROVE  /\ ~ReadFails(query) /\ ~EnvironmentFails(query) =>
                         ReadAnswer(query) = Limited(EnvironmentAnswer(query))
                    /\ backend = "sqlite" /\ ReadFails(query) => EnvironmentFails(query)
                    /\ backend = "memory" /\ ~ReadFails(query) /\ EnvironmentFails(query) =>
                         \/ query.ceiling \notin ToSet(SensitivityOrder)
                         \/ \E id \in InEnvironment(query) \ expired : records[id].level = "sensitive"
  BY DEF ReadersAgree
<1>1. CASE backend = "memory"
  <2>1. ~ReadFails(query) /\ ~EnvironmentFails(query) => ReadAnswer(query) = Limited(EnvironmentAnswer(query))
    BY <1>1, SameFound DEF ReadAnswer, EnvironmentAnswer
  <2>2. ASSUME ~ReadFails(query), EnvironmentFails(query), query.ceiling \in ToSet(SensitivityOrder)
        PROVE  \E id \in InEnvironment(query) \ expired : records[id].level = "sensitive"
    <3>1. PICK id \in InEnvironment(query) \ expired : records[id].level \notin ToSet(SensitivityOrder)
      BY <1>1, <2>2 DEF EnvironmentFails
    <3>2. records[id].level \in ToSet(QueryOrder)
      BY <1>1, <2>2, <3>1 DEF ReadFails
    <3>3. /\ ToSet(QueryOrder) = {"public", "internal", "sensitive", "restricted"}
          /\ ToSet(SensitivityOrder) = {"public", "internal", "confidential", "restricted"}
      BY DEF ToSet, QueryOrder, SensitivityOrder
    <3>4. records[id].level = "sensitive"
      BY <3>1, <3>2, <3>3
    <3> QED
      BY <3>1, <3>4
  <2> QED
    BY <1>1, <2>1, <2>2
<1>2. CASE backend = "sqlite"
  <2>1. ReadAnswer(query) = Limited(EnvironmentAnswer(query))
    BY <1>2 DEF ReadAnswer, EnvironmentAnswer
  <2>2. ToSet(ReadAnswer(query)) \subseteq ToSet(EnvironmentAnswer(query))
    BY <2>1, NewestRows DEF EnvironmentAnswer, Found
  <2>3. ReadFails(query) => EnvironmentFails(query)
    BY <1>2, <2>2 DEF ReadFails, EnvironmentFails
  <2> QED
    BY <1>2, <2>1, <2>3
<1> QED
  BY <1>1, <1>2 DEF MemoryTypeOK

\* Whatever is stored and at whatever level, the two readers agree where both answer, SQLite's
\* read never fails alone, and the in-memory store's answers alone only for "sensitive" or a
\* ceiling without a rank (read, read_for_environment of both stores).
THEOREM BothReadersAgree == MemorySpec => []ReadersAgree
<1> QED
  BY MemoryInitially, MemoryStep, ReadersOfStore, PTL DEF MemorySpec, MemoryInv

-----------------------------------------------------------------------------
(* Migration *)

RowOf(version, transformed, byAgent) ==
  [version |-> version, transformed |-> transformed, byAgent |-> byAgent]

\* What a row can be: never transformed twice, and of the new version without a transformation
\* only where the agent wrote it.
RowFits(r, row) ==
  \/ row \in {NoRow, OldRow, RowOf("new", 1, FALSE)}
  \/ r \in AgentRows /\ row \in {RowOf("old", 0, TRUE), RowOf("new", 1, TRUE), RowOf("new", 0, TRUE)}

\* Where no agent writes, the main file is the table of an earlier moment.
FileLags(r) == r \notin AgentRows /\ table[r].version = "old" => mainFile[r] \in {NoRow, OldRow}

\* What a run still has to write of a row was made of the row as it is, or as it was before
\* the agent wrote it.
PendingFits(r) ==
  /\ RowFits(r, listed[r]) /\ listed[r].version = "old"
  /\ r \notin AgentRows => listed[r] = table[r]
  /\ r \in wrote \ behind => listed[r].byAgent

AllPendingFit == \A i \in DOMAIN pending : PendingFits(pending[i])

RowsInv ==
  /\ MigrationTypeOK
  /\ \A r \in Rows : RowFits(r, table[r]) /\ RowFits(r, mainFile[r]) /\ FileLags(r)
  /\ AllPendingFit
  /\ \A r \in wrote \ behind : table[r].byAgent

LEMMA RowOfIsState ==
  ASSUME NEW version \in {"old", "new"}, NEW transformed \in 0 .. 2, NEW byAgent \in BOOLEAN
  PROVE  RowOf(version, transformed, byAgent) \in RowStates
  BY DEF RowOf, RowStates

LEMMA RowIsState == ASSUME NEW r, NEW row, RowFits(r, row) PROVE row \in RowStates
<1>1. NoRow \in RowStates
  BY DEF RowStates
<1>2. OldRow = RowOf("old", 0, FALSE)
  BY DEF OldRow, RowOf
<1>3. 0 \in 0 .. 2 /\ 1 \in 0 .. 2
  OBVIOUS
<1>4. \A version \in {"old", "new"}, transformed \in 0 .. 2, byAgent \in BOOLEAN :
        RowOf(version, transformed, byAgent) \in RowStates
  BY RowOfIsState
<1> HIDE DEF RowOf, RowStates
<1> QED
  BY <1>1, <1>2, <1>3, <1>4 DEF RowFits

\* What lists the candidates lists each of them once.
LEMMA CandidatesListed ==
  ASSUME NEW seq \in SetToSeqs(Candidates)
  PROVE  seq \in Seq(Rows) /\ IsInjective(seq) /\ \A i \in DOMAIN seq : seq[i] \in Candidates
<1>1. Candidates \subseteq Rows /\ IsFiniteSet(Candidates)
  BY MigrationAssumption, FS_Subset DEF Candidates
<1>2. Cardinality(Candidates) \in Nat
  BY <1>1, FS_CardinalityType
<1>3. /\ seq \in [1 .. Cardinality(Candidates) -> Candidates]
      /\ \A i, j \in 1 .. Cardinality(Candidates) : i # j => seq[i] # seq[j]
  BY DEF SetToSeqs
<1>4. seq \in Seq(Rows)
  BY <1>1, <1>2, <1>3
<1>5. \A i \in DOMAIN seq : seq[i] \in Candidates
  BY <1>3
<1> QED
  BY <1>3, <1>4, <1>5 DEF IsInjective

LEMMA TailKeepsInjective ==
  ASSUME NEW S, NEW seq \in Seq(S), IsInjective(seq), seq # <<>>
  PROVE  /\ Tail(seq) \in Seq(S) /\ IsInjective(Tail(seq))
         /\ DOMAIN Tail(seq) = 1 .. Len(seq) - 1
         /\ \A i \in DOMAIN Tail(seq) : i + 1 \in DOMAIN seq /\ Tail(seq)[i] = seq[i + 1] /\ seq[i + 1] # Head(seq)
<1>1. /\ Tail(seq) \in Seq(S) /\ Head(seq) = seq[1] /\ 1 \in DOMAIN seq
      /\ DOMAIN Tail(seq) = 1 .. Len(seq) - 1 /\ DOMAIN seq = 1 .. Len(seq) /\ Len(seq) \in Nat
      /\ \A i \in DOMAIN Tail(seq) : Tail(seq)[i] = seq[i + 1]
  OBVIOUS
<1>2. \A i \in DOMAIN Tail(seq) : i + 1 \in DOMAIN seq /\ i + 1 # 1
  BY <1>1
<1>3. \A i \in DOMAIN Tail(seq) : seq[i + 1] # Head(seq)
  BY <1>1, <1>2 DEF IsInjective
<1>4. IsInjective(Tail(seq))
  BY <1>1, <1>2 DEF IsInjective
<1> QED
  BY <1>1, <1>2, <1>3, <1>4

LEMMA RowsInit == MigrationInit => RowsInv
<1> SUFFICES ASSUME MigrationInit PROVE RowsInv
  OBVIOUS
<1> USE DEF MigrationInit
<1>1. /\ table \in [Rows -> {NoRow, OldRow}]
      /\ mainFile \in [Rows -> {NoRow, OldRow}]
  <2>1. PICK absent \in SUBSET AgentRows : table = [r \in Rows |-> IF r \in absent THEN NoRow ELSE OldRow]
    OBVIOUS
  <2>2. PICK saved \in SUBSET Rows : mainFile = [r \in Rows |-> IF r \in saved THEN table[r] ELSE NoRow]
    OBVIOUS
  <2> QED
    BY <2>1, <2>2
<1>2. \A r \in Rows : RowFits(r, table[r]) /\ RowFits(r, mainFile[r]) /\ FileLags(r)
  BY <1>1 DEF RowFits, FileLags
<1>3. table \in [Rows -> RowStates] /\ mainFile \in [Rows -> RowStates]
  BY <1>1, <1>2, RowIsState
<1>4. NoBackup \in [Rows -> RowStates]
  BY DEF NoBackup, RowStates
<1>5. DOMAIN backups = 1 .. MaxSeconds /\ \A s \in DOMAIN backups : backups[s] \in [Rows -> RowStates]
  BY <1>4
<1>6. second \in 1 .. MaxSeconds /\ attempts \in 0 .. MaxAttempts
  BY MigrationAssumption
<1>7. pending \in Seq(Rows) /\ IsInjective(pending) /\ DOMAIN pending = {}
  BY DEF IsInjective
<1> QED
  BY <1>2, <1>3, <1>4, <1>5, <1>6, <1>7 DEF RowsInv, MigrationTypeOK, AllPendingFit

\* Steps of the run and of the clock that write no row and list none.
LEMMA RowsUntouched ==
  ASSUME RowsInv, UNCHANGED <<table, mainFile, wrote, behind>>,
         pending' = <<>> \/ UNCHANGED <<pending, listed>>
  PROVE  /\ \A r \in Rows : RowFits(r, table'[r]) /\ RowFits(r, mainFile'[r]) /\ FileLags(r)'
         /\ AllPendingFit'
         /\ \A r \in wrote' \ behind' : table'[r].byAgent
         /\ pending' \in Seq(Rows) /\ IsInjective(pending')
<1> USE DEF RowsInv, MigrationTypeOK, FileLags, AllPendingFit
<1>1. CASE pending' = <<>>
  BY <1>1 DEF IsInjective
<1>2. CASE UNCHANGED <<pending, listed>>
  BY <1>2 DEF PendingFits, IsInjective
<1> QED
  BY <1>1, <1>2

LEMMA RowsStep == ASSUME RowsInv, [MigrationNext]_migrationVars PROVE RowsInv'
<1> USE DEF RowsInv, MigrationTypeOK, AllPendingFit
<1>0. NoBackup \in [Rows -> RowStates]
  BY DEF NoBackup, RowStates
<1>1. CASE UNCHANGED migrationVars
  BY <1>1, RowsUntouched DEF migrationVars, Contracts
<1>2. CASE BeginMigration
  <2>1. contract' \in Contracts /\ attempts' \in 0 .. MaxAttempts
    BY <1>2, MigrationAssumption DEF BeginMigration, Contracts
  <2> QED
    BY <1>2, <2>1, RowsUntouched DEF BeginMigration
<1>3. CASE RefuseContract \/ BackUpFails \/ EndMigration
  <2>1. /\ UNCHANGED <<table, mainFile, backups, contract, second, attempts, missed, wrote, behind>>
        /\ migrating' = "idle" /\ issues' \in BOOLEAN
    BY <1>3 DEF RefuseContract, BackUpFails, EndMigration
  <2>2. (UNCHANGED <<pending, listed>>) \/ (pending' = <<>> /\ listed' = NoBackup)
    BY <1>3 DEF RefuseContract, BackUpFails, EndMigration
  <2> QED
    BY <1>0, <2>1, <2>2, RowsUntouched
<1>4. CASE BackUp
  <2>1. /\ UNCHANGED <<table, mainFile, contract, pending, listed, issues, second, attempts, wrote, behind>>
        /\ migrating' = "saved"
    BY <1>4 DEF BackUp
  <2>2. DOMAIN backups' = 1 .. MaxSeconds /\ \A s \in DOMAIN backups' : backups'[s] \in [Rows -> RowStates]
    BY <1>4 DEF BackUp
  <2>3. missed' \in [logged : SUBSET Rows, replaced : BOOLEAN]
    <3>1. CASE UNCHANGED missed
      BY <3>1
    <3>2. CASE missed' = [logged   |-> missed.logged \union {r \in Candidates : mainFile[r] = NoRow},
                          replaced |-> missed.replaced \/ backups[second] # NoBackup]
      BY <3>2 DEF Candidates
    <3> QED
      BY <1>4, <3>1, <3>2 DEF BackUp
  <2> QED
    BY <2>1, <2>2, <2>3, RowsUntouched
<1>5. CASE ListRows
  <2>1. /\ UNCHANGED <<table, mainFile, backups, contract, issues, second, attempts, missed, wrote, behind>>
        /\ migrating' = "applying" /\ pending' \in SetToSeqs(Candidates)
        /\ listed' = [r \in Rows |-> IF r \in Candidates THEN table[r] ELSE NoRow]
    BY <1>5 DEF ListRows
  <2>2. pending' \in Seq(Rows) /\ IsInjective(pending') /\ \A i \in DOMAIN pending' : pending'[i] \in Candidates
    BY <2>1, CandidatesListed
  <2>3. \A r \in Candidates : PendingFits(r)'
    BY <2>1 DEF PendingFits, Candidates
  <2>4. listed' \in [Rows -> RowStates]
    BY <2>1 DEF RowStates
  <2> QED
    BY <2>1, <2>2, <2>3, <2>4 DEF FileLags
<1>6. CASE SkipRow
  <2>1. /\ UNCHANGED <<table, mainFile, backups, contract, migrating, listed, second, attempts, missed, wrote, behind>>
        /\ issues' = TRUE /\ pending # <<>> /\ pending' = Tail(pending)
    BY <1>6 DEF SkipRow
  <2> QED
    BY <2>1, TailKeepsInjective DEF FileLags, PendingFits
<1>7. CASE ApplyRow
  <2>1. /\ UNCHANGED <<mainFile, backups, contract, migrating, listed, issues, second, attempts, missed, wrote, behind>>
        /\ pending # <<>> /\ pending' = Tail(pending)
    BY <1>7 DEF ApplyRow
  <2>2. CASE table' = table
    BY <2>1, <2>2, TailKeepsInjective DEF FileLags, PendingFits
  <2>3. CASE table' = [table EXCEPT ![Head(pending)] = Transformed(listed[Head(pending)])]
    <3> DEFINE row == Head(pending)
    <3>1. row \in Rows /\ PendingFits(row)
      BY <2>1
    <3>2. \/ listed[row] = RowOf("old", 0, FALSE)
          \/ row \in AgentRows /\ listed[row] = RowOf("old", 0, TRUE)
      <4>1. /\ NoRow.version # "old" /\ OldRow = RowOf("old", 0, FALSE)
            /\ \A b \in BOOLEAN, n \in {0, 1} : RowOf("new", n, b).version # "old"
        BY DEF NoRow, OldRow, RowOf
      <4> QED
        BY <3>1, <4>1 DEF PendingFits, RowFits
    <3>3. PICK b \in BOOLEAN : listed[row] = RowOf("old", 0, b) /\ (b => row \in AgentRows)
      BY <3>2
    <3>4. Transformed(RowOf("old", 0, b)) = RowOf("new", 1, b)
      BY DEF Transformed, RowOf
    <3>5. RowFits(row, RowOf("new", 1, b)) /\ RowOf("new", 1, b).version = "new"
      BY <3>3 DEF RowFits, RowOf
    <3>6. /\ table'[row] = RowOf("new", 1, b)
          /\ \A r \in Rows \ {row} : table'[r] = table[r]
          /\ table' \in [Rows -> RowStates]
      BY <2>3, <3>1, <3>3, <3>4, <3>5, RowIsState
    <3> HIDE DEF row
    <3>7. \A r \in Rows : RowFits(r, table'[r]) /\ FileLags(r)'
      BY <2>1, <3>5, <3>6 DEF FileLags
    <3>8. AllPendingFit'
      BY <2>1, <3>6, TailKeepsInjective DEF row, PendingFits
    <3>9. \A r \in wrote' \ behind' : table'[r].byAgent
      <4>1. row \in wrote \ behind => RowOf("new", 1, b).byAgent
        BY <3>1, <3>3 DEF PendingFits, RowOf
      <4>2. wrote \subseteq Rows
        BY MigrationAssumption
      <4> QED
        BY <2>1, <3>6, <4>1, <4>2
    <3> QED
      BY <2>1, <3>6, <3>7, <3>8, <3>9, TailKeepsInjective
  <2> QED
    BY <1>7, <2>2, <2>3 DEF ApplyRow
<1>8. CASE Checkpoint
  <2>1. \A r \in Rows : mainFile'[r] = table'[r] /\ table'[r] = table[r]
    BY <1>8 DEF Checkpoint
  <2>2. \A r \in Rows : FileLags(r)'
    BY <2>1 DEF FileLags, RowFits, NoRow, OldRow, RowOf
  <2> QED
    BY <1>8, <2>1, <2>2 DEF Checkpoint, IsInjective, PendingFits
<1>9. CASE SecondPasses
  <2>1. second' \in 1 .. MaxSeconds
    BY <1>9, MigrationAssumption DEF SecondPasses
  <2>2. UNCHANGED <<table, mainFile, backups, contract, migrating, pending, listed, issues, attempts, missed, wrote, behind>>
    BY <1>9 DEF SecondPasses
  <2> QED
    BY <2>1, <2>2, RowsUntouched
<1>10. ASSUME NEW r \in Rows, AgentWrites(r) PROVE RowsInv'
  <2>1. PICK v \in {"old", "new"} : table' = [table EXCEPT ![r] = RowOf(v, 0, TRUE)]
    BY <1>10 DEF AgentWrites, RowOf
  <2>2. /\ r \in AgentRows \ wrote /\ wrote' = wrote \union {r}
        /\ behind' = IF r \in ToSet(pending) THEN behind \union {r} ELSE behind
        /\ UNCHANGED <<mainFile, backups, contract, migrating, pending, listed, issues, second, attempts, missed>>
    BY <1>10 DEF AgentWrites
  <2>3. RowFits(r, RowOf(v, 0, TRUE)) /\ RowOf(v, 0, TRUE).byAgent
    BY <2>2 DEF RowFits, RowOf
  <2>4. /\ table' \in [Rows -> RowStates]
        /\ table'[r] = RowOf(v, 0, TRUE)
        /\ \A q \in Rows \ {r} : table'[q] = table[q]
    BY <2>1, <2>3, RowIsState
  <2>5. \A q \in Rows : RowFits(q, table'[q]) /\ FileLags(q)'
    BY <2>2, <2>3, <2>4 DEF FileLags
  <2>6. wrote' \subseteq AgentRows /\ behind' \subseteq AgentRows
    BY <2>2
  <2>7. AllPendingFit'
    <3>1. \A q \in Rows : (\E i \in DOMAIN pending : pending[i] = q) => PendingFits(q)'
      <4> SUFFICES ASSUME NEW q \in Rows, NEW i \in DOMAIN pending, pending[i] = q
                   PROVE  PendingFits(q)'
        OBVIOUS
      <4>1. PendingFits(q)
        OBVIOUS
      <4>2. q = r => r \in ToSet(pending)
        BY DEF ToSet
      <4> QED
        BY <2>2, <2>4, <4>1, <4>2 DEF PendingFits
    <3> QED
      BY <2>2, <3>1 DEF PendingFits
  <2>8. \A q \in wrote' \ behind' : table'[q].byAgent
    <3>1. wrote \subseteq Rows
      BY MigrationAssumption
    <3> QED
      BY <2>2, <2>3, <2>4, <3>1
  <2> QED
    BY <2>2, <2>4, <2>5, <2>6, <2>7, <2>8 DEF IsInjective
<1> QED
  BY <1>1, <1>2, <1>3, <1>4, <1>5, <1>6, <1>7, <1>8, <1>9, <1>10 DEF MigrationNext

\* However often a migration is stopped midway and started again, beside an agent that
\* writes, no row is transformed twice, and a row is made of what the agent wrote unless the
\* run had listed it before (apply_to_memory_store).
THEOREM RowsTransformedOnce == MigrationSpec => []TransformedOnce
<1>1. RowsInv => TransformedOnce
  BY DEF RowsInv, RowFits, TransformedOnce, NoRow, OldRow, RowOf
<1> QED
  BY <1>1, RowsInit, RowsStep, PTL DEF MigrationSpec

-----------------------------------------------------------------------------

Saved(r) == \E s \in 1 .. MaxSeconds : backups[s][r].version = "old"

\* Once the copy is made, and until the run ends, every row that is still to be transformed is in
\* a copy, not only those that have been.
BackupInv ==
  ~missed.replaced =>
    \A r \in Rows \ (AgentRows \union missed.logged) :
      /\ table[r].transformed > 0 => Saved(r)
      /\ migrating \in {"saved", "applying"} /\ ~contract.dryRun /\ table[r].version = "old" => Saved(r)

LEMMA BackupInit == MigrationInit => BackupInv
  BY DEF MigrationInit, BackupInv, NoRow, OldRow

LEMMA BackupStep ==
  ASSUME RowsInv, BackupInv, [MigrationNext]_migrationVars
  PROVE  BackupInv'
<1> SUFFICES ASSUME ~missed'.replaced, NEW r \in Rows, r \notin AgentRows, r \notin missed'.logged
             PROVE  /\ table'[r].transformed > 0 => Saved(r)'
                    /\ migrating' \in {"saved", "applying"} /\ ~contract'.dryRun /\ table'[r].version = "old" => Saved(r)'
  BY DEF BackupInv
<1>1. CASE UNCHANGED <<table, backups, missed>> /\ (migrating' \in {"saved", "applying"} => migrating \in {"saved", "applying"} /\ UNCHANGED contract)
  BY <1>1 DEF BackupInv, Saved
<1>2. CASE BackUp
  <2>1. UNCHANGED <<table, contract, mainFile>>
    BY <1>2 DEF BackUp
  <2>2. CASE contract.dryRun
    BY <1>2, <2>1, <2>2 DEF BackUp, BackupInv, Saved
  <2>3. CASE ~contract.dryRun
    <3>1. /\ backups' = [backups EXCEPT ![second] = mainFile]
          /\ missed' = [logged   |-> missed.logged \union {q \in Candidates : mainFile[q] = NoRow},
                        replaced |-> missed.replaced \/ backups[second] # NoBackup]
      BY <1>2, <2>3 DEF BackUp
    <3>2. ~missed.replaced /\ backups[second] = NoBackup /\ r \notin missed.logged
      BY <3>1
    <3>3. DOMAIN backups = 1 .. MaxSeconds /\ second \in 1 .. MaxSeconds
      BY DEF RowsInv, MigrationTypeOK
    <3>4. Saved(r) => Saved(r)'
      BY <3>1, <3>2, <3>3 DEF Saved, NoBackup, NoRow
    <3>5. table[r].version = "old" => Saved(r)'
      <4> SUFFICES ASSUME table[r].version = "old" PROVE Saved(r)'
        OBVIOUS
      <4>1. mainFile[r] # NoRow
        BY <3>1 DEF Candidates
      <4>2. mainFile[r].version = "old"
        BY <4>1 DEF RowsInv, FileLags, OldRow
      <4> QED
        BY <3>1, <3>3, <4>2 DEF Saved
    <3> QED
      BY <2>1, <3>2, <3>4, <3>5 DEF BackupInv
  <2> QED
    BY <2>2, <2>3
<1>3. CASE ListRows
  BY <1>3 DEF ListRows, BackupInv, Saved
<1>4. CASE ApplyRow
  <2>1. UNCHANGED <<backups, contract, migrating, missed>> /\ migrating = "applying" /\ pending # <<>>
    BY <1>4 DEF ApplyRow
  <2>2. CASE contract.dryRun
    BY <1>4, <2>1, <2>2 DEF ApplyRow, BackupInv, Saved
  <2>3. CASE ~contract.dryRun
    <3>1. table' = [table EXCEPT ![Head(pending)] = Transformed(listed[Head(pending)])]
      BY <1>4, <2>3 DEF ApplyRow
    <3>2. Head(pending) \in Rows /\ PendingFits(Head(pending))
      BY <2>1 DEF RowsInv, MigrationTypeOK, AllPendingFit
    <3>3. CASE r = Head(pending)
      BY <2>1, <2>3, <3>2, <3>3 DEF BackupInv, Saved, PendingFits
    <3>4. CASE r # Head(pending)
      <4>1. table'[r] = table[r]
        BY <3>1, <3>4 DEF RowsInv, MigrationTypeOK
      <4> QED
        BY <2>1, <4>1 DEF BackupInv, Saved
    <3> QED
      BY <3>3, <3>4
  <2> QED
    BY <2>2, <2>3
<1>5. ASSUME NEW q \in Rows, AgentWrites(q)
      PROVE  /\ table'[r].transformed > 0 => Saved(r)'
             /\ migrating' \in {"saved", "applying"} /\ ~contract'.dryRun /\ table'[r].version = "old" => Saved(r)'
  <2>1. q \in AgentRows /\ UNCHANGED <<backups, contract, migrating, missed>>
    BY <1>5 DEF AgentWrites
  <2>2. table'[r] = table[r]
    BY <1>5, <2>1 DEF AgentWrites, RowsInv, MigrationTypeOK
  <2> QED
    BY <2>1, <2>2 DEF BackupInv, Saved
<1>6. CASE \/ BeginMigration \/ RefuseContract \/ BackUpFails \/ SkipRow \/ EndMigration
           \/ Checkpoint \/ SecondPasses \/ UNCHANGED migrationVars
  BY <1>1, <1>6 DEF BeginMigration, RefuseContract, BackUpFails, SkipRow, EndMigration, Checkpoint,
                    SecondPasses, migrationVars
<1> QED
  BY <1>2, <1>3, <1>4, <1>5, <1>6 DEF MigrationNext

\* The original of a transformed row is in a backup, but for the three ways it can be
\* missing that the property names (_backup_sqlite).
THEOREM OriginalsKept == MigrationSpec => []OriginalInBackup
<1>1. BackupInv => OriginalInBackup
  BY DEF BackupInv, OriginalInBackup, Saved
<1> QED
  BY <1>1, RowsInit, RowsStep, BackupInit, BackupStep, PTL DEF MigrationSpec

-----------------------------------------------------------------------------
(* Evolution *)

-----------------------------------------------------------------------------
(* Safety bounds *)

LEMMA InitInBounds == EvolutionInit => NumbersInBounds
<1> SUFFICES ASSUME EvolutionInit PROVE NumbersInBounds
  OBVIOUS
<1>1. ~OutOfBounds(Floor)
  BY EvolutionAssumption DEF OutOfBounds
<1>2. strategy.parameters["bounded"] = Floor /\ strategyFile = strategy
  BY DEF EvolutionInit, Parameters
<1> QED
  BY <1>1, <1>2 DEF NumbersInBounds

\* Only acceptance changes a number, and it compares the one it is about to set.
LEMMA MutatedInBounds ==
  ASSUME NumbersInBounds, NEW mutation, ~WeakensCriteria(mutation)
  PROVE  ~OutOfBounds(Mutated(mutation).parameters["bounded"])
<1>1. Mutated(mutation).parameters["bounded"]
        = IF "bounded" = mutation.parameter THEN mutation.setting ELSE strategy.parameters["bounded"]
  BY DEF Mutated, Parameters
<1>2. CASE mutation.parameter = "bounded"
  BY <1>1, <1>2 DEF WeakensCriteria
<1>3. CASE mutation.parameter # "bounded"
  BY <1>1, <1>3 DEF NumbersInBounds
<1> QED
  BY <1>2, <1>3

LEMMA StepInBounds ==
  ASSUME NumbersInBounds, [EvolutionNext]_evolutionVars
  PROVE  NumbersInBounds'
<1>1. CASE UNCHANGED <<strategy, strategyFile>>
  BY <1>1 DEF NumbersInBounds, OutOfBounds, Torn, Unordered
<1>2. ASSUME NEW i \in DOMAIN proposals, NEW outcome \in {"saved", "torn", "untouched"},
             AcceptProposal(i, outcome)
      PROVE  NumbersInBounds'
  <2> DEFINE made == Mutated(proposals[i].mutation)
  <2>1. ~OutOfBounds(made.parameters["bounded"])
    BY <1>2, MutatedInBounds DEF AcceptProposal
  <2>2. strategy' = made
    BY <1>2 DEF AcceptProposal
  <2>3. strategyFile' \in {made, Torn, strategyFile}
    BY <1>2, <2>2 DEF AcceptProposal
  <2> QED
    BY <2>1, <2>2, <2>3 DEF NumbersInBounds, OutOfBounds, Torn, Unordered
<1>3. CASE EndProcess
  BY <1>3 DEF EndProcess, NumbersInBounds, OutOfBounds, Torn, Unordered
<1>4. CASE LoadStrategy
  BY <1>4 DEF LoadStrategy, NumbersInBounds, OutOfBounds, Torn, Unordered
<1> QED
  BY <1>1, <1>2, <1>3, <1>4
  DEF EvolutionNext, evolutionVars, CompleteTick, RefuseWeakening, RejectProposal

\* Whatever a model proposes and whichever saves fail, the bounded parameter stays between
\* its safety bounds, in the process and in strategy.json (_weakens_criteria).
THEOREM BoundsHold == EvolutionSpec => []NumbersInBounds
<1> QED
  BY InitInBounds, StepInBounds, PTL DEF EvolutionSpec

-----------------------------------------------------------------------------
(* Accepted proposals *)

\* What strategy.json may be besides Torn.
Versioned(s) == s.history \in Seq(Mutations) /\ s.version = Len(s.history) + 1

ProposalsTyped ==
  proposals \in Seq([mutation : Mutations, status : {"proposed", "accepted", "rejected"}])

AcceptedIn(s) ==
  \A i \in DOMAIN proposals :
    proposals[i].status = "accepted" => proposals[i].mutation \in ToSet(s.history)

\* AcceptedIsSaved alone is not inductive: a save replaces the file by the strategy of the
\* process, so what was accepted has to be in that one too, however many saves have failed.
SavedInv ==
  /\ ProposalsTyped
  /\ Versioned(strategy)
  /\ strategyFile # Torn => Versioned(strategyFile) /\ AcceptedIn(strategyFile)
  /\ AcceptedIn(strategy)
  /\ ~loaded => proposals = <<>>
  /\ loaded /\ strategyFile # Torn /\ ~saveFailed => strategyFile = strategy

\* A version tells every strategy from a torn file.
LEMMA VersionedIsWhole == ASSUME NEW s, Versioned(s) PROVE s # Torn
<1>1. s.version \in Nat \ {0}
  BY DEF Versioned
<1>2. Torn.version = 0
  BY DEF Torn
<1> QED
  BY <1>1, <1>2

LEMMA AppendKeeps ==
  ASSUME NEW S, NEW seq \in Seq(S), NEW e \in S
  PROVE  /\ Append(seq, e) \in Seq(S) /\ Len(Append(seq, e)) = Len(seq) + 1
         /\ ToSet(seq) \subseteq ToSet(Append(seq, e)) /\ e \in ToSet(Append(seq, e))
<1>1. /\ Append(seq, e) \in Seq(S) /\ Len(Append(seq, e)) = Len(seq) + 1
      /\ DOMAIN seq = 1 .. Len(seq) /\ DOMAIN Append(seq, e) = 1 .. Len(seq) + 1
      /\ \A i \in 1 .. Len(seq) : Append(seq, e)[i] = seq[i]
      /\ Append(seq, e)[Len(seq) + 1] = e /\ Len(seq) \in Nat
  OBVIOUS
<1> QED
  BY <1>1 DEF ToSet

LEMMA InitSaved == EvolutionInit => SavedInv
<1> SUFFICES ASSUME EvolutionInit PROVE SavedInv
  OBVIOUS
<1>1. strategy.history = <<>> /\ strategy.version = 1 /\ strategyFile = strategy /\ proposals = <<>> /\ loaded
  BY DEF EvolutionInit
<1>2. Versioned(strategy) /\ ProposalsTyped
  BY <1>1 DEF Versioned, ProposalsTyped
<1>3. \A s : AcceptedIn(s)
  BY <1>1 DEF AcceptedIn
<1> QED
  BY <1>1, <1>2, <1>3 DEF SavedInv

LEMMA ProposalTyped ==
  ASSUME ProposalsTyped, NEW i \in DOMAIN proposals
  PROVE  proposals[i] \in [mutation : Mutations, status : {"proposed", "accepted", "rejected"}]
<1> DEFINE Proposals == [mutation : Mutations, status : {"proposed", "accepted", "rejected"}]
<1>1. proposals \in Seq(Proposals)
  BY DEF ProposalsTyped
<1> HIDE DEF Proposals
<1>2. proposals[i] \in Proposals
  BY <1>1
<1> QED
  BY <1>2 DEF Proposals

\* The strategy an acceptance makes: versioned, with everything accepted so far.
LEMMA MutatedKeeps ==
  ASSUME SavedInv, NEW i \in DOMAIN proposals
  PROVE  LET made == Mutated(proposals[i].mutation) IN
         /\ Versioned(made) /\ AcceptedIn(made) /\ proposals[i].mutation \in ToSet(made.history)
<1> DEFINE mutation == proposals[i].mutation
           made == Mutated(mutation)
<1>1. mutation \in Mutations
  BY ProposalTyped DEF SavedInv
<1>2. made.history = Append(strategy.history, mutation) /\ made.version = strategy.version + 1
  BY DEF Mutated
<1>3. strategy.history \in Seq(Mutations) /\ strategy.version = Len(strategy.history) + 1
  BY DEF SavedInv, Versioned
<1>4. Versioned(made)
  BY <1>1, <1>2, <1>3, AppendKeeps DEF Versioned
<1>5. AcceptedIn(made) /\ mutation \in ToSet(made.history)
  BY <1>1, <1>2, <1>3, AppendKeeps DEF SavedInv, AcceptedIn
<1> QED
  BY <1>4, <1>5

LEMMA StepSaved ==
  ASSUME SavedInv, [EvolutionNext]_evolutionVars
  PROVE  SavedInv'
<1> USE DEF SavedInv
<1>1. CASE UNCHANGED evolutionVars
  BY <1>1 DEF evolutionVars, ProposalsTyped, Versioned, AcceptedIn
<1>2. CASE CompleteTick
  <2>1. CASE UNCHANGED proposals
    BY <1>2, <2>1 DEF CompleteTick, ProposalsTyped, Versioned, AcceptedIn
  <2>2. ASSUME NEW mutation \in Mutations, Propose(mutation)
        PROVE  SavedInv'
    <3> DEFINE new == [mutation |-> mutation, status |-> "proposed"]
    <3>1. /\ proposals' = Append(proposals, new)
          /\ DOMAIN proposals' = 1 .. Len(proposals) + 1 /\ DOMAIN proposals = 1 .. Len(proposals)
          /\ \A j \in DOMAIN proposals : proposals'[j] = proposals[j]
          /\ proposals'[Len(proposals) + 1] = new
      BY <2>2 DEF Propose, ProposalsTyped
    <3>2. ProposalsTyped'
      BY <3>1 DEF ProposalsTyped
    <3>3. \A j \in DOMAIN proposals' : proposals'[j].status = "accepted" =>
            j \in DOMAIN proposals /\ proposals'[j] = proposals[j]
      BY <3>1
    <3> QED
      BY <1>2, <3>2, <3>3 DEF CompleteTick, Versioned, AcceptedIn
  <2> QED
    BY <1>2, <2>1, <2>2 DEF CompleteTick
<1>3. ASSUME NEW i \in DOMAIN proposals, NEW status \in {"rejected", "accepted"}, Answer(i, status)
      PROVE  /\ ProposalsTyped'
             /\ DOMAIN proposals' = DOMAIN proposals
             /\ \A j \in DOMAIN proposals : proposals'[j].mutation = proposals[j].mutation
             /\ \A j \in DOMAIN proposals \ {i} : proposals'[j].status = proposals[j].status
             /\ proposals'[i].status = status
  <2> DEFINE Proposals == [mutation : Mutations, status : {"proposed", "accepted", "rejected"}]
             answered == [proposals[i] EXCEPT !.status = status]
  <2>1. proposals \in Seq(Proposals)
    BY DEF ProposalsTyped
  <2>2. proposals[i] \in Proposals
    BY ProposalTyped
  <2>3. answered \in Proposals /\ answered.mutation = proposals[i].mutation /\ answered.status = status
    BY <2>2
  <2>4. proposals' = [proposals EXCEPT ![i] = answered]
    BY <1>3 DEF Answer
  <2> HIDE DEF answered, Proposals
  <2>5. /\ proposals' \in Seq(Proposals) /\ DOMAIN proposals' = DOMAIN proposals
        /\ proposals'[i] = answered /\ \A j \in DOMAIN proposals \ {i} : proposals'[j] = proposals[j]
    BY <2>1, <2>3, <2>4
  <2> QED
    BY <2>3, <2>5 DEF Proposals, ProposalsTyped
<1>4. ASSUME NEW i \in DOMAIN proposals, RefuseWeakening(i) \/ RejectProposal(i)
      PROVE  SavedInv'
  <2>1. Answer(i, "rejected") /\ UNCHANGED <<strategy, strategyFile, loaded, saveFailed>> /\ loaded
    BY <1>4 DEF RefuseWeakening, RejectProposal
  <2> QED
    BY <1>3, <2>1 DEF Versioned, AcceptedIn
<1>5. ASSUME NEW i \in DOMAIN proposals, NEW outcome \in {"saved", "torn", "untouched"},
             AcceptProposal(i, outcome)
      PROVE  SavedInv'
  <2> DEFINE made == Mutated(proposals[i].mutation)
  <2>1. strategy' = made /\ loaded' = loaded /\ loaded
    BY <1>5 DEF AcceptProposal
  <2>2. Versioned(made) /\ AcceptedIn(made) /\ proposals[i].mutation \in ToSet(made.history)
    BY MutatedKeeps
  <2>3. CASE outcome = "saved"
    <3>1. strategyFile' = made /\ Answer(i, "accepted") /\ ~saveFailed'
      BY <1>5, <2>1, <2>3 DEF AcceptProposal
    <3>2. AcceptedIn(strategyFile)' /\ AcceptedIn(strategy)'
      BY <1>3, <2>1, <2>2, <3>1 DEF AcceptedIn
    <3> QED
      BY <1>3, <2>1, <2>2, <3>1, <3>2 DEF Versioned, AcceptedIn
  <2>4. CASE outcome # "saved"
    <3>1. UNCHANGED proposals /\ saveFailed' /\ strategyFile' \in {Torn, strategyFile}
      BY <1>5, <2>4 DEF AcceptProposal
    <3> QED
      BY <2>1, <2>2, <3>1 DEF Versioned, AcceptedIn, ProposalsTyped, Torn
  <2> QED
    BY <2>3, <2>4
<1>6. CASE EndProcess
  BY <1>6 DEF EndProcess, ProposalsTyped, Versioned, AcceptedIn, Torn
<1>7. CASE LoadStrategy
  BY <1>7 DEF LoadStrategy, ProposalsTyped, Versioned, AcceptedIn, Torn
<1> QED
  BY <1>1, <1>2, <1>4, <1>5, <1>6, <1>7 DEF EvolutionNext

\* A proposal marked accepted is in strategy.json unless a later save tore it, and the file is
\* behind the process only after a save raised (accept_proposal).
THEOREM AcceptedAreSaved == EvolutionSpec => []AcceptedIsSaved
<1>1. SavedInv => AcceptedIsSaved
  BY DEF SavedInv, AcceptedIsSaved, AcceptedIn, Versioned
<1> QED
  BY <1>1, InitSaved, StepSaved, PTL DEF EvolutionSpec

-----------------------------------------------------------------------------
(* Types of Evolution *)

EvolutionInv == EvolutionTypeOK /\ SavedInv

LEMMA MutatedTyped ==
  ASSUME strategy \in Strategies, strategy.version < MaxVersion, NEW mutation \in Mutations
  PROVE  Mutated(mutation) \in Strategies
<1> DEFINE parameters == [p \in Parameters |-> IF p = mutation.parameter THEN mutation.setting ELSE strategy.parameters[p]]
           history == Append(strategy.history, mutation)
<1>1. strategy.version + 1 \in 1 .. MaxVersion
  BY EvolutionAssumption DEF Strategies
<1>2. parameters \in [Parameters -> Settings \union {Floor}]
  BY DEF Strategies, Mutations
<1>3. history \in Seq(Mutations)
  BY DEF Strategies
<1> HIDE DEF parameters, history
<1>4. [version |-> strategy.version + 1, parameters |-> parameters, history |-> history] \in Strategies
  BY <1>1, <1>2, <1>3 DEF Strategies
<1> QED
  BY <1>4 DEF Mutated, parameters, history

LEMMA EvolutionInitially == EvolutionInit => EvolutionInv
<1> SUFFICES ASSUME EvolutionInit PROVE EvolutionInv
  OBVIOUS
<1>1. strategy \in Strategies
  BY EvolutionAssumption DEF EvolutionInit, Strategies
<1>2. proposals \in Seq([mutation : Mutations, status : {"proposed", "accepted", "rejected"}])
  BY DEF EvolutionInit
<1>3. strategyFile \in Strategies \union {Torn} /\ 0 \in 0 .. EvalInterval - 1
  BY <1>1, EvolutionAssumption DEF EvolutionInit
<1> QED
  BY <1>1, <1>2, <1>3, InitSaved DEF EvolutionInit, EvolutionInv, EvolutionTypeOK

LEMMA EvolutionStep == EvolutionInv /\ [EvolutionNext]_evolutionVars => EvolutionInv'
<1> SUFFICES ASSUME EvolutionInv, [EvolutionNext]_evolutionVars PROVE EvolutionInv'
  OBVIOUS
<1>1. SavedInv' /\ ProposalsTyped'
  BY StepSaved DEF EvolutionInv, SavedInv
<1> SUFFICES /\ strategy' \in Strategies /\ strategyFile' \in Strategies \union {Torn}
             /\ sinceEval' \in 0 .. EvalInterval - 1 /\ loaded' \in BOOLEAN /\ saveFailed' \in BOOLEAN
  BY <1>1 DEF EvolutionInv, EvolutionTypeOK, ProposalsTyped
<1> USE EvolutionAssumption DEF EvolutionInv, EvolutionTypeOK
<1>2. CASE UNCHANGED evolutionVars
  BY <1>2 DEF evolutionVars
<1>3. CASE CompleteTick
  BY <1>3 DEF CompleteTick
<1>4. ASSUME NEW i \in DOMAIN proposals, RefuseWeakening(i) \/ RejectProposal(i)
      PROVE  UNCHANGED <<strategy, strategyFile, sinceEval, loaded, saveFailed>>
  BY <1>4 DEF RefuseWeakening, RejectProposal
<1>5. ASSUME NEW i \in DOMAIN proposals, NEW outcome \in {"saved", "torn", "untouched"}, AcceptProposal(i, outcome)
      PROVE  /\ strategy' \in Strategies /\ strategyFile' \in Strategies \union {Torn}
             /\ UNCHANGED <<sinceEval, loaded>> /\ saveFailed' \in BOOLEAN
  <2>1. proposals[i].mutation \in Mutations
    BY ProposalTyped DEF SavedInv
  <2>2. strategy' \in Strategies
    BY <1>5, <2>1, MutatedTyped DEF AcceptProposal
  <2> QED
    BY <1>5, <2>2 DEF AcceptProposal
<1>6. CASE EndProcess
  <2>1. strategyFile' \in {strategyFile, Torn}
    BY <1>6 DEF EndProcess
  <2>2. sinceEval' = 0 /\ 0 \in 0 .. EvalInterval - 1
    BY <1>6 DEF EndProcess
  <2>3. loaded' = FALSE /\ saveFailed' = FALSE /\ UNCHANGED strategy
    BY <1>6 DEF EndProcess
  <2> QED
    BY <2>1, <2>2, <2>3
<1>7. CASE LoadStrategy
  BY <1>7 DEF LoadStrategy
<1> QED
  BY <1>2, <1>3, <1>4, <1>5, <1>6, <1>7 DEF EvolutionNext

LEMMA EvolutionTyped == EvolutionSpec => []EvolutionTypeOK
<1>1. EvolutionInv => EvolutionTypeOK
  BY DEF EvolutionInv
<1> QED
  BY <1>1, EvolutionInitially, EvolutionStep, PTL DEF EvolutionSpec
=============================================================================

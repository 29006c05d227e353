-------------------------- MODULE Commerce_proofs ---------------------------
(***************************************************************************)
(* Theorems about the parts that take or spend money, or know who does:    *)
(* A2ATaskStore, X402Gate, LiveOrders, SpendControls, CryptoRouting and    *)
(* AgentRegistry, for any clients, prices, caps and limits.                *)
(*                                                                         *)
(* The task store stays bounded, keeps what is unfinished and holds its    *)
(* rates; the gate's books account for what it served; what leaves the     *)
(* wallet uncounted is bounded; the velocity breaker needs a history, and  *)
(* bursts are bounded; the paper exchange's books agree with its orders;   *)
(* and the registry says of agents and peers what happened to them.        *)
(***************************************************************************)
EXTENDS A2ATaskStore, X402Gate, LiveOrders, SpendControls, CryptoRouting, AgentRegistry,
        Facts

-----------------------------------------------------------------------------
(* A2ATaskStore *)

-----------------------------------------------------------------------------
(* What each action does to the ids in the store *)

LEMMA SendAddsOne ==
  ASSUME NEW client, NEW id, NEW state, SendMessage(client, id, state)
  PROVE  /\ Held' = (Held \ Purgeable) \union {id} /\ id \notin Held /\ ~IsFull
  BY DEF SendMessage, Held

LEMMA CancelKeepsIds == ASSUME NEW id, CancelTask(id) PROVE Held' = Held
  BY DEF CancelTask, Held

LEMMA TickKeepsIds == ASSUME Tick PROVE Held' = Held
  BY DEF Tick, Held

LEMMA RefusalsKeepTasks ==
  ASSUME NEW client, RefuseRate(client) \/ RefuseFull(client)
  PROVE  UNCHANGED tasks
  BY DEF RefuseRate, RefuseFull, vars

-----------------------------------------------------------------------------
(* The bound *)

\* StoreBounded says something of a finite store only.
StoreInv == Held \subseteq TaskIds /\ StoreBounded

LEMMA HeldIsFinite ==
  ASSUME Held \subseteq TaskIds PROVE IsFiniteSet(Held) /\ Cardinality(Held) \in Nat
  BY StoreAssumption, FS_Subset, FS_CardinalityType

LEMMA InitStoreInv == Init => StoreInv
<1> SUFFICES ASSUME Init PROVE StoreInv
  OBVIOUS
<1>1. Held = {}
  BY DEF Init, Held
<1> QED
  BY <1>1, FS_EmptySet, StoreAssumption DEF StoreInv, StoreBounded

LEMMA SendKeepsStoreInv ==
  ASSUME StoreInv, NEW client, NEW id \in TaskIds, NEW state, SendMessage(client, id, state)
  PROVE  StoreInv'
<1> DEFINE kept == Held \ Purgeable
<1>1. Held' = kept \union {id} /\ id \notin Held /\ ~IsFull
  BY SendAddsOne
<1>2. IsFiniteSet(Held) /\ Cardinality(Held) \in Nat
  BY HeldIsFinite DEF StoreInv
<1>3. IsFiniteSet(kept) /\ Cardinality(kept) <= Cardinality(Held) /\ Cardinality(kept) \in Nat
  <2>1. kept \subseteq Held
    OBVIOUS
  <2> HIDE DEF kept
  <2> QED
    BY <1>2, <2>1, FS_Subset, FS_CardinalityType
<1>4. Cardinality(kept \union {id}) = Cardinality(kept) + 1
  <2>1. id \notin kept
    BY <1>1
  <2> HIDE DEF kept
  <2> QED
    BY <1>3, <2>1, FS_AddElement
<1>5. Cardinality(Held) < MaxTasks
  BY <1>1, <1>2, StoreAssumption DEF IsFull
<1>6. Cardinality(Held') <= MaxTasks
  <2> HIDE DEF kept
  <2> QED
    BY <1>1, <1>2, <1>3, <1>4, <1>5, StoreAssumption
<1>7. Held' \subseteq TaskIds
  BY <1>1 DEF StoreInv
<1> QED
  BY <1>6, <1>7 DEF StoreInv, StoreBounded

LEMMA StepStoreInv ==
  ASSUME StoreInv, [Next]_vars
  PROVE  StoreInv'
<1>1. CASE UNCHANGED tasks
  BY <1>1 DEF StoreInv, StoreBounded, Held
<1>2. ASSUME NEW client \in Clients, Send(client)
      PROVE  StoreInv'
  BY <1>1, <1>2, RefusalsKeepTasks, SendKeepsStoreInv DEF Send
<1>3. ASSUME NEW id \in TaskIds, CancelTask(id)
      PROVE  StoreInv'
  BY <1>3, CancelKeepsIds DEF StoreInv, StoreBounded
<1>4. CASE Tick
  BY <1>4, TickKeepsIds DEF StoreInv, StoreBounded
<1> QED
  BY <1>1, <1>2, <1>3, <1>4 DEF Next, vars

\* Whatever clients send, cancel and leave lying, the store holds at most MAX_TASKS tasks
\* (_TaskStore.is_full, create_task).
THEOREM StoreStaysBounded == Spec => []StoreBounded
<1>1. StoreInv => StoreBounded
  BY DEF StoreInv
<1> QED
  BY <1>1, InitStoreInv, StepStoreInv, PTL DEF Spec

-----------------------------------------------------------------------------
(* What leaves the store *)

\* A task that was not finished for more than an hour is never purged, at any rate
\* of requests and however full the store is (_cleanup_old_tasks).
THEOREM NothingUnfinishedPurged == Spec => UnfinishedKept
<1> DEFINE Finished == \A id \in Held : id \notin DOMAIN tasks' =>
                     tasks[id].state \in Terminal /\ tasks[id].age > MaxAge
<1>1. ASSUME NEW client \in Clients, Send(client)
      PROVE  Finished
  <2>1. CASE UNCHANGED tasks
    BY <2>1 DEF Held
  <2>2. ASSUME NEW id \in TaskIds, NEW state, SendMessage(client, id, state)
        PROVE  Finished
    BY <2>2, SendAddsOne DEF Held, Purgeable
  <2> QED
    BY <1>1, <2>1, <2>2, RefusalsKeepTasks DEF Send
<1>2. ASSUME NEW id \in TaskIds, CancelTask(id)
      PROVE  Finished
  BY <1>2, CancelKeepsIds DEF Held
<1>3. ASSUME Tick PROVE Finished
  BY <1>3, TickKeepsIds DEF Held
<1>4. Next => Finished
  BY <1>1, <1>2, <1>3 DEF Next
<1> QED
  BY <1>4, PTL DEF Spec, UnfinishedKept

-----------------------------------------------------------------------------
(* The rate *)

\* How many of the ages are age, and how many are below limit.
Count(ages, age) == Cardinality({i \in DOMAIN ages : ages[i] = age})
CountBelow(ages, limit) == Cardinality({i \in DOMAIN ages : ages[i] < limit})

\* The list of a client says exactly when its requests were let through, as far as the
\* window goes, and there are no more of them than the limit: what the code keeps is what
\* the property counts.
RateInv ==
  /\ requests \in [Clients -> Seq(0 .. Window)]
  /\ admitted \in [Clients -> [0 .. Window - 1 -> Nat]]
  /\ \A c \in Clients :
       /\ \A age \in 0 .. Window - 1 : admitted[c][age] = Count(requests[c], age)
       /\ CountBelow(requests[c], Window) <= MaxPerWindow

LEMMA CountIs ==
  ASSUME NEW ages \in Seq(0 .. Window), NEW age
  PROVE  /\ IsFiniteSet(DOMAIN ages) /\ Count(ages, age) \in Nat /\ CountBelow(ages, age) \in Nat
         /\ IsFiniteSet({i \in DOMAIN ages : ages[i] = age}) /\ IsFiniteSet({i \in DOMAIN ages : ages[i] < age})
<1>1. IsFiniteSet(DOMAIN ages)
  <2>1. Len(ages) \in Nat /\ DOMAIN ages = 1 .. Len(ages)
    OBVIOUS
  <2> QED
    BY <2>1, FS_Interval
<1>2. IsFiniteSet({i \in DOMAIN ages : ages[i] = age}) /\ IsFiniteSet({i \in DOMAIN ages : ages[i] < age})
  <2>1. {i \in DOMAIN ages : ages[i] = age} \subseteq DOMAIN ages /\ {i \in DOMAIN ages : ages[i] < age} \subseteq DOMAIN ages
    OBVIOUS
  <2> QED
    BY <1>1, <2>1, FS_Subset
<1> QED
  BY <1>1, <1>2, FS_CardinalityType DEF Count, CountBelow

LEMMA AgesAre ==
  ASSUME NEW ages \in Seq(0 .. Window)
  PROVE  /\ Len(ages) \in Nat /\ DOMAIN ages = 1 .. Len(ages)
         /\ \A i \in DOMAIN ages : ages[i] \in 0 .. Window /\ ages[i] \in Nat
<1> DEFINE T == 0 .. Window
<1>1. T \subseteq Nat
  BY StoreAssumption
<1> HIDE DEF T
<1>2. ages \in Seq(T)
  BY DEF T
<1>3. \A i \in DOMAIN ages : ages[i] \in T
  BY <1>2
<1> QED
  BY <1>1, <1>2, <1>3 DEF T

\* The ages below the limit, one after the other.
LEMMA CountsAddUp ==
  ASSUME NEW ages \in Seq(0 .. Window), NEW g, \A age \in 0 .. Window - 1 : g[age] = Count(ages, age)
  PROVE  SumFunctionOnSet(g, 0 .. Window - 1) = CountBelow(ages, Window)
<1> DEFINE Adds(n) == SumFunctionOnSet(g, 0 .. n - 1) = CountBelow(ages, n)
           S == {n \in Nat : n <= Window => Adds(n)}
<1>1. 0 \in S
  <2>1. 0 .. 0 - 1 = {} /\ {i \in DOMAIN ages : ages[i] < 0} = {}
    <3>1. \A i \in DOMAIN ages : ages[i] \in 0 .. Window
      BY AgesAre
    <3> QED
      BY <3>1, StoreAssumption
  <2>2. SumFunctionOnSet(g, {}) = 0 /\ Cardinality({}) = 0
    BY FS_EmptySet, SumSplits
  <2>3. Adds(0)
    BY <2>1, <2>2 DEF CountBelow
  <2> QED
    BY <2>3
<1>2. ASSUME NEW n \in S PROVE n + 1 \in S
  <2>1. ASSUME n + 1 <= Window PROVE Adds(n + 1)
    <3>0. n \in Nat /\ Adds(n) /\ n \in 0 .. Window - 1
      BY <1>2, <2>1, StoreAssumption
    <3>1. SumFunctionOnSet(g, 0 .. n) = g[n] + SumFunctionOnSet(g, (0 .. n) \ {n})
      <4>1. IsFiniteSet(0 .. n)
        BY <3>0, FS_Interval
      <4>2. \A age \in 0 .. n : g[age] \in Int
        <5> TAKE age \in 0 .. n
        <5>1. age \in 0 .. Window - 1
          BY <2>1, <3>0, StoreAssumption
        <5>2. g[age] = Count(ages, age) /\ Count(ages, age) \in Nat
          BY <5>1, CountIs
        <5> QED
          BY <5>2
      <4>3. n \in 0 .. n
        BY <3>0
      <4> QED
        BY <4>1, <4>2, <4>3, SumSplits
    <3>2. (0 .. n) \ {n} = 0 .. n - 1 /\ 0 .. (n + 1) - 1 = 0 .. n
      BY <3>0
    <3>3. CountBelow(ages, n + 1) = Count(ages, n) + CountBelow(ages, n)
      <4> DEFINE A == {i \in DOMAIN ages : ages[i] = n}
                 B == {i \in DOMAIN ages : ages[i] < n}
      <4>1. {i \in DOMAIN ages : ages[i] < n + 1} = A \union B /\ A \intersect B = {}
        <5>1. \A i \in DOMAIN ages : ages[i] \in Nat
          BY AgesAre
        <5> QED
          BY <3>0, <5>1
      <4>2. IsFiniteSet(A) /\ IsFiniteSet(B)
        BY CountIs
      <4>3. Cardinality(A) = Count(ages, n) /\ Cardinality(B) = CountBelow(ages, n)
            /\ CountBelow(ages, n + 1) = Cardinality(A \union B)
        BY <4>1 DEF Count, CountBelow
      <4> HIDE DEF A, B
      <4>4. Cardinality(A \union B) = Cardinality(A) + Cardinality(B) - Cardinality(A \intersect B)
        BY <4>2, FS_Union
      <4>5. Cardinality(A \intersect B) = 0
        BY <4>1, FS_EmptySet
      <4>6. Cardinality(A) \in Nat /\ Cardinality(B) \in Nat
        BY <4>2, FS_CardinalityType
      <4> QED
        BY <4>3, <4>4, <4>5, <4>6
    <3>4. g[n] = Count(ages, n)
      BY <3>0
    <3> QED
      BY <3>0, <3>1, <3>2, <3>3, <3>4
  <2> QED
    BY <2>1
<1>3. S = Nat
  <2> HIDE DEF S
  <2> S \in SUBSET Nat
    BY DEF S
  <2> QED
    BY <1>1, <1>2, SetInduction
<1> QED
  BY <1>3, StoreAssumption

LEMMA AdmitKeepsRate ==
  ASSUME RateInv, NEW client \in Clients, Admit(client)
  PROVE  RateInv'
<1> DEFINE old == requests[client]
           recent == {i \in DOMAIN old : old[i] < Window}
           kept == Kept(old, recent)
           new == Append(kept, 0)
<1>1. /\ Len(kept) < MaxPerWindow
      /\ requests' = [requests EXCEPT ![client] = new]
      /\ admitted' = [admitted EXCEPT ![client][0] = @ + 1]
  BY DEF Admit, WithinRate, Recent
<1>2. old \in Seq(0 .. Window) /\ recent \in SUBSET DOMAIN old
  BY DEF RateInv
<1>3. kept \in Seq(0 .. Window) /\ Len(kept) \in Nat
  BY <1>2, KeptIs
<1> HIDE DEF kept
<1>4. /\ new \in Seq(0 .. Window) /\ Len(new) = Len(kept) + 1
      /\ DOMAIN new = 1 .. Len(kept) + 1 /\ DOMAIN kept = 1 .. Len(kept)
      /\ new[Len(kept) + 1] = 0 /\ \A i \in 1 .. Len(kept) : new[i] = kept[i]
  <2>1. 0 \in 0 .. Window
    BY StoreAssumption
  <2> QED
    BY <1>3, <2>1
<1> HIDE DEF new
<1>5. ASSUME NEW age \in 0 .. Window - 1 PROVE Count(kept, age) = Count(old, age)
  <2>1. Places(old, age) \subseteq recent
    BY StoreAssumption DEF Places
  <2> HIDE DEF old, recent
  <2>2. Cardinality(Places(Kept(old, recent), age)) = Cardinality(Places(old, age))
    BY <1>2, <2>1, KeptCount
  <2> QED
    BY <2>2 DEF Count, Places, kept
<1>6. Count(new, 0) = Count(kept, 0) + 1
  <2>1. {i \in DOMAIN new : new[i] = 0} = {i \in DOMAIN kept : kept[i] = 0} \union {Len(kept) + 1}
    BY <1>3, <1>4
  <2>2. IsFiniteSet({i \in DOMAIN kept : kept[i] = 0}) /\ Len(kept) + 1 \notin {i \in DOMAIN kept : kept[i] = 0}
    <3>1. IsFiniteSet({i \in DOMAIN kept : kept[i] = 0})
      BY <1>3, CountIs
    <3>2. Len(kept) + 1 \notin DOMAIN kept
      BY <1>3, <1>4
    <3> QED
      BY <3>1, <3>2
  <2> QED
    BY <2>1, <2>2, FS_AddElement DEF Count
<1>7. ASSUME NEW age \in 0 .. Window - 1, age # 0 PROVE Count(new, age) = Count(kept, age)
  <2>1. {i \in DOMAIN new : new[i] = age} = {i \in DOMAIN kept : kept[i] = age}
    BY <1>3, <1>4, <1>7
  <2> QED
    BY <2>1 DEF Count
<1>8. CountBelow(new, Window) <= MaxPerWindow
  <2>1. {i \in DOMAIN new : new[i] < Window} \subseteq 1 .. Len(kept) + 1
    BY <1>4
  <2>2. Cardinality(1 .. Len(kept) + 1) = Len(kept) + 1 /\ IsFiniteSet(1 .. Len(kept) + 1)
    BY <1>3, FS_Interval
  <2>3. CountBelow(new, Window) <= Len(kept) + 1
    BY <2>1, <2>2, FS_Subset DEF CountBelow
  <2>4. CountBelow(new, Window) \in Nat
    BY <1>4, CountIs
  <2> QED
    BY <1>1, <1>3, <2>3, <2>4, StoreAssumption
<1>9. requests' \in [Clients -> Seq(0 .. Window)] /\ requests'[client] = new
      /\ \A c \in Clients : c # client => requests'[c] = requests[c]
  BY <1>1, <1>4 DEF RateInv
<1>10. 0 \in 0 .. Window - 1
  BY StoreAssumption
<1>11. /\ admitted' \in [Clients -> [0 .. Window - 1 -> Nat]]
       /\ admitted'[client][0] = admitted[client][0] + 1
       /\ \A age \in 0 .. Window - 1 : age # 0 => admitted'[client][age] = admitted[client][age]
       /\ \A c \in Clients : c # client => admitted'[c] = admitted[c]
  <2>1. admitted[client] \in [0 .. Window - 1 -> Nat]
    BY DEF RateInv
  <2> DEFINE counts == [admitted[client] EXCEPT ![0] = @ + 1]
  <2>2. /\ counts \in [0 .. Window - 1 -> Nat] /\ counts[0] = admitted[client][0] + 1
        /\ \A age \in 0 .. Window - 1 : age # 0 => counts[age] = admitted[client][age]
    <3>1. \A age \in 0 .. Window - 1 : admitted[client][age] \in Nat
      BY <2>1
    <3>2. DOMAIN admitted[client] = 0 .. Window - 1
      BY <2>1
    <3>3. counts = [age \in 0 .. Window - 1 |-> IF age = 0 THEN admitted[client][0] + 1 ELSE admitted[client][age]]
      BY <3>2
    <3> HIDE DEF counts
    <3> QED
      BY <1>10, <3>1, <3>3
  <2>3. admitted' = [admitted EXCEPT ![client] = counts]
    BY <1>1
  <2> HIDE DEF counts
  <2> QED
    BY <2>2, <2>3 DEF RateInv
<1>12. ASSUME NEW c \in Clients
       PROVE  /\ \A age \in 0 .. Window - 1 : admitted'[c][age] = Count(requests'[c], age)
              /\ CountBelow(requests'[c], Window) <= MaxPerWindow
  <2>1. CASE c = client
    <3>1. ASSUME NEW age \in 0 .. Window - 1 PROVE admitted'[c][age] = Count(requests'[c], age)
      <4>1. admitted[client][age] = Count(old, age)
        BY DEF RateInv
      <4>2. CASE age = 0
        BY <1>5, <1>6, <1>9, <1>11, <2>1, <4>1, <4>2
      <4>3. CASE age # 0
        BY <1>5, <1>7, <1>9, <1>11, <2>1, <4>1, <4>3
      <4> QED
        BY <4>2, <4>3
    <3> QED
      BY <1>8, <1>9, <2>1, <3>1
  <2>2. CASE c # client
    BY <1>9, <1>11, <2>2 DEF RateInv
  <2> QED
    BY <2>1, <2>2
<1> QED
  BY <1>9, <1>11, <1>12 DEF RateInv

LEMMA TickKeepsRate ==
  ASSUME RateInv, Tick
  PROVE  RateInv'
<1> DEFINE older(c) == [i \in 1 .. Len(requests[c]) |-> Older(requests[c][i], Window)]
<1>1. ASSUME NEW c \in Clients
      PROVE  /\ requests[c] \in Seq(0 .. Window) /\ Len(requests[c]) \in Nat
             /\ DOMAIN requests[c] = 1 .. Len(requests[c])
             /\ \A i \in DOMAIN requests[c] : requests[c][i] \in 0 .. Window
  <2>1. requests[c] \in Seq(0 .. Window)
    BY DEF RateInv
  <2> QED
    BY <2>1, AgesAre
<1>2. ASSUME NEW c \in Clients
      PROVE  /\ requests'[c] \in Seq(0 .. Window) /\ DOMAIN requests'[c] = DOMAIN requests[c]
             /\ \A i \in DOMAIN requests[c] : requests'[c][i] = Older(requests[c][i], Window)
  <2>1. requests'[c] = older(c)
    BY DEF Tick
  <2>2. older(c) \in [1 .. Len(requests[c]) -> 0 .. Window]
    BY <1>1, StoreAssumption DEF Older
  <2> QED
    BY <1>1, <2>1, <2>2
<1>3. requests' = [c \in Clients |-> requests'[c]]
  BY DEF Tick
<1>4. /\ admitted' \in [Clients -> [0 .. Window - 1 -> Nat]]
      /\ \A c \in Clients : admitted'[c][0] = 0
      /\ \A c \in Clients, age \in 1 .. Window - 1 : admitted'[c][age] = admitted[c][age - 1]
  <2>1. 0 \in 0 .. Window - 1
    BY StoreAssumption
  <2>2. \A c \in Clients, age \in 0 .. Window - 1 : age # 0 => admitted[c][age - 1] \in Nat
    <3> TAKE c \in Clients, age \in 0 .. Window - 1
    <3>1. age # 0 => age - 1 \in 0 .. Window - 1
      BY StoreAssumption
    <3> QED
      BY <3>1 DEF RateInv
  <2> QED
    BY <2>1, <2>2, StoreAssumption DEF Tick
<1>5. ASSUME NEW c \in Clients
      PROVE  /\ \A age \in 0 .. Window - 1 : admitted'[c][age] = Count(requests'[c], age)
             /\ CountBelow(requests'[c], Window) <= MaxPerWindow
  <2>1. ASSUME NEW age \in 0 .. Window - 1 PROVE admitted'[c][age] = Count(requests'[c], age)
    <3>1. CASE age = 0
      <4>1. {i \in DOMAIN requests'[c] : requests'[c][i] = age} = {}
        <5>1. \A i \in DOMAIN requests[c] : Older(requests[c][i], Window) # 0
          BY <1>1, StoreAssumption DEF Older
        <5> QED
          BY <1>2, <3>1, <5>1
      <4> QED
        BY <1>4, <3>1, <4>1, FS_EmptySet DEF Count
    <3>2. CASE age # 0
      <4>1. {i \in DOMAIN requests'[c] : requests'[c][i] = age} = {i \in DOMAIN requests[c] : requests[c][i] = age - 1}
        BY <1>1, <1>2, <3>2, StoreAssumption DEF Older
      <4>2. age - 1 \in 0 .. Window - 1 /\ age \in 1 .. Window - 1
        BY <3>2, StoreAssumption
      <4>3. admitted'[c][age] = admitted[c][age - 1]
        BY <1>4, <4>2
      <4> QED
        BY <4>1, <4>2, <4>3 DEF Count, RateInv
    <3> QED
      BY <3>1, <3>2
  <2>2. CountBelow(requests'[c], Window) <= CountBelow(requests[c], Window)
    <3>1. {i \in DOMAIN requests'[c] : requests'[c][i] < Window} \subseteq {i \in DOMAIN requests[c] : requests[c][i] < Window}
      BY <1>1, <1>2, StoreAssumption DEF Older
    <3>2. IsFiniteSet({i \in DOMAIN requests[c] : requests[c][i] < Window})
      BY <1>1, CountIs
    <3> QED
      BY <3>1, <3>2, FS_Subset DEF CountBelow
  <2>3. CountBelow(requests'[c], Window) \in Nat /\ CountBelow(requests[c], Window) \in Nat
    BY <1>1, <1>2, CountIs
  <2>4. CountBelow(requests[c], Window) <= MaxPerWindow
    BY DEF RateInv
  <2> QED
    BY <2>1, <2>2, <2>3, <2>4, StoreAssumption
<1>6. requests' \in [Clients -> Seq(0 .. Window)]
  BY <1>2, <1>3
<1> QED
  BY <1>4, <1>5, <1>6 DEF RateInv

LEMMA RateInitially == Init => RateInv
<1> SUFFICES ASSUME Init PROVE RateInv
  OBVIOUS
<1>1. requests = [c \in Clients |-> <<>>] /\ admitted = [c \in Clients |-> [age \in 0 .. Window - 1 |-> 0]]
  BY DEF Init
<1>2. \A age : Count(<<>>, age) = 0 /\ CountBelow(<<>>, age) = 0
  <2> TAKE age
  <2>1. {i \in DOMAIN <<>> : <<>>[i] = age} = {} /\ {i \in DOMAIN <<>> : <<>>[i] < age} = {}
    OBVIOUS
  <2> QED
    BY <2>1, FS_EmptySet DEF Count, CountBelow
<1> QED
  BY <1>1, <1>2, StoreAssumption DEF RateInv

LEMMA RateStep == RateInv /\ [Next]_vars => RateInv'
<1> SUFFICES ASSUME RateInv, [Next]_vars PROVE RateInv'
  OBVIOUS
<1>1. CASE UNCHANGED <<requests, admitted>>
  BY <1>1 DEF RateInv
<1>2. ASSUME NEW client \in Clients, Send(client) PROVE RateInv'
  BY <1>1, <1>2, AdmitKeepsRate DEF Send, RefuseRate, RefuseFull, SendMessage, vars
<1> QED
  BY <1>1, <1>2, TickKeepsRate DEF Next, CancelTask, vars

LEMMA RateIsLimit == RateInv => RateLimitHolds
<1> SUFFICES ASSUME RateInv, NEW c \in Clients PROVE SumFunction(admitted[c]) <= MaxPerWindow
  BY DEF RateLimitHolds
<1>1. DOMAIN admitted[c] = 0 .. Window - 1 /\ requests[c] \in Seq(0 .. Window)
      /\ \A age \in 0 .. Window - 1 : admitted[c][age] = Count(requests[c], age)
  BY DEF RateInv
<1>2. SumFunction(admitted[c]) = SumFunctionOnSet(admitted[c], 0 .. Window - 1)
  BY <1>1 DEF SumFunction
<1> QED
  BY <1>1, <1>2, CountsAddUp DEF RateInv

\* In the last Window of time no client was let through more often than
\* MAX_TASKS_PER_MINUTE, whatever was pruned when (_check_rate_limit).
THEOREM RatesHold == Spec => []RateLimitHolds
<1> QED
  BY RateInitially, RateStep, RateIsLimit, PTL DEF Spec

-----------------------------------------------------------------------------
(* Types of A2ATaskStore *)

TasksTyped == \A id \in Held : tasks[id].state \in States /\ tasks[id].age \in 0 .. MaxAge + 1

LEMMA TasksStep == TasksTyped /\ [Next]_vars => TasksTyped'
<1> SUFFICES ASSUME TasksTyped, [Next]_vars PROVE TasksTyped'
  OBVIOUS
<1>1. CASE UNCHANGED tasks
  BY <1>1 DEF TasksTyped, Held
<1>2. ASSUME NEW client, NEW id, NEW state \in HandlerStates \union {"failed"}, SendMessage(client, id, state)
      PROVE  TasksTyped'
  BY <1>2, StoreAssumption DEF SendMessage, TasksTyped, Held, States, Terminal
<1>3. ASSUME NEW id, CancelTask(id) PROVE TasksTyped'
  BY <1>3, StoreAssumption DEF CancelTask, TasksTyped, Held, States, Terminal
<1>4. CASE Tick
  <2> SUFFICES ASSUME NEW id \in Held'
               PROVE  tasks'[id].state \in States /\ tasks'[id].age \in 0 .. MaxAge + 1
    BY DEF TasksTyped
  <2>1. id \in Held /\ tasks'[id] = [tasks[id] EXCEPT !.age = Older(tasks[id].age, MaxAge + 1)]
    BY <1>4 DEF Tick, Held
  <2>2. tasks[id].state \in States /\ tasks[id].age \in 0 .. MaxAge + 1
    BY <2>1 DEF TasksTyped
  <2>3. tasks'[id].state \in {tasks[id].state} /\ tasks'[id].age \in {tasks[id].age, Older(tasks[id].age, MaxAge + 1)}
    BY <2>1
  <2> QED
    BY <2>2, <2>3, StoreAssumption DEF Older
<1> QED
  BY <1>1, <1>2, <1>3, <1>4, RefusalsKeepTasks DEF Next, Send, vars

LEMMA TasksInitially == Init => TasksTyped
  BY DEF Init, TasksTyped, Held

LEMMA StoreTyped == StoreInv /\ RateInv /\ TasksTyped => TypeOK /\ StoreBounded
  BY DEF StoreInv, RateInv, TasksTyped, TypeOK

-----------------------------------------------------------------------------
(* X402Gate *)

\* Authorizations broadcast by a request that was not rejected, as far as the chain has
\* not dropped them.
Accounted == (settled \union mempool) \ orphans

BooksInv ==
  /\ books.payments \in Nat /\ served \in Nat
  /\ settled \subseteq Nonces /\ mempool \subseteq Nonces /\ orphans \subseteq Nonces
  /\ purse # "noSdk" => served <= books.payments
  /\ Cardinality(Accounted) <= books.payments

-----------------------------------------------------------------------------
(* Sets of authorizations *)

LEMMA NoncesFinite ==
  ASSUME NEW S \in SUBSET Nonces
  PROVE  IsFiniteSet(S) /\ Cardinality(S) \in Nat
BY FS_Subset, FS_CardinalityType, GateAssumption

LEMMA FewerNonces ==
  ASSUME NEW S \in SUBSET Nonces, NEW T \in SUBSET S
  PROVE  Cardinality(T) <= Cardinality(S)
BY NoncesFinite, FS_Subset

LEMMA OneNonceMore ==
  ASSUME NEW S \in SUBSET Nonces, NEW n \in Nonces, NEW T \in SUBSET (S \union {n})
  PROVE  Cardinality(T) <= Cardinality(S) + 1
<1>1. Cardinality(S \union {n}) <= Cardinality(S) + 1
  BY NoncesFinite, FS_AddElement
<1>2. Cardinality(T) <= Cardinality(S \union {n})
  BY FewerNonces
<1>3. Cardinality(T) \in Nat /\ Cardinality(S \union {n}) \in Nat /\ Cardinality(S) \in Nat
  BY NoncesFinite
<1>4. QED
  BY <1>1, <1>2, <1>3

-----------------------------------------------------------------------------
(* The steps *)

LEMMA BooksInit == GateInit => BooksInv
<1> SUFFICES ASSUME GateInit PROVE BooksInv
  OBVIOUS
<1>1. books.payments = 0 /\ served = 0 /\ settled = {} /\ mempool = {} /\ orphans = {}
  BY DEF GateInit
<1>2. Cardinality(Accounted) = 0
  BY <1>1, FS_EmptySet DEF Accounted
<1>3. QED
  BY <1>1, <1>2 DEF BooksInv

\* What is broadcast for a payment on record adds one authorization at most.
LEMMA BroadcastAdds ==
  ASSUME BooksInv, NEW header \in PaymentHeader, Broadcast(header), settled' = settled, orphans' = orphans
  PROVE  /\ mempool' \subseteq Nonces
         /\ Cardinality(Accounted') <= Cardinality(Accounted) + 1
<1>1. header.nonce \in Nonces
  BY DEF PaymentHeader
<1>2. mempool' \subseteq Nonces /\ Accounted \subseteq Nonces
  BY <1>1 DEF Broadcast, BooksInv, Accounted
<1>3. Accounted' \subseteq Accounted \union {header.nonce}
  BY DEF Broadcast, Accounted
<1>4. QED
  BY <1>1, <1>2, <1>3, OneNonceMore

\* A payment that is recorded, with the request served or not.
LEMMA RecordedKeepsInv ==
  ASSUME BooksInv, NEW price, RecordPayment(price), NEW answer, Execute(answer), purse' = purse,
         settled' = settled, mempool' \subseteq Nonces, orphans' = orphans,
         Cardinality(Accounted') <= Cardinality(Accounted) + 1
  PROVE  BooksInv'
<1>1. books'.payments = books.payments + 1
  BY DEF RecordPayment
<1>2. served' \in {served, served + 1}
  BY DEF Execute
<1>3. Cardinality(Accounted) \in Nat /\ Cardinality(Accounted') \in Nat
  BY NoncesFinite DEF BooksInv, Accounted
<1>4. QED
  BY <1>1, <1>2, <1>3 DEF BooksInv

\* Steps that leave the books alone and account for nothing more.
LEMMA UnrecordedKeepsInv ==
  ASSUME BooksInv, books' = books, purse' = purse, served' = served,
         settled' \subseteq Nonces, mempool' \subseteq Nonces, orphans' \subseteq Nonces,
         Accounted' \subseteq Accounted
  PROVE  BooksInv'
<1>1. Accounted \subseteq Nonces
  BY DEF BooksInv, Accounted
<1>2. Cardinality(Accounted') <= Cardinality(Accounted)
  BY <1>1, FewerNonces
<1>3. Cardinality(Accounted) \in Nat /\ Cardinality(Accounted') \in Nat
  BY <1>1, NoncesFinite
<1>4. QED
  BY <1>2, <1>3 DEF BooksInv

LEMMA PaidRequestKeepsInv ==
  ASSUME BooksInv, NEW price \in Priced, PaidRequest(price)
  PROVE  BooksInv'
<1>a. ASSUME UNCHANGED <<verifier, purse, books, mempool, settled, served, orphans>> PROVE BooksInv'
  BY <1>a, UnrecordedKeepsInv DEF BooksInv, Accounted
<1>1. CASE ServeFree
  BY <1>1, <1>a DEF ServeFree
<1>2. CASE RequirePayment
  BY <1>2, <1>a DEF RequirePayment
<1>3. ASSUME NEW header \in PaymentHeader, RejectPayment(header, price) PROVE BooksInv'
  BY <1>3, <1>a DEF RejectPayment
<1>4. ASSUME NEW header \in PaymentHeader, SettlementFails(header, price) PROVE BooksInv'
  <2>1. CASE UNCHANGED <<mempool, orphans>>
    BY <1>4, <2>1, <1>a DEF SettlementFails
  <2>2. CASE Broadcast(header) /\ orphans' = orphans \union (mempool' \ mempool)
    <3>1. mempool' \subseteq Nonces /\ orphans' \subseteq Nonces
      BY <2>2 DEF Broadcast, PaymentHeader, BooksInv
    <3>2. Accounted' \subseteq Accounted
      BY <1>4, <2>2 DEF Accounted, SettlementFails
    <3>3. QED
      BY <1>4, <3>1, <3>2, UnrecordedKeepsInv DEF SettlementFails, BooksInv
  <2>3. QED
    BY <1>4, <2>1, <2>2 DEF SettlementFails
<1>5. ASSUME NEW header \in PaymentHeader, NEW answer, AcceptOnTrust(header, price, answer) PROVE BooksInv'
  <2>1. RecordPayment(price) /\ Execute(answer) /\ UNCHANGED <<purse, mempool, settled, orphans>>
    BY <1>5 DEF AcceptOnTrust
  <2>2. Accounted' = Accounted /\ mempool' \subseteq Nonces /\ Cardinality(Accounted) \in Nat
    BY <2>1, NoncesFinite DEF Accounted, BooksInv
  <2>3. Cardinality(Accounted') <= Cardinality(Accounted) + 1
    BY <2>2
  <2>4. QED
    BY <2>1, <2>2, <2>3, RecordedKeepsInv
<1>6. ASSUME NEW header \in PaymentHeader, NEW answer, SettleAndServe(header, price, answer) PROVE BooksInv'
  <2>1. /\ Broadcast(header) /\ RecordPayment(price) /\ Execute(answer)
        /\ UNCHANGED <<purse, settled, orphans>>
    BY <1>6 DEF SettleAndServe
  <2>2. mempool' \subseteq Nonces /\ Cardinality(Accounted') <= Cardinality(Accounted) + 1
    BY <2>1, BroadcastAdds
  <2>3. QED
    BY <2>1, <2>2, RecordedKeepsInv
<1>7. ASSUME NEW header \in PaymentHeader, NEW answer, SettleSimulated(header, price, answer) PROVE BooksInv'
  <2>1. RecordPayment(price) /\ Execute(answer) /\ UNCHANGED <<purse, mempool, settled, orphans>>
    BY <1>7 DEF SettleSimulated
  <2>2. Accounted' = Accounted /\ mempool' \subseteq Nonces /\ Cardinality(Accounted) \in Nat
    BY <2>1, NoncesFinite DEF Accounted, BooksInv
  <2>3. Cardinality(Accounted') <= Cardinality(Accounted) + 1
    BY <2>2
  <2>4. QED
    BY <2>1, <2>2, <2>3, RecordedKeepsInv
<1>8. ASSUME NEW header \in PaymentHeader, NEW answer, ServeWithoutSdk(header, price, answer) PROVE BooksInv'
  <2>1. purse = "noSdk" /\ Execute(answer) /\ UNCHANGED <<purse, books, mempool, settled, orphans>>
    BY <1>8 DEF ServeWithoutSdk
  <2>2. served' \in Nat
    BY <2>1 DEF Execute, BooksInv
  <2>3. Accounted' = Accounted
    BY <2>1 DEF Accounted
  <2>4. QED
    BY <2>1, <2>2, <2>3 DEF BooksInv
<1>9. QED
  BY <1>1, <1>2, <1>3, <1>4, <1>5, <1>6, <1>7, <1>8 DEF PaidRequest

LEMMA BooksStep == BooksInv /\ [GateNext]_gateVars => BooksInv'
<1> SUFFICES ASSUME BooksInv, [GateNext]_gateVars PROVE BooksInv'
  OBVIOUS
<1>1. ASSUME NEW price \in Priced, PaidRequest(price) PROVE BooksInv'
  BY <1>1, PaidRequestKeepsInv
<1>2. ASSUME NEW nonce \in Nonces, MinePayment(nonce) PROVE BooksInv'
  <2>1. settled' \subseteq Nonces /\ mempool' \subseteq Nonces /\ Accounted' \subseteq Accounted
    BY <1>2 DEF MinePayment, BooksInv, Accounted
  <2>2. QED
    BY <1>2, <2>1, UnrecordedKeepsInv DEF MinePayment, BooksInv
<1>3. ASSUME NEW nonce \in Nonces, RevertPayment(nonce) PROVE BooksInv'
  <2>1. settled' \subseteq Nonces /\ mempool' \subseteq Nonces /\ Accounted' \subseteq Accounted
    BY <1>3 DEF RevertPayment, BooksInv, Accounted
  <2>2. QED
    BY <1>3, <2>1, UnrecordedKeepsInv DEF RevertPayment, BooksInv
<1>4. CASE UNCHANGED gateVars
  BY <1>4, UnrecordedKeepsInv DEF gateVars, BooksInv, Accounted
<1>5. QED
  BY <1>1, <1>2, <1>3, <1>4 DEF GateNext

-----------------------------------------------------------------------------
(* The theorem *)

\* An authorization that was executed is on record or an orphan.
LEMMA SettledAccounted ==
  ASSUME BooksInv
  PROVE  Cardinality(settled) <= books.payments + Cardinality(orphans)
<1> DEFINE kept == settled \ orphans
<1>1. /\ kept \subseteq Nonces /\ orphans \subseteq Nonces /\ settled \subseteq Nonces
      /\ kept \subseteq Accounted /\ Accounted \subseteq Nonces
  BY DEF BooksInv, Accounted
<1>2. /\ IsFiniteSet(kept) /\ IsFiniteSet(orphans) /\ kept \intersect orphans = {}
      /\ settled \subseteq kept \union orphans /\ kept \union orphans \subseteq Nonces
  BY <1>1, NoncesFinite
<1>3. Cardinality(kept \union orphans) = Cardinality(kept) + Cardinality(orphans) - Cardinality({})
  BY <1>2, FS_Union
<1>4. Cardinality({}) = 0
  BY FS_EmptySet
<1>5. Cardinality(settled) <= Cardinality(kept \union orphans)
  BY <1>2, FewerNonces
<1>6. Cardinality(kept) <= Cardinality(Accounted)
  BY <1>1, FewerNonces
<1>7. Cardinality(Accounted) <= books.payments /\ books.payments \in Nat
  BY DEF BooksInv
<1>8. /\ Cardinality(settled) \in Nat /\ Cardinality(kept) \in Nat
      /\ Cardinality(orphans) \in Nat /\ Cardinality(Accounted) \in Nat
  BY <1>1, NoncesFinite
<1>9. QED
  BY <1>3, <1>4, <1>5, <1>6, <1>7, <1>8

\* The gate's books account for what it served and for what the contract executed, for any
\* headers, replays, failures and reverts (record_payment, verify_and_settle_onchain).
THEOREM GateBooksAccount == GateSpec => []GateAccounts
<1>1. BooksInv => GateAccounts
  BY SettledAccounted DEF BooksInv, GateAccounts
<1>2. QED
  BY BooksInit, BooksStep, <1>1, PTL DEF GateSpec
-----------------------------------------------------------------------------
(* Types of X402Gate *)

GateTyped ==
  /\ verifier \in {"structural", "onchain", "host"} /\ purse \in {"ows", "simulated", "noSdk"}
  /\ books \in [received : Nat, payments : 0 .. MaxPayments, lines : 0 .. MaxPayments]
  /\ books.lines <= books.payments
  /\ reply \in Replies /\ served \in 0 .. MaxPayments

LEMMA GateInitially == GateInit => GateTyped
<1> SUFFICES ASSUME GateInit PROVE GateTyped
  OBVIOUS
<1>1. 0 \in 0 .. MaxPayments
  BY GateAssumption
<1> QED
  BY <1>1 DEF GateInit, GateTyped, Replies

LEMMA RecordTyped ==
  ASSUME GateTyped, NEW price \in Priced, RecordPayment(price)
  PROVE  /\ books' \in [received : Nat, payments : 0 .. MaxPayments, lines : 0 .. MaxPayments]
         /\ books'.lines <= books'.payments
<1>1. PICK more \in {0, 1} : /\ books.payments < MaxPayments
                             /\ books' = [received |-> books.received + price, payments |-> books.payments + 1,
                                          lines |-> books.lines + more]
  BY DEF RecordPayment
<1>2. books.received + price \in Nat /\ books.payments + 1 \in 0 .. MaxPayments
      /\ books.lines + more \in 0 .. MaxPayments /\ books.lines + more <= books.payments + 1
  BY <1>1, GateAssumption DEF GateTyped
<1> QED
  BY <1>1, <1>2

LEMMA ExecuteTyped ==
  ASSUME GateTyped, NEW answer \in {"served", "unknown", "raised"}, Execute(answer)
  PROVE  reply' \in Replies /\ served' \in 0 .. MaxPayments
  BY GateAssumption DEF GateTyped, Execute, Replies

LEMMA GateStep == GateTyped /\ [GateNext]_gateVars => GateTyped'
<1> SUFFICES ASSUME GateTyped, [GateNext]_gateVars PROVE GateTyped'
  OBVIOUS
<1>1. CASE UNCHANGED <<verifier, purse, books, served>> /\ reply' \in Replies
  BY <1>1 DEF GateTyped
<1>2. ASSUME NEW price \in Priced, NEW header,
             RejectPayment(header, price) \/ SettlementFails(header, price)
      PROVE  GateTyped'
  BY <1>1, <1>2 DEF RejectPayment, SettlementFails, Replies
<1>3. ASSUME NEW price \in Priced, NEW header, NEW answer \in {"served", "unknown", "raised"},
             \/ AcceptOnTrust(header, price, answer) \/ SettleAndServe(header, price, answer)
             \/ SettleSimulated(header, price, answer) \/ ServeWithoutSdk(header, price, answer)
      PROVE  GateTyped'
  <2>1. RecordPayment(price) \/ UNCHANGED books
    BY <1>3 DEF AcceptOnTrust, SettleAndServe, SettleSimulated, ServeWithoutSdk
  <2>2. Execute(answer) /\ UNCHANGED <<verifier, purse>>
    BY <1>3 DEF AcceptOnTrust, SettleAndServe, SettleSimulated, ServeWithoutSdk
  <2>3. /\ books' \in [received : Nat, payments : 0 .. MaxPayments, lines : 0 .. MaxPayments]
        /\ books'.lines <= books'.payments
    BY <2>1, RecordTyped DEF GateTyped
  <2>4. reply' \in Replies /\ served' \in 0 .. MaxPayments
    BY <2>2, ExecuteTyped
  <2> QED
    BY <2>2, <2>3, <2>4 DEF GateTyped
<1>4. ASSUME NEW price \in Priced, PaidRequest(price) PROVE GateTyped'
  <2>1. CASE ServeFree \/ RequirePayment
    BY <1>1, <2>1 DEF ServeFree, RequirePayment, Replies
  <2> QED
    BY <1>2, <1>3, <1>4, <2>1 DEF PaidRequest
<1>5. ASSUME NEW nonce, MinePayment(nonce) \/ RevertPayment(nonce) PROVE GateTyped'
  BY <1>1, <1>5 DEF MinePayment, RevertPayment, GateTyped
<1>6. CASE UNCHANGED gateVars
  BY <1>1, <1>6 DEF gateVars, GateTyped
<1> QED
  BY <1>4, <1>5, <1>6 DEF GateNext

LEMMA GateTypes == GateSpec => []GateTypeOK
<1>1. BooksInv /\ GateTyped => GateTypeOK
  BY DEF BooksInv, GateTyped, GateTypeOK
<1> QED
  BY <1>1, BooksInit, BooksStep, GateInitially, GateStep, PTL DEF GateSpec

-----------------------------------------------------------------------------
(* LiveOrders *)

Counters == [spent : Nat, failures : 0 .. MaxFailures, open : 0 .. MaxOpen,
             tripped : BOOLEAN, lossToday : Nat]

\* The orders that may have left without being counted.
Escaped(open, again, failed) == (MaxFailures - 1) * open + MaxFailures * again + failed

TrippedAtLimit == IF executor.tripped THEN executor.failures >= MaxFailures
                                      ELSE executor.failures < MaxFailures

OrdersInv ==
  /\ executor \in Counters /\ moved \in Nat /\ resets \in Nat
  /\ TrippedAtLimit
  /\ executor.spent <= MaxTotal
  /\ moved <= executor.spent + MaxOrder * Escaped(executor.open, resets, executor.failures)

-----------------------------------------------------------------------------
(* Arithmetic *)

\* An order placed counts for the failures in a row before it, which are fewer than
\* MaxFailures.
LEMMA PlacedCovers ==
  ASSUME NEW open \in Nat, NEW again \in Nat, NEW failed \in Nat, failed <= MaxFailures - 1
  PROVE  Escaped(open, again, failed) <= Escaped(open + 1, again, 0)
<1>1. (MaxFailures - 1) * (open + 1) = (MaxFailures - 1) * open + (MaxFailures - 1)
  BY OrdersAssumption
<1>2. (MaxFailures - 1) * open \in Int /\ MaxFailures * again \in Int
  BY OrdersAssumption
<1>3. QED
  BY <1>1, <1>2, OrdersAssumption DEF Escaped

\* So does a reset of the circuit.
LEMMA ResetCovers ==
  ASSUME NEW open \in Nat, NEW again \in Nat, NEW failed \in Nat, failed <= MaxFailures
  PROVE  Escaped(open, again, failed) <= Escaped(open, again + 1, 0)
<1>1. MaxFailures * (again + 1) = MaxFailures * again + MaxFailures
  BY OrdersAssumption
<1>2. (MaxFailures - 1) * open \in Int /\ MaxFailures * again \in Int
  BY OrdersAssumption
<1>3. QED
  BY <1>1, <1>2, OrdersAssumption DEF Escaped

LEMMA EscapedNat ==
  ASSUME NEW open \in Nat, NEW again \in Nat, NEW failed \in Nat
  PROVE  Escaped(open, again, failed) \in Nat
<1>1. (MaxFailures - 1) * open \in Nat /\ MaxFailures * again \in Nat
  BY OrdersAssumption
<1>2. QED
  BY <1>1 DEF Escaped

\* The cap on an order keeps the order of the counts.
LEMMA MoreEscaped ==
  ASSUME NEW m \in Nat, NEW n \in Nat, m <= n
  PROVE  /\ MaxOrder * m \in Nat /\ MaxOrder * n \in Nat
         /\ MaxOrder * m <= MaxOrder * n
         /\ MaxOrder * (m + 1) = MaxOrder * m + MaxOrder
<1>1. n - m \in Nat /\ n = m + (n - m)
  OBVIOUS
<1>2. MaxOrder * n = MaxOrder * m + MaxOrder * (n - m)
  BY <1>1, OrdersAssumption
<1>3. MaxOrder * m \in Nat /\ MaxOrder * n \in Nat /\ MaxOrder * (n - m) \in Nat
  BY <1>1, OrdersAssumption
<1>4. MaxOrder * (m + 1) = MaxOrder * m + MaxOrder
  BY OrdersAssumption
<1>5. QED
  BY <1>2, <1>3, <1>4

-----------------------------------------------------------------------------
(* The invariant *)

LEMMA OrdersInvInit == OrdersInit => OrdersInv
<1> SUFFICES ASSUME OrdersInit PROVE OrdersInv
  OBVIOUS
<1>0. /\ executor = [spent |-> 0, failures |-> 0, open |-> 0, tripped |-> FALSE, lossToday |-> 0]
      /\ moved = 0 /\ resets = 0
  BY DEF OrdersInit
<1>a. executor \in Counters
  BY <1>0, OrdersAssumption DEF Counters
<1>b. executor.tripped = FALSE /\ executor.failures = 0 /\ executor.spent = 0
  BY <1>0
<1>c. 0 < MaxFailures
  BY OrdersAssumption
<1>1. executor \in Counters /\ moved = 0 /\ resets = 0 /\ executor.spent = 0 /\ TrippedAtLimit
  <2>1. TrippedAtLimit
    BY <1>b, <1>c DEF TrippedAtLimit
  <2>2. QED
    BY <2>1, <1>0, <1>a, <1>b
<1>2. Escaped(executor.open, resets, executor.failures) \in Nat
  BY <1>1, EscapedNat DEF Counters
<1>3. MaxOrder * Escaped(executor.open, resets, executor.failures) \in Nat
  BY <1>2, MoreEscaped
<1>4. QED
  BY <1>1, <1>3, OrdersAssumption DEF OrdersInv

\* The steps that leave the executor's counts of orders alone.
LEMMA OthersKeepInv ==
  ASSUME OrdersInv, moved' = moved, resets' = resets, executor' \in Counters,
         executor'.spent = executor.spent, executor'.open = executor.open,
         executor'.failures = executor.failures, executor'.tripped = executor.tripped
  PROVE  OrdersInv'
  BY DEF OrdersInv, TrippedAtLimit

LEMMA PlaceKeepsInv ==
  ASSUME OrdersInv, NEW notional \in Nat, PlaceLiveOrder(notional)
  PROVE  OrdersInv'
<1> DEFINE before == Escaped(executor.open, resets, executor.failures)
           after  == Escaped(executor.open + 1, resets, 0)
<1>1. /\ executor.spent \in Nat /\ executor.failures \in 0 .. MaxFailures /\ executor.open \in 0 .. MaxOpen
      /\ moved \in Nat /\ resets \in Nat /\ executor.failures <= MaxFailures - 1
      /\ executor.open < MaxOpen /\ executor.spent + notional <= MaxTotal
      /\ moved <= executor.spent + MaxOrder * before
      /\ executor.tripped = FALSE /\ executor.lossToday \in Nat
  BY OrdersAssumption DEF OrdersInv, Counters, TrippedAtLimit, PlaceLiveOrder, WithinCaps
<1>2. /\ executor' = [executor EXCEPT !.spent = executor.spent + notional, !.failures = 0,
                                      !.open = executor.open + 1]
      /\ moved' \in {moved, moved + notional} /\ resets' = resets
  BY DEF PlaceLiveOrder
<1>3. /\ executor' \in Counters /\ executor'.spent = executor.spent + notional
      /\ executor'.failures = 0 /\ executor'.open = executor.open + 1 /\ executor'.tripped = FALSE
  <2>1. executor \in Counters
    BY DEF OrdersInv
  <2>2. /\ executor.spent + notional \in Nat /\ 0 \in 0 .. MaxFailures
        /\ executor.open + 1 \in 0 .. MaxOpen
    BY <1>1, OrdersAssumption
  <2>3. QED
    BY <2>1, <2>2, <1>1, <1>2 DEF Counters
<1>4. before \in Nat /\ after \in Nat /\ before <= after
  <2>1. executor.open \in Nat /\ executor.failures \in Nat /\ executor.open + 1 \in Nat /\ 0 \in Nat
    BY <1>1, OrdersAssumption
  <2>2. before <= after
    BY <1>1, <2>1, PlacedCovers
  <2>3. before \in Nat /\ after \in Nat
    BY <1>1, <2>1, EscapedNat
  <2>4. QED
    BY <2>2, <2>3
<1>5. MaxOrder * before \in Nat /\ MaxOrder * after \in Nat /\ MaxOrder * before <= MaxOrder * after
  BY <1>4, MoreEscaped
<1>6. moved' \in Nat /\ moved' <= executor'.spent + MaxOrder * after
  BY <1>1, <1>2, <1>3, <1>5
<1>7. QED
  BY <1>1, <1>2, <1>3, <1>6, OrdersAssumption DEF OrdersInv, TrippedAtLimit

LEMMA FailKeepsInv ==
  ASSUME OrdersInv, NEW notional \in Nat, FailLiveOrder(notional)
  PROVE  OrdersInv'
<1> DEFINE before == Escaped(executor.open, resets, executor.failures)
           after  == Escaped(executor.open, resets, executor.failures + 1)
<1>1. /\ executor.spent \in Nat /\ executor.failures \in 0 .. MaxFailures /\ executor.open \in 0 .. MaxOpen
      /\ moved \in Nat /\ resets \in Nat /\ executor.failures <= MaxFailures - 1
      /\ notional <= MaxOrder /\ executor.spent <= MaxTotal
      /\ moved <= executor.spent + MaxOrder * before
  BY OrdersAssumption DEF OrdersInv, Counters, TrippedAtLimit, FailLiveOrder, WithinCaps
<1>2. /\ executor' = [executor EXCEPT !.failures = executor.failures + 1,
                                      !.tripped = executor.failures + 1 >= MaxFailures]
      /\ moved' \in {moved, moved + notional} /\ resets' = resets
  BY DEF FailLiveOrder
<1>3. /\ executor' \in Counters /\ executor'.spent = executor.spent
      /\ executor'.failures = executor.failures + 1 /\ executor'.open = executor.open
      /\ executor'.tripped = (executor.failures + 1 >= MaxFailures)
  <2>1. executor \in Counters
    BY DEF OrdersInv
  <2>2. executor.failures + 1 \in 0 .. MaxFailures /\ (executor.failures + 1 >= MaxFailures) \in BOOLEAN
    BY <1>1, OrdersAssumption
  <2>3. QED
    BY <2>1, <2>2, <1>1, <1>2 DEF Counters
<1>4. before \in Nat /\ after = before + 1
  <2>0. executor.open \in Nat /\ executor.failures \in Nat
    BY <1>1, OrdersAssumption
  <2>1. before \in Nat
    BY <1>1, <2>0, EscapedNat
  <2>2. (MaxFailures - 1) * executor.open \in Int /\ MaxFailures * resets \in Int
    BY <1>1, OrdersAssumption
  <2>3. QED
    BY <1>1, <2>1, <2>2, OrdersAssumption DEF Escaped
<1>5. MaxOrder * before \in Nat /\ MaxOrder * after = MaxOrder * before + MaxOrder
  BY <1>4, MoreEscaped
<1>6. moved' \in Nat /\ moved' <= executor'.spent + MaxOrder * after
  BY <1>1, <1>2, <1>3, <1>5, OrdersAssumption
<1>7. TrippedAtLimit'
  <2>1. CASE executor.failures + 1 >= MaxFailures
    BY <1>3, <2>1, OrdersAssumption DEF TrippedAtLimit
  <2>2. CASE executor.failures + 1 < MaxFailures
    <3>1. ~(executor.failures + 1 >= MaxFailures)
      BY <2>2, <1>1, OrdersAssumption
    <3>2. ~executor'.tripped
      BY <3>1, <1>3
    <3>3. QED
      BY <1>3, <2>2, <3>2 DEF TrippedAtLimit
  <2>3. QED
    BY <2>1, <2>2, <1>1, OrdersAssumption
<1>8. QED
  BY <1>1, <1>2, <1>3, <1>6, <1>7 DEF OrdersInv

LEMMA ResetKeepsInv ==
  ASSUME OrdersInv, ResetCircuit
  PROVE  OrdersInv'
<1> DEFINE before == Escaped(executor.open, resets, executor.failures)
           after  == Escaped(executor.open, resets + 1, 0)
<1>1. /\ executor.spent \in Nat /\ executor.failures \in 0 .. MaxFailures /\ executor.open \in 0 .. MaxOpen
      /\ moved \in Nat /\ resets \in Nat /\ executor.spent <= MaxTotal
      /\ moved <= executor.spent + MaxOrder * before
  BY OrdersAssumption DEF OrdersInv, Counters
<1>2. /\ executor' = [executor EXCEPT !.failures = 0, !.tripped = FALSE]
      /\ moved' = moved /\ resets' = resets + 1
  BY DEF ResetCircuit
<1>3. /\ executor' \in Counters /\ executor'.spent = executor.spent
      /\ executor'.failures = 0 /\ executor'.open = executor.open /\ executor'.tripped = FALSE
  <2>1. executor \in Counters
    BY DEF OrdersInv
  <2>2. 0 \in 0 .. MaxFailures
    BY OrdersAssumption
  <2>3. QED
    BY <2>1, <2>2, <1>2 DEF Counters
<1>4. before \in Nat /\ after \in Nat /\ before <= after
  <2>1. /\ executor.open \in Nat /\ executor.failures \in Nat /\ executor.failures <= MaxFailures
        /\ resets + 1 \in Nat /\ 0 \in Nat
    BY <1>1, OrdersAssumption
  <2>2. before <= after
    BY <1>1, <2>1, ResetCovers
  <2>3. before \in Nat /\ after \in Nat
    BY <1>1, <2>1, EscapedNat
  <2>4. QED
    BY <2>2, <2>3
<1>5. MaxOrder * before \in Nat /\ MaxOrder * after \in Nat /\ MaxOrder * before <= MaxOrder * after
  BY <1>4, MoreEscaped
<1>6. moved' <= executor'.spent + MaxOrder * after
  BY <1>1, <1>2, <1>3, <1>5
<1>7. QED
  BY <1>1, <1>2, <1>3, <1>6, OrdersAssumption DEF OrdersInv, TrippedAtLimit

LEMMA OrdersInvStep == OrdersInv /\ [OrdersNext]_orderVars => OrdersInv'
<1> SUFFICES ASSUME OrdersInv, [OrdersNext]_orderVars PROVE OrdersInv'
  OBVIOUS
<1>a. executor \in Counters
  BY DEF OrdersInv
<1>1. ASSUME UNCHANGED <<executor, moved, resets>> PROVE OrdersInv'
  BY <1>1, <1>a, OthersKeepInv
<1>2. ASSUME NEW token \in Tokens, NEW price \in Quotes, FetchPrice(token, price) PROVE OrdersInv'
  BY <1>1, <1>2 DEF FetchPrice
<1>3. ASSUME NEW side \in {"buy", "sell"}, NEW token \in Tokens, NEW amount \in Amounts,
             NEW limit \in Limits, PaperOrder(side, token, amount, limit)
      PROVE  OrdersInv'
  BY <1>1, <1>3 DEF PaperOrder, Fill, orderVars
<1>4. ASSUME NEW token \in Tokens, NEW amount \in Amounts, PaperSwap(token, amount) PROVE OrdersInv'
  BY <1>1, <1>4 DEF PaperSwap, Fill
<1>5. ASSUME NEW amount \in Amounts, NEW limit \in Limits, LiveOrder(amount * limit) PROVE OrdersInv'
  <2>1. amount * limit \in Nat
    BY OrdersAssumption
  <2>2. CASE RefuseOrder(amount * limit)
    BY <1>1, <2>2 DEF RefuseOrder, orderVars
  <2>3. CASE PlaceLiveOrder(amount * limit)
    BY <2>1, <2>3, PlaceKeepsInv
  <2>4. CASE FailLiveOrder(amount * limit)
    BY <2>1, <2>4, FailKeepsInv
  <2>5. QED
    BY <1>5, <2>2, <2>3, <2>4 DEF LiveOrder
<1>6. ASSUME ResetCircuit PROVE OrdersInv'
  BY <1>6, ResetKeepsInv
<1>7. ASSUME NEW amount \in Amounts, RecordLoss(amount) PROVE OrdersInv'
  <2>1. /\ executor' = [executor EXCEPT !.lossToday = executor.lossToday + amount]
        /\ moved' = moved /\ resets' = resets /\ amount \in Nat
    BY <1>7, OrdersAssumption DEF RecordLoss
  <2>2. QED
    BY <2>1, <1>a, OthersKeepInv DEF Counters
<1>8. ASSUME Midnight PROVE OrdersInv'
  <2>1. executor' = [executor EXCEPT !.lossToday = 0] /\ moved' = moved /\ resets' = resets
    BY <1>8 DEF Midnight
  <2>2. QED
    BY <2>1, <1>a, OthersKeepInv DEF Counters
<1>9. CASE UNCHANGED orderVars
  BY <1>1, <1>9 DEF orderVars
<1>10. QED
  BY <1>2, <1>3, <1>4, <1>5, <1>6, <1>7, <1>8, <1>9 DEF OrdersNext

-----------------------------------------------------------------------------
(* The theorem *)

\* Whatever orders, quotes, failures and resets there are, the total spent stays within its
\* cap, and what left the wallet uncounted is covered by the open orders, the resets
\* and the failures in a row (LiveExecutor.place_order).
THEOREM UncountedIsBounded == OrdersSpec => []UncountedBounded
<1>1. OrdersInv => UncountedBounded
  BY DEF OrdersInv, UncountedBounded, Escaped
<1>2. QED
  BY OrdersInvInit, OrdersInvStep, <1>1, PTL DEF OrdersSpec
-----------------------------------------------------------------------------
(* Types of LiveOrders *)

PaperTyped ==
  /\ routerMode \in {"paper", "live"} /\ dryRun \in BOOLEAN
  /\ cash \in Nat
  /\ holdings \in [Tokens -> Nat]
  /\ quoted \in [Tokens -> Quotes \union {0}]

LEMMA OrdersTyped ==
  ASSUME OrdersInv, PaperTyped
  PROVE  OrdersTypeOK
  BY DEF OrdersInv, PaperTyped, OrdersTypeOK, Counters

LEMMA PaperInitially ==
  ASSUME OrdersInit
  PROVE  PaperTyped
<1>1. cash = StartBalance /\ holdings = [t \in Tokens |-> 0] /\ quoted = [t \in Tokens |-> 0]
  BY DEF OrdersInit
<1>2. cash \in Nat /\ holdings \in [Tokens -> Nat] /\ quoted \in [Tokens -> Quotes \union {0}]
  BY <1>1, OrdersAssumption
<1> QED
  BY <1>2 DEF OrdersInit, PaperTyped

LEMMA FillTyped ==
  ASSUME PaperTyped, NEW side \in {"buy", "sell"}, NEW token \in Tokens, NEW amount \in Nat,
         NEW price \in Nat, Fill(side, token, amount, price)
  PROVE  PaperTyped'
<1>1. amount * price \in Nat /\ cash \in Nat /\ holdings \in [Tokens -> Nat] /\ holdings[token] \in Nat
  BY DEF PaperTyped
<1> DEFINE due == amount * price
<1>2. CASE side = "buy"
  <2>1. due <= cash /\ cash' = cash - due /\ holdings' = [holdings EXCEPT ![token] = @ + amount]
    BY <1>2 DEF Fill, Affordable
  <2>2. cash' \in Nat /\ holdings' \in [Tokens -> Nat]
    <3> HIDE DEF due
    <3> due \in Nat
      BY <1>1 DEF due
    <3> QED
      BY <1>1, <2>1
  <2> QED
    BY <2>2 DEF Fill, PaperTyped
<1>3. CASE side # "buy"
  <2>1. amount <= holdings[token] /\ cash' = cash + due /\ holdings' = [holdings EXCEPT ![token] = @ - amount]
    BY <1>3 DEF Fill, Affordable
  <2>2. cash' \in Nat /\ holdings' \in [Tokens -> Nat]
    <3> HIDE DEF due
    <3> due \in Nat
      BY <1>1 DEF due
    <3> QED
      BY <1>1, <2>1
  <2> QED
    BY <2>2 DEF Fill, PaperTyped
<1> QED
  BY <1>2, <1>3

LEMMA PaperStep ==
  ASSUME PaperTyped, [OrdersNext]_orderVars
  PROVE  PaperTyped'
<1>0. Amounts \subseteq Nat /\ Limits \subseteq Nat /\ Quotes \subseteq Nat
  BY OrdersAssumption
<1>1. CASE UNCHANGED orderVars
  BY <1>1 DEF PaperTyped, orderVars, paper
<1>2. ASSUME NEW token \in Tokens, NEW price \in Quotes, FetchPrice(token, price) PROVE PaperTyped'
  <2>1. quoted' \in [Tokens -> Quotes \union {0}]
    BY <1>2 DEF FetchPrice, PaperTyped
  <2> QED
    BY <1>2, <2>1 DEF FetchPrice, PaperTyped
<1>3. ASSUME NEW side \in {"buy", "sell"}, NEW token \in Tokens, NEW amount \in Amounts, NEW limit \in Limits,
             PaperOrder(side, token, amount, limit)
      PROVE  PaperTyped'
  <2>1. CASE Fill(side, token, amount, limit)
    BY <1>0, <2>1, FillTyped
  <2> QED
    BY <1>1, <1>3, <2>1 DEF PaperOrder
<1>4. ASSUME NEW token \in Tokens, NEW amount \in Amounts, PaperSwap(token, amount) PROVE PaperTyped'
  <2>1. PICK price \in IF quoted[token] = 0 THEN Quotes ELSE {quoted[token]} : Fill("buy", token, amount, price)
    BY <1>4 DEF PaperSwap
  <2>2. price \in Nat
    BY <1>0 DEF PaperTyped
  <2> QED
    BY <1>0, <2>1, <2>2, FillTyped
<1>5. ASSUME UNCHANGED <<routerMode, dryRun, paper>> PROVE PaperTyped'
  BY <1>5 DEF PaperTyped, paper
<1>6. ASSUME NEW n, LiveOrder(n) PROVE UNCHANGED <<routerMode, dryRun, paper>>
  BY <1>6 DEF LiveOrder, RefuseOrder, PlaceLiveOrder, FailLiveOrder, orderVars
<1>7. ASSUME ResetCircuit \/ Midnight \/ \E n \in Amounts : RecordLoss(n)
      PROVE  UNCHANGED <<routerMode, dryRun, paper>>
  BY <1>7 DEF ResetCircuit, Midnight, RecordLoss
<1> QED
  BY <1>1, <1>2, <1>3, <1>4, <1>5, <1>6, <1>7 DEF OrdersNext

-----------------------------------------------------------------------------
(* SpendControls *)

Spends == [amount : SpendAmounts, age : 0 .. VelocityWindow]

AmountsOf(tail) == [i \in DOMAIN tail |-> tail[i].amount]

LEMMA AmountsAre ==
  ASSUME NEW tail \in Seq(Spends)
  PROVE  /\ IsFiniteSet(DOMAIN tail) /\ DOMAIN AmountsOf(tail) = DOMAIN tail
         /\ \A i \in DOMAIN tail : AmountsOf(tail)[i] = tail[i].amount /\ AmountsOf(tail)[i] \in Nat
         /\ TailSum(tail) = SumFunctionOnSet(AmountsOf(tail), DOMAIN tail)
         /\ TailSum(tail) \in Nat
<1>1. DOMAIN tail = 1 .. Len(tail) /\ Len(tail) \in Nat
  OBVIOUS
<1>2. IsFiniteSet(DOMAIN tail)
  BY <1>1, FS_Interval
<1>3. \A i \in DOMAIN tail : AmountsOf(tail)[i] = tail[i].amount /\ AmountsOf(tail)[i] \in Nat
  <2> TAKE i \in DOMAIN tail
  <2>1. tail[i] \in Spends
    BY <1>1
  <2>2. tail[i].amount \in Nat
    BY <2>1, ControlsAssumption DEF Spends
  <2> QED
    BY <2>2 DEF AmountsOf
<1>4. TailSum(tail) = SumFunctionOnSet(AmountsOf(tail), DOMAIN tail)
  <2>1. TailSum(tail) = SumFunction(AmountsOf(tail))
    BY DEF TailSum, AmountsOf
  <2>2. DOMAIN AmountsOf(tail) = DOMAIN tail
    BY DEF AmountsOf
  <2> QED
    BY <2>1, <2>2 DEF SumFunction
<1>5. SumFunctionOnSet(AmountsOf(tail), DOMAIN tail) \in Nat
  BY <1>2, <1>3, SumOfPart
<1>6. DOMAIN AmountsOf(tail) = DOMAIN tail
  BY DEF AmountsOf
<1> QED
  BY <1>2, <1>3, <1>4, <1>5, <1>6

LEMMA KeptSum ==
  ASSUME NEW tail \in Seq(Spends), NEW indices \in SUBSET DOMAIN tail
  PROVE  TailSum(Kept(tail, indices)) <= TailSum(tail)
<1> DEFINE kept == Kept(tail, indices)
           N == Cardinality(indices)
<1>1. IsFiniteSet(indices) /\ N \in Nat
  BY KeptRank
<1>2. PICK b \in Bijection(indices, 1 .. N) : \A i \in indices : kept[b[i]] = tail[i]
  BY KeptRank
<1>3. kept \in Seq(Spends) /\ DOMAIN kept = 1 .. N
  BY KeptIs DEF Kept
<1> HIDE DEF kept, N
<1>4. SumFunctionOnSet(AmountsOf(tail), indices) = SumFunctionOnSet(AmountsOf(kept), 1 .. N)
  <2>1. b \in [indices -> 1 .. N]
    BY <1>2 DEF Bijection, Injection, Surjection
  <2>2. \A i \in indices : AmountsOf(tail)[i] = AmountsOf(kept)[b[i]] /\ AmountsOf(tail)[i] \in Int
    <3> TAKE i \in indices
    <3>1. AmountsOf(tail)[i] = tail[i].amount /\ AmountsOf(tail)[i] \in Nat
      BY AmountsAre
    <3>2. b[i] \in DOMAIN kept /\ kept[b[i]] = tail[i]
      BY <1>2, <1>3, <2>1
    <3>3. AmountsOf(kept)[b[i]] = kept[b[i]].amount
      BY <1>3, <3>2, AmountsAre
    <3> QED
      BY <3>1, <3>2, <3>3
  <2>3. IsFiniteSet(1 .. N)
    BY <1>1, FS_Interval
  <2> QED
    BY <1>1, <1>2, <2>2, <2>3, SumsRenamed
<1>5. SumFunctionOnSet(AmountsOf(tail), indices) <= SumFunctionOnSet(AmountsOf(tail), DOMAIN tail)
  BY AmountsAre, SumOfPart
<1>6. TailSum(kept) = SumFunctionOnSet(AmountsOf(kept), 1 .. N) /\ TailSum(tail) = SumFunctionOnSet(AmountsOf(tail), DOMAIN tail)
  BY <1>3, AmountsAre
<1> QED
  BY <1>4, <1>5, <1>6 DEF kept

LEMMA AppendedSum ==
  ASSUME NEW tail \in Seq(Spends), NEW amount \in SpendAmounts
  PROVE  /\ LastThree(tail, amount) \in Seq(Spends)
         /\ TailSum(LastThree(tail, amount)) <= TailSum(tail) + amount
<1> DEFINE all == Append(tail, [amount |-> amount, age |-> 0])
           n == Len(tail)
<1>1. n \in Nat /\ all \in Seq(Spends) /\ Len(all) = n + 1 /\ DOMAIN all = 1 .. n + 1 /\ DOMAIN tail = 1 .. n
  BY ControlsAssumption DEF Spends
<1>2. all[n + 1].amount = amount /\ \A i \in 1 .. n : all[i] = tail[i]
  OBVIOUS
<1>3. TailSum(all) = TailSum(tail) + amount
  <2> HIDE DEF all, n
  <2>1. SumFunctionOnSet(AmountsOf(all), DOMAIN all)
          = AmountsOf(all)[n + 1] + SumFunctionOnSet(AmountsOf(all), DOMAIN all \ {n + 1})
    <3>1. IsFiniteSet(DOMAIN all) /\ \A i \in DOMAIN all : AmountsOf(all)[i] \in Int
      BY <1>1, AmountsAre
    <3> QED
      BY <1>1, <3>1, SumSplits
  <2>2. DOMAIN all \ {n + 1} = 1 .. n
    BY <1>1
  <2>3. SumFunctionOnSet(AmountsOf(all), 1 .. n) = SumFunctionOnSet(AmountsOf(tail), 1 .. n)
    <3>1. \A i \in 1 .. n : AmountsOf(all)[i] = AmountsOf(tail)[i]
      BY <1>1, <1>2, AmountsAre
    <3>2. IsFiniteSet(1 .. n)
      BY <1>1, FS_Interval
    <3> QED
      BY <3>1, <3>2, SumsEqual
  <2>4. AmountsOf(all)[n + 1] = amount
    BY <1>1, <1>2, AmountsAre
  <2>5. TailSum(all) = SumFunctionOnSet(AmountsOf(all), DOMAIN all)
        /\ TailSum(tail) = SumFunctionOnSet(AmountsOf(tail), 1 .. n) /\ TailSum(tail) \in Nat
    BY <1>1, AmountsAre
  <2>6. amount \in Nat
    BY ControlsAssumption
  <2>7. TailSum(all) = amount + SumFunctionOnSet(AmountsOf(all), 1 .. n)
    BY <2>1, <2>2, <2>4, <2>5
  <2>8. TailSum(all) = amount + TailSum(tail)
    BY <2>3, <2>5, <2>7
  <2> QED
    BY <2>5, <2>6, <2>8
<1>4. CASE Len(all) <= 3
  <2>1. LastThree(tail, amount) = all
    BY <1>1, <1>4 DEF LastThree
  <2>2. TailSum(tail) \in Nat /\ amount \in Nat
    BY AmountsAre, ControlsAssumption
  <2> QED
    BY <1>1, <1>3, <2>1, <2>2
<1>5. CASE Len(all) > 3
  <2>1. LastThree(tail, amount) = Tail(all)
    BY <1>5 DEF LastThree
  <2> HIDE DEF all
  <2>2. Tail(all) \in Seq(Spends) /\ Len(Tail(all)) = n /\ DOMAIN Tail(all) = 1 .. n
        /\ \A i \in 1 .. n : Tail(all)[i] = all[i + 1]
    BY <1>1, <1>5
  <2> DEFINE b == [i \in 1 .. n |-> i + 1]
  <2>3. SumFunctionOnSet(AmountsOf(Tail(all)), 1 .. n) = SumFunctionOnSet(AmountsOf(all), 2 .. n + 1)
    <3>1. b \in Bijection(1 .. n, 2 .. n + 1)
      <4>1. b \in [1 .. n -> 2 .. n + 1] /\ \A i \in 1 .. n : b[i] = i + 1
        BY <1>1
      <4>2. \A i, j \in 1 .. n : b[i] = b[j] => i = j
        BY <1>1
      <4>3. \A k \in 2 .. n + 1 : k - 1 \in 1 .. n /\ b[k - 1] = k
        BY <1>1
      <4> HIDE DEF b
      <4> QED
        BY <4>1, <4>2, <4>3 DEF Bijection, Injection, Surjection, IsInjective
    <3>2. \A i \in 1 .. n : AmountsOf(Tail(all))[i] = AmountsOf(all)[b[i]] /\ AmountsOf(Tail(all))[i] \in Int
      <4> TAKE i \in 1 .. n
      <4>1. i \in DOMAIN Tail(all) /\ i + 1 \in DOMAIN all /\ Tail(all)[i] = all[i + 1] /\ b[i] = i + 1
        BY <1>1, <2>2
      <4>2. AmountsOf(Tail(all))[i] = Tail(all)[i].amount /\ AmountsOf(Tail(all))[i] \in Nat
        BY <2>2, <4>1, AmountsAre
      <4>3. AmountsOf(all)[i + 1] = all[i + 1].amount
        BY <1>1, <4>1, AmountsAre
      <4> QED
        BY <4>1, <4>2, <4>3
    <3>3. IsFiniteSet(1 .. n) /\ IsFiniteSet(2 .. n + 1)
      BY <1>1, FS_Interval
    <3> HIDE DEF b
    <3> QED
      BY <3>1, <3>2, <3>3, SumsRenamed
  <2>4. SumFunctionOnSet(AmountsOf(all), 2 .. n + 1) <= SumFunctionOnSet(AmountsOf(all), 1 .. n + 1)
    <3>1. IsFiniteSet(1 .. n + 1) /\ \A i \in 1 .. n + 1 : AmountsOf(all)[i] \in Nat
      BY <1>1, AmountsAre
    <3>2. 2 .. n + 1 \in SUBSET (1 .. n + 1)
      BY <1>1
    <3> QED
      BY <3>1, <3>2, SumOfPart
  <2>5. TailSum(Tail(all)) <= TailSum(all)
    BY <1>1, <2>2, <2>3, <2>4, AmountsAre
  <2> QED
    BY <1>3, <2>1, <2>2, <2>5
<1> QED
  BY <1>1, <1>4, <1>5

-----------------------------------------------------------------------------

BreakerInv ==
  /\ level \in Levels
  /\ spends \in [total : Nat, count : Nat, tail : Seq(Spends)]
  /\ TailSum(spends.tail) <= spends.total
  /\ breaker => spends.count > 3 * Threshold(level)

LEMMA ThresholdIs == ASSUME level \in Levels PROVE Threshold(level) \in Nat
  BY DEF Levels, Threshold

\* Where a part of the total is compared with the whole, there are many.
LEMMA TooFastLate ==
  ASSUME NEW total \in Nat, NEW count \in Nat, NEW part \in Nat, NEW limit \in Nat,
         part <= total, part * count > limit * total
  PROVE  count > limit
<1>1. part * count <= total * count
  OBVIOUS
<1> SUFFICES ASSUME count <= limit PROVE FALSE
  OBVIOUS
<1>2. total * count <= total * limit
  OBVIOUS
<1>3. part * count \in Nat /\ total * count \in Nat /\ limit * total \in Nat /\ total * limit = limit * total
  OBVIOUS
<1> QED
  BY <1>1, <1>2, <1>3

LEMMA RecordKeeps ==
  ASSUME BreakerInv, NEW amount \in SpendAmounts, RecordSpend(amount)
  PROVE  BreakerInv'
<1> DEFINE total == spends.total + amount
           count == spends.count + 1
           tail == LastThree(spends.tail, amount)
<1>1. spends' = [total |-> total, count |-> count, tail |-> tail]
      /\ breaker' = (breaker \/ TooFast(total, count, tail)) /\ UNCHANGED level
  BY DEF RecordSpend
<1>2. spends.tail \in Seq(Spends) /\ spends.total \in Nat /\ spends.count \in Nat /\ amount \in Nat
  BY ControlsAssumption DEF BreakerInv
<1>3. tail \in Seq(Spends) /\ TailSum(tail) <= TailSum(spends.tail) + amount
  BY <1>2, AppendedSum
<1>4. total \in Nat /\ count \in Nat
  BY <1>2
<1>5. TailSum(tail) \in Nat /\ TailSum(spends.tail) \in Nat
  BY <1>2, <1>3, AmountsAre
<1>6. TailSum(tail) <= total
  BY <1>2, <1>3, <1>5 DEF BreakerInv
<1>7. TooFast(total, count, tail) => count > 3 * Threshold(level)
  <2>1. Threshold(level) \in Nat /\ 3 * Threshold(level) \in Nat
    BY ThresholdIs DEF BreakerInv
  <2> HIDE DEF total, count, tail
  <2> SUFFICES ASSUME TooFast(total, count, tail) PROVE count > 3 * Threshold(level)
    OBVIOUS
  <2>2. TailSum(tail) * count > (3 * Threshold(level)) * total
    BY DEF TooFast
  <2> QED
    BY <1>4, <1>5, <1>6, <2>1, <2>2, TooFastLate
<1>8. breaker => count > 3 * Threshold(level)
  BY <1>2, ThresholdIs DEF BreakerInv
<1> HIDE DEF total, count, tail
<1>9. spends' \in [total : Nat, count : Nat, tail : Seq(Spends)]
  BY <1>1, <1>3, <1>4
<1> QED
  BY <1>1, <1>6, <1>7, <1>8, <1>9 DEF BreakerInv

LEMMA AgeKeeps == ASSUME BreakerInv, SpendsAge PROVE BreakerInv'
<1> DEFINE tail == spends.tail
           young == {i \in DOMAIN tail : tail[i].age < VelocityWindow}
           kept == Kept(tail, young)
           older == [i \in 1 .. Len(kept) |-> [amount |-> kept[i].amount, age |-> kept[i].age + 1]]
<1>1. tail \in Seq(Spends) /\ young \in SUBSET DOMAIN tail
  BY DEF BreakerInv
<1>2. kept \in Seq(Spends) /\ TailSum(kept) <= TailSum(tail)
      /\ {kept[n] : n \in DOMAIN kept} = {tail[i] : i \in young}
  BY <1>1, KeptIs, KeptSum
<1>3. spends' = [spends EXCEPT !.tail = older] /\ UNCHANGED <<level, breaker>>
  BY DEF SpendsAge
<1>4. \A n \in 1 .. Len(kept) : kept[n].amount \in SpendAmounts /\ kept[n].age \in 0 .. VelocityWindow /\ kept[n].age < VelocityWindow
  <2> HIDE DEF kept
  <2> TAKE n \in 1 .. Len(kept)
  <2>1. n \in DOMAIN kept /\ kept[n] \in Spends
    BY <1>2
  <2>2. \E i \in young : kept[n] = tail[i]
    BY <1>2, <2>1
  <2> QED
    BY <2>1, <2>2 DEF Spends
<1>5. older \in Seq(Spends) /\ DOMAIN older = 1 .. Len(kept) /\ DOMAIN kept = 1 .. Len(kept)
  <2> HIDE DEF kept
  <2>1. Len(kept) \in Nat /\ DOMAIN kept = 1 .. Len(kept)
    BY <1>2
  <2>2. \A n \in 1 .. Len(kept) : older[n] \in Spends
    BY <1>4, ControlsAssumption DEF Spends
  <2>3. older \in [1 .. Len(kept) -> Spends] /\ DOMAIN older = 1 .. Len(kept)
    BY <2>2
  <2> HIDE DEF older
  <2>4. older \in Seq(Spends)
    BY <2>1, <2>3
  <2> QED
    BY <2>1, <2>3, <2>4
<1>6. TailSum(older) = TailSum(kept)
  <2> HIDE DEF kept
  <2>1. \A n \in 1 .. Len(kept) : older[n].amount = kept[n].amount
    OBVIOUS
  <2>2. AmountsOf(older) = AmountsOf(kept)
    <3> HIDE DEF older
    <3> QED
      BY <1>5, <2>1 DEF AmountsOf
  <2> HIDE DEF older
  <2> QED
    BY <1>2, <1>5, <2>2, AmountsAre
<1> HIDE DEF older, kept
<1>7. TailSum(older) <= spends.total
  <2>1. TailSum(older) \in Nat /\ TailSum(tail) \in Nat /\ spends.total \in Nat /\ TailSum(tail) <= spends.total
    BY <1>1, <1>5, AmountsAre DEF BreakerInv
  <2> QED
    BY <1>2, <1>6, <2>1
<1>8. spends'.tail = older /\ spends'.total = spends.total /\ spends'.count = spends.count
      /\ spends' \in [total : Nat, count : Nat, tail : Seq(Spends)]
  BY <1>3, <1>5 DEF BreakerInv
<1> QED
  BY <1>3, <1>7, <1>8 DEF BreakerInv

LEMMA EmptyTailSum == TailSum(<<>>) = 0
<1>1. <<>> \in Seq(Spends) /\ DOMAIN <<>> = {}
  OBVIOUS
<1>2. TailSum(<<>>) = SumFunctionOnSet(AmountsOf(<<>>), {})
  BY <1>1, AmountsAre
<1>3. SumFunctionOnSet(AmountsOf(<<>>), {}) = 0
  BY FS_EmptySet, SumSplits
<1> QED
  BY <1>2, <1>3
LEMMA BreakerInitially == ControlsInit => BreakerInv
  BY EmptyTailSum DEF ControlsInit, BreakerInv

LEMMA BreakerStep == BreakerInv /\ [ControlsNext]_controlVars => BreakerInv'
<1> SUFFICES ASSUME BreakerInv, [ControlsNext]_controlVars PROVE BreakerInv'
  OBVIOUS
<1>1. CASE UNCHANGED <<level, spends, breaker>>
  BY <1>1 DEF BreakerInv
<1>2. CASE ResetBreaker
  BY <1>2 DEF ResetBreaker, BreakerInv
<1> QED
  BY <1>1, <1>2, RecordKeeps, AgeKeeps
     DEF ControlsNext, BudgetNext, BucketNext, KeyNext, AllowRequest, DenyRequest, RefillBucket,
         SignTypedData, ExpireKey, controlVars

\* For any amounts, prunings and restarts, the velocity breaker never triggers in the first
\* three times velocity_threshold transactions (BudgetControl._check_velocity).
THEOREM BreakerNeedsHistory == ControlsSpec => []VelocityNeedsHistory
<1>3. BreakerInv => VelocityNeedsHistory
  BY DEF BreakerInv, VelocityNeedsHistory
<1> QED
  BY BreakerInitially, BreakerStep, <1>3, PTL DEF ControlsSpec

-----------------------------------------------------------------------------

\* What was allowed at the ages up to k, in parts, with what the bucket holds, is at most a
\* full bucket and what was refilled in k units.
AllowedUpTo(counts, k) == SumFunctionOnSet(counts, 0 .. k)

BucketInv ==
  /\ bucket \in 0 .. Capacity
  /\ passed \in [0 .. Refill - 1 -> Nat]
  /\ \A k \in 0 .. Refill - 1 : AllowedUpTo(passed, k) * Refill + bucket <= Capacity + k * MaxRequests

LEMMA CapacityIs == Capacity \in Nat
  BY ControlsAssumption DEF Capacity

LEMMA AllowedIs ==
  ASSUME NEW counts \in [0 .. Refill - 1 -> Nat], NEW k \in 0 .. Refill - 1
  PROVE  /\ AllowedUpTo(counts, k) \in Nat
         /\ AllowedUpTo(counts, k) = counts[0] + SumFunctionOnSet(counts, 1 .. k)
         /\ SumFunctionOnSet(counts, 1 .. k) \in Nat
<1>1. IsFiniteSet(0 .. k) /\ 0 \in 0 .. k /\ (0 .. k) \ {0} = 1 .. k /\ IsFiniteSet(1 .. k)
  <2>1. k \in Nat
    BY ControlsAssumption
  <2>2. 0 \in 0 .. k /\ (0 .. k) \ {0} = 1 .. k
    BY <2>1
  <2> QED
    BY <2>1, <2>2, FS_Interval
<1>2. \A a \in 0 .. k : counts[a] \in Nat
  BY ControlsAssumption
<1>3. AllowedUpTo(counts, k) \in Nat
  <2>1. 0 .. k \in SUBSET (0 .. k)
    BY ControlsAssumption
  <2> QED
    BY <1>1, <1>2, <2>1, SumOfPart DEF AllowedUpTo
<1>4. \A x \in 0 .. k : AllowedUpTo(counts, k) = counts[x] + SumFunctionOnSet(counts, (0 .. k) \ {x})
  <2>1. \A a \in 0 .. k : counts[a] \in Int
    BY <1>2
  <2> QED
    BY <1>1, <2>1, SumSplits DEF AllowedUpTo
<1>5. SumFunctionOnSet(counts, 1 .. k) \in Nat
  <2>1. 1 .. k \in SUBSET (0 .. k)
    BY ControlsAssumption
  <2> QED
    BY <1>1, <1>2, <2>1, SumOfPart
<1> QED
  BY <1>1, <1>3, <1>4, <1>5

LEMMA AllowKeeps == ASSUME BucketInv, AllowRequest PROVE BucketInv'
<1>1. bucket >= Refill /\ bucket' = bucket - Refill /\ passed' = [passed EXCEPT ![0] = @ + 1]
  BY DEF AllowRequest
<1>2. passed' \in [0 .. Refill - 1 -> Nat] /\ 0 \in 0 .. Refill - 1
  BY <1>1, ControlsAssumption DEF BucketInv
<1>3. passed'[0] = passed[0] + 1 /\ \A a \in 0 .. Refill - 1 : a # 0 => passed'[a] = passed[a]
  BY <1>1, <1>2 DEF BucketInv
<1>4. bucket' \in 0 .. Capacity
  BY <1>1, CapacityIs, ControlsAssumption DEF BucketInv
<1>5. ASSUME NEW k \in 0 .. Refill - 1
      PROVE  AllowedUpTo(passed', k) * Refill + bucket' <= Capacity + k * MaxRequests
  <2>1. SumFunctionOnSet(passed', 1 .. k) = SumFunctionOnSet(passed, 1 .. k)
    <3>1. IsFiniteSet(1 .. k) /\ \A a \in 1 .. k : passed'[a] = passed[a]
      BY <1>3, FS_Interval, ControlsAssumption
    <3> QED
      BY <3>1, SumsEqual
  <2>2. AllowedUpTo(passed', k) = passed'[0] + SumFunctionOnSet(passed', 1 .. k)
    BY <1>2, AllowedIs
  <2>3. /\ AllowedUpTo(passed, k) = passed[0] + SumFunctionOnSet(passed, 1 .. k) /\ AllowedUpTo(passed, k) \in Nat
        /\ SumFunctionOnSet(passed, 1 .. k) \in Nat /\ passed[0] \in Nat
    BY <1>2, AllowedIs DEF BucketInv
  <2>4. AllowedUpTo(passed', k) = AllowedUpTo(passed, k) + 1
    BY <1>3, <2>1, <2>2, <2>3
  <2>5. AllowedUpTo(passed', k) * Refill = AllowedUpTo(passed, k) * Refill + Refill
    BY <2>3, <2>4, ControlsAssumption
  <2>6. AllowedUpTo(passed, k) * Refill + bucket <= Capacity + k * MaxRequests
    BY DEF BucketInv
  <2>7. AllowedUpTo(passed, k) * Refill \in Nat /\ bucket \in Nat /\ k * MaxRequests \in Nat
    BY <2>3, CapacityIs, ControlsAssumption DEF BucketInv
  <2> QED
    BY <1>1, <2>5, <2>6, <2>7, CapacityIs, ControlsAssumption
<1> QED
  BY <1>2, <1>4, <1>5, CapacityIs DEF BucketInv, Capacity

LEMMA RefillKeeps == ASSUME BucketInv, RefillBucket PROVE BucketInv'
<1>1. bucket' = Refilled(bucket)
      /\ passed' = [age \in 0 .. Refill - 1 |-> IF age = 0 THEN 0 ELSE passed[age - 1]]
  BY DEF RefillBucket
<1>2. passed' \in [0 .. Refill - 1 -> Nat] /\ 0 \in 0 .. Refill - 1
  BY <1>1, ControlsAssumption DEF BucketInv
<1>3. bucket' \in 0 .. Capacity /\ bucket' <= bucket + MaxRequests
  BY <1>1, CapacityIs, ControlsAssumption DEF BucketInv, Refilled
<1>4. passed'[0] = 0 /\ \A a \in 1 .. Refill - 1 : passed'[a] = passed[a - 1]
  BY <1>1, <1>2
<1>5. ASSUME NEW k \in 0 .. Refill - 1
      PROVE  AllowedUpTo(passed', k) * Refill + bucket' <= Capacity + k * MaxRequests
  <2>1. AllowedUpTo(passed', k) = SumFunctionOnSet(passed', 1 .. k) /\ SumFunctionOnSet(passed', 1 .. k) \in Nat
    <3>1. AllowedUpTo(passed', k) = passed'[0] + SumFunctionOnSet(passed', 1 .. k)
          /\ SumFunctionOnSet(passed', 1 .. k) \in Nat
      BY <1>2, AllowedIs
    <3> QED
      BY <1>4, <3>1
  <2>2. CASE k = 0
    <3>1. 1 .. k = {}
      BY <2>2
    <3>2. AllowedUpTo(passed', k) = 0
      BY <2>1, <3>1, FS_EmptySet, SumSplits
    <3> QED
      BY <1>3, <2>2, <3>2, CapacityIs, ControlsAssumption
  <2>3. CASE k # 0
    <3> DEFINE b == [a \in 1 .. k |-> a - 1]
    <3>1. b \in Bijection(1 .. k, 0 .. k - 1)
      <4>1. b \in [1 .. k -> 0 .. k - 1] /\ \A a \in 1 .. k : b[a] = a - 1
        OBVIOUS
      <4>2. \A a, c \in 1 .. k : b[a] = b[c] => a = c
        OBVIOUS
      <4>3. \A c \in 0 .. k - 1 : c + 1 \in 1 .. k /\ b[c + 1] = c
        OBVIOUS
      <4> HIDE DEF b
      <4> QED
        BY <4>1, <4>2, <4>3 DEF Bijection, Injection, Surjection, IsInjective
    <3>2. \A a \in 1 .. k : passed'[a] = passed[b[a]] /\ passed'[a] \in Int
      <4> TAKE a \in 1 .. k
      <4>1. a \in 1 .. Refill - 1 /\ a \in 0 .. Refill - 1
        BY ControlsAssumption
      <4>2. passed'[a] = passed[a - 1] /\ passed'[a] \in Nat
        BY <1>2, <1>4, <4>1
      <4>3. b[a] = a - 1
        OBVIOUS
      <4> QED
        BY <4>2, <4>3
    <3>3. IsFiniteSet(1 .. k) /\ IsFiniteSet(0 .. k - 1)
      BY FS_Interval
    <3> HIDE DEF b
    <3>4. SumFunctionOnSet(passed', 1 .. k) = SumFunctionOnSet(passed, 0 .. k - 1)
      BY <3>1, <3>2, <3>3, SumsRenamed
    <3>5. AllowedUpTo(passed', k) = AllowedUpTo(passed, k - 1)
      BY <2>1, <3>4 DEF AllowedUpTo
    <3>6. k - 1 \in 0 .. Refill - 1
      BY <2>3, ControlsAssumption
    <3>7. AllowedUpTo(passed, k - 1) * Refill + bucket <= Capacity + (k - 1) * MaxRequests /\ AllowedUpTo(passed, k - 1) \in Nat
      BY <3>6, AllowedIs DEF BucketInv
    <3>8. (k - 1) * MaxRequests = k * MaxRequests - MaxRequests /\ k * MaxRequests \in Nat
      BY ControlsAssumption
    <3>9. AllowedUpTo(passed, k - 1) * Refill \in Nat /\ bucket \in Nat
      BY <3>7, CapacityIs, ControlsAssumption DEF BucketInv
    <3> QED
      BY <1>3, <3>5, <3>7, <3>8, <3>9, CapacityIs, ControlsAssumption
  <2> QED
    BY <2>2, <2>3
<1> QED
  BY <1>2, <1>3, <1>5, CapacityIs DEF BucketInv, Capacity

LEMMA BucketInitially == ASSUME ControlsInit PROVE BucketInv
<1>1. bucket = Capacity /\ passed = [age \in 0 .. Refill - 1 |-> 0]
  BY DEF ControlsInit
<1>2. passed \in [0 .. Refill - 1 -> Nat] /\ bucket \in 0 .. Capacity
  BY <1>1, CapacityIs
<1>3. ASSUME NEW k \in 0 .. Refill - 1
      PROVE  AllowedUpTo(passed, k) * Refill + bucket <= Capacity + k * MaxRequests
  <2>2. \A a \in 0 .. k : passed[a] = 0
    BY <1>1, ControlsAssumption
  <2>3. AllowedUpTo(passed, k) = 0
    <3>1. IsFiniteSet(0 .. k) /\ \A a \in 0 .. k : passed[a] = 0
      BY <2>2, FS_Interval
    <3> QED
      BY <3>1, SumOfZeros DEF AllowedUpTo
  <2>4. k * MaxRequests \in Nat
    BY ControlsAssumption
  <2> QED
    BY <1>1, <2>3, <2>4, CapacityIs, ControlsAssumption
<1> QED
  BY <1>2, <1>3 DEF BucketInv

LEMMA BucketStep == BucketInv /\ [ControlsNext]_controlVars => BucketInv'
<1> SUFFICES ASSUME BucketInv, [ControlsNext]_controlVars PROVE BucketInv'
  OBVIOUS
<1>1. CASE UNCHANGED <<bucket, passed>>
  BY <1>1 DEF BucketInv, AllowedUpTo
<1> QED
  BY <1>1, AllowKeeps, RefillKeeps
     DEF ControlsNext, BudgetNext, BucketNext, KeyNext, RecordSpend, ResetBreaker, SpendsAge, DenyRequest,
         SignTypedData, ExpireKey, controlVars

LEMMA BucketIsBound == BucketInv => BurstBounded
<1> SUFFICES ASSUME BucketInv PROVE BurstBounded
  OBVIOUS
<1>1. SumFunction(passed) = AllowedUpTo(passed, Refill - 1)
  BY DEF BucketInv, AllowedUpTo, SumFunction
<1>2. Refill - 1 \in 0 .. Refill - 1
  BY ControlsAssumption
<1>3. AllowedUpTo(passed, Refill - 1) * Refill + bucket <= Capacity + (Refill - 1) * MaxRequests
      /\ AllowedUpTo(passed, Refill - 1) \in Nat
  BY <1>2, AllowedIs DEF BucketInv
<1>4. Capacity + (Refill - 1) * MaxRequests = MaxRequests * (2 * Refill - 1)
  BY ControlsAssumption DEF Capacity
<1>5. AllowedUpTo(passed, Refill - 1) * Refill \in Nat /\ bucket \in Nat /\ MaxRequests * (2 * Refill - 1) \in Int
  BY <1>3, CapacityIs, ControlsAssumption DEF BucketInv
<1> QED
  BY <1>1, <1>3, <1>4, <1>5 DEF BurstBounded

\* For any capacity, refill and calls, a window of time never sees twice max_requests
\* allowed (RateLimiter).
THEOREM BurstsBounded == ControlsSpec => []BurstBounded
<1> QED
  BY BucketStep, BucketIsBound, BucketInitially, PTL DEF ControlsSpec
-----------------------------------------------------------------------------
(* Types of SpendControls *)

ControlsTyped ==
  /\ spends.count <= MaxRecorded /\ Len(spends.tail) <= 3
  /\ breaker \in BOOLEAN
  /\ key \in [chains : SUBSET Chains, contracts : SUBSET Contracts, expired : BOOLEAN]
  /\ signature \in {"none", "refused", "signed", "error"}

LEMMA ControlsTypes ==
  ASSUME BreakerInv, BucketInv, ControlsTyped
  PROVE  ControlsTypeOK
<1>1. spends.tail \in Seq([amount : SpendAmounts, age : 0 .. VelocityWindow]) /\ spends.total \in Nat
  BY DEF BreakerInv, Spends
<1>2. spends.count \in 0 .. MaxRecorded
  BY ControlsAssumption DEF BreakerInv, ControlsTyped
<1> QED
  BY <1>1, <1>2 DEF BreakerInv, BucketInv, ControlsTyped, ControlsTypeOK

LEMMA ControlsTypedInitially ==
  ASSUME ControlsInit
  PROVE  ControlsTyped
<1>1. spends = [total |-> 0, count |-> 0, tail |-> <<>>] /\ breaker = FALSE /\ signature = "none"
  BY DEF ControlsInit
<1>2. key \in [chains : SUBSET Chains, contracts : SUBSET Contracts, expired : BOOLEAN]
  BY DEF ControlsInit
<1>3. spends.count <= MaxRecorded /\ Len(spends.tail) <= 3
  BY <1>1, ControlsAssumption
<1>4. breaker \in BOOLEAN
  BY <1>1
<1> QED
  BY <1>1, <1>2, <1>3, <1>4 DEF ControlsTyped

LEMMA ControlsTypedStep ==
  ASSUME BreakerInv, ControlsTyped, [ControlsNext]_controlVars
  PROVE  ControlsTyped'
<1>1. CASE UNCHANGED <<spends, breaker, key, signature>>
  BY <1>1 DEF ControlsTyped
<1>2. ASSUME NEW amount \in SpendAmounts, RecordSpend(amount) PROVE ControlsTyped'
  <2> DEFINE all == Append(spends.tail, [amount |-> amount, age |-> 0])
  <2>1. spends' = [total |-> spends.total + amount, count |-> spends.count + 1, tail |-> LastThree(spends.tail, amount)]
        /\ spends.count < MaxRecorded /\ UNCHANGED <<key, signature>>
        /\ breaker' = (breaker \/ TooFast(spends.total + amount, spends.count + 1, LastThree(spends.tail, amount)))
    BY <1>2 DEF RecordSpend
  <2>2. Len(spends.tail) \in Nat /\ all \in Seq(Spends) /\ Len(all) = Len(spends.tail) + 1 /\ Len(all) <= 4
    BY ControlsAssumption DEF BreakerInv, ControlsTyped, Spends
  <2>3. Len(LastThree(spends.tail, amount)) <= 3
    <3> HIDE DEF all
    <3>1. LastThree(spends.tail, amount) = IF Len(all) > 3 THEN Tail(all) ELSE all
      BY DEF LastThree, all
    <3> QED
      BY <2>2, <3>1
  <2>4. spends'.count <= MaxRecorded
    BY <2>1, ControlsAssumption DEF BreakerInv
  <2>5. breaker' \in BOOLEAN
    BY <2>1
  <2> QED
    BY <2>1, <2>3, <2>4, <2>5 DEF ControlsTyped
<1>3. CASE ResetBreaker
  BY <1>3 DEF ResetBreaker, ControlsTyped
<1>4. CASE SpendsAge
  <2> DEFINE tail == spends.tail
             kept == Kept(tail, {i \in DOMAIN tail : tail[i].age < VelocityWindow})
             older == [i \in 1 .. Len(kept) |-> [amount |-> kept[i].amount, age |-> kept[i].age + 1]]
  <2>1. Len(kept) <= Len(tail) /\ kept \in Seq(Spends) /\ tail \in Seq(Spends)
    BY KeptIs DEF BreakerInv
  <2>2. Len(older) = Len(kept)
    <3> HIDE DEF kept
    <3>1. Len(kept) \in Nat
      BY <2>1
    <3> QED
      BY <3>1
  <2>3. spends' = [spends EXCEPT !.tail = older] /\ UNCHANGED <<breaker, key, signature>>
    BY <1>4 DEF SpendsAge
  <2> HIDE DEF older, kept
  <2>4. spends'.tail = older /\ spends'.count = spends.count
    BY <2>3 DEF BreakerInv
  <2>5. Len(older) <= 3
    BY <2>1, <2>2 DEF ControlsTyped
  <2> QED
    BY <2>3, <2>4, <2>5 DEF ControlsTyped
<1>5. ASSUME NEW intent \in SigningIntent, NEW inner \in {"ows", "relay", "secret", "legacy"},
             SignTypedData(intent, inner)
      PROVE  ControlsTyped'
  BY <1>5 DEF SignTypedData, Answers, ControlsTyped
<1>6. CASE ExpireKey
  BY <1>6 DEF ExpireKey, ControlsTyped
<1> QED
  BY <1>1, <1>2, <1>3, <1>4, <1>5, <1>6
     DEF ControlsNext, BudgetNext, BucketNext, KeyNext, AllowRequest, DenyRequest, RefillBucket, controlVars

-----------------------------------------------------------------------------
(* CryptoRouting *)

Order == [symbol : Markets, notional : Notionals, side : {"buy", "sell"}]
Value(orders) == SumFunctionOnSet([i \in DOMAIN orders |-> orders[i].notional], DOMAIN orders)

CryptoInv == CryptoTypeOK /\ PaperBooksAgree

LEMMA CryptoInitially ==
  CryptoInit => CryptoInv
<1> SUFFICES ASSUME CryptoInit PROVE CryptoInv
  OBVIOUS
<1>1. /\ market.orders = <<>> /\ market.total = 0 /\ market.positions = [s \in Markets |-> NoPosition]
      /\ answered = [real |-> 0, mock |-> 0] /\ accounts = <<>> /\ transfers = <<>>
      /\ top \in DOMAIN Chain /\ wallets = FALSE /\ result = "none"
  BY DEF CryptoInit
<1>2. CryptoTypeOK
  <2>1. NoPosition \in [notional : Notionals \union {0}, side : {"buy", "sell", "none"}]
    BY DEF NoPosition
  <2>2. market.positions \in [Markets -> [notional : Notionals \union {0}, side : {"buy", "sell", "none"}]]
    BY <1>1, <2>1
  <2>3. market.orders \in Seq([symbol : Markets, notional : Notionals, side : {"buy", "sell"}])
        /\ accounts \in Seq(Ledgers) /\ transfers \in Seq(Ledgers)
    BY <1>1
  <2>4. market.total \in Nat /\ answered \in [real : Nat, mock : Nat]
    BY <1>1
  <2>5. wallets \in BOOLEAN
    BY <1>1
  <2> QED
    BY <1>1, <2>2, <2>3, <2>4, <2>5 DEF CryptoTypeOK
<1>3. DOMAIN market.orders = {}
  BY <1>1
<1>4. market.total = Value(market.orders)
  BY <1>1, <1>3, FS_EmptySet, SumOfZeros DEF Value
<1>5. \A s \in Markets : OrdersOf(s) = {}
  BY <1>3 DEF OrdersOf
<1>6. Len(market.orders) = answered.real
  BY <1>1
<1> QED
  BY <1>1, <1>2, <1>4, <1>5, <1>6 DEF CryptoInv, PaperBooksAgree, Value

\* One order more, and its notional more.
LEMMA ValueOfOneMore ==
  ASSUME NEW orders \in Seq(Order), NEW order \in Order
  PROVE  Value(Append(orders, order)) = Value(orders) + order.notional
<1> DEFINE after == Append(orders, order)
           n == Len(orders)
           g == [i \in DOMAIN after |-> after[i].notional]
           f == [i \in DOMAIN orders |-> orders[i].notional]
<1>0. \A o \in Order : o.notional \in Int
  <2>1. \A o \in Order : o.notional \in Notionals
    BY DEF Order
  <2>2. \A v \in Notionals : v \in Int
    BY CryptoAssumption
  <2> QED
    BY <2>1, <2>2
<1>1. /\ n \in Nat /\ DOMAIN orders = 1 .. n /\ DOMAIN after = 1 .. n + 1
      /\ after[n + 1] = order /\ \A i \in 1 .. n : after[i] = orders[i]
  OBVIOUS
<1>2. IsFiniteSet(1 .. n) /\ IsFiniteSet(1 .. n + 1)
  BY <1>1, FS_Interval
<1>3. \A i \in 1 .. n + 1 : after[i] \in Order
  OBVIOUS
<1>4. \A i \in 1 .. n + 1 : g[i] \in Int
  <2> HIDE DEF after
  <2> QED
    BY <1>0, <1>1, <1>3
<1>5. \A i \in 1 .. n : f[i] = g[i]
  BY <1>1
<1>6. g[n + 1] = order.notional
  BY <1>1
<1>7. (1 .. n + 1) \ {n + 1} = 1 .. n /\ n + 1 \in 1 .. n + 1
  BY <1>1
<1> HIDE DEF g, f, n, after
<1>8. SumFunctionOnSet(g, 1 .. n + 1) = g[n + 1] + SumFunctionOnSet(g, 1 .. n)
  <2> DEFINE D == 1 .. n + 1
  <2>1. IsFiniteSet(D) /\ (\A i \in D : g[i] \in Int) /\ n + 1 \in D
    BY <1>2, <1>4, <1>7
  <2> HIDE DEF D
  <2>2. SumFunctionOnSet(g, D) = g[n + 1] + SumFunctionOnSet(g, D \ {n + 1})
    BY <2>1, SumSplits
  <2> QED
    BY <1>7, <2>2 DEF D
<1>9. SumFunctionOnSet(f, 1 .. n) = SumFunctionOnSet(g, 1 .. n)
  BY <1>2, <1>5, SumsEqual
<1>10. SumFunctionOnSet(g, 1 .. n) \in Int
  <2>1. \A i \in 1 .. n : g[i] \in Int
    BY <1>1, <1>4
  <2> QED
    BY <1>2, <2>1, SumSplits
<1>11. Value(after) = SumFunctionOnSet(g, 1 .. n + 1) /\ Value(orders) = SumFunctionOnSet(f, 1 .. n)
  BY <1>1 DEF Value, g, f
<1>12. order.notional \in Int
  BY <1>0
<1> QED
  BY <1>6, <1>8, <1>9, <1>10, <1>11, <1>12 DEF after

LEMMA PaperOrderStep ==
  ASSUME CryptoInv, NEW cap, NEW wanted, NEW symbol \in Markets, NEW notional \in Notionals,
         NEW side \in {"buy", "sell"}, PlacePaperOrder(cap, wanted, symbol, notional, side)
  PROVE  CryptoInv'
<1> DEFINE orders == market.orders
           n == Len(orders)
           order == [symbol |-> symbol, notional |-> notional, side |-> side]
<1>1. CASE wanted = "live"
  BY <1>1 DEF PlacePaperOrder, CryptoInv, CryptoTypeOK, PaperBooksAgree, OrdersOf
<1>2. CASE wanted # "live"
  <2>1. order \in Order /\ orders \in Seq(Order) /\ n \in Nat /\ DOMAIN orders = 1 .. n
    BY DEF CryptoInv, CryptoTypeOK, Order
  <2>2. /\ market'.orders = Append(orders, order) /\ market'.total = market.total + notional
        /\ market'.positions = [market.positions EXCEPT ![symbol] = [notional |-> notional, side |-> side]]
        /\ answered' = [answered EXCEPT !.real = @ + 1] /\ result' = "done"
        /\ UNCHANGED <<top, accounts, transfers, wallets>>
    BY <1>2 DEF PlacePaperOrder
  <2>3. /\ market'.orders \in Seq(Order) /\ DOMAIN market'.orders = 1 .. n + 1 /\ Len(market'.orders) = n + 1
        /\ market'.orders[n + 1] = order /\ \A i \in 1 .. n : market'.orders[i] = orders[i]
    <3> HIDE DEF order, orders
    <3> QED
      BY <2>1, <2>2
  <2>4. /\ market'.positions \in [Markets -> [notional : Notionals \union {0}, side : {"buy", "sell", "none"}]]
        /\ market'.positions[symbol] = [notional |-> notional, side |-> side]
        /\ \A s \in Markets : s # symbol => market'.positions[s] = market.positions[s]
    BY <2>2 DEF CryptoInv, CryptoTypeOK
  <2>5. answered' \in [real : Nat, mock : Nat] /\ answered'.real = n + 1
    BY <2>2 DEF CryptoInv, CryptoTypeOK, PaperBooksAgree
  <2>6. market'.total \in Nat
    BY <2>2, CryptoAssumption DEF CryptoInv, CryptoTypeOK
  <2>7. market'.total = Value(market'.orders)
    <3>1. Value(Append(orders, order)) = Value(orders) + order.notional
      <4> HIDE DEF order, orders
      <4> QED
        BY <2>1, ValueOfOneMore
    <3>2. market.total = Value(orders)
      BY DEF CryptoInv, PaperBooksAgree, Value
    <3> QED
      BY <2>2, <3>1, <3>2
  <2>8. ASSUME NEW s \in Markets
        PROVE  /\ OrdersOf(s)' = {} => market'.positions[s] = NoPosition
               /\ \A i \in OrdersOf(s)' : (\A j \in OrdersOf(s)' : j <= i) =>
                    market'.positions[s] = [notional |-> market'.orders[i].notional, side |-> market'.orders[i].side]
    <3> DEFINE was == OrdersOf(s)
               is == OrdersOf(s)'
    <3>1. /\ was = {i \in 1 .. n : orders[i].symbol = s}
          /\ is = {i \in 1 .. n + 1 : market'.orders[i].symbol = s}
      BY <2>1, <2>3 DEF OrdersOf
    <3>2. CASE s = symbol
      <4>1. n + 1 \in is
        BY <2>1, <2>3, <3>1, <3>2
      <4>2. ASSUME NEW i \in is, \A j \in is : j <= i PROVE i = n + 1
        <5>1. i \in 1 .. n + 1
          BY <3>1
        <5> QED
          BY <2>1, <4>1, <4>2, <5>1
      <4>3. market'.positions[s] = [notional |-> order.notional, side |-> order.side]
        BY <2>4, <3>2
      <4> QED
        BY <2>3, <4>1, <4>2, <4>3
    <3>3. CASE s # symbol
      <4>1. is = was
        BY <2>1, <2>3, <3>1, <3>3
      <4>2. \A i \in is : market'.orders[i] = orders[i]
        BY <2>3, <3>1, <4>1
      <4>3. market'.positions[s] = market.positions[s]
        BY <2>4, <3>3
      <4> QED
        BY <4>1, <4>2, <4>3 DEF CryptoInv, PaperBooksAgree
    <3> QED
      BY <3>2, <3>3
  <2>9. CryptoTypeOK'
    BY <2>2, <2>3, <2>4, <2>5, <2>6 DEF CryptoInv, CryptoTypeOK, Order
  <2>10. PaperBooksAgree'
    BY <2>3, <2>5, <2>7, <2>8 DEF PaperBooksAgree, Value
  <2> QED
    BY <2>9, <2>10 DEF CryptoInv
<1> QED
  BY <1>1, <1>2

LEMMA CryptoStep ==
  ASSUME CryptoInv, [CryptoNext]_cryptoVars
  PROVE  CryptoInv'
<1>1. CASE UNCHANGED cryptoVars
  BY <1>1 DEF CryptoInv, CryptoTypeOK, PaperBooksAgree, OrdersOf, cryptoVars
<1>2. ASSUME NEW cap \in Capability, Raise(cap) PROVE CryptoInv'
  BY <1>2 DEF Raise, CryptoInv, CryptoTypeOK, PaperBooksAgree, OrdersOf
<1>3. ASSUME NEW cap \in Capability, Mock(cap) PROVE CryptoInv'
  <2>1. answered' \in [real : Nat, mock : Nat] /\ answered'.real = answered.real /\ result' \in {"done", "failed"}
    BY <1>3 DEF Mock, CryptoInv, CryptoTypeOK
  <2> QED
    BY <1>3, <2>1 DEF Mock, CryptoInv, CryptoTypeOK, PaperBooksAgree, OrdersOf
<1>4. ASSUME NEW cap \in Capability, NEW action \in {"create", "send", "read"}, UseOwsWallet(cap, action)
      PROVE  CryptoInv'
  BY <1>4 DEF UseOwsWallet, CryptoInv, CryptoTypeOK, PaperBooksAgree, OrdersOf
<1>5. ASSUME NEW cap \in Capability, NEW action \in {"create", "send", "read"}, NEW ledger \in Ledgers,
             UseSimWallet(cap, action, ledger)
      PROVE  CryptoInv'
  <2>1. accounts' \in Seq(Ledgers) /\ transfers' \in Seq(Ledgers)
    <3>1. accounts \in Seq(Ledgers) /\ transfers \in Seq(Ledgers)
      BY DEF CryptoInv, CryptoTypeOK
    <3>2. Append(accounts, ledger) \in Seq(Ledgers) /\ Append(transfers, ledger) \in Seq(Ledgers)
      BY <3>1
    <3> QED
      BY <1>5, <3>1, <3>2 DEF UseSimWallet
  <2> QED
    BY <1>5, <2>1 DEF UseSimWallet, CryptoInv, CryptoTypeOK, PaperBooksAgree, OrdersOf
<1>6. ASSUME NEW cap \in Capability, NEW wanted \in {"paper", "live"}, ReadOnly(cap, wanted) PROVE CryptoInv'
  BY <1>6 DEF ReadOnly, CryptoInv, CryptoTypeOK, PaperBooksAgree, OrdersOf
<1> QED
  BY <1>1, <1>2, <1>3, <1>4, <1>5, <1>6, PaperOrderStep DEF CryptoNext

\* For any markets, notionals and order of orders, the paper exchange's total is the sum of its
\* orders and each position the last of its symbol, and the answers of the mock are none of
\* its orders (InMemoryPaperExchangeAdapter.place_order).
THEOREM BooksAgree == CryptoSpec => []PaperBooksAgree
<1>1. CryptoInv => PaperBooksAgree
  BY DEF CryptoInv
<1> QED
  BY <1>1, CryptoInitially, CryptoStep, PTL DEF CryptoSpec

-----------------------------------------------------------------------------
(* AgentRegistry *)

\* Why RegistryExact holds: an agent that was removed still has its row, archived or marked
\* registered; and an agent-register under way is for a row that was there when it read it, and
\* marks only a submission that was answered.
RegistryInv ==
  /\ RegistryTypeOK /\ RegistryExact /\ ScoresKept
  /\ \A a \in removed : Listed(a)
  /\ onchain.at # "idle" => onchain.id \in Ids /\ Listed(onchain.id)
  /\ onchain.at = "mark" => onchain.id \in hashes

LEMMA RegistryInitially ==
  RegistryInit => RegistryInv
<1> SUFFICES ASSUME RegistryInit PROVE RegistryInv
  OBVIOUS
<1> USE RegistryAssumption
<1>1. RegistryTypeOK
  <2>1. NoRow \in [status : {"none", "active", "registered", "archived"}, dir : Directories \union {"none"}]
    BY DEF NoRow
  <2>2. NoPeer \in [met : BOOLEAN, name : Nat, capable : BOOLEAN, score : BOOLEAN]
    BY DEF NoPeer
  <2>3. 0 \in 0 .. MaxAgents /\ 0 \in 0 .. MaxMints
    OBVIOUS
  <2>4. NoCommand \in [at : {"idle", "send", "mark"}, id : 0 .. MaxAgents, dir : Directories \union {"none"}]
    BY <2>3 DEF NoCommand
  <2> QED
    BY <2>1, <2>2, <2>3, <2>4 DEF RegistryInit, RegistryTypeOK
<1>2. RegistryExact /\ ScoresKept
  BY DEF RegistryInit, RegistryExact, ScoresKept, NoRow
<1>3. onchain.at = "idle"
  BY DEF RegistryInit, NoCommand
<1> QED
  BY <1>1, <1>2, <1>3 DEF RegistryInv, RegistryInit

\* What registering or a new status leaves of the rows.
LEMMA RowsAfter ==
  ASSUME RegistryTypeOK, NEW id \in Ids, NEW d \in Directories, NEW status \in {"registered", "archived"}
  PROVE  LET Rows == [Ids -> [status : {"none", "active", "registered", "archived"},
                              dir : Directories \union {"none"}]]
         IN  /\ Registered(id, d) \in Rows /\ WithStatus(id, status) \in Rows
             /\ \A a \in Ids : /\ a # id => Registered(id, d)[a] = agentRows[a] /\ WithStatus(id, status)[a] = agentRows[a]
             /\ Registered(id, d)[id].status = IF Listed(id) THEN agentRows[id].status ELSE "active"
             /\ WithStatus(id, status)[id].status = IF Listed(id) THEN status ELSE "none"
<1> DEFINE Row == [status : {"none", "active", "registered", "archived"}, dir : Directories \union {"none"}]
           new == [status |-> IF Listed(id) THEN agentRows[id].status ELSE "active", dir |-> d]
<1>1. agentRows \in [Ids -> Row]
  BY DEF RegistryTypeOK
<1>2. new \in Row /\ Registered(id, d) = [agentRows EXCEPT ![id] = new]
  BY <1>1 DEF Registered
<1>3. Registered(id, d) \in [Ids -> Row] /\ Registered(id, d)[id] = new
      /\ \A a \in Ids : a # id => Registered(id, d)[a] = agentRows[a]
  <2> HIDE DEF new, Row
  <2> QED
    BY <1>1, <1>2
<1> DEFINE now == [agentRows[id] EXCEPT !.status = IF Listed(id) THEN status ELSE agentRows[id].status]
<1>4. now \in Row /\ now.status = (IF Listed(id) THEN status ELSE "none")
  BY <1>1 DEF Listed
<1>5. WithStatus(id, status) = [agentRows EXCEPT ![id] = now]
  BY <1>1 DEF WithStatus
<1>6. WithStatus(id, status) \in [Ids -> Row] /\ WithStatus(id, status)[id] = now
      /\ \A a \in Ids : a # id => WithStatus(id, status)[a] = agentRows[a]
  <2> HIDE DEF now, Row
  <2> QED
    BY <1>1, <1>4, <1>5
<1> QED
  BY <1>3, <1>4, <1>6

LEMMA AgentsStep ==
  ASSUME RegistryInv, AgentsNext
  PROVE  RegistryInv'
<1> USE RegistryAssumption
<1> DEFINE Row == [status : {"none", "active", "registered", "archived"}, dir : Directories \union {"none"}]
<1>0. RegistryTypeOK
  BY DEF RegistryInv
<1>s. UNCHANGED <<peerRows, scored>> /\ ScoresKept'
  BY DEF AgentsNext, peerVars, RegistryInv, ScoresKept
<1>1. ASSUME NEW d \in Directories, Generate(d) PROVE RegistryInv'
  <2>1. lastId + 1 \in Ids /\ lastId' \in 0 .. MaxAgents
    BY <1>0, <1>1 DEF Generate, RegistryTypeOK, Ids
  <2>2. walletOf' \in [Directories -> {"none", "simulated", "ows"}]
    BY <1>0, <1>1 DEF Generate, RegistryTypeOK
  <2>3. CASE agentRows' = agentRows
    BY <1>s, <1>1, <2>1, <2>2, <2>3 DEF Generate, RegistryInv, RegistryTypeOK, RegistryExact, ScoresKept, Listed
  <2>4. CASE agentRows' = Registered(lastId + 1, d)
    <3>1. /\ agentRows' \in [Ids -> Row]
          /\ \A a \in Ids : a # lastId + 1 => agentRows'[a] = agentRows[a]
          /\ agentRows'[lastId + 1].status =
               IF Listed(lastId + 1) THEN agentRows[lastId + 1].status ELSE "active"
      BY <1>0, <2>1, <2>4, RowsAfter
    <3>7. RegistryTypeOK'
      BY <1>0, <1>s, <1>1, <2>1, <2>2, <3>1 DEF Generate, RegistryTypeOK
    <3>8. RegistryExact'
      BY <1>0, <1>1, <2>1, <2>2, <3>1 DEF Generate, RegistryInv, RegistryExact, RegistryTypeOK, Listed
    <3>9. (\A a \in removed : Listed(a))' /\ (onchain.at # "idle" => onchain.id \in Ids /\ Listed(onchain.id))'
          /\ (onchain.at = "mark" => onchain.id \in hashes)'
      BY <1>0, <1>1, <2>1, <2>2, <3>1 DEF Generate, RegistryInv, RegistryExact, RegistryTypeOK, Listed
    <3> QED
      BY <1>s, <3>7, <3>8, <3>9 DEF RegistryInv
  <2> QED
    BY <1>1, <2>3, <2>4 DEF Generate
<1>2. ASSUME NEW id \in Ids, NEW d \in Directories, RegisterAgain(id, d) PROVE RegistryInv'
  <2>1. /\ agentRows' \in [Ids -> Row]
        /\ \A a \in Ids : a # id => agentRows'[a] = agentRows[a]
        /\ agentRows'[id].status = agentRows[id].status
    BY <1>0, <1>2, RowsAfter DEF RegisterAgain
  <2>7. RegistryTypeOK'
    BY <1>0, <1>s, <1>2, <2>1 DEF RegisterAgain, RegistryTypeOK
  <2>2. \A a \in Ids : agentRows'[a].status = agentRows[a].status
    BY <2>1
  <2>3. UNCHANGED <<mints, hashes, removed>> /\ removed \subseteq Ids
    BY <1>0, <1>2 DEF RegisterAgain, RegistryTypeOK
  <2>8. RegistryExact'
    BY <2>2, <2>3 DEF RegistryInv, RegistryExact
  <2>9. (\A a \in removed : Listed(a))' /\ (onchain.at # "idle" => onchain.id \in Ids /\ Listed(onchain.id))'
        /\ (onchain.at = "mark" => onchain.id \in hashes)'
    BY <1>0, <1>2, <2>1 DEF RegisterAgain, RegistryInv, RegistryExact, RegistryTypeOK, Listed
  <2> QED
    BY <1>s, <2>7, <2>8, <2>9 DEF RegistryInv
<1>3. ASSUME NEW id \in Ids, RemoveAgent(id) PROVE RegistryInv'
  <2>1. PICK d \in Directories \union {"none"} : agentRows[id].dir = d
    BY <1>0 DEF RegistryTypeOK
  <2>2. /\ agentRows' \in [Ids -> Row]
        /\ \A a \in Ids : a # id => agentRows'[a] = agentRows[a]
        /\ agentRows'[id].status = "archived"
    <3>1. WithStatus(id, "archived") = [agentRows EXCEPT ![id] = [agentRows[id] EXCEPT !.status = "archived"]]
      BY <1>0, <1>3 DEF WithStatus, RemoveAgent, RegistryTypeOK
    <3>2. agentRows \in [Ids -> Row] /\ [agentRows[id] EXCEPT !.status = "archived"] \in Row
      BY <1>0 DEF RegistryTypeOK
    <3> QED
      BY <1>3, <3>1, <3>2 DEF RemoveAgent
  <2>7. RegistryTypeOK'
    BY <1>0, <1>s, <1>3, <2>2 DEF RemoveAgent, RegistryTypeOK
  <2>8. RegistryExact'
    BY <1>0, <1>3, <2>2 DEF RemoveAgent, RegistryInv, RegistryExact, RegistryTypeOK, Listed
  <2>9. (\A a \in removed : Listed(a))' /\ (onchain.at # "idle" => onchain.id \in Ids /\ Listed(onchain.id))'
        /\ (onchain.at = "mark" => onchain.id \in hashes)'
    BY <1>0, <1>3, <2>2 DEF RemoveAgent, RegistryInv, RegistryExact, RegistryTypeOK, Listed
  <2> QED
    BY <1>s, <2>7, <2>8, <2>9 DEF RegistryInv
<1>4. ASSUME NEW id \in Ids, ReadForChain(id) PROVE RegistryInv'
  <2>1. onchain' \in [at : {"idle", "send", "mark"}, id : 0 .. MaxAgents, dir : Directories \union {"none"}]
        /\ onchain'.at = "send" /\ onchain'.id = id
    BY <1>0, <1>4 DEF ReadForChain, RegistryTypeOK, Ids
  <2>7. RegistryTypeOK'
    BY <1>0, <1>s, <1>4, <2>1 DEF ReadForChain, RegistryTypeOK
  <2>8. RegistryExact'
    BY <1>0, <1>4, <2>1 DEF ReadForChain, RegistryInv, RegistryExact, RegistryTypeOK, Listed
  <2>9. (\A a \in removed : Listed(a))' /\ (onchain.at # "idle" => onchain.id \in Ids /\ Listed(onchain.id))'
        /\ (onchain.at = "mark" => onchain.id \in hashes)'
    BY <1>0, <1>4, <2>1 DEF ReadForChain, RegistryInv, RegistryExact, RegistryTypeOK, Listed
  <2> QED
    BY <1>s, <2>7, <2>8, <2>9 DEF RegistryInv
<1>5. ASSUME Submit PROVE RegistryInv'
  <2>1. onchain.id \in Ids /\ Listed(onchain.id)
    BY <1>5 DEF Submit, RegistryInv
  <2>2. /\ onchain' \in [at : {"idle", "send", "mark"}, id : 0 .. MaxAgents, dir : Directories \union {"none"}]
        /\ \/ onchain'.at = "mark" /\ onchain'.id = onchain.id /\ hashes' = hashes \union {onchain.id}
           \/ onchain'.at = "idle" /\ hashes' = hashes
    <3>1. NoCommand \in [at : {"idle", "send", "mark"}, id : 0 .. MaxAgents, dir : Directories \union {"none"}]
          /\ NoCommand.at = "idle"
      <4>1. 0 \in 0 .. MaxAgents
        OBVIOUS
      <4> QED
        BY <4>1 DEF NoCommand
    <3> QED
      BY <1>0, <1>5, <3>1 DEF Submit, RegistryTypeOK
  <2>3. mints' \in [Ids -> 0 .. MaxMints] /\ \A a \in Ids : a # onchain.id => mints'[a] = mints[a]
    BY <1>0, <1>5, <2>1 DEF Submit, RegistryTypeOK
  <2>7. RegistryTypeOK'
    BY <1>0, <1>s, <1>5, <2>1, <2>2, <2>3 DEF Submit, RegistryTypeOK
  <2>8. RegistryExact'
    BY <1>0, <1>5, <2>1, <2>2, <2>3 DEF Submit, RegistryInv, RegistryExact, RegistryTypeOK, Listed
  <2>9. (\A a \in removed : Listed(a))' /\ (onchain.at # "idle" => onchain.id \in Ids /\ Listed(onchain.id))'
        /\ (onchain.at = "mark" => onchain.id \in hashes)'
    BY <1>0, <1>5, <2>1, <2>2, <2>3 DEF Submit, RegistryInv, RegistryExact, RegistryTypeOK, Listed
  <2> QED
    BY <1>s, <2>7, <2>8, <2>9 DEF RegistryInv
<1>6. ASSUME MarkRegistered PROVE RegistryInv'
  <2>1. onchain.id \in Ids /\ Listed(onchain.id) /\ onchain.id \in hashes
    BY <1>6 DEF MarkRegistered, RegistryInv
  <2>2. onchain' \in [at : {"idle", "send", "mark"}, id : 0 .. MaxAgents, dir : Directories \union {"none"}]
        /\ onchain'.at = "idle"
    <3>1. 0 \in 0 .. MaxAgents
      OBVIOUS
    <3> QED
      BY <1>6, <3>1 DEF MarkRegistered, NoCommand
  <2>3. /\ agentRows' \in [Ids -> Row]
        /\ \A a \in Ids : a # onchain.id => agentRows'[a] = agentRows[a]
        /\ agentRows'[onchain.id].status \in {agentRows[onchain.id].status, "registered"}
    <3>1. WithStatus(onchain.id, "registered")
            = [agentRows EXCEPT ![onchain.id] = [agentRows[onchain.id] EXCEPT !.status = "registered"]]
      BY <1>0, <2>1 DEF WithStatus, RegistryTypeOK
    <3>2. agentRows \in [Ids -> Row] /\ [agentRows[onchain.id] EXCEPT !.status = "registered"] \in Row
      BY <1>0, <2>1 DEF RegistryTypeOK
    <3> DEFINE now == [agentRows[onchain.id] EXCEPT !.status = "registered"]
    <3>3. now.status = "registered"
      BY <1>0, <2>1 DEF RegistryTypeOK
    <3>4. agentRows' \in {agentRows, [agentRows EXCEPT ![onchain.id] = now]}
      BY <1>6, <3>1 DEF MarkRegistered
    <3> HIDE DEF now, Row
    <3> QED
      BY <2>1, <3>2, <3>3, <3>4 DEF now
  <2>7. RegistryTypeOK'
    BY <1>0, <1>s, <1>6, <2>1, <2>2, <2>3 DEF MarkRegistered, RegistryTypeOK
  <2>8. RegistryExact'
    BY <1>0, <1>6, <2>1, <2>2, <2>3 DEF MarkRegistered, RegistryInv, RegistryExact, RegistryTypeOK, Listed
  <2>9. (\A a \in removed : Listed(a))' /\ (onchain.at # "idle" => onchain.id \in Ids /\ Listed(onchain.id))'
        /\ (onchain.at = "mark" => onchain.id \in hashes)'
    BY <1>0, <1>6, <2>1, <2>2, <2>3 DEF MarkRegistered, RegistryInv, RegistryExact, RegistryTypeOK, Listed
  <2> QED
    BY <1>s, <2>7, <2>8, <2>9 DEF RegistryInv
<1> QED
  BY <1>1, <1>2, <1>3, <1>4, <1>5, <1>6 DEF AgentsNext

LEMMA PeersStep ==
  ASSUME RegistryInv, PeersNext
  PROVE  RegistryInv'
<1> USE RegistryAssumption
<1> DEFINE Peer == [met : BOOLEAN, name : Nat, capable : BOOLEAN, score : BOOLEAN]
<1>0. RegistryTypeOK
  BY DEF RegistryInv
<1>1. ASSUME NEW h \in Peers, NEW n \in Nat, NEW capable \in BOOLEAN, NEW score \in BOOLEAN,
             peerRows' = [peerRows EXCEPT ![h] = PeerRow(h, n, capable, score)],
             scored' \in SUBSET Peers, \A p \in scored' : p \in scored \/ (p = h /\ score)
      PROVE  RegistryInv'
  <2>1. PeerRow(h, n, capable, score) \in Peer /\ PeerRow(h, n, capable, score).score = (score \/ peerRows[h].score)
    BY <1>0 DEF PeerRow, RegistryTypeOK
  <2>2. peerRows' \in [Peers -> Peer]
    BY <1>0, <1>1, <2>1 DEF RegistryTypeOK
  <2>3. ScoresKept'
    BY <1>0, <1>1, <2>1 DEF ScoresKept, RegistryInv, RegistryTypeOK
  <2> QED
    BY <1>1, <2>2, <2>3 DEF PeersNext, agentVars, RegistryInv, RegistryTypeOK, RegistryExact, Listed
<1>2. ASSUME NEW n \in Minted \union {0}, Discover(n) PROVE RegistryInv'
  <2>1. PICK rpc \in PublicRpcs \union {PrivateRpc}, up \in SUBSET (PublicRpcs \union {PrivateRpc}) :
          \E h \in HoldersSeen(n, rpc, up) : peerRows' = [peerRows EXCEPT ![h] = PeerRow(h, n, FALSE, FALSE)]
    BY <1>2 DEF Discover
  <2>2. PICK h \in HoldersSeen(n, rpc, up) : peerRows' = [peerRows EXCEPT ![h] = PeerRow(h, n, FALSE, FALSE)]
    BY <2>1
  <2>3. h \in Peers /\ n \in Nat /\ scored' = scored
    BY <1>2, <2>2 DEF HoldersSeen, Peers, Discover
  <2>4. scored' \in SUBSET Peers
    BY <1>0, <2>3 DEF RegistryTypeOK
  <2> QED
    BY <1>1, <2>2, <2>3, <2>4
<1>3. ASSUME NEW h \in Holders, MeetPeer(h) PROVE RegistryInv'
  <2>1. PICK n \in {0} \union Minted, capable \in BOOLEAN, score \in BOOLEAN :
          /\ peerRows' = [peerRows EXCEPT ![h] = PeerRow(h, n, capable, score)]
          /\ scored' = IF score THEN scored \union {h} ELSE scored
    BY <1>3 DEF MeetPeer
  <2>2. h \in Peers /\ n \in Nat
    BY DEF Peers
  <2>3. scored' \in SUBSET Peers /\ \A p \in scored' : p \in scored \/ (p = h /\ score)
    BY <1>0, <2>1, <2>2 DEF RegistryTypeOK
  <2> QED
    BY <1>1, <2>1, <2>2, <2>3
<1> QED
  BY <1>2, <1>3 DEF PeersNext

LEMMA RegistryStep ==
  ASSUME RegistryInv, [AgentsNext \/ PeersNext]_registryVars
  PROVE  RegistryInv'
<1>1. CASE UNCHANGED registryVars
  BY <1>1 DEF RegistryInv, RegistryTypeOK, RegistryExact, ScoresKept, Listed,
              registryVars, agentVars, peerVars
<1> QED
  BY <1>1, AgentsStep, PeersStep

\* Over any interleaving of generation, removal, registration and discovery, the registry says
\* "registered" only of an agent whose submission was answered, never revives one that was
\* removed, and loses no trust score (AgentRegistry.register, update_status, upsert_peer).
THEOREM RegistryExactAlways ==
  RegistryInit /\ [][AgentsNext \/ PeersNext]_registryVars => [](RegistryExact /\ ScoresKept)
<1>1. RegistryInv => RegistryExact /\ ScoresKept
  BY DEF RegistryInv
<1> QED
  BY <1>1, RegistryInitially, RegistryStep, PTL
=============================================================================

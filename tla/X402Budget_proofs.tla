------------------------- MODULE X402Budget_proofs --------------------------
(***************************************************************************)
(* Proofs about X402Budget: type correctness, the caps of clients that run *)
(* without a lock, the session budget of the payments that run under it,   *)
(* with the refinement of SessionLedger, and how long the lock is held.    *)
(***************************************************************************)
EXTENDS X402Budget, TLAPS

LEMMA FreshStateType == FreshState \in X402State
  BY BoundsAssumption DEF FreshState, X402State, Days

LEMMA FreshStateTotals == FreshState.session = 0 /\ \A d \in Days : FreshState.daily[d] = 0
  BY DEF FreshState

LEMMA BookType ==
  ASSUME NEW s \in X402State, NEW a \in Nat, day \in Days
  PROVE  /\ Book(s, a) \in X402State
         /\ Book(s, a).session = s.session + a
         /\ \A d \in Days : Book(s, a).daily[d] = IF d = day THEN s.daily[d] + a ELSE s.daily[d]
  BY DEF Book, X402State

LEMMA BookedClient ==
  ASSUME TypeOK, NEW p \in Processes
  PROVE  /\ Book(mem[p], price[p]).session = mem[p].session + price[p]
         /\ \A d \in Days : Book(mem[p], price[p]).daily[d] =
                             IF d = day THEN mem[p].daily[d] + price[p] ELSE mem[p].daily[d]
<1>1. mem[p] \in X402State /\ price[p] \in Nat /\ day \in Days
  BY DEF TypeOK
<1> QED BY <1>1, BookType

LEMMA TypeStep == TypeOK /\ [Next]_vars => TypeOK'
<1> SUFFICES ASSUME TypeOK, [Next]_vars PROVE TypeOK'
  OBVIOUS
<1> USE AmountsAssumption, BoundsAssumption, FreshStateType
    DEF TypeOK, environment, ghosts, Phases, Paying, Goto, Return, Processes
<1>1. ASSUME NEW p \in Processes, Construct(p) PROVE TypeOK'
  BY <1>1 DEF Construct
<1>2. ASSUME NEW p \in Processes, BeginCall(p) PROVE TypeOK'
  BY <1>2 DEF BeginCall
<1>3. ASSUME NEW p \in Processes, EndUnpaid(p) PROVE TypeOK'
  BY <1>3 DEF EndUnpaid
<1>4. ASSUME NEW p \in Processes, NEW a \in Prices, SignAndRetry(p, a) PROVE TypeOK'
  BY <1>4 DEF SignAndRetry
<1>5. ASSUME NEW p \in Processes, RetryAccepted(p) PROVE TypeOK'
  <2>1. Book(mem[p], price[p]) \in X402State
    BY BookType
  <2>2. mem' \in [Processes -> X402State] /\ mem'[p] \in X402State
    BY <1>5, <2>1 DEF RetryAccepted
  <2>3. disk' \in X402State /\ lost' \in BOOLEAN
    BY <1>5, <2>2 DEF RetryAccepted, Save
  <2> QED BY <1>5, <2>2, <2>3 DEF RetryAccepted
<1>6. ASSUME NEW p \in Processes, RetryRejected(p) PROVE TypeOK'
  <2>1. mem[p] \in X402State
    OBVIOUS
  <2>2. disk' \in X402State /\ lost' \in BOOLEAN
    BY <1>6, <2>1 DEF RetryRejected, Save
  <2> QED BY <1>6, <2>2 DEF RetryRejected
<1>7. ASSUME NEW p \in Processes, RetryLost(p) PROVE TypeOK'
  BY <1>7 DEF RetryLost
<1>8. ASSUME NEW p \in Processes, ResetSession(p) PROVE TypeOK'
  <2>1. mem' \in [Processes -> X402State] /\ mem'[p] \in X402State
    BY <1>8 DEF ResetSession, X402State
  <2>2. disk' \in X402State /\ lost' \in BOOLEAN
    BY <1>8, <2>1 DEF ResetSession, Save
  <2> QED BY <1>8, <2>1, <2>2 DEF ResetSession
<1>9. ASSUME NEW p \in Processes, NEW b \in Prices, Acquire(p, b) PROVE TypeOK'
  BY <1>9 DEF Acquire
<1>10. ASSUME NEW p \in Processes, CheckBudget(p) PROVE TypeOK'
  BY <1>10 DEF CheckBudget
<1>11. ASSUME NEW p \in Processes, DenyPayment(p) PROVE TypeOK'
  BY <1>11 DEF DenyPayment
<1>12. ASSUME NEW p \in Processes, PayViaX402(p) PROVE TypeOK'
  BY <1>12 DEF PayViaX402
<1>13. ASSUME NEW p \in Processes, DenyTransfer(p) PROVE TypeOK'
  BY <1>13 DEF DenyTransfer
<1>14. ASSUME NEW p \in Processes, BroadcastTransfer(p) PROVE TypeOK'
  BY <1>14 DEF BroadcastTransfer
<1>15. ASSUME NEW p \in Processes, TransferFailed(p) PROVE TypeOK'
  BY <1>15 DEF TransferFailed
<1>16. ASSUME NEW p \in Processes, OpenRecord(p) PROVE TypeOK'
  <2>1. Book(disk, price[p]) \in X402State
    BY BookType
  <2> QED BY <1>16, <2>1 DEF OpenRecord
<1>17. ASSUME NEW p \in Processes, WriteRecord(p) PROVE TypeOK'
  BY <1>17 DEF WriteRecord
<1>22. ASSUME NEW p \in Processes, RecordFails(p) PROVE TypeOK'
  BY <1>22 DEF RecordFails
<1>18. ASSUME NEW p \in Processes, Crash(p) PROVE TypeOK'
  BY <1>18 DEF Crash
<1>19. CASE ToggleHalt
  BY <1>19 DEF ToggleHalt
<1>20. CASE NextDay
  BY <1>20 DEF NextDay, Days
<1>21. CASE UNCHANGED vars
  BY <1>21 DEF vars
<1> QED
  BY <1>1, <1>2, <1>3, <1>4, <1>5, <1>6, <1>7, <1>8, <1>9, <1>10, <1>11, <1>12, <1>13,
     <1>14, <1>15, <1>16, <1>17, <1>18, <1>19, <1>20, <1>21, <1>22
  DEF Next, ClientStep, PaymentStep

\* Every variable keeps its type, for any processes, prices and caps.
THEOREM TypeCorrect == Spec => []TypeOK
<1>1. Init => TypeOK
  <2>1. 0 \in Days /\ 0 \in 0 .. MaxCalls /\ 0 \in 0 .. MaxCrashes
    BY BoundsAssumption DEF Days
  <2>2. ASSUME Init PROVE TypeOK
    <3>1. /\ mem \in [Processes -> X402State] /\ disk \in X402State
      BY <2>2, FreshStateType DEF Init
    <3>2. /\ pc \in [Processes -> Phases] /\ price \in [Processes -> Nat]
          /\ perCall \in [Processes -> Nat]
      BY <2>2, AmountsAssumption DEF Init, Phases
    <3> QED BY <2>1, <2>2, <3>1, <3>2 DEF Init, TypeOK
  <2> QED BY <2>2
<1> QED
  BY <1>1, TypeStep, PTL DEF Spec

-----------------------------------------------------------------------------
(* Clients without a lock *)

\* What keeps the caps of the clients: whatever may be booked later was checked
\* against this very object's totals, and no total of a later day exists yet.
ClientInv ==
  /\ SessionCapPerObject
  /\ DailyCapPerObject
  /\ \A p \in Processes :
       pc[p] = "retrying" => /\ mem[p].session + price[p] <= MaxSession
                             /\ price[p] <= MaxDaily
                             /\ \A d \in Days : d >= day => mem[p].daily[d] + price[p] <= MaxDaily
  /\ \A d \in Days : d > day =>
       /\ disk.daily[d] = 0
       /\ \A p \in Processes : mem[p].daily[d] = 0
  /\ \A p \in Processes : pc[p] \in {"off", "idle", "requested", "retrying"}

LEMMA ClientInvInit == Init => ClientInv
  BY AmountsAssumption, BoundsAssumption
  DEF Init, ClientInv, SessionCapPerObject, DailyCapPerObject, FreshState, Days

LEMMA ClientStepKeepsCaps ==
  ASSUME Payers = {}, TypeOK, ClientInv, [Next]_vars
  PROVE  ClientInv'
<1> USE AmountsAssumption, BoundsAssumption
    DEF ClientInv, SessionCapPerObject, DailyCapPerObject, TypeOK, X402State,
        environment, ghosts, Goto, Return, Processes
<1>1. ASSUME NEW p \in Processes, Construct(p) PROVE ClientInv'
  BY <1>1 DEF Construct
<1>2. ASSUME NEW p \in Processes, BeginCall(p) PROVE ClientInv'
  BY <1>2 DEF BeginCall
<1>3. ASSUME NEW p \in Processes, EndUnpaid(p) PROVE ClientInv'
  BY <1>3 DEF EndUnpaid
<1>4. ASSUME NEW p \in Processes, NEW a \in Prices, SignAndRetry(p, a) PROVE ClientInv'
  <2>1. /\ a \in Nat /\ day \in Days /\ Days \subseteq Nat
        /\ mem[p].daily \in [Days -> Nat] /\ mem[p].session \in Nat
    BY DEF Days
  <2>2. /\ mem[p].session + a <= MaxSession
        /\ mem[p].daily[day] + a <= MaxDaily
    BY <1>4 DEF SignAndRetry, WithinCaps
  <2>3. a <= MaxDaily
    BY <2>1, <2>2
  <2>4. ASSUME NEW d \in Days, d >= day PROVE mem[p].daily[d] + a <= MaxDaily
    <3>1. CASE d = day
      BY <2>2, <3>1
    <3>2. CASE d > day
      BY <2>1, <2>3, <3>2
    <3> QED BY <2>1, <2>4, <3>1, <3>2
  <2>5. /\ price' = [price EXCEPT ![p] = a] /\ pc' = [pc EXCEPT ![p] = "retrying"]
        /\ UNCHANGED <<disk, mem, day>>
    BY <1>4 DEF SignAndRetry
  <2> QED BY <2>2, <2>3, <2>4, <2>5
<1>5. ASSUME NEW p \in Processes, RetryAccepted(p) PROVE ClientInv'
  <2> DEFINE b == Book(mem[p], price[p])
  <2>0. mem[p] \in X402State /\ price[p] \in Nat /\ day \in Days
    OBVIOUS
  <2>1. /\ b.session = mem[p].session + price[p]
        /\ \A d \in Days : b.daily[d] = IF d = day THEN mem[p].daily[d] + price[p]
                                                  ELSE mem[p].daily[d]
    BY BookedClient
  <2>2. b.session <= MaxSession /\ \A d \in Days : b.daily[d] <= MaxDaily
    <3>1. /\ mem[p].session + price[p] <= MaxSession
          /\ \A d \in Days : d >= day => mem[p].daily[d] + price[p] <= MaxDaily
      BY <1>5 DEF RetryAccepted
    <3>2. day >= day
      BY DEF Days
    <3> QED BY <2>0, <2>1, <3>1, <3>2
  <2>3. \A d \in Days : d > day => b.daily[d] = 0
    <3>1. \A d \in Days : d > day => d # day /\ mem[p].daily[d] = 0
      BY DEF Days
    <3> QED BY <2>1, <3>1
  <2>4. mem' = [mem EXCEPT ![p] = b] /\ disk' \in {disk, b, FreshState}
    BY <1>5 DEF RetryAccepted, Save
  <2> HIDE DEF b
  <2>5. day' = day /\ price' = price /\ pc' = [pc EXCEPT ![p] = "idle"]
    BY <1>5 DEF RetryAccepted
  <2> QED BY <2>2, <2>3, <2>4, <2>5, FreshStateTotals
<1>6. ASSUME NEW p \in Processes, RetryRejected(p) PROVE ClientInv'
  <2>1. disk' \in {disk, mem[p], FreshState}
    BY <1>6 DEF RetryRejected, Save
  <2> QED BY <1>6, <2>1, FreshStateTotals DEF RetryRejected
<1>7. ASSUME NEW p \in Processes, RetryLost(p) PROVE ClientInv'
  BY <1>7 DEF RetryLost
<1>8. ASSUME NEW p \in Processes, ResetSession(p) PROVE ClientInv'
  <2>1. /\ mem'[p].session = 0 /\ mem'[p].daily = mem[p].daily
        /\ \A q \in Processes \ {p} : mem'[q] = mem[q]
    BY <1>8 DEF ResetSession
  <2>2. Save(mem'[p])
    BY <1>8 DEF ResetSession
  <2>3. disk' \in {disk, mem'[p], FreshState}
    BY <2>2 DEF Save
  <2>4. UNCHANGED <<pc, price, day>>
    BY <1>8 DEF ResetSession
  <2>5. /\ \A q \in Processes : mem'[q].session \in {0, mem[q].session}
        /\ \A q \in Processes : mem'[q].daily = mem[q].daily
        /\ \A q \in Processes : pc[q] = "retrying" => mem'[q] = mem[q]
    <3>1. pc[p] = "idle"
      BY <1>8 DEF ResetSession
    <3> QED BY <2>1, <3>1
  <2>6. /\ disk'.session <= MaxSession
        /\ \A d \in Days : disk'.daily[d] <= MaxDaily
        /\ \A d \in Days : d > day => disk'.daily[d] = 0
    <3>1. CASE disk' = disk
      BY <3>1
    <3>2. CASE disk' = FreshState
      BY <3>2, FreshStateTotals
    <3>3. CASE disk' = mem'[p]
      BY <2>1, <3>3
    <3> QED BY <2>3, <3>1, <3>2, <3>3
  <2>7. SessionCapPerObject' /\ DailyCapPerObject'
    <3>1. ASSUME NEW q \in Processes PROVE mem'[q].session <= MaxSession
      <4>1. mem[q].session <= MaxSession /\ 0 <= MaxSession
        OBVIOUS
      <4> QED BY <2>5, <4>1
    <3>2. ASSUME NEW q \in Processes, NEW d \in Days PROVE mem'[q].daily[d] <= MaxDaily
      <4>1. mem[q].daily[d] <= MaxDaily
        OBVIOUS
      <4> QED BY <2>5, <4>1
    <3> HIDE DEF ClientInv, TypeOK, X402State
    <3> QED BY <2>6, <3>1, <3>2 DEF Days
  <2>8. /\ \A q \in Processes : pc[q] = "retrying" =>
             /\ mem'[q].session + price[q] <= MaxSession
             /\ price[q] <= MaxDaily
             /\ \A d \in Days : d >= day => mem'[q].daily[d] + price[q] <= MaxDaily
        /\ \A d \in Days : d > day => \A q \in Processes : mem'[q].daily[d] = 0
    BY <2>5
  <2> QED BY <2>4, <2>6, <2>7, <2>8
<1>9. ASSUME NEW p \in Processes, PaymentStep(p) PROVE ClientInv'
  BY <1>9 DEF PaymentStep, Acquire, CheckBudget, DenyPayment, PayViaX402, DenyTransfer,
     BroadcastTransfer, TransferFailed, OpenRecord, WriteRecord, RecordFails
<1>10. ASSUME NEW p \in Processes, Crash(p) PROVE ClientInv'
  BY <1>10 DEF Crash
<1>11. CASE ToggleHalt
  BY <1>11 DEF ToggleHalt
<1>12. CASE NextDay
  BY <1>12 DEF NextDay, Days
<1>13. CASE UNCHANGED vars
  BY <1>13 DEF vars
<1> QED
  BY <1>1, <1>2, <1>3, <1>4, <1>5, <1>6, <1>7, <1>8, <1>9, <1>10, <1>11, <1>12, <1>13
  DEF Next, ClientStep

\* Any number of clients that overwrite each other's totals without a lock:
\* no object and no file ever passes the session cap ...
THEOREM ClientsKeepSessionCap ==
  ASSUME Payers = {}
  PROVE  Spec => []SessionCapPerObject
<1>1. TypeOK /\ ClientInv /\ [Next]_vars => ClientInv'
  BY ClientStepKeepsCaps
<1>2. ClientInv => SessionCapPerObject
  BY DEF ClientInv
<1> QED
  BY <1>1, <1>2, ClientInvInit, TypeCorrect, PTL DEF Spec

\* ... nor the daily cap of any day, although a payment may be booked on the day
\* after the one it was checked against.
THEOREM ClientsKeepDailyCap ==
  ASSUME Payers = {}
  PROVE  Spec => []DailyCapPerObject
<1>1. TypeOK /\ ClientInv /\ [Next]_vars => ClientInv'
  BY ClientStepKeepsCaps
<1>2. ClientInv => DailyCapPerObject
  BY DEF ClientInv
<1> QED
  BY <1>1, <1>2, ClientInvInit, TypeCorrect, PTL DEF Spec

-----------------------------------------------------------------------------
(* Payments under the lock *)

\* Only the lock holder is inside a payment.  Its view of the file is the file,
\* its price was checked against it, and what the file lacks while
\* _record_spend rewrites it is what the holder is about to write.
LockInv ==
  /\ \A p \in Processes : pc[p] # "idle" /\ (pc[p] # "off" => lock = p)
  /\ \A p \in Processes :
       pc[p] \in {"locked", "x402", "transfer"} \union Paying => price[p] \in Prices

FileInv ==
  /\ \A p \in Processes : pc[p] \in {"requested", "retrying"} => mem[p] = disk
  /\ \A p \in Processes :
       pc[p] \in {"transfer", "retrying", "broadcast"} => disk.session + price[p] <= MaxSession
  /\ \A p \in Processes :
       pc[p] = "recording" => lost \/ mem[p].session = recorded + price[p]

LockedInv ==
  /\ LockInv
  /\ FileInv
  /\ SessionCapPerObject
  /\ NoLostPayment
  /\ SessionBudgetHolds
  /\ ExposureAccounted

LEMMA LockedInvInit == Init => LockedInv
  BY AmountsAssumption
  DEF Init, LockedInv, LockInv, FileInv, SessionCapPerObject, NoLostPayment, Recording,
      SessionBudgetHolds, ExposureAccounted, InFlight, FreshState, Paying

\* Who may do what: the other processes are outside while p is inside.
LEMMA OthersOutside ==
  ASSUME Clients = {}, TypeOK, LockInv, NEW p \in Processes, pc[p] # "off"
  PROVE  /\ lock = p /\ p # NoProcess /\ p \notin Clients
         /\ \A q \in Processes \ {p} : pc[q] = "off"
  BY ProcessesAssumption DEF LockInv, TypeOK, Processes

LEMMA LockStep ==
  ASSUME Clients = {}, TypeOK, LockInv, [Next]_vars
  PROVE  LockInv'
<1> USE ProcessesAssumption DEF LockInv, TypeOK, Goto, Return, Processes, Paying, environment, ghosts
<1>1. ASSUME NEW p \in Processes, ClientStep(p) PROVE LockInv'
  BY <1>1 DEF ClientStep, Construct, BeginCall, EndUnpaid, SignAndRetry, RetryAccepted,
     RetryRejected, RetryLost, ResetSession
<1>2. ASSUME NEW p \in Processes, NEW b \in Prices, Acquire(p, b) PROVE LockInv'
  BY <1>2 DEF Acquire
<1>3. ASSUME NEW p \in Processes,
             \/ CheckBudget(p) \/ DenyPayment(p) \/ PayViaX402(p) \/ DenyTransfer(p)
             \/ BroadcastTransfer(p) \/ TransferFailed(p) \/ OpenRecord(p) \/ WriteRecord(p)
             \/ RecordFails(p)
      PROVE  LockInv'
  BY <1>3 DEF CheckBudget, DenyPayment, PayViaX402, DenyTransfer, BroadcastTransfer,
     TransferFailed, OpenRecord, WriteRecord, RecordFails
<1>4. ASSUME NEW p \in Processes, Crash(p) PROVE LockInv'
  BY <1>4 DEF Crash
<1>5. CASE ToggleHalt \/ NextDay \/ UNCHANGED vars
  BY <1>5 DEF ToggleHalt, NextDay, vars
<1> QED
  BY <1>1, <1>2, <1>3, <1>4, <1>5 DEF Next, PaymentStep

\* What the totals look like while p, and so nobody else, is inside.
Inside(p) ==
  /\ InFlight = IF pc[p] \in Paying THEN price[p] ELSE 0
  /\ Recording <=> pc[p] = "recording"

LEMMA InsideTotals ==
  ASSUME Clients = {}, TypeOK, LockInv, NEW p \in Processes, pc[p] # "off"
  PROVE  Inside(p)
  BY OthersOutside DEF Inside, InFlight, Recording

LEMMA NothingInFlight ==
  ASSUME Clients = {}, TypeOK, LockInv, \A p \in Processes : pc[p] = "off"
  PROVE  InFlight = 0 /\ ~Recording
  BY ProcessesAssumption DEF InFlight, Recording, TypeOK, Processes, Paying

\* A step of the lock holder p, told by what it does to the totals: it ends the
\* payment or stays inside, and it keeps the clauses of LockedInv about p.
LEMMA HolderStep ==
  ASSUME Clients = {}, TypeOK, TypeOK', LockInv, LockInv', NEW p \in Processes,
         \A q \in Processes \ {p} : pc[q] = "off" /\ pc'[q] = "off",
         \A q \in Processes \ {p} : mem'[q] = mem[q],
         \A q \in Processes : mem[q].session <= MaxSession,
         disk'.session <= MaxSession, mem'[p].session <= MaxSession,
         pc'[p] \in {"requested", "retrying"} => mem'[p] = disk',
         pc'[p] \in {"transfer", "retrying", "broadcast"} => disk'.session + price'[p] <= MaxSession,
         pc'[p] = "recording" => lost' \/ mem'[p].session = recorded' + price'[p],
         lost' \/ pc'[p] = "recording" \/ disk'.session = recorded',
         lost' \/ recorded' <= MaxSession,
         exposure' = recorded' + failed' + (IF pc'[p] \in Paying THEN price'[p] ELSE 0)
  PROVE  LockedInv'
<1>1. FileInv' /\ SessionCapPerObject' /\ SessionBudgetHolds'
  BY DEF FileInv, SessionCapPerObject, SessionBudgetHolds
<1>2. Recording' <=> pc'[p] = "recording"
  BY DEF Recording
<1>3. InFlight' = IF pc'[p] \in Paying THEN price'[p] ELSE 0
  <2>1. CASE pc'[p] = "off"
    BY <2>1, ProcessesAssumption DEF InFlight, TypeOK, Processes, Paying
  <2>2. CASE pc'[p] # "off"
    BY <2>2, ProcessesAssumption DEF InFlight, LockInv, Processes
  <2> QED BY <2>1, <2>2
<1> QED
  BY <1>1, <1>2, <1>3 DEF LockedInv, NoLostPayment, ExposureAccounted

\* The clauses of LockedInv as the step of p finds them, told without quantifiers
\* over processes where only p matters.
LEMMA HolderState ==
  ASSUME Clients = {}, TypeOK, LockedInv, NEW p \in Processes, pc[p] # "off"
  PROVE  /\ lock = p /\ p \notin Clients /\ pc \in [Processes -> Phases]
         /\ \A q \in Processes \ {p} : pc[q] = "off"
         /\ \A q \in Processes : mem[q].session <= MaxSession
         /\ disk.session <= MaxSession
         /\ pc[p] \in {"requested", "retrying"} => mem[p] = disk
         /\ pc[p] \in {"transfer", "retrying", "broadcast"} => disk.session + price[p] <= MaxSession
         /\ pc[p] = "recording" => lost \/ mem[p].session = recorded + price[p]
         /\ lost \/ pc[p] = "recording" \/ disk.session = recorded
         /\ lost \/ recorded <= MaxSession
         /\ exposure = recorded + failed + (IF pc[p] \in Paying THEN price[p] ELSE 0)
         /\ recorded \in Nat /\ failed \in Nat /\ price[p] \in Nat /\ price \in [Processes -> Nat]
         /\ mem \in [Processes -> X402State] /\ lost \in BOOLEAN
         /\ disk \in X402State /\ disk.session \in Nat /\ mem[p].session \in Nat
<1>1. LockInv
  BY DEF LockedInv
<1>2. Inside(p)
  BY <1>1, InsideTotals
<1>3. /\ disk \in X402State /\ disk.session \in Nat
      /\ mem[p] \in X402State /\ mem[p].session \in Nat
  BY DEF TypeOK, X402State
<1> QED
  BY <1>1, <1>2, <1>3, OthersOutside
  DEF LockedInv, FileInv, SessionCapPerObject, NoLostPayment, SessionBudgetHolds,
      ExposureAccounted, Inside, TypeOK

LEMMA LockedStep ==
  ASSUME Clients = {}, TypeOK, TypeOK', LockedInv, [Next]_vars
  PROVE  LockedInv'
<1>1. LockInv /\ LockInv'
  BY LockStep DEF LockedInv
<1> USE AmountsAssumption DEF Goto, Return, environment, ghosts, Paying
<1>2. ASSUME NEW p \in Processes, EndUnpaid(p) PROVE LockedInv'
  <2>1. pc[p] # "off"
    BY <1>2 DEF EndUnpaid
  <2> QED BY <1>1, <1>2, <2>1, HolderState, HolderStep DEF EndUnpaid
<1>3. ASSUME NEW p \in Processes, RetryRejected(p) PROVE LockedInv'
  <2>1. pc[p] # "off"
    BY <1>3 DEF RetryRejected
  <2>2. /\ pc' = [pc EXCEPT ![p] = "off"] /\ failed' = failed + price[p]
        /\ (disk' = mem[p] /\ lost' = lost) \/ (disk'.session \in {0, disk.session} /\ lost' = TRUE)
        /\ UNCHANGED <<mem, price, recorded, exposure>>
    BY <1>3, <2>1, HolderState, FreshStateTotals DEF RetryRejected, Save
  <2>3. pc[p] = "retrying"
    BY <1>3 DEF RetryRejected
  <2> QED BY <1>1, <2>1, <2>2, <2>3, HolderState, HolderStep
<1>4. ASSUME NEW p \in Processes, RetryLost(p) PROVE LockedInv'
  <2>1. pc[p] # "off"
    BY <1>4 DEF RetryLost
  <2> QED BY <1>1, <1>4, <2>1, HolderState, HolderStep DEF RetryLost
<1>5. ASSUME NEW p \in Processes, CheckBudget(p) PROVE LockedInv'
  <2>1. pc[p] # "off"
    BY <1>5 DEF CheckBudget
  <2> QED BY <1>1, <1>5, <2>1, HolderState, HolderStep DEF CheckBudget, BudgetAllows
<1>6. ASSUME NEW p \in Processes, DenyPayment(p) PROVE LockedInv'
  <2>1. pc[p] # "off"
    BY <1>6 DEF DenyPayment
  <2> QED BY <1>1, <1>6, <2>1, HolderState, HolderStep DEF DenyPayment
<1>7. ASSUME NEW p \in Processes, PayViaX402(p) PROVE LockedInv'
  <2>1. pc[p] # "off"
    BY <1>7 DEF PayViaX402
  <2> QED BY <1>1, <1>7, <2>1, HolderState, HolderStep DEF PayViaX402
<1>8. ASSUME NEW p \in Processes, DenyTransfer(p) PROVE LockedInv'
  <2>1. pc[p] # "off"
    BY <1>8 DEF DenyTransfer
  <2> QED BY <1>1, <1>8, <2>1, HolderState, HolderStep DEF DenyTransfer
<1>9. ASSUME NEW p \in Processes, BroadcastTransfer(p) PROVE LockedInv'
  <2>1. pc[p] # "off"
    BY <1>9 DEF BroadcastTransfer
  <2> QED BY <1>1, <1>9, <2>1, HolderState, HolderStep DEF BroadcastTransfer
<1>10. ASSUME NEW p \in Processes, TransferFailed(p) PROVE LockedInv'
  <2>1. pc[p] # "off"
    BY <1>10 DEF TransferFailed
  <2> QED BY <1>1, <1>10, <2>1, HolderState, HolderStep DEF TransferFailed
<1>11. ASSUME NEW p \in Processes, WriteRecord(p) PROVE LockedInv'
  <2>1. pc[p] # "off"
    BY <1>11 DEF WriteRecord
  <2> QED BY <1>1, <1>11, <2>1, HolderState, HolderStep DEF WriteRecord
<1>19. ASSUME NEW p \in Processes, RecordFails(p) PROVE LockedInv'
  <2>1. pc[p] # "off"
    BY <1>19 DEF RecordFails
  <2> QED BY <1>1, <1>19, <2>1, HolderState, HolderStep DEF RecordFails
<1>12. ASSUME NEW p \in Processes, Construct(p) \/ BeginCall(p) \/ ResetSession(p) PROVE LockedInv'
  BY <1>12 DEF Construct, BeginCall, ResetSession
<1>13. ASSUME NEW p \in Processes, NEW a \in Prices, SignAndRetry(p, a) PROVE LockedInv'
  <2>1. pc[p] = "requested" /\ a \in Nat /\ mem[p].session + a <= MaxSession
    BY <1>13 DEF SignAndRetry, WithinCaps
  <2> QED BY <1>1, <1>13, <2>1, HolderState, HolderStep DEF SignAndRetry
<1>14. ASSUME NEW p \in Processes, RetryAccepted(p) PROVE LockedInv'
  <2>1. pc[p] = "retrying"
    BY <1>14 DEF RetryAccepted
  <2>2. Book(mem[p], price[p]).session = mem[p].session + price[p]
    BY BookedClient
  <2>3. /\ mem' = [mem EXCEPT ![p] = Book(mem[p], price[p])]
        /\ recorded' = recorded + price[p]
        /\ \/ disk' = mem'[p] /\ lost' = lost
           \/ disk'.session \in {0, disk.session} /\ lost' = TRUE
        /\ pc' = [pc EXCEPT ![p] = "off"]
        /\ UNCHANGED <<price, exposure, failed>>
    BY <1>14, <2>1, HolderState, FreshStateTotals DEF RetryAccepted, Save
  <2> QED BY <1>1, <2>1, <2>2, <2>3, HolderState, HolderStep
<1>15. ASSUME NEW p \in Processes, OpenRecord(p) PROVE LockedInv'
  <2>1. pc[p] = "broadcast"
    BY <1>15 DEF OpenRecord
  <2>2. Book(disk, price[p]).session = disk.session + price[p]
    <3>1. disk \in X402State /\ price[p] \in Nat /\ day \in Days
      BY DEF TypeOK
    <3> QED BY <3>1, BookType
  <2>3. /\ mem' = [mem EXCEPT ![p] = Book(disk, price[p])]
        /\ disk'.session = 0
        /\ pc' = [pc EXCEPT ![p] = "recording"]
        /\ UNCHANGED <<price, exposure, failed, recorded, lost>>
    BY <1>15 DEF OpenRecord, FreshState
  <2> QED BY <1>1, <2>1, <2>2, <2>3, HolderState, HolderStep
<1>16. ASSUME NEW p \in Processes, Crash(p) PROVE LockedInv'
  <2>1. pc[p] # "off"
    BY <1>16 DEF Crash
  <2>2. /\ pc' = [pc EXCEPT ![p] = "off"]
        /\ failed' = IF pc[p] \in Paying THEN failed + price[p] ELSE failed
        /\ lost' = (lost \/ pc[p] = "recording")
        /\ UNCHANGED <<disk, mem, price, recorded, exposure>>
    BY <1>16 DEF Crash
  <2>3. /\ lost' \/ disk'.session = recorded'
        /\ lost' \/ recorded' <= MaxSession
        /\ exposure' = recorded' + failed'
    <3>1. lost' \/ (~lost /\ pc[p] # "recording")
      BY <2>2
    <3>2. /\ lost \/ pc[p] = "recording" \/ disk.session = recorded
          /\ lost \/ recorded <= MaxSession
          /\ exposure = recorded + failed + (IF pc[p] \in Paying THEN price[p] ELSE 0)
          /\ recorded \in Nat /\ failed \in Nat /\ price[p] \in Nat
      BY <2>1, HolderState
    <3>3. exposure' = recorded' + failed'
      BY <2>2, <3>2
    <3> QED BY <2>2, <3>1, <3>2, <3>3
  <2>4. pc'[p] = "off" /\ \A q \in Processes \ {p} : pc[q] = "off" /\ pc'[q] = "off"
    BY <2>1, <2>2, HolderState
  <2> QED BY <1>1, <2>1, <2>2, <2>3, <2>4, HolderState, HolderStep
<1>17. ASSUME NEW p \in Processes, NEW b \in Prices, Acquire(p, b) PROVE LockedInv'
  <2>1. \A q \in Processes : pc[q] = "off"
    BY <1>1, <1>17, ProcessesAssumption DEF Acquire, LockInv, Processes
  <2>2. ~Recording /\ ~Recording' /\ InFlight = 0
    BY <1>1, <1>17, <2>1, NothingInFlight DEF Acquire, Recording, TypeOK
  <2>3. InFlight' = 0
    BY <1>17, <2>1, ProcessesAssumption DEF Acquire, InFlight, TypeOK, Processes
  <2>4. FileInv'
    BY <1>17, <2>1 DEF Acquire, FileInv, TypeOK
  <2> QED
    BY <1>1, <1>17, <2>2, <2>3, <2>4
    DEF Acquire, LockedInv, SessionCapPerObject, NoLostPayment, SessionBudgetHolds, ExposureAccounted
<1>18. CASE ToggleHalt \/ NextDay \/ UNCHANGED vars
  BY <1>1, <1>18
  DEF ToggleHalt, NextDay, vars, LockedInv, FileInv, SessionCapPerObject, NoLostPayment,
      SessionBudgetHolds, ExposureAccounted, Recording, InFlight
<1> QED
  BY <1>2, <1>3, <1>4, <1>5, <1>6, <1>7, <1>8, <1>9, <1>10, <1>11, <1>12, <1>13, <1>14,
     <1>15, <1>16, <1>17, <1>18, <1>19
  DEF Next, ClientStep, PaymentStep

\* However many payments compete for the lock, die or fail: no object and no
\* file passes the session cap ...
THEOREM PayersKeepSessionCap ==
  ASSUME Clients = {}
  PROVE  Spec => []SessionCapPerObject
<1>1. TypeOK /\ TypeOK' /\ LockedInv /\ [Next]_vars => LockedInv'
  BY LockedStep
<1>2. LockedInv => SessionCapPerObject
  BY DEF LockedInv
<1> QED
  BY <1>1, <1>2, LockedInvInit, TypeCorrect, PTL DEF Spec

\* ... no booked payment is missing from a file that no disk fault has hit ...
THEOREM LockLosesNoPayment ==
  ASSUME Clients = {}
  PROVE  Spec => []NoLostPayment
<1>1. TypeOK /\ TypeOK' /\ LockedInv /\ [Next]_vars => LockedInv'
  BY LockedStep
<1>2. LockedInv => NoLostPayment
  BY DEF LockedInv
<1> QED
  BY <1>1, <1>2, LockedInvInit, TypeCorrect, PTL DEF Spec

\* ... all booked payments together stay within the session cap ...
THEOREM LockPreventsOverspending ==
  ASSUME Clients = {}
  PROVE  Spec => []SessionBudgetHolds
<1>1. TypeOK /\ TypeOK' /\ LockedInv /\ [Next]_vars => LockedInv'
  BY LockedStep
<1>2. LockedInv => SessionBudgetHolds
  BY DEF LockedInv
<1> QED
  BY <1>1, <1>2, LockedInvInit, TypeCorrect, PTL DEF Spec

\* ... and everything signed for is booked, failed, or the lock holder's.
THEOREM LockAccountsForExposure ==
  ASSUME Clients = {}
  PROVE  Spec => []ExposureAccounted
<1>1. TypeOK /\ TypeOK' /\ LockedInv /\ [Next]_vars => LockedInv'
  BY LockedStep
<1>2. LockedInv => ExposureAccounted
  BY DEF LockedInv
<1> QED
  BY <1>1, <1>2, LockedInvInit, TypeCorrect, PTL DEF Spec

-----------------------------------------------------------------------------
(* Refinement *)

\* A step under the lock is a payment within the cap, a disk fault, or nothing
\* the ledger sees.
LEMMA LedgerStep ==
  ASSUME Clients = {}, TypeOK, LockedInv, [Next]_vars
  PROVE  [Ledger!Next]_<<recorded, lost>>
<1> USE DEF Ledger!Next, Ledger!Spend, Ledger!Fault, ghosts, environment
<1>1. ASSUME NEW p \in Processes, RetryAccepted(p) PROVE [Ledger!Next]_<<recorded, lost>>
  <2>1. pc[p] = "retrying" /\ price[p] \in Prices
    BY <1>1 DEF RetryAccepted, LockedInv, LockInv, Paying
  <2>2. lost \/ recorded + price[p] <= MaxSession
    BY <2>1, HolderState
  <2> QED BY <1>1, <2>1, <2>2 DEF RetryAccepted, Save, TypeOK
<1>2. ASSUME NEW p \in Processes, WriteRecord(p) PROVE [Ledger!Next]_<<recorded, lost>>
  <2>1. pc[p] = "recording" /\ price[p] \in Prices
    BY <1>2 DEF WriteRecord, LockedInv, LockInv, Paying
  <2>2. lost \/ recorded + price[p] <= MaxSession
    BY <2>1, HolderState
  <2> QED BY <1>2, <2>1, <2>2 DEF WriteRecord, TypeOK
<1>3. ASSUME NEW p \in Processes, Crash(p) PROVE [Ledger!Next]_<<recorded, lost>>
  BY <1>3 DEF Crash, TypeOK
<1>4. ASSUME NEW p \in Processes, ResetSession(p) PROVE FALSE
  BY <1>4 DEF ResetSession
<1>8. ASSUME NEW p \in Processes, RetryRejected(p) \/ RecordFails(p)
      PROVE  [Ledger!Next]_<<recorded, lost>>
  BY <1>8 DEF RetryRejected, RecordFails, Save, TypeOK
<1>5. ASSUME NEW p \in Processes, ClientStep(p), ~RetryAccepted(p), ~RetryRejected(p), ~ResetSession(p)
      PROVE  UNCHANGED <<recorded, lost>>
  BY <1>5 DEF ClientStep, Construct, BeginCall, EndUnpaid, SignAndRetry, RetryLost
<1>6. ASSUME NEW p \in Processes, PaymentStep(p), ~WriteRecord(p), ~RecordFails(p)
      PROVE  UNCHANGED <<recorded, lost>>
  BY <1>6 DEF PaymentStep, Acquire, CheckBudget, DenyPayment, PayViaX402, DenyTransfer,
     BroadcastTransfer, TransferFailed, OpenRecord
<1>7. CASE ToggleHalt \/ NextDay \/ UNCHANGED vars
  BY <1>7 DEF ToggleHalt, NextDay, vars
<1> QED
  BY <1>1, <1>2, <1>3, <1>4, <1>5, <1>6, <1>7, <1>8 DEF Next

\* The locked protocol implements the ledger: to anyone who only sees what was
\* booked, every payment is one atomic step that respects the cap.
THEOREM LockImplementsLedger ==
  ASSUME Clients = {}
  PROVE  Spec => ImplementsLedger
<1>1. Init => Ledger!Init
  BY DEF Init, Ledger!Init
<1>2. TypeOK /\ TypeOK' /\ LockedInv /\ [Next]_vars => LockedInv'
  BY LockedStep
<1>3. TypeOK /\ LockedInv /\ [Next]_vars => [Ledger!Next]_<<recorded, lost>>
  BY LedgerStep
<1> QED
  BY <1>1, <1>2, <1>3, LockedInvInit, TypeCorrect, PTL DEF Spec, ImplementsLedger, Ledger!Spec
-----------------------------------------------------------------------------
(* How long the lock is held *)

\* Whoever is inside a payment holds the lock, and the holder is inside one: there is one
\* such process at most, and none when the lock is free.
HolderInside == \A p \in Payers : lock = p <=> pc[p] # "off"

\* The steps a payment has still before it.
StepsLeft(p) ==
  CASE pc[p] = "locked"                   -> 4
    [] pc[p] \in {"x402", "transfer"}     -> 3
    [] pc[p] \in {"requested", "broadcast"} -> 2
    [] pc[p] \in {"retrying", "recording"} -> 1
    [] OTHER                              -> 0

\* Each step of a payment that has begun brings it nearer to its end; in what others do
\* it loses nothing, but for its death.
PaymentAdvances ==
  [][\A p \in Payers : pc[p] # "off" =>
       /\ PaymentProgress(p) => StepsLeft(p)' < StepsLeft(p)
       /\ ~PaymentProgress(p) => pc'[p] \in {pc[p], "off"}]_vars

LEMMA HolderStays ==
  ASSUME TypeOK, HolderInside, [Next]_vars PROVE HolderInside'
<1> USE ProcessesAssumption DEF HolderInside, TypeOK, Goto, Return, Processes, environment, ghosts
<1>1. ASSUME NEW p \in Processes, ClientStep(p) PROVE HolderInside'
  BY <1>1 DEF ClientStep, Construct, BeginCall, EndUnpaid, SignAndRetry, RetryAccepted,
     RetryRejected, RetryLost, ResetSession
<1>2. ASSUME NEW p \in Processes, PaymentStep(p), ~ \E b \in Prices : Acquire(p, b)
      PROVE  HolderInside'
  BY <1>2 DEF PaymentStep, CheckBudget, DenyPayment, PayViaX402, DenyTransfer,
     BroadcastTransfer, TransferFailed, OpenRecord, WriteRecord, RecordFails
<1>3. ASSUME NEW p \in Processes, NEW b \in Prices, Acquire(p, b) PROVE HolderInside'
  BY <1>3 DEF Acquire
<1>4. ASSUME NEW p \in Processes, Crash(p) PROVE HolderInside'
  BY <1>4 DEF Crash
<1>5. CASE ToggleHalt \/ NextDay \/ UNCHANGED vars
  BY <1>5 DEF ToggleHalt, NextDay, vars
<1> QED
  BY <1>1, <1>2, <1>3, <1>4, <1>5 DEF Next

\* The flock is a mutex, whatever clients do beside it (execute_payment).
THEOREM LockIsHeldInside == Spec => []HolderInside
<1>1. Init => HolderInside
  BY ProcessesAssumption DEF Init, HolderInside, Processes
<1> QED
  BY <1>1, HolderStays, TypeCorrect, PTL DEF Spec

\* Where each step of a payer leads.
LEMMA PayerMoves ==
  ASSUME TypeOK, NEW p \in Payers, pc[p] # "off", ClientStep(p) \/ PaymentStep(p)
  PROVE  StepsLeft(p)' < StepsLeft(p)
<1>1. /\ p \notin Clients /\ p \in Processes /\ pc \in [Processes -> Phases]
  BY ProcessesAssumption DEF Processes, TypeOK
<1>2. CASE \/ EndUnpaid(p) \/ RetryAccepted(p) \/ RetryRejected(p) \/ RetryLost(p)
           \/ DenyPayment(p) \/ DenyTransfer(p) \/ TransferFailed(p)
           \/ WriteRecord(p) \/ RecordFails(p)
  <2>1. pc'[p] = "off" /\ pc[p] \in {"requested", "retrying", "locked", "transfer", "broadcast", "recording"}
    BY <1>1, <1>2 DEF EndUnpaid, RetryAccepted, RetryRejected, RetryLost, DenyPayment,
       DenyTransfer, TransferFailed, WriteRecord, RecordFails, Return, Goto
  <2> QED
    BY <2>1 DEF StepsLeft
<1>3. ASSUME NEW amount \in Prices, SignAndRetry(p, amount) PROVE StepsLeft(p)' < StepsLeft(p)
  BY <1>1, <1>3 DEF SignAndRetry, Goto, StepsLeft
<1>4. CASE CheckBudget(p)
  BY <1>1, <1>4 DEF CheckBudget, Goto, StepsLeft
<1>5. CASE PayViaX402(p)
  <2>1. pc'[p] \in {"off", "requested"} /\ pc[p] = "x402"
    BY <1>1, <1>5 DEF PayViaX402, Return, Goto
  <2> QED
    BY <2>1 DEF StepsLeft
<1>6. CASE BroadcastTransfer(p)
  BY <1>1, <1>6 DEF BroadcastTransfer, Goto, StepsLeft
<1>7. CASE OpenRecord(p)
  BY <1>1, <1>7 DEF OpenRecord, Goto, StepsLeft
<1>8. /\ ~Construct(p) /\ ~BeginCall(p) /\ ~ResetSession(p)
      /\ \A budget \in Prices : ~Acquire(p, budget)
  BY <1>1 DEF Construct, BeginCall, ResetSession, Acquire
<1> QED
  BY <1>2, <1>3, <1>4, <1>5, <1>6, <1>7, <1>8 DEF ClientStep, PaymentStep

\* Only its own steps and its death move a process.
LEMMA OnlyItsOwnSteps ==
  ASSUME TypeOK, [Next]_vars, NEW p \in Payers, ~ClientStep(p), ~PaymentStep(p)
  PROVE  pc'[p] \in {pc[p], "off"}
<1>0. p \in Processes /\ pc \in [Processes -> Phases]
  BY DEF Processes, TypeOK
<1>1. ASSUME NEW q \in Processes, q # p, ClientStep(q) \/ PaymentStep(q) PROVE pc'[p] = pc[p]
  BY <1>0, <1>1
  DEF ClientStep, Construct, BeginCall, EndUnpaid, SignAndRetry, RetryAccepted, RetryRejected,
      RetryLost, ResetSession, PaymentStep, Acquire, CheckBudget, DenyPayment, PayViaX402,
      DenyTransfer, BroadcastTransfer, TransferFailed, OpenRecord, WriteRecord, RecordFails,
      Return, Goto
<1>2. ASSUME NEW q \in Processes, Crash(q) PROVE pc'[p] \in {pc[p], "off"}
  BY <1>0, <1>2 DEF Crash, Goto
<1>3. CASE ToggleHalt \/ NextDay \/ UNCHANGED vars
  BY <1>3 DEF ToggleHalt, NextDay, vars
<1> QED
  BY <1>1, <1>2, <1>3 DEF Next

\* A payment that holds the lock is over after four steps of its own at most, on every
\* path, early returns and exceptions included (the finally of execute_payment).
THEOREM PaymentsAreShort == Spec => PaymentAdvances
<1> DEFINE Advances ==
      \A p \in Payers : pc[p] # "off" =>
        /\ PaymentProgress(p) => StepsLeft(p)' < StepsLeft(p)
        /\ ~PaymentProgress(p) => pc'[p] \in {pc[p], "off"}
<1>1. TypeOK /\ [Next]_vars => Advances
  BY PayerMoves, OnlyItsOwnSteps DEF PaymentProgress
<1>2. TypeOK /\ [Next]_vars => [Advances]_vars
  BY <1>1
<1> QED
  BY <1>2, TypeCorrect, PTL DEF Spec, PaymentAdvances
=============================================================================

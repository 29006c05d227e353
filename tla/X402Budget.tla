----------------------------- MODULE X402Budget -----------------------------
(***************************************************************************)
(* The spending budget of one agent directory.                             *)
(*                                                                         *)
(* x402_state.json holds what the agent has spent.  Two kinds of process   *)
(* spend against it:                                                       *)
(*   Clients  long-lived X402Client objects (`forge x402-call`, an         *)
(*            X402DataSource): they read the file once, when constructed,  *)
(*            and rewrite it whole from memory; they take no lock.         *)
(*   Payers   calls of agent_payments.execute_payment: they hold a flock   *)
(*            on x402_state.lock for the whole payment and re-read the     *)
(*            file under it, either to transfer USDC themselves or to run  *)
(*            a short-lived X402Client.                                    *)
(* The paid endpoint, the chain, the operator who creates and removes the  *)
(* halt file and the calendar are the environment.                         *)
(***************************************************************************)
EXTENDS Integers

CONSTANTS
  Clients,         \* long-lived X402Client processes
  Payers,          \* execute_payment processes
  NoProcess,       \* the holder of a free lock
  Prices,          \* amounts that are asked for, in micro-dollars
  MaxPerCall,      \* max_per_call_usd
  MaxSession,      \* max_session_usd
  MaxDaily,        \* max_daily_usd
  MaxPerTransfer,  \* agentPayments.maxPerTransferUsd of the policy bundle
  DiskFaults,      \* may a write of x402_state.json fail or be torn?
  LastDay,         \* bound: the calendar stops here
  MaxCalls,        \* bound: calls started in a behaviour
  MaxCrashes       \* bound: process crashes in a behaviour

Processes == Clients \union Payers
Days == 0 .. LastDay

ASSUME ProcessesAssumption ==
  /\ Clients \intersect Payers = {}
  /\ NoProcess \notin Processes
ASSUME AmountsAssumption ==
  /\ Prices \subseteq Nat
  /\ MaxPerCall \in Nat /\ MaxSession \in Nat /\ MaxDaily \in Nat /\ MaxPerTransfer \in Nat
ASSUME BoundsAssumption ==
  /\ DiskFaults \in BOOLEAN
  /\ LastDay \in Nat /\ MaxCalls \in Nat /\ MaxCrashes \in Nat

VARIABLES
  disk,      \* the contents of x402_state.json
  lock,      \* the holder of the flock on x402_state.lock
  pc,        \* where each process is
  mem,       \* X402Client.state of each process; in a transfer, the new file contents
  perCall,   \* the per-call cap of each process's client
  price,     \* the budget of a payment, then the amount that was signed for
  halted,    \* does the halt file exist?
  day,       \* today
  calls,     \* calls started (bounded by MaxCalls)
  crashes,   \* crashes so far (bounded by MaxCrashes)
  recorded,  \* ghost: what was booked as paid in this session
  exposure,  \* ghost: everything signed for in this session
  failed,    \* ghost: signed for, and the call failed or its process died
  lost       \* ghost: has a fault lost a booked payment from the file?

vars == <<disk, lock, pc, mem, perCall, price, halted, day, calls, crashes,
          recorded, exposure, failed, lost>>
ghosts == <<recorded, exposure, failed, lost>>
environment == <<halted, day, calls, crashes>>

X402State == [session : Nat, daily : [Days -> Nat]]

\* A missing, truncated or unparsable file reads as this one, in _load_state,
\* check_budget and _record_spend alike, so a torn write is a write of it.
FreshState == [session |-> 0, daily |-> [d \in Days |-> 0]]

Book(state, amount) ==
  [session |-> state.session + amount,
   daily |-> [state.daily EXCEPT ![day] = @ + amount]]

\* Signed, and not yet known to be paid.
Paying == {"retrying", "broadcast", "recording"}
Phases == {"off", "idle", "requested", "locked", "x402", "transfer"} \union Paying

TypeOK ==
  /\ disk \in X402State
  /\ lock \in Payers \union {NoProcess}
  /\ pc \in [Processes -> Phases]
  /\ mem \in [Processes -> X402State]
  /\ perCall \in [Processes -> Nat]
  /\ price \in [Processes -> Nat]
  /\ halted \in BOOLEAN
  /\ day \in Days
  /\ calls \in 0 .. MaxCalls
  /\ crashes \in 0 .. MaxCrashes
  /\ recorded \in Nat /\ exposure \in Nat /\ failed \in Nat
  /\ lost \in BOOLEAN

Init ==
  /\ disk = FreshState
  /\ lock = NoProcess
  /\ pc = [p \in Processes |-> "off"]
  /\ mem = [p \in Processes |-> FreshState]
  /\ perCall = [p \in Processes |-> MaxPerCall]
  /\ price = [p \in Processes |-> 0]
  /\ halted = FALSE
  /\ day = 0
  /\ calls = 0
  /\ crashes = 0
  /\ recorded = 0 /\ exposure = 0 /\ failed = 0
  /\ lost = FALSE

Goto(p, phase) == pc' = [pc EXCEPT ![p] = phase]

\* The call of p returns or raises: a client object lives on, a payer leaves the
\* `finally` of execute_payment.
Return(p) ==
  /\ Goto(p, IF p \in Clients THEN "idle" ELSE "off")
  /\ lock' = IF lock = p THEN NoProcess ELSE lock

-----------------------------------------------------------------------------
(* X402Client *)

\* A process starts and builds its client: the only time it reads the file.
Construct(p) ==
  /\ p \in Clients
  /\ pc[p] = "off"
  /\ mem' = [mem EXCEPT ![p] = disk]
  /\ Goto(p, "idle")
  /\ UNCHANGED <<disk, lock, perCall, price, environment, ghosts>>

\* _call up to the first request; _preflight raises while the halt file is there.
BeginCall(p) ==
  /\ p \in Clients
  /\ pc[p] = "idle"
  /\ calls < MaxCalls
  /\ ~halted
  /\ calls' = calls + 1
  /\ Goto(p, "requested")
  /\ UNCHANGED <<disk, lock, mem, perCall, price, halted, day, crashes, ghosts>>

\* The call ends unpaid: not a 402, a network error, an unreadable requirement,
\* a refusal of _check_budget or of the balance check, a signer that fails.
EndUnpaid(p) ==
  /\ pc[p] = "requested"
  /\ Return(p)
  /\ UNCHANGED <<disk, mem, perCall, price, environment, ghosts>>

\* Mutant: the session cap is compared with what was spent before this payment.
WithinCapsBefore(p, amount) ==
  /\ amount > 0
  /\ amount <= perCall[p]
  /\ mem[p].session < MaxSession
  /\ mem[p].daily[day] + amount <= MaxDaily

\* Mutant: no daily cap.
WithinCapsWithoutDay(p, amount) ==
  /\ amount > 0
  /\ amount <= perCall[p]
  /\ mem[p].session + amount <= MaxSession

WithinCaps(p, amount) ==
  /\ amount > 0
  /\ amount <= perCall[p]
  /\ mem[p].session + amount <= MaxSession
  /\ mem[p].daily[day] + amount <= MaxDaily

\* A 402 asks for amount: budget check, EIP-3009 signature, request sent again.
SignAndRetry(p, amount) ==
  /\ pc[p] = "requested"
  /\ WithinCaps(p, amount)
  /\ price' = [price EXCEPT ![p] = amount]
  /\ exposure' = exposure + amount
  /\ Goto(p, "retrying")
  /\ UNCHANGED <<disk, lock, mem, perCall, environment, recorded, failed, lost>>

\* _save_state writes a temporary file and renames it.  A failure is only logged,
\* and as all objects use one temporary name a rename may bring up a torn file.
Save(state) ==
  \/ disk' = state /\ UNCHANGED lost
  \/ DiskFaults /\ disk' \in {disk, FreshState} /\ lost' = TRUE

\* 2xx: booked in memory and saved.
RetryAccepted(p) ==
  /\ pc[p] = "retrying"
  /\ mem' = [mem EXCEPT ![p] = Book(@, price[p])]
  /\ recorded' = recorded + price[p]
  /\ Save(mem'[p])
  /\ Return(p)
  /\ UNCHANGED <<perCall, price, environment, exposure, failed>>

\* Mutant: a payment that was never booked is taken back.
RetryRejectedRefunded(p) ==
  /\ pc[p] = "retrying"
  /\ mem' = [mem EXCEPT ![p].session = @ - price[p]]
  /\ disk' = mem'[p]
  /\ failed' = failed + price[p]
  /\ Return(p)
  /\ UNCHANGED <<perCall, price, environment, recorded, exposure, lost>>

\* Any other status: not booked, but the in-memory state is saved all the same.
RetryRejected(p) ==
  /\ pc[p] = "retrying"
  /\ Save(mem[p])
  /\ failed' = failed + price[p]
  /\ Return(p)
  /\ UNCHANGED <<mem, perCall, price, environment, recorded, exposure>>

\* No answer within the request timeout: not booked and nothing saved.
RetryLost(p) ==
  /\ pc[p] = "retrying"
  /\ failed' = failed + price[p]
  /\ Return(p)
  /\ UNCHANGED <<disk, mem, perCall, price, environment, recorded, exposure, lost>>

\* reset_session: a new session, whatever other objects remember of the old one.
ResetSession(p) ==
  /\ p \in Clients
  /\ pc[p] = "idle"
  /\ mem' = [mem EXCEPT ![p].session = 0]
  /\ Save(mem'[p])
  /\ recorded' = 0 /\ exposure' = 0 /\ failed' = 0
  /\ UNCHANGED <<lock, pc, perCall, price, environment>>

-----------------------------------------------------------------------------
(* execute_payment *)

\* Mutant: no flock.
AcquireUnlocked(p, budget) ==
  /\ p \in Payers
  /\ pc[p] = "off"
  /\ calls < MaxCalls
  /\ calls' = calls + 1
  /\ lock' = p
  /\ price' = [price EXCEPT ![p] = budget]
  /\ Goto(p, "locked")
  /\ UNCHANGED <<disk, mem, perCall, halted, day, crashes, ghosts>>

\* The flock is granted.
Acquire(p, budget) ==
  /\ p \in Payers
  /\ pc[p] = "off"
  /\ lock = NoProcess
  /\ calls < MaxCalls
  /\ calls' = calls + 1
  /\ lock' = p
  /\ price' = [price EXCEPT ![p] = budget]
  /\ Goto(p, "locked")
  /\ UNCHANGED <<disk, mem, perCall, halted, day, crashes, ghosts>>

\* Mutant: the amount is not added to what was spent.
BudgetAllowsBefore(budget) ==
  /\ budget <= MaxPerCall
  /\ disk.session <= MaxSession

\* Mutant: the per-call cap alone.
BudgetAllowsPerCall(budget) == budget <= MaxPerCall

\* check_budget: the file is read under the lock.
BudgetAllows(budget) ==
  /\ budget <= MaxPerCall
  /\ disk.session + budget <= MaxSession

\* Mutant: the lock is dropped once the budget was checked.
CheckBudgetAndUnlock(p) ==
  /\ pc[p] = "locked"
  /\ BudgetAllows(price[p])
  /\ \E channel \in {"x402", "transfer"} : Goto(p, channel)
  /\ lock' = NoProcess
  /\ UNCHANGED <<disk, mem, perCall, price, environment, ghosts>>

\* The payment goes to the channel its method names.
CheckBudget(p) ==
  /\ pc[p] = "locked"
  /\ BudgetAllows(price[p])
  /\ \E channel \in {"x402", "transfer"} : Goto(p, channel)
  /\ UNCHANGED <<disk, lock, mem, perCall, price, environment, ghosts>>

\* Over budget, or a method that cannot pay: escrow without a contract, an
\* unknown method, no endpoint or no recipient.
DenyPayment(p) ==
  /\ pc[p] = "locked"
  /\ Return(p)
  /\ UNCHANGED <<disk, mem, perCall, price, environment, ghosts>>

\* Mutant: the client of an earlier payment is kept, with what it remembers.
PayViaX402Cached(p) ==
  /\ pc[p] = "x402"
  /\ perCall' = [perCall EXCEPT ![p] = 2 * price[p]]
  /\ IF halted
       THEN Return(p)
       ELSE Goto(p, "requested") /\ UNCHANGED lock
  /\ UNCHANGED <<disk, mem, price, environment, ghosts>>

\* pay_via_x402: a client of its own, read from the file, with twice the budget
\* as its per-call cap; the halt file stops it in _preflight.
PayViaX402(p) ==
  /\ pc[p] = "x402"
  /\ mem' = [mem EXCEPT ![p] = disk]
  /\ perCall' = [perCall EXCEPT ![p] = 2 * price[p]]
  /\ IF halted
       THEN Return(p)
       ELSE Goto(p, "requested") /\ UNCHANGED lock
  /\ UNCHANGED <<disk, price, environment, ghosts>>

\* Mutant: an early return that leaves the lock taken.
DenyTransferLocked(p) ==
  /\ pc[p] = "transfer"
  /\ Goto(p, "off")
  /\ UNCHANGED <<disk, lock, mem, perCall, price, environment, ghosts>>

\* _check_transfer_policy denies, or signing fails before anything is sent.
DenyTransfer(p) ==
  /\ pc[p] = "transfer"
  /\ Return(p)
  /\ UNCHANGED <<disk, mem, perCall, price, environment, ghosts>>

\* _sign_and_send_transfer hands the transaction to the chain.
BroadcastTransfer(p) ==
  /\ pc[p] = "transfer"
  /\ price[p] <= MaxPerTransfer
  /\ exposure' = exposure + price[p]
  /\ Goto(p, "broadcast")
  /\ UNCHANGED <<disk, lock, mem, perCall, price, environment, recorded, failed, lost>>

\* The broadcast raises or returns no hash: nothing is booked.
TransferFailed(p) ==
  /\ pc[p] = "broadcast"
  /\ failed' = failed + price[p]
  /\ Return(p)
  /\ UNCHANGED <<disk, mem, perCall, price, environment, recorded, exposure, lost>>

\* _record_spend reads the file and opens it for writing, which empties it ...
OpenRecord(p) ==
  /\ pc[p] = "broadcast"
  /\ mem' = [mem EXCEPT ![p] = Book(disk, price[p])]
  /\ disk' = FreshState
  /\ Goto(p, "recording")
  /\ UNCHANGED <<lock, perCall, price, environment, ghosts>>

\* ... and then the new contents reach it.
WriteRecord(p) ==
  /\ pc[p] = "recording"
  /\ disk' = mem[p]
  /\ recorded' = recorded + price[p]
  /\ Return(p)
  /\ UNCHANGED <<mem, perCall, price, environment, exposure, failed, lost>>

\* The write fails, and its exception leaves execute_payment: the file is empty.
RecordFails(p) ==
  /\ pc[p] = "recording"
  /\ DiskFaults
  /\ failed' = failed + price[p]
  /\ lost' = TRUE
  /\ Return(p)
  /\ UNCHANGED <<disk, mem, perCall, price, environment, recorded, exposure>>

-----------------------------------------------------------------------------
(* The environment *)

\* A process dies; the kernel drops its flock.  A death inside _record_spend
\* leaves the file empty.
Crash(p) ==
  /\ pc[p] # "off"
  /\ crashes < MaxCrashes
  /\ pc[p] = "recording" => DiskFaults
  /\ crashes' = crashes + 1
  /\ Goto(p, "off")
  /\ lock' = IF lock = p THEN NoProcess ELSE lock
  /\ failed' = IF pc[p] \in Paying THEN failed + price[p] ELSE failed
  /\ lost' = (lost \/ pc[p] = "recording")
  /\ UNCHANGED <<disk, mem, perCall, price, halted, day, calls, recorded, exposure>>

\* `forge halt` and `forge resume`.
ToggleHalt ==
  /\ halted' = ~halted
  /\ UNCHANGED <<disk, lock, pc, mem, perCall, price, day, calls, crashes, ghosts>>

NextDay ==
  /\ day < LastDay
  /\ day' = day + 1
  /\ UNCHANGED <<disk, lock, pc, mem, perCall, price, halted, calls, crashes, ghosts>>

ClientStep(p) ==
  \/ Construct(p)
  \/ BeginCall(p)
  \/ EndUnpaid(p)
  \/ \E amount \in Prices : SignAndRetry(p, amount)
  \/ RetryAccepted(p)
  \/ RetryRejected(p)
  \/ RetryLost(p)
  \/ ResetSession(p)

PaymentStep(p) ==
  \/ \E budget \in Prices : Acquire(p, budget)
  \/ CheckBudget(p)
  \/ DenyPayment(p)
  \/ PayViaX402(p)
  \/ DenyTransfer(p)
  \/ BroadcastTransfer(p)
  \/ TransferFailed(p)
  \/ OpenRecord(p)
  \/ WriteRecord(p)
  \/ RecordFails(p)

Next ==
  \/ \E p \in Processes : ClientStep(p) \/ PaymentStep(p) \/ Crash(p)
  \/ ToggleHalt
  \/ NextDay

\* Every request carries a timeout and the lock is held only in between, so a
\* process that is inside a payment keeps going.
PaymentProgress(p) == pc[p] # "off" /\ (ClientStep(p) \/ PaymentStep(p))

Spec == Init /\ [][Next]_vars /\ \A p \in Payers : WF_vars(PaymentProgress(p))

-----------------------------------------------------------------------------
(* Properties *)

\* No client object and no contents of x402_state.json ever exceed the session
\* cap.  Holds where only one discipline is in use (clients alone, although
\* they overwrite each other's totals, or payers alone); see X402Client._check_budget.
SessionCapPerObject ==
  /\ disk.session <= MaxSession
  /\ \A p \in Processes : mem[p].session <= MaxSession

\* The same for the daily cap, day by day, although the day a payment is checked
\* against may be over when it is booked.  execute_payment's own transfers are
\* not checked against the daily cap: this one is for clients alone.
DailyCapPerObject ==
  \A d \in Days :
    /\ disk.daily[d] <= MaxDaily
    /\ \A p \in Processes : mem[p].daily[d] <= MaxDaily

Recording == \E p \in Processes : pc[p] = "recording"

\* No booked payment is missing from x402_state.json while the file is whole:
\* what execute_payment's lock is for.  Only a disk fault takes one away.
NoLostPayment == lost \/ Recording \/ disk.session = recorded

\* All payments of a session together stay within the session cap, whichever
\* channel and process made them (the docstring of execute_payment).
SessionBudgetHolds == lost \/ recorded <= MaxSession

InFlight == IF lock # NoProcess /\ pc[lock] \in Paying THEN price[lock] ELSE 0

\* Under the lock one payment at a time is signed for and not yet accounted:
\* whatever was signed is booked, failed, or the lock holder's.
ExposureAccounted == exposure = recorded + failed + InFlight

\* `forge halt` is a true kill switch: nothing is signed while the halt file
\* exists (ARCHITECTURE.md, "Three payment channels" and invariant 3).
NothingSignedWhileHalted == [][exposure' > exposure => ~halted]_vars

\* The flock is not held for ever, so no other payment waits for ever.
LockReleased == \A p \in Payers : lock = p ~> lock # p

\* The locked protocol implements one ledger with one cap.
Ledger == INSTANCE SessionLedger
            WITH Cap <- MaxSession, Amounts <- Prices, spent <- recorded, faulted <- lost
ImplementsLedger == Ledger!Spec
=============================================================================

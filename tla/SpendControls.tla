--------------------------- MODULE SpendControls ----------------------------
(***************************************************************************)
(* The controls of security.py: BudgetControl with its velocity breaker,   *)
(* the token bucket of RateLimiter, and session keys, by which a           *)
(* constrained signer refuses what its policy does not permit.             *)
(*                                                                         *)
(* can_spend and record_spend are two calls; a caller may record what it   *)
(* never asked about.  The three are objects of their own, each with its   *)
(* clock; times are ages, and a token of the bucket is Refill parts.       *)
(***************************************************************************)
EXTENDS Integers, Sequences, Functions, Selection

CONSTANTS
  SpendAmounts,   \* amounts that are recorded
  VelocityWindow, \* velocity_window_seconds
  MaxRequests,    \* max_requests of the bucket
  Refill,         \* window_seconds of the bucket
  Chains,         \* chain ids
  Contracts,      \* contract addresses
  MaxPerTx,       \* max_spend_per_tx_usd of a session key
  MaxRecorded     \* bound: transaction_count

ASSUME ControlsAssumption ==
  /\ SpendAmounts \subseteq Nat
  /\ VelocityWindow \in Nat /\ MaxRequests \in Nat /\ Refill \in Nat \ {0}
  /\ MaxPerTx \in Nat /\ MaxRecorded \in Nat

VARIABLES
  level,     \* SecurityLevel of the configuration
  spends,    \* spent_usd, transaction_count and the last three of _recent_spends
  breaker,   \* circuit_breaker_triggered
  bucket,    \* _tokens, in parts
  passed,    \* ghost: how many requests of each age the bucket allowed
  key,       \* the session key: its chains and contracts, and whether it has expired
  signature  \* the answer of the constrained signer: "none", "refused", "signed", "error"

controlVars == <<level, spends, breaker, bucket, passed, key, signature>>

Levels == {"sandbox", "paper", "canary", "production"}

\* velocity_threshold of create_default_security_config.
Threshold(lvl) ==
  CASE lvl = "sandbox"    -> 10
    [] lvl = "paper"      -> 5
    [] lvl = "canary"     -> 3
    [] lvl = "production" -> 2

Capacity == MaxRequests * Refill
Unnamed == "undeclared"
NoSpend == -1

ControlsTypeOK ==
  /\ level \in Levels
  /\ spends.total \in Nat /\ spends.count \in 0 .. MaxRecorded
  /\ spends.tail \in Seq([amount : SpendAmounts, age : 0 .. VelocityWindow])
  /\ Len(spends.tail) <= 3
  /\ breaker \in BOOLEAN
  /\ bucket \in 0 .. Capacity
  /\ passed \in [0 .. Refill - 1 -> Nat]
  /\ key \in [chains : SUBSET Chains, contracts : SUBSET Contracts, expired : BOOLEAN]
  /\ signature \in {"none", "refused", "signed", "error"}

ControlsInit ==
  /\ level \in Levels
  /\ spends = [total |-> 0, count |-> 0, tail |-> <<>>]
  /\ breaker = FALSE
  /\ bucket = Capacity
  /\ passed = [age \in 0 .. Refill - 1 |-> 0]
  /\ key \in [chains : SUBSET Chains, contracts : SUBSET Contracts, expired : {FALSE}]
  /\ signature = "none"

-----------------------------------------------------------------------------
(* BudgetControl *)

\* The last three spends: older ones are never looked at.
LastThree(tail, amount) ==
  LET all == Append(tail, [amount |-> amount, age |-> 0])
  IN  IF Len(all) > 3 THEN Tail(all) ELSE all

TailSum(tail) == SumFunction([i \in DOMAIN tail |-> tail[i].amount])

\* Mutant: the average is compared with that of the spends before.
TooFastAlone(total, count, tail) ==
  /\ Len(tail) = 3 /\ count > 5
  /\ total > 0 /\ TailSum(tail) * (count - 3) > 3 * Threshold(level) * (total - TailSum(tail))

\* _check_velocity: the last three spends of the window against all of them.
TooFast(total, count, tail) ==
  /\ Len(tail) = 3 /\ count > 5
  /\ total > 0 /\ TailSum(tail) * count > 3 * Threshold(level) * total

\* record_spend: the breaker, once triggered, stays so.
RecordSpend(amount) ==
  LET total == spends.total + amount
      count == spends.count + 1
      tail  == LastThree(spends.tail, amount)
  IN  /\ spends.count < MaxRecorded
      /\ spends' = [total |-> total, count |-> count, tail |-> tail]
      /\ breaker' = (breaker \/ TooFast(total, count, tail))
      /\ UNCHANGED <<level, bucket, passed, key, signature>>

\* reset_circuit_breaker, after a review.
ResetBreaker ==
  /\ breaker' = FALSE
  /\ UNCHANGED <<level, spends, bucket, passed, key, signature>>

\* A unit of the window's time: spends leave it.
SpendsAge ==
  /\ LET tail == spends.tail
         kept == Kept(tail, {i \in DOMAIN tail : tail[i].age < VelocityWindow})
     IN  spends' = [spends EXCEPT !.tail = [i \in 1 .. Len(kept) |-> [amount |-> kept[i].amount, age |-> kept[i].age + 1]]]
  /\ UNCHANGED <<level, breaker, bucket, passed, key, signature>>

BudgetNext == (\E amount \in SpendAmounts : RecordSpend(amount)) \/ ResetBreaker \/ SpendsAge

-----------------------------------------------------------------------------
(* RateLimiter *)

\* Mutant: a bucket that is refilled without an end.
RefilledOver(parts) == parts + MaxRequests

\* _refill, for one unit of time.
Refilled(parts) == IF parts + MaxRequests > Capacity THEN Capacity ELSE parts + MaxRequests

\* allow() with a token left ...
AllowRequest ==
  /\ bucket >= Refill
  /\ bucket' = bucket - Refill
  /\ passed' = [passed EXCEPT ![0] = @ + 1]
  /\ UNCHANGED <<level, spends, breaker, key, signature>>

\* ... and without.
DenyRequest ==
  /\ bucket < Refill
  /\ UNCHANGED controlVars

\* A unit of the bucket's time.  allow() refills for the time since it was last asked.
RefillBucket ==
  /\ bucket' = Refilled(bucket)
  /\ passed' = [age \in 0 .. Refill - 1 |-> IF age = 0 THEN 0 ELSE passed[age - 1]]
  /\ UNCHANGED <<level, spends, breaker, key, signature>>

BucketNext == AllowRequest \/ DenyRequest \/ RefillBucket

-----------------------------------------------------------------------------
(* Session keys *)

SigningIntent ==
  [declared : BOOLEAN, chain : Chains \union {Unnamed}, contract : Contracts \union {Unnamed},
   spend : {NoSpend} \union 0 .. MaxPerTx + 1]

\* SessionKeyPolicy.permits; an empty list of chains or contracts permits any, one with
\* members none that is not declared, and an intent that names no spend is not held to the cap.
Permits(intent) ==
  /\ ~key.expired
  /\ key.chains # {} => intent.chain \in key.chains
  /\ key.contracts # {} => intent.contract \in key.contracts
  /\ intent.spend <= MaxPerTx

\* What the inner signers answer: of them only the relay tells a refusal (a status 4xx)
\* from a failure.
Answers(inner) == {"signed", "error"} \union (IF inner = "relay" THEN {"refused"} ELSE {})

\* SessionKeyConstrainedSigner.sign_typed_data: without an intent refused.
SignTypedData(intent, inner) ==
  /\ IF intent.declared /\ Permits(intent)
     THEN signature' \in Answers(inner)
     ELSE signature' = "refused"
  /\ UNCHANGED <<level, spends, breaker, bucket, passed, key>>

\* The key's time is over.
ExpireKey ==
  /\ key' = [key EXCEPT !.expired = TRUE]
  /\ UNCHANGED <<level, spends, breaker, bucket, passed, signature>>

KeyNext ==
  \/ \E intent \in SigningIntent, inner \in {"ows", "relay", "secret", "legacy"} :
       SignTypedData(intent, inner)
  \/ ExpireKey

-----------------------------------------------------------------------------

ControlsNext == BudgetNext \/ BucketNext \/ KeyNext

ControlsSpec == ControlsInit /\ [][ControlsNext]_controlVars

-----------------------------------------------------------------------------
(* Properties *)

\* The velocity breaker is blind at first: as the three spends it looks at are
\* part of the average it compares them with, it cannot trigger before there
\* are more than three times velocity_threshold transactions, 31 in the sandbox,
\* whatever is spent (BudgetControl._check_velocity).
VelocityNeedsHistory == breaker => spends.count > 3 * Threshold(level)

\* In no stretch of time shorter than window_seconds does the bucket allow as many as
\* twice max_requests: a full bucket and what is refilled meanwhile (RateLimiter).
BurstBounded ==
  SumFunction(passed) * Refill <= MaxRequests * (2 * Refill - 1)
=============================================================================

------------------------------ MODULE X402Gate ------------------------------
(***************************************************************************)
(* X402PaymentGate: capabilities behind a price, with the chain as its     *)
(* environment.  A request comes with a payment header or without, and the *)
(* same header may come again.  The A2A server has one thread, so a        *)
(* request is one step; what it broadcast is mined, or dropped, later.     *)
(* An authorization is told by its nonce, which the USDC contract accepts  *)
(* once.                                                                   *)
(***************************************************************************)
EXTENDS Integers, FiniteSets

CONSTANTS
  Nonces,      \* authorizations that callers have signed
  Priced,      \* prices of the capabilities on sale, in half micro-USD
  Values,      \* values of an authorization, in micro-USD
  MaxPayments  \* bound: payments recorded

ASSUME GateAssumption ==
  /\ IsFiniteSet(Nonces)
  /\ Priced \subseteq Nat /\ Values \subseteq Nat
  /\ MaxPayments \in Nat

VARIABLES
  verifier,  \* "structural", "onchain", or "host": a host's own settlement with a payer list
  purse,     \* what signs for this agent: "ows", "simulated", or "noSdk"
  books,     \* total_received_usd, total_payments and the lines of the audit file
  mempool,   \* authorizations broadcast and not yet mined
  settled,   \* authorizations the contract has executed
  reply,     \* the answer to the last request
  served,    \* ghost: priced requests that were served (counted up to MaxPayments)
  orphans    \* ghost: authorizations broadcast by a request that was rejected

gateVars == <<verifier, purse, books, mempool, settled, reply, served, orphans>>

Replies == {"none", "auth-required", "rejected", "served", "unknown", "raised"}

GateTypeOK ==
  /\ verifier \in {"structural", "onchain", "host"}
  /\ purse \in {"ows", "simulated", "noSdk"}
  /\ books \in [received : Nat, payments : 0 .. MaxPayments, lines : 0 .. MaxPayments]
  /\ mempool \subseteq Nonces /\ settled \subseteq Nonces
  /\ reply \in Replies
  /\ served \in 0 .. MaxPayments
  /\ orphans \subseteq Nonces

GateInit ==
  /\ verifier \in {"structural", "onchain", "host"}
  /\ purse \in {"ows", "simulated", "noSdk"}
  /\ books = [received |-> 0, payments |-> 0, lines |-> 0]
  /\ mempool = {} /\ settled = {}
  /\ reply = "none"
  /\ served = 0
  /\ orphans = {}

-----------------------------------------------------------------------------
(* The header *)

\* What verify_payment and the settlement tell apart in an X-PAYMENT header.
\* "wrapper" is the first thing wrong with its encoding, version or network.
PaymentHeader ==
  [wrapper : {"fine", "undecodable", "version", "network"},
   to      : {"me", "other", "none"},
   value   : Values,
   sig     : {"none", "short", "whole"},
   listed  : BOOLEAN,
   nonce   : Nonces]

\* price_raw: int() cuts off what is below a micro-USD.
PriceRaw(price) == price \div 2

\* Mutant: the price is compared before it is cut off.
PriceRawUp(price) == (price + 1) \div 2

\* verify_payment: a header without a pay-to address passes.
Verified(header, price) ==
  /\ header.wrapper = "fine"
  /\ header.to \in {"me", "none"}
  /\ header.value >= PriceRaw(price)
  /\ header.sig # "none"

\* _encode_transfer_with_authorization needs the 128 hex digits of r and s.
Encodable(header) == header.sig = "whole"

\* The allowlist of payers, which build_paid_task_handler does not pass.
PayerAdmitted(header) == verifier = "host" => header.listed

-----------------------------------------------------------------------------

\* record_payment books the price, not the value paid; a failing write of the
\* audit line is swallowed.
RecordPayment(price) ==
  /\ books.payments < MaxPayments
  /\ \E written \in {0, 1} :
       books' = [received |-> books.received + price,
                 payments |-> books.payments + 1,
                 lines |-> books.lines + written]

\* The capability's handler: it answers, raises, or does not exist.
Execute(answer) ==
  /\ served < MaxPayments
  /\ reply' = answer
  /\ served' = IF answer = "served" THEN served + 1 ELSE served

\* A capability without a price is executed for nothing.
ServeFree ==
  /\ reply' \in {"served", "unknown", "raised"}
  /\ UNCHANGED <<verifier, purse, books, mempool, settled, served, orphans>>

\* payment_required_response.
RequirePayment ==
  /\ reply' = "auth-required"
  /\ UNCHANGED <<verifier, purse, books, mempool, settled, served, orphans>>

RejectPayment(header, price) ==
  /\ \/ ~Verified(header, price)
     \/ verifier # "structural" /\ ~(PayerAdmitted(header) /\ Encodable(header))
  /\ reply' = "rejected"
  /\ UNCHANGED <<verifier, purse, books, mempool, settled, served, orphans>>

\* Structural verification alone: nothing is broadcast and no nonce is kept.
AcceptOnTrust(header, price, answer) ==
  /\ verifier = "structural"
  /\ Verified(header, price)
  /\ RecordPayment(price)
  /\ Execute(answer)
  /\ UNCHANGED <<verifier, purse, mempool, settled, orphans>>

\* What reaches the chain: an authorization the contract has executed is refused
\* by the node, or broadcast in vain.
Broadcast(header) == mempool' = mempool \union ({header.nonce} \ settled)

Settling(header, price) ==
  /\ verifier # "structural"
  /\ Verified(header, price) /\ PayerAdmitted(header) /\ Encodable(header)

\* Mutant: a payment is recorded after the capability has answered.
SettleAndServeLate(header, price, answer) ==
  /\ Settling(header, price)
  /\ purse = "ows"
  /\ Broadcast(header)
  /\ IF answer = "served" THEN RecordPayment(price) ELSE UNCHANGED books
  /\ Execute(answer)
  /\ UNCHANGED <<verifier, purse, settled, orphans>>

\* sign_and_send answered with a hash: recorded and served, mined or not.
SettleAndServe(header, price, answer) ==
  /\ Settling(header, price)
  /\ purse = "ows"
  /\ Broadcast(header)
  /\ RecordPayment(price)
  /\ Execute(answer)
  /\ UNCHANGED <<verifier, purse, settled, orphans>>

\* A simulated wallet answers with a hash as well, and nothing is broadcast.
SettleSimulated(header, price, answer) ==
  /\ Settling(header, price)
  /\ purse = "simulated"
  /\ RecordPayment(price)
  /\ Execute(answer)
  /\ UNCHANGED <<verifier, purse, mempool, settled, orphans>>

\* Without the SDK the settlement falls back on the structural verification,
\* and records nothing.
ServeWithoutSdk(header, price, answer) ==
  /\ Settling(header, price)
  /\ purse = "noSdk"
  /\ Execute(answer)
  /\ UNCHANGED <<verifier, purse, books, mempool, settled, orphans>>

\* sign_and_send raised, or answered without a hash, before the broadcast or
\* after it: rejected either way.
SettlementFails(header, price) ==
  /\ Settling(header, price)
  /\ purse = "ows"
  /\ reply' = "rejected"
  /\ \/ UNCHANGED <<mempool, orphans>>
     \/ Broadcast(header) /\ orphans' = orphans \union (mempool' \ mempool)
  /\ UNCHANGED <<verifier, purse, books, settled, served>>

-----------------------------------------------------------------------------
(* The chain *)

\* The contract executes an authorization once ...
MinePayment(nonce) ==
  /\ nonce \in mempool \ settled
  /\ settled' = settled \union {nonce}
  /\ mempool' = mempool \ {nonce}
  /\ UNCHANGED <<verifier, purse, books, reply, served, orphans>>

\* ... or reverts it, for want of a balance, of time or of a right signature.
RevertPayment(nonce) ==
  /\ nonce \in mempool
  /\ mempool' = mempool \ {nonce}
  /\ UNCHANGED <<verifier, purse, books, settled, reply, served, orphans>>

\* The handler of build_paid_task_handler: requires_payment first.
PaidRequest(price) ==
  \/ price = 0 /\ ServeFree
  \/ price > 0 /\ RequirePayment
  \/ /\ price > 0
     /\ \E header \in PaymentHeader :
          \/ RejectPayment(header, price)
          \/ SettlementFails(header, price)
          \/ \E answer \in {"served", "unknown", "raised"} :
               \/ AcceptOnTrust(header, price, answer)
               \/ SettleAndServe(header, price, answer)
               \/ SettleSimulated(header, price, answer)
               \/ ServeWithoutSdk(header, price, answer)

GateNext ==
  \/ \E price \in Priced : PaidRequest(price)
  \/ \E nonce \in Nonces : MinePayment(nonce) \/ RevertPayment(nonce)

GateSpec == GateInit /\ [][GateNext]_gateVars

-----------------------------------------------------------------------------
(* Properties *)

\* The books of the gate agree with what it did (record_payment): with a wallet
\* that can sign no priced capability is served without a payment recorded, and
\* no authorization is executed by the contract that was neither recorded nor
\* broadcast by a request that was rejected.  Replayed headers, capabilities that
\* raise or do not exist, and reverted transactions make no difference.
GateAccounts ==
  /\ purse # "noSdk" => served <= books.payments
  /\ Cardinality(settled) <= books.payments + Cardinality(orphans)
=============================================================================

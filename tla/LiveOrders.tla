----------------------------- MODULE LiveOrders -----------------------------
(***************************************************************************)
(* The orders of a generated agent.  Its execution router sends them to a  *)
(* paper engine or, in live mode, through LiveExecutor, whose caps and     *)
(* circuit breaker stand between the agent and the wallet.                 *)
(*                                                                         *)
(* The router is called by one session at a time; an order is one step,    *)
(* with its failures inside: what a wallet broadcast before it raised has  *)
(* been broadcast.  Amounts are whole units; one order book, no fees.      *)
(***************************************************************************)
EXTENDS Integers

CONSTANTS
  Tokens,         \* tokens of the strategy
  Quotes,         \* market prices
  Amounts,        \* amounts of an order
  Limits,         \* limit prices of an order; 0 if the payload names none
  StartBalance,   \* initial_balance_usd
  MaxOrder,       \* max_order_size_usd
  MaxTotal,       \* max_total_spent_usd
  MaxOpen,        \* max_open_orders
  MaxFailures,    \* max_consecutive_failures
  MaxDailyLoss,   \* max_daily_loss_usd
  MaxHolding,     \* bound: units of a token
  MaxMoved        \* bound: ghost counters

ASSUME OrdersAssumption ==
  /\ Quotes \subseteq Nat \ {0} /\ Amounts \subseteq Nat /\ Limits \subseteq Nat
  /\ StartBalance \in Nat /\ MaxOrder \in Nat /\ MaxTotal \in Nat
  /\ MaxOpen \in Nat /\ MaxFailures \in Nat \ {0} /\ MaxDailyLoss \in Nat
  /\ MaxHolding \in Nat /\ MaxMoved \in Nat

VARIABLES
  routerMode, \* "paper" or "live"
  dryRun,     \* LiveExecutionConfig.dry_run: sign, but do not broadcast
  cash,       \* PaperTradingEngine.balance_usd
  holdings,   \* PaperTradingEngine.holdings
  quoted,     \* PaperTradingEngine._prices, 0 for a token without one
  executor,   \* LiveExecutionState
  moved,      \* ghost: value of all orders broadcast
  resets      \* ghost: how often an operator reset the circuit

paper == <<cash, holdings, quoted>>
orderVars == <<routerMode, dryRun, paper, executor, moved, resets>>

OrdersTypeOK ==
  /\ routerMode \in {"paper", "live"} /\ dryRun \in BOOLEAN
  /\ cash \in Nat
  /\ holdings \in [Tokens -> Nat]
  /\ quoted \in [Tokens -> Quotes \union {0}]
  /\ executor \in [spent : Nat, failures : 0 .. MaxFailures, open : 0 .. MaxOpen,
                   tripped : BOOLEAN, lossToday : Nat]
  /\ moved \in Nat /\ resets \in Nat

OrdersInit ==
  /\ routerMode \in {"paper", "live"} /\ dryRun \in BOOLEAN
  /\ cash = StartBalance
  /\ holdings = [t \in Tokens |-> 0]
  /\ quoted = [t \in Tokens |-> 0]
  /\ executor = [spent |-> 0, failures |-> 0, open |-> 0, tripped |-> FALSE, lossToday |-> 0]
  /\ moved = 0 /\ resets = 0

-----------------------------------------------------------------------------
(* Prices *)

\* _fetch_price: a paid source, a free one, or a simulated price if both fail.
\* Whichever answers, the price is the engine's from then on.
FetchPrice(token, price) ==
  /\ quoted' = [quoted EXCEPT ![token] = price]
  /\ UNCHANGED <<routerMode, dryRun, cash, holdings, executor, moved, resets>>

-----------------------------------------------------------------------------
(* The paper engine *)

Affordable(side, token, amount, price) ==
  IF side = "buy" THEN amount * price <= cash ELSE amount <= holdings[token]

\* create_limit_order fills at once, at the limit price and not at the market's.
Fill(side, token, amount, price) ==
  /\ Affordable(side, token, amount, price)
  /\ IF side = "buy"
     THEN /\ cash' = cash - amount * price
          /\ holdings' = [holdings EXCEPT ![token] = @ + amount]
     ELSE /\ cash' = cash + amount * price
          /\ holdings' = [holdings EXCEPT ![token] = @ - amount]
  /\ holdings'[token] <= MaxHolding /\ cash' <= StartBalance + MaxHolding
  /\ UNCHANGED <<routerMode, dryRun, quoted, executor, moved, resets>>

\* _handle_exchange_action, create: rejected orders change nothing.
PaperOrder(side, token, amount, limit) ==
  /\ routerMode = "paper"
  /\ \/ Fill(side, token, amount, limit)
     \/ ~Affordable(side, token, amount, limit) /\ UNCHANGED orderVars

\* A swap is a purchase at the engine's price, or at a constant if there is none.
PaperSwap(token, amount) ==
  /\ routerMode = "paper"
  /\ \E price \in IF quoted[token] = 0 THEN Quotes ELSE {quoted[token]} :
       Fill("buy", token, amount, price)

-----------------------------------------------------------------------------
(* LiveExecutor *)

\* Mutant: the order on its way is left out of the total.
WithinCapsBefore(notional) ==
  /\ notional <= MaxOrder
  /\ executor.spent <= MaxTotal
  /\ executor.lossToday < MaxDailyLoss
  /\ executor.open < MaxOpen

\* _check_circuit and _check_budget.
WithinCaps(notional) ==
  /\ notional <= MaxOrder
  /\ executor.spent + notional <= MaxTotal
  /\ executor.lossToday < MaxDailyLoss
  /\ executor.open < MaxOpen

RefuseOrder(notional) ==
  /\ routerMode = "live"
  /\ executor.tripped \/ ~WithinCaps(notional)
  /\ UNCHANGED orderVars

\* Signed and, unless this is a dry run, broadcast; counted as spent either way.
\* No order is ever closed.
PlaceLiveOrder(notional) ==
  /\ routerMode = "live"
  /\ ~executor.tripped /\ WithinCaps(notional)
  /\ executor' = [executor EXCEPT !.spent = @ + notional, !.failures = 0, !.open = @ + 1]
  /\ moved' = IF dryRun THEN moved ELSE moved + notional
  /\ UNCHANGED <<routerMode, dryRun, paper, resets>>

\* Mutant: a failure is not counted when the wallet had already sent the order.
FailLiveOrderQuietly(notional) ==
  /\ routerMode = "live"
  /\ ~executor.tripped /\ WithinCaps(notional)
  /\ \E sent \in IF dryRun THEN {FALSE} ELSE BOOLEAN :
       /\ moved' = IF sent THEN moved + notional ELSE moved
       /\ executor' = [executor EXCEPT !.failures = IF sent THEN @ ELSE @ + 1,
                                       !.tripped = ~sent /\ executor.failures + 1 >= MaxFailures]
  /\ moved' <= MaxMoved
  /\ UNCHANGED <<routerMode, dryRun, paper, resets>>

\* The wallet raised, or answered what is no dict, before or after the broadcast: a
\* failure, and not spent.
FailLiveOrder(notional) ==
  /\ routerMode = "live"
  /\ ~executor.tripped /\ WithinCaps(notional)
  /\ \E sent \in IF dryRun THEN {FALSE} ELSE BOOLEAN :
       moved' = IF sent THEN moved + notional ELSE moved
  /\ moved' <= MaxMoved
  /\ executor' = [executor EXCEPT !.failures = @ + 1,
                                  !.tripped = executor.failures + 1 >= MaxFailures]
  /\ UNCHANGED <<routerMode, dryRun, paper, resets>>

\* reset_circuit, by an operator.
ResetCircuit ==
  /\ routerMode = "live"
  /\ moved + MaxOrder <= MaxMoved /\ resets < MaxMoved
  /\ executor' = [executor EXCEPT !.failures = 0, !.tripped = FALSE]
  /\ resets' = resets + 1
  /\ UNCHANGED <<routerMode, dryRun, paper, moved>>

\* LiveExecutionState.record_loss, by a host: the executor never calls it.
RecordLoss(amount) ==
  /\ routerMode = "live"
  /\ amount > 0 /\ executor.lossToday < MaxDailyLoss
  /\ executor' = [executor EXCEPT !.lossToday = @ + amount]
  /\ UNCHANGED <<routerMode, dryRun, paper, moved, resets>>

\* Midnight: another day's loss is looked up.
Midnight ==
  /\ routerMode = "live"
  /\ executor' = [executor EXCEPT !.lossToday = 0]
  /\ UNCHANGED <<routerMode, dryRun, paper, moved, resets>>

LiveOrder(notional) ==
  RefuseOrder(notional) \/ PlaceLiveOrder(notional) \/ FailLiveOrder(notional)

OrdersNext ==
  \/ \E token \in Tokens, price \in Quotes : FetchPrice(token, price)
  \/ \E side \in {"buy", "sell"}, token \in Tokens, amount \in Amounts, limit \in Limits :
       PaperOrder(side, token, amount, limit)
  \/ \E token \in Tokens, amount \in Amounts : PaperSwap(token, amount)
  \/ \E amount \in Amounts, limit \in Limits : LiveOrder(amount * limit)
  \/ ResetCircuit
  \/ \E amount \in Amounts : RecordLoss(amount)
  \/ Midnight

OrdersSpec == OrdersInit /\ [][OrdersNext]_orderVars

-----------------------------------------------------------------------------
(* Properties *)

\* What left the wallet without being counted as spent is bounded by the breaker
\* and by the cap on open orders: an order that fails after its broadcast escapes
\* the budget, but MaxFailures of them in a row trip the circuit, and only
\* an order that is placed, or an operator, starts the row again
\* (LiveExecutor.place_order).
UncountedBounded ==
  /\ executor.spent <= MaxTotal
  /\ moved <= executor.spent
              + MaxOrder * ((MaxFailures - 1) * executor.open
                            + MaxFailures * resets + executor.failures)
=============================================================================

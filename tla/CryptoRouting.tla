--------------------------- MODULE CryptoRouting ----------------------------
(***************************************************************************)
(* The routers of crypto/routers.py, each of which executes what it is     *)
(* for and hands the rest to the next: OWS wallets, the simulated wallet,  *)
(* the paper exchange behind a credential, public market data, and the     *)
(* mock that answers everything.  With the adapters they keep: the paper   *)
(* exchange's orders, the simulated accounts, the wallets of the library,  *)
(* which is external.                                                      *)
(***************************************************************************)
EXTENDS Integers, Sequences, SequencesExt, Functions

CONSTANTS
  Markets,      \* symbols
  Notionals,    \* requested_notional_usd
  Ledgers,      \* chains of the simulated wallet
  MaxOrders     \* bound: orders, accounts and transactions

ASSUME CryptoAssumption == Notionals \subseteq Nat /\ MaxOrders \in Nat

VARIABLES
  top,        \* the first router: as wallet-provider and provider-mode choose it
  market,     \* the paper exchange: its orders, total_notional_usd and positions
  accounts,   \* chains of the simulated accounts, in the order they were made
  transfers,  \* transactions of the simulated wallet, by chain
  wallets,    \* wallets created through the library
  result,     \* how the last capability went
  answered    \* ghost: orders answered as submitted, by an exchange and by the mock

cryptoVars == <<top, market, accounts, transfers, wallets, result, answered>>

NoPosition == [notional |-> 0, side |-> "none"]

Chain == <<"ows", "sim", "paper", "public", "mock">>

CryptoTypeOK ==
  /\ top \in DOMAIN Chain
  /\ market.total \in Nat
  /\ market.orders \in Seq([symbol : Markets, notional : Notionals, side : {"buy", "sell"}])
  /\ market.positions \in [Markets -> [notional : Notionals \union {0}, side : {"buy", "sell", "none"}]]
  /\ accounts \in Seq(Ledgers) /\ transfers \in Seq(Ledgers)
  /\ wallets \in BOOLEAN
  /\ result \in {"none", "done", "raised", "failed"}
  /\ answered \in [real : Nat, mock : Nat]

CryptoInit ==
  /\ top \in DOMAIN Chain
  /\ market = [orders |-> <<>>, total |-> 0, positions |-> [s \in Markets |-> NoPosition]]
  /\ accounts = <<>> /\ transfers = <<>> /\ wallets = FALSE
  /\ result = "none" /\ answered = [real |-> 0, mock |-> 0]

\* A capability of the manifest: its kind, whether its provider is the one a router is
\* written for, and its credential handle: none, one declared and allowed in the session's
\* environment, or one that is not.
Capability ==
  [kind : {"wallet-action", "exchange-action", "account-data", "price-data"},
   native : BOOLEAN, handle : {"none", "allowed", "refused"}]

-----------------------------------------------------------------------------
(* Which router takes a capability *)

\* The one it is for, as the routers test it.
TakenBy(cap) ==
  CASE cap.kind = "wallet-action" /\ cap.handle # "none" -> IF cap.native THEN "ows" ELSE "sim"
    [] cap.kind \in {"exchange-action", "account-data"} /\ cap.handle # "none" -> "paper"
    [] cap.kind = "price-data" /\ cap.native -> "public"
    [] OTHER -> "mock"

\* The router that executes it: that one, or the next after it where the chain starts
\* lower.  An OWS capability is taken by the simulated wallet if that is the first.
ExecutedBy(cap) ==
  LET place == CHOOSE i \in DOMAIN Chain : Chain[i] = TakenBy(cap) IN
  IF place >= top THEN Chain[place]
  ELSE IF TakenBy(cap) = "ows" /\ top = 2 THEN "sim" ELSE "mock"

\* ManifestCredentialResolver.resolve, which raises.
Leased(cap) == cap.handle = "allowed"

Raise(cap) ==
  /\ ExecutedBy(cap) \in {"ows", "sim", "paper"} /\ ~Leased(cap)
  /\ result' = "raised"
  /\ UNCHANGED <<top, market, accounts, transfers, wallets, answered>>

-----------------------------------------------------------------------------
(* What they do *)

\* OWSWalletCryptoExecutionRouter: the library may raise.
UseOwsWallet(cap, action) ==
  /\ ExecutedBy(cap) = "ows" /\ Leased(cap)
  /\ result' \in {"done", "raised"}
  /\ wallets' = (wallets \/ (action = "create" /\ result' = "done"))
  /\ UNCHANGED <<top, market, accounts, transfers, answered>>

\* InMemorySimWalletAdapter: creating makes an account, sending and reading make one where
\* the chain has none.
UseSimWallet(cap, action, ledger) ==
  /\ ExecutedBy(cap) = "sim" /\ Leased(cap)
  /\ Len(accounts) < MaxOrders /\ Len(transfers) < MaxOrders
  /\ accounts' = IF action = "create" \/ ledger \notin ToSet(accounts)
                 THEN Append(accounts, ledger) ELSE accounts
  /\ transfers' = IF action = "send" THEN Append(transfers, ledger) ELSE transfers
  /\ result' = "done"
  /\ UNCHANGED <<top, market, wallets, answered>>

\* Mutant: an order is netted into the position.
PlacePaperOrderNetted(cap, wanted, symbol, notional, side) ==
  /\ cap.kind = "exchange-action" /\ ExecutedBy(cap) = "paper" /\ Leased(cap)
  /\ IF wanted = "live"
     THEN result' = "raised" /\ UNCHANGED <<market, answered>>
     ELSE /\ Len(market.orders) < MaxOrders
          /\ market' = [orders    |-> Append(market.orders, [symbol |-> symbol, notional |-> notional, side |-> side]),
                        total     |-> market.total + notional,
                        positions |-> [market.positions EXCEPT ![symbol] = [notional |-> @.notional + notional, side |-> side]]]
          /\ answered' = [answered EXCEPT !.real = @ + 1]
          /\ result' = "done"
  /\ UNCHANGED <<top, accounts, transfers, wallets>>

\* InMemoryPaperExchangeAdapter.place_order: the last order of a symbol is its position,
\* and the balance is left alone.  The mode a proposal asks for overrides the manifest's,
\* and no live adapter is wired.
PlacePaperOrder(cap, wanted, symbol, notional, side) ==
  /\ cap.kind = "exchange-action" /\ ExecutedBy(cap) = "paper" /\ Leased(cap)
  /\ IF wanted = "live"
     THEN result' = "raised" /\ UNCHANGED <<market, answered>>
     ELSE /\ Len(market.orders) < MaxOrders
          /\ market' = [orders    |-> Append(market.orders, [symbol |-> symbol, notional |-> notional, side |-> side]),
                        total     |-> market.total + notional,
                        positions |-> [market.positions EXCEPT ![symbol] = [notional |-> notional, side |-> side]]]
          /\ answered' = [answered EXCEPT !.real = @ + 1]
          /\ result' = "done"
  /\ UNCHANGED <<top, accounts, transfers, wallets>>

\* get_account_snapshot; market data of the public backend, whose request may raise.
ReadOnly(cap, wanted) ==
  /\ \/ cap.kind = "account-data" /\ ExecutedBy(cap) = "paper" /\ Leased(cap)
        /\ result' = IF wanted = "live" THEN "raised" ELSE "done"
     \/ ExecutedBy(cap) = "public" /\ result' \in {"done", "raised"}
  /\ UNCHANGED <<top, market, accounts, transfers, wallets, answered>>

\* MockCryptoExecutionRouter: an order is answered as submitted, and kept nowhere; an id it
\* does not know, as that of any wallet action, fails.
Mock(cap) ==
  /\ ExecutedBy(cap) = "mock"
  /\ \/ result' = "failed" /\ UNCHANGED answered
     \/ cap.kind \in {"account-data", "price-data"} /\ result' = "done" /\ UNCHANGED answered
     \/ /\ cap.kind = "exchange-action" /\ answered.mock < MaxOrders
        /\ answered' = [answered EXCEPT !.mock = @ + 1]
        /\ result' = "done"
  /\ UNCHANGED <<top, market, accounts, transfers, wallets>>

CryptoNext ==
  \E cap \in Capability :
    \/ Raise(cap) \/ Mock(cap)
    \/ \E action \in {"create", "send", "read"} :
         \/ UseOwsWallet(cap, action)
         \/ \E ledger \in Ledgers : UseSimWallet(cap, action, ledger)
    \/ \E wanted \in {"paper", "live"} :
         \/ ReadOnly(cap, wanted)
         \/ \E symbol \in Markets, notional \in Notionals, side \in {"buy", "sell"} :
              PlacePaperOrder(cap, wanted, symbol, notional, side)

CryptoSpec == CryptoInit /\ [][CryptoNext]_cryptoVars

-----------------------------------------------------------------------------
(* Properties *)

OrdersOf(symbol) == {i \in DOMAIN market.orders : market.orders[i].symbol = symbol}

\* The paper books agree with the orders: the total is the sum of their notionals, each
\* position is the last order of its symbol (so it is not what its orders add up to), and
\* only an answer of the exchange stands for an order (InMemoryPaperExchangeAdapter).
PaperBooksAgree ==
  /\ market.total = SumFunctionOnSet([i \in DOMAIN market.orders |-> market.orders[i].notional],
                                     DOMAIN market.orders)
  /\ \A s \in Markets :
       /\ OrdersOf(s) = {} => market.positions[s] = NoPosition
       /\ \A i \in OrdersOf(s) :
            (\A j \in OrdersOf(s) : j <= i) =>
              market.positions[s] = [notional |-> market.orders[i].notional, side |-> market.orders[i].side]
  /\ Len(market.orders) = answered.real
=============================================================================

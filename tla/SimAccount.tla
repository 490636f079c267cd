----------------------------- MODULE SimAccount -----------------------------
(***************************************************************************)
(* EXTERNAL: moomoo's simulated US account, as broker/moomoo_paper.py and  *)
(* broker/moomoo_readonly.py use it over HTTP.  It takes market orders,    *)
(* works on them at its own pace (whole or partial fills, rejections,      *)
(* expiry) and moves prices, all between any two HTTP calls of the client. *)
(* An order is known by its place in "orders", its order_id.               *)
(***************************************************************************)
EXTENDS PaperIntents, Sequences

CONSTANTS
    Prices,     \* the prices the market may quote
    InitCash,   \* cash of the account at the start
    InitHeld,   \* whole shares of each ticker held at the start
    MaxOrders   \* BOUND: place-order calls in a behaviour

ASSUME AccountAssumption ==
    /\ Prices \subseteq Nat \ {0}
    /\ InitCash \in Nat
    /\ InitHeld \in [Tickers -> Nat]
    /\ MaxOrders \in Nat

VARIABLES
    price,      \* last price of each ticker
    cash,       \* account cash
    held,       \* shares held of each ticker
    orders,     \* every order the account ever accepted, in order of arrival
    openAtRead  \* history: the orders open when the account answered the
                \* get_position from which the next order is built

accountVars == <<price, cash, held, orders, openAtRead>>

OrderIds == 1..MaxOrders

\* "ref" travels in the order's text field.  The fields life, arming, via and
\* rivals are history: the process lifetime, the arming and the entry point
\* that sent the order, and the orders open when its position was read.
Order == [ref: AuditRefs \cup {NoRef}, ticker: Tickers, action: Actions,
          qty: Nat \ {0}, filled: Nat,
          status: {"open", "filled", "rejected", "canceled"},
          life: Nat, arming: Nat, via: {"controller", "gateway", "admin"},
          rivals: SUBSET OrderIds]

AccountTypeOK ==
    /\ price \in [Tickers -> Prices]
    /\ cash \in Nat
    /\ held \in [Tickers -> Nat]
    /\ orders \in Seq(Order)
    /\ openAtRead \subseteq OrderIds

AccountInit ==
    /\ price \in [Tickers -> Prices]
    /\ cash = InitCash
    /\ held = InitHeld
    /\ orders = <<>>
    /\ openAtRead = {}

IsOpen(k) == orders[k].status = "open"

-----------------------------------------------------------------------------

MarketMoves(t) ==
    /\ price' \in {[price EXCEPT ![t] = p] : p \in Prices \ {price[t]}}
    /\ UNCHANGED <<cash, held, orders, openAtRead>>

\* n more shares of order k trade at the current price; the account never
\* spends cash it does not have and never goes short.
RemoteFill(k, n) ==
    LET o == orders[k]
        t == o.ticker
    IN  /\ IsOpen(k)
        /\ n \in 1..(o.qty - o.filled)
        /\ \/ /\ Side(o.action) = "BUY"
              /\ n * price[t] <= cash
              /\ cash' = cash - n * price[t]
              /\ held' = [held EXCEPT ![t] = @ + n]
           \/ /\ Side(o.action) = "SELL"
              /\ n <= held[t]
              /\ cash' = cash + n * price[t]
              /\ held' = [held EXCEPT ![t] = @ - n]
        /\ orders' = [orders EXCEPT
                        ![k].filled = @ + n,
                        ![k].status = IF o.filled + n = o.qty THEN "filled" ELSE "open"]
        /\ UNCHANGED <<price, openAtRead>>

\* The account gives up on order k: rejected outright, or canceled (expired)
\* with whatever part of it has filled.
RemoteClose(k, s) ==
    /\ IsOpen(k)
    /\ s \in {"rejected", "canceled"}
    /\ s = "rejected" => orders[k].filled = 0
    /\ orders' = [orders EXCEPT ![k].status = s]
    /\ UNCHANGED <<price, cash, held, openAtRead>>
=============================================================================

---------------------------- MODULE MCWritePath -----------------------------
(***************************************************************************)
(* Instances of WritePath for TLC.  Prices 4 and 6 are both within 20% of  *)
(* a reference of 5 and not of a reference of 4; a move between them       *)
(* changes how many whole shares an amount buys or sells.                  *)
(***************************************************************************)
EXTENDS WritePath

CONSTANTS t1, t2

MCPrices == {4, 6}

Make(ref, ticker, action, dollars, reference) ==
    [ref |-> ref, ticker |-> ticker, action |-> action, dollars |-> dollars,
     reference |-> reference, stock |-> TRUE]

\* A position bought and added to, and a fractional-share intent, which only
\* BrokerGateway accepts.
TradeIntents ==
    {Make("buy", t1, "BUY", 9, 5), Make("add", t1, "ADD", 4, 4),
     [Make("odd", t1, "BUY", 6, 5) EXCEPT !.stock = FALSE]}

\* For first-order test mode over a position: an ADD within the test cap, a
\* BUY beyond it, a REDUCE that is the whole position at 6 and more than it at
\* 4, and an EXIT.
GuardedIntents ==
    {Make("add", t1, "ADD", 9, 5), Make("big", t1, "BUY", 12, 5),
     Make("reduce", t1, "REDUCE", 12, 5), Make("exit", t1, "EXIT", 0, 5)}

NoShares == [t \in Tickers |-> 0]
TwoShares == [t \in Tickers |-> 2]

Refs == {i.ref : i \in Intents}
=============================================================================

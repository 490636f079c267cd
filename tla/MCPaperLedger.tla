--------------------------- MODULE MCPaperLedger ----------------------------
(***************************************************************************)
(* Two tickers at prices that divide every amount.  After a BUY at one     *)
(* price and an ADD at the other the average entry price is between them.  *)
(***************************************************************************)
EXTENDS PaperLedger

CONSTANTS t1, t2

MCPrices == {2, 3}

Make(ref, ticker, action, dollars) ==
    [ref |-> ref, ticker |-> ticker, action |-> action, dollars |-> dollars,
     reference |-> 2, stock |-> FALSE]

MCIntents ==
    {Make("buy", t1, "BUY", 12), Make("add", t1, "ADD", 6), Make("add2", t1, "ADD", 18),
     Make("reduce", t1, "REDUCE", 6), Make("reduce2", t1, "REDUCE", 12),
     Make("exit", t1, "EXIT", 0), Make("other", t2, "BUY", 6), Make("over", t2, "REDUCE", 12)}

Refs == {i.ref : i \in MCIntents}
=============================================================================

---------------------------- MODULE PaperLedger -----------------------------
(***************************************************************************)
(* What FakePaperBroker's books guarantee, whatever is submitted to it:    *)
(* it is called directly here, with no gateway and no controller in front. *)
(***************************************************************************)
EXTENDS FakePaperBroker, Functions

\* Type invariant of the books: no debt and no short position.
TypeOK ==
    /\ cash \in Nat
    /\ units \in [Tickers -> Nat]
    /\ basis \in [Tickers -> Nat]
    /\ quote \in [Tickers -> Nat]
    /\ filledRefs \subseteq AuditRefs
    /\ fills \in Seq([ref: AuditRefs \cup {NoRef}, ticker: Tickers,
                      action: Actions, qty: Nat, price: Nat, gain: Int])
    /\ flow \in [Tickers -> Int]
    /\ pnl \in [Tickers -> Int]

\* An audit_reference fills at most once (_filled_audit_references).
FillsOncePerReference ==
    \A j, k \in 1..Len(fills) :
        fills[j].ref = fills[k].ref /\ fills[j].ref # NoRef => j = k

\* The profit the orders on a ticker report, and the cost of what is left of
\* it, account for every dollar that went in and came out.  A closed position
\* has no cost left: its reported profit is its cash flow, however it was
\* built up, averaged and reduced.
ProfitIsCashFlow ==
    \A t \in Tickers :
        /\ flow[t] = pnl[t] - basis[t]
        /\ units[t] = 0 => basis[t] = 0

\* Cash and cost of the open positions together are the starting cash and
\* the realized profit of all tickers.
BooksBalance ==
    cash + FoldFunction(+, 0, basis) = StartCash + FoldFunction(+, 0, pnl)
=============================================================================

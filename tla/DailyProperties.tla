-------------------------- MODULE DailyProperties ---------------------------
(***************************************************************************)
(* What the daily paper-trading lifecycle should guarantee.                *)
(***************************************************************************)
EXTENDS DailySession

\* Type invariant of the lifecycle: no debt, no short position, a trade log of
\* records of this lifetime, and files that know of past runs only.
TypeOK ==
    /\ cash \in Nat
    /\ units \in [Tickers -> Nat] /\ basis \in [Tickers -> Nat]
    /\ quote \in [Tickers -> Prices \cup {NoQuote}]
    /\ trades \in Seq([ticker: Tickers, action: Actions, sector: STRING, stop: Nat,
                       sent: BOOLEAN, filled: BOOLEAN, day: 1..day, gain: Int])
    /\ startEquity \in Nat \cup {NoEquity}
    /\ phase \in {"idle", "candidates", "reviews", "finished", "raised", "research",
                  "trade_log", "snapshots"}
    /\ runs \in 0..MaxRuns
    /\ research \subseteq 1..runs
    /\ tradeLog \in [1..MaxRuns -> Nat]
    /\ snapshots \subseteq [sid: 1..day, run: 1..runs, entries: Nat]

\* What the controller lets through, the paper broker fills: the runner calls
\* an outcome "executed" on the controller's word alone (_evaluate_one), so
\* the gateway has to foresee every rejection of the paper broker.
AllowedMeansFilled == \A k \in DOMAIN trades : trades[k].sent => trades[k].filled

\* The snapshot's total profit, from the equity at the start and now, is the
\* realized profit of the trade log and the unrealized profit of the
\* positions together (daily_snapshot).
SnapshotReconciles == snapshot.total = snapshot.realized + snapshot.unrealized

\* Every position has a stop and a sector on record, or check_mechanical_stops
\* would skip it and the sector exposure would leave it out.
HeldIsWatched ==
    \A t \in Held : StopForTicker(t) # NoStop /\ SectorForTicker(t) # "none"

\* A snapshot in DAILY-SNAPSHOTS.md is backed by the research entry and by as
\* many trade log entries as it counts, wherever the process has ended:
\* persist_logs writes the marker that blocks a rerun last.
SnapshotIsBacked ==
    \A m \in snapshots : m.run \in research /\ tradeLog[m.run] >= m.entries

\* A session recorded in DAILY-SNAPSHOTS.md never trades again unless forced,
\* in this process or the next one (_session_already_recorded).
RecordedSessionNeverTrades ==
    [][Len(fills') > Len(fills) /\ call.by = "runner" =>
          forced \/ \A m \in snapshots : m.sid # sid]_vars

-----------------------------------------------------------------------------
\* Statements of the documentation that the code does not keep.

PurchasesThisWeek ==
    {k \in DOMAIN trades : /\ trades[k].filled
                           /\ trades[k].action \in ExposureIncreasing
                           /\ day - trades[k].day <= WeekDays}

\* risk/validator.py:17 "Maximum 3 new trades per week."
WeeklyTradeLimit == Cardinality(PurchasesThisWeek) <= MaxNewTradesPerWeek

\* risk/validator.py:16 "Maximum 6 open positions after trade."
OpenPositionLimit == Cardinality(Held) <= MaxOpenPositions

\* Of the two limits at least one holds: all candidates of a run are judged by
\* facts gathered before the first, and a run that breaks this breaks both.
SomeLimitHolds == WeeklyTradeLimit \/ OpenPositionLimit

\* routines/market-open.md: every executed paper trade is appended to the trade
\* log.  A run that ends in an exception has no result to append.
ExecutedTradesAreLogged ==
    phase = "raised" =>
        \A k \in DOMAIN outcomes : outcomes[k].stage # "executed"
=============================================================================

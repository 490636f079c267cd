--------------------------- MODULE MCDailySession ---------------------------
(***************************************************************************)
(* An account of 300 dollars, the size the project trades, at the code's   *)
(* percentages.  From 5 to 10 a position doubles.                          *)
(***************************************************************************)
EXTENDS DailyProperties

CONSTANTS t1, t2, t3, t4, t5, t6, t7

SteadyPrice == {5}
DoublingPrices == {5, 10}

Propose(id, ticker, action, dollars, entry, stop, target) ==
    [id |-> id, ticker |-> ticker, action |-> action, dollars |-> dollars,
     entry |-> entry, stop |-> stop, target |-> target, score |-> 80,
     allocation |-> 5, sector |-> "tech", averaging |-> FALSE, stock |-> TRUE,
     complete |-> TRUE]

Buy1 == Propose("buy1", t1, "BUY", 40, 5, 4, 7)
Buy2 == Propose("buy2", t2, "BUY", 40, 5, 4, 7)
Exit1 == Propose("exit1", t1, "EXIT", 0, 10, 0, 0)

\* Part of the position when its price has doubled, and more than it is worth
\* when it has not.
Reduce1 == Propose("reduce1", t1, "REDUCE", 60, 10, 0, 0)
Reduce1Low == Propose("reduce1 low", t1, "REDUCE", 60, 5, 0, 0)

\* A purchase whose stop is the price it is bought at, so that the next review
\* finds it hit.
Buy2AtStop == Propose("buy2 at stop", t2, "BUY", 40, 6, 5, 9)

NoProposals == {<<>>}

\* What the candidates of a run may be.
Candidates == {<<>>, <<Buy1>>, <<Buy1, Buy2AtStop>>}

\* What the caller may ask of the session beside the runs.
Sales == {Reduce1, Reduce1Low, Exit1}

\* Two candidates in one run.
Pair == {<<Buy1, Buy2>>}

\* Seven purchases of 40 dollars, each of which fits the account on its own.
Seven ==
    LET tickers == <<t1, t2, t3, t4, t5, t6, t7>>
    IN  {[k \in 1..7 |-> [Buy1 EXCEPT !.id = <<"buy", k>>, !.ticker = tickers[k]]]}
=============================================================================

-------------------------- MODULE FakePaperBroker ---------------------------
(***************************************************************************)
(* broker/fake_paper.py: the in-memory paper account.  Orders fill at once *)
(* and in full at the loaded quote, or are rejected and change nothing but *)
(* the journal.  Money is counted in a unit fine enough for every amount   *)
(* to buy a whole number of (fractional) share units at every price: the   *)
(* code computes with 28-digit Decimals, which the model takes for exact,  *)
(* but for Released, which rounds down to a unit of money.                 *)
(***************************************************************************)
EXTENDS PaperIntents, Sequences, FiniteSets

CONSTANTS
    Prices,     \* the valid prices a quote may have
    StartCash,  \* starting_cash
    MaxFills    \* BOUND: fills in a behaviour

ASSUME LedgerAssumption ==
    /\ Prices \subseteq Nat \ {0}
    /\ StartCash \in Nat
    /\ MaxFills \in Nat
    /\ \A i \in Intents, p \in Prices : i.dollars % p = 0

\* _positions and the quotes are dicts of the symbols there have been.
ASSUME TickersAssumption == IsFiniteSet(Tickers)

VARIABLES
    cash,       \* _cash
    units,      \* quantity of each position, 0 for a ticker not in _positions
    basis,      \* quantity * average_entry_price of each position
    quote,      \* the loaded quote of each ticker, 0 when none or not valid
    filledRefs, \* _filled_audit_references
    fills,      \* the FILLED orders of _orders, in order of submission
    flow,       \* history: money received minus money paid for each ticker
    pnl         \* history: realized_pnl reported so far for each ticker

bookVars == <<cash, units, basis, filledRefs, fills, flow, pnl>>
ledgerVars == <<bookVars, quote>>

NoQuote == 0

LedgerInit ==
    /\ cash = StartCash
    /\ units = [t \in Tickers |-> 0]
    /\ basis = [t \in Tickers |-> 0]
    /\ quote = [t \in Tickers |-> NoQuote]
    /\ filledRefs = {}
    /\ fills = <<>>
    /\ flow = [t \in Tickers |-> 0]
    /\ pnl = [t \in Tickers |-> 0]

-----------------------------------------------------------------------------

\* Mutant: a REDUCE is not compared with the quantity held.
MutFillable(i) ==
    /\ i.ref \notin filledRefs
    /\ quote[i.ticker] # NoQuote
    /\ \/ i.action = "BUY" /\ units[i.ticker] = 0 /\ i.dollars \in 1..cash
       \/ i.action = "ADD" /\ units[i.ticker] > 0 /\ i.dollars \in 1..cash
       \/ i.action \in RiskReducing /\ units[i.ticker] > 0

\* The units that intent i trades: a dollar amount's worth, or all of them.
Quantity(i) ==
    IF i.action = "EXIT" THEN units[i.ticker] ELSE i.dollars \div quote[i.ticker]

\* _process_intent and its fill functions reject every other intent.
Fillable(i) ==
    LET t == i.ticker
    IN  /\ i.ref \notin filledRefs
        /\ quote[t] # NoQuote
        /\ \/ i.action = "BUY" /\ units[t] = 0 /\ i.dollars \in 1..cash
           \/ i.action = "ADD" /\ units[t] > 0 /\ i.dollars \in 1..cash
           \/ /\ i.action = "REDUCE" /\ units[t] > 0
              /\ i.dollars > 0 /\ Quantity(i) <= units[t]
           \/ i.action = "EXIT" /\ units[t] > 0

\* Mutant: only BUY and ADD mark their reference filled.
MutMarksFilled(i) == IF i.action \in ExposureIncreasing THEN {i.ref} \ {NoRef} ELSE {}

\* _fill: an administrative close has no reference to mark.
MarksFilled(i) == {i.ref} \ {NoRef}

\* _fill and _record of an order that moved money into (or out of) cash, left
\* the position at a cost, and reports a gain.
Settles(i, money, cost, gain) ==
    LET t == i.ticker
    IN  /\ cash' = cash + money
        /\ basis' = [basis EXCEPT ![t] = cost]
        /\ filledRefs' = filledRefs \cup MarksFilled(i)
        /\ fills' = Append(fills, [ref |-> i.ref, ticker |-> t, action |-> i.action,
                                   qty |-> Quantity(i), price |-> quote[t],
                                   gain |-> gain])
        /\ flow' = [flow EXCEPT ![t] = @ + money]
        /\ pnl' = [pnl EXCEPT ![t] = @ + gain]
        /\ UNCHANGED quote

\* Mutant: the average entry price is the mean of the two prices, whatever
\* the quantities bought at each.
MutCostAfterBuy(i) ==
    LET t == i.ticker
    IN  IF units[t] = 0
        THEN i.dollars
        ELSE (units[t] + Quantity(i)) * ((basis[t] \div units[t] + quote[t]) \div 2)

\* The new average entry price times the new quantity.
CostAfterBuy(i) == basis[i.ticker] + Quantity(i) * quote[i.ticker]

\* _fill_buy_or_add
Buys(i) ==
    /\ i.action \in ExposureIncreasing
    /\ units' = [units EXCEPT ![i.ticker] = @ + Quantity(i)]
    /\ Settles(i, -i.dollars, CostAfterBuy(i), 0)

\* Mutant: the units that leave are taken off the books at the quote.
MutReleased(i) == Quantity(i) * quote[i.ticker]

\* What the units that leave had cost, at the average entry price; of a part
\* of the position rounded down to a unit of money.
Released(i) ==
    IF Quantity(i) = units[i.ticker]
    THEN basis[i.ticker]
    ELSE (basis[i.ticker] * Quantity(i)) \div units[i.ticker]

Proceeds(i) == Quantity(i) * quote[i.ticker]

\* Mutant: a REDUCE is charged the cost of the whole position.
MutGain(i) == Proceeds(i) - basis[i.ticker]

\* realized_pnl: the quote less the average entry price, for each unit sold.
Gain(i) == Proceeds(i) - Released(i)

\* _fill_reduce and _fill_exit
Sells(i) ==
    /\ i.action \in RiskReducing
    /\ units' = [units EXCEPT ![i.ticker] = @ - Quantity(i)]
    /\ Settles(i, Proceeds(i), basis[i.ticker] - Released(i), Gain(i))

\* submit_execution_intent, when it fills.
FillsIntent(i) == Fillable(i) /\ (Buys(i) \/ Sells(i))

\* close_position, when it fills.
ClosesPosition(t) == FillsIntent(AdminCloseIntent(t))

\* set_quote, which takes any value: what is not a valid price counts as none.
SetsQuote(t, p) ==
    /\ quote' = [quote EXCEPT ![t] = p]
    /\ UNCHANGED bookVars

MayFill == Len(fills) < MaxFills

LedgerNext ==
    \/ MayFill /\ \E i \in Intents : FillsIntent(i)
    \/ MayFill /\ \E t \in Tickers : ClosesPosition(t)
    \/ \E t \in Tickers, p \in Prices \cup {NoQuote} : SetsQuote(t, p)

LedgerSpec == LedgerInit /\ [][LedgerNext]_ledgerVars

-----------------------------------------------------------------------------
\* get_account and get_position

\* A position without a valid quote is valued at nothing.
MarketValue(t) == units[t] * quote[t]
=============================================================================

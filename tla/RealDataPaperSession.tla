------------------------ MODULE RealDataPaperSession ------------------------
(***************************************************************************)
(* execution/real_data_paper_session.py: proposals evaluated at a quote    *)
(* read from the real market and executed in the FakePaperBroker, through  *)
(* the gateway and the controller.  The only waiting is for the real       *)
(* quote, so an evaluation is two steps: the quote arrives, then all the   *)
(* rest happens.                                                           *)
(*                                                                         *)
(* Whether the controller is armed, the safety flags, and the ages of      *)
(* intent and quote can only block a submit: the model lets any submit be  *)
(* blocked.                                                                *)
(***************************************************************************)
EXTENDS FakePaperBroker, RiskEngine, Functions, SequencesExt

CONSTANTS
    MaxDeviationPct,  \* max_reference_price_deviation_pct of the gateway
    WeekDays,         \* the length of the window of "trades this week"
    MaxTrades         \* BOUND: records in the trade log

ASSUME SessionAssumption ==
    /\ MaxDeviationPct \in Nat /\ WeekDays \in Nat /\ MaxTrades \in Nat

VARIABLES
    processed,    \* _processed_audit_references of the controller
    trades,       \* _trades, the SimulatedTradeRecords
    startEquity,  \* _starting_equity, -1 for None
    call,         \* the evaluation between its quote and its end, or NoCall
    day           \* today

NoCall == [by |-> "nobody"]
NoEquity == -1
NoStop == 0

sessionVars == <<processed, trades, startEquity, call>>

SessionInit ==
    /\ LedgerInit
    /\ processed = {}
    /\ trades = <<>>
    /\ startEquity = NoEquity
    /\ call = NoCall

Held == {t \in Tickers : units[t] > 0}

SumOf(f) == FoldFunction(+, 0, f)

\* get_account().equity, at the last quotes loaded for each ticker.
Equity == cash + SumOf([t \in Tickers |-> MarketValue(t)])

UnrealizedPnl == SumOf([t \in Tickers |-> MarketValue(t) - basis[t]])

-----------------------------------------------------------------------------
\* What is read from the trade log.

Purchases(t) ==
    {k \in DOMAIN trades : /\ trades[k].ticker = t
                           /\ trades[k].action \in ExposureIncreasing
                           /\ trades[k].filled}

\* Mutant: the stop of the latest record, whatever it records.
MutStopForTicker(t) ==
    LET ks == {k \in DOMAIN trades : trades[k].ticker = t}
    IN  IF ks = {} THEN NoStop ELSE trades[Max(ks)].stop

\* _stop_for_ticker, _sector_for_ticker: of the latest filled purchase.
StopForTicker(t) ==
    IF Purchases(t) = {} THEN NoStop ELSE trades[Max(Purchases(t))].stop

SectorForTicker(t) ==
    IF Purchases(t) = {} THEN "none" ELSE trades[Max(Purchases(t))].sector

\* Every attempt counts, filled or not, sale or purchase.
TradesThisWeek == Cardinality({k \in DOMAIN trades : day - trades[k].day <= WeekDays})

RealizedPnl == SumOf([k \in DOMAIN trades |-> trades[k].gain])

\* gather_account_state
AccountState ==
    [equity |-> Equity, cash |-> cash, positions |-> Cardinality(Held),
     trades |-> TradesThisWeek,
     value |-> [t \in Tickers |-> MarketValue(t)],
     sector |-> [t \in Held |-> SectorForTicker(t)]]

\* _account_kwargs: the exposures are those of the proposal's own ticker and
\* of the sector it states.
AccountKwargs(state, p) ==
    LET peers == {t \in DOMAIN state.sector : state.sector[t] = p.sector}
    IN  [equity |-> state.equity, cash |-> state.cash,
         positions |-> state.positions, trades |-> state.trades,
         company |-> state.value[p.ticker],
         sector |-> SumOf([t \in peers |-> state.value[t]]),
         blocked |-> {}]

\* update_open_trade_tracking refreshes the quote of every position it can get
\* one for; the excursions it keeps are not modelled.
RefreshesHeld ==
    /\ call = NoCall
    /\ \E now \in [Held -> Prices \cup {NoQuote}] :
          quote' = [t \in Tickers |-> IF t \in Held /\ now[t] # NoQuote
                                      THEN now[t]
                                      ELSE quote[t]]
    /\ UNCHANGED <<bookVars, sessionVars>>

-----------------------------------------------------------------------------
\* evaluate_and_submit

\* refresh_quote returns a price: it is the paper broker's quote from now on.
QuoteArrives(p, f, holds, by) ==
    /\ call = NoCall
    /\ Len(trades) < MaxTrades /\ MayFill
    /\ \E q \in Prices : SetsQuote(p.ticker, q)
    /\ call' = [by |-> by, proposal |-> p, facts |-> f, holds |-> holds]
    /\ UNCHANGED <<processed, trades, startEquity>>

Deviates(now, reference) ==
    LET gap == IF now >= reference THEN now - reference ELSE reference - now
    IN  100 * gap > MaxDeviationPct * reference

\* Mutant: the gateway does not compare a REDUCE with the quantity held.
MutPositionAllows(i) ==
    \/ i.action = "BUY" /\ units[i.ticker] = 0 /\ i.dollars <= cash
    \/ i.action = "ADD" /\ units[i.ticker] > 0 /\ i.dollars <= cash
    \/ i.action \in RiskReducing /\ units[i.ticker] > 0

PositionAllows(i) ==
    \/ i.action = "BUY" /\ units[i.ticker] = 0 /\ i.dollars <= cash
    \/ i.action = "ADD" /\ units[i.ticker] > 0 /\ i.dollars <= cash
    \/ /\ i.action = "REDUCE" /\ units[i.ticker] > 0
       /\ i.dollars <= units[i.ticker] * quote[i.ticker]
    \/ i.action = "EXIT" /\ units[i.ticker] > 0

\* BrokerGateway.validate against the paper broker.
GatewayAllows(i) ==
    /\ i.ref \notin filledRefs
    /\ i.action # "EXIT" => i.dollars > 0
    /\ ~Deviates(quote[i.ticker], i.reference)
    /\ PositionAllows(i)

\* PaperWriteController.submit without the network write gate.
ControllerAllows(i) == i.ref \notin processed /\ i.stock /\ GatewayAllows(i)

\* Mutant: a REDUCE leaves its realized profit out of the record.
MutRecord(p, sent, filled) ==
    [ticker |-> p.ticker, action |-> p.action, sector |-> p.sector, stop |-> p.stop,
     sent |-> sent, filled |-> filled, day |-> day,
     gain |-> IF filled /\ p.action = "EXIT" THEN Gain(IntentOf(p, call.facts)) ELSE 0]

\* _record_trade: "sent" says that there is an order, whatever its status.
Record(p, sent, filled) ==
    [ticker |-> p.ticker, action |-> p.action, sector |-> p.sector, stop |-> p.stop,
     sent |-> sent, filled |-> filled, day |-> day,
     gain |-> IF filled /\ p.action \in RiskReducing
              THEN Gain(IntentOf(p, call.facts))
              ELSE 0]

\* The end of evaluate_and_submit, after the submit: a starting equity is
\* established if there is none.
Concludes(record) ==
    /\ trades' = Append(trades, record)
    /\ startEquity' = IF startEquity = NoEquity THEN Equity' ELSE startEquity
    /\ call' = NoCall

\* Stage "schema_or_risk_rejected": nothing was submitted or recorded.
RefusesProposal ==
    /\ call # NoCall
    /\ ~CreatesIntent(call.proposal, call.facts, call.holds)
    /\ call' = NoCall
    /\ UNCHANGED <<ledgerVars, processed, trades, startEquity>>

\* Stage "gateway_or_controller_rejected".
BlocksIntent ==
    /\ call # NoCall
    /\ CreatesIntent(call.proposal, call.facts, call.holds)
    /\ UNCHANGED <<ledgerVars, processed>>
    /\ Concludes(Record(call.proposal, FALSE, FALSE))

\* Stage "executed": the paper broker fills the order or rejects it.
ExecutesIntent ==
    /\ call # NoCall
    /\ CreatesIntent(call.proposal, call.facts, call.holds)
    /\ LET i == IntentOf(call.proposal, call.facts)
       IN  /\ ControllerAllows(i)
           /\ IF Fillable(i)
              THEN FillsIntent(i) /\ processed' = processed \cup {i.ref}
              ELSE UNCHANGED <<ledgerVars, processed>>
           /\ Concludes(Record(call.proposal, TRUE, Fillable(i)))

\* A fresh session over a fresh paper broker, in a new process.
SessionRestarts ==
    /\ cash' = StartCash
    /\ units' = [t \in Tickers |-> 0] /\ basis' = [t \in Tickers |-> 0]
    /\ quote' = [t \in Tickers |-> NoQuote]
    /\ filledRefs' = {} /\ fills' = <<>>
    /\ flow' = [t \in Tickers |-> 0] /\ pnl' = [t \in Tickers |-> 0]
    /\ processed' = {} /\ trades' = <<>> /\ startEquity' = NoEquity
    /\ call' = NoCall
=============================================================================

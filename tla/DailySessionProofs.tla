------------------------ MODULE DailySessionProofs -------------------------
(***************************************************************************)
(* The paper account under the daily session, for any proposals, prices    *)
(* and number of runs, days and process ends: what the gateway lets        *)
(* through is filled, what is held is watched, and the snapshot adds up.   *)
(***************************************************************************)
EXTENDS DailyProperties, FakePaperBrokerProofs

\* What check_mechanical_stops adds to the proposals there are.
StopExits ==
    [id: {"stop"} \X Tickers \X Prices \X Nat, ticker: Tickers, action: {"EXIT"},
     dollars: {0}, entry: Prices, stop: Nat, target: Nat, score: Nat,
     allocation: Nat, sector: STRING, averaging: BOOLEAN, stock: BOOLEAN,
     complete: BOOLEAN]

Given == Proposals \cup StopExits

Trade == [ticker: Tickers, action: Actions, sector: STRING, stop: Nat,
          sent: BOOLEAN, filled: BOOLEAN, day: Nat \ {0}, gain: Int]

Phases == {"idle", "candidates", "reviews", "finished", "raised", "research",
           "trade_log", "snapshots"}

\* What a run works on.
RunTyped ==
    /\ phase \in Phases /\ runs \in 0..MaxRuns /\ day \in Nat \ {0}
    /\ todo \in Seq(Given) /\ reviews \in Seq(Proposals)

\* The trade log is of this lifetime.
TradesTyped ==
    /\ trades \in Seq(Trade)
    /\ \A k \in DOMAIN trades : trades[k].day <= day

\* While a proposal is evaluated, its ticker has a quote.
CallFits ==
    call # NoCall => /\ call.proposal \in Given
                     /\ quote[call.proposal.ticker] \in Prices

\* Nothing was traded before the starting equity was established, which is
\* therefore the starting cash.
StartKnown ==
    /\ startEquity \in {NoEquity, StartCash}
    /\ startEquity = NoEquity => cash = StartCash /\ \A t \in Tickers : units[t] = 0

GainsOf(s) == SumOver([k \in DOMAIN s |-> s[k].gain], DOMAIN s)

\* The trade log holds every gain the paper broker has reported.
GainsLogged == SumOver(pnl, Tickers) = GainsOf(trades)

\* Every purchase has a stop and a sector, and every position a purchase.
Watched ==
    /\ \A k \in DOMAIN trades :
          trades[k].filled /\ trades[k].action \in ExposureIncreasing =>
             trades[k].stop # NoStop /\ trades[k].sector # "none"
    /\ \A t \in Held : Purchases(t) # {}

\* Whose evaluation it is.
CallIsOf ==
    call # NoCall =>
        \/ call.by = "runner" /\ Running /\ todo # <<>> /\ call.proposal = Head(todo)
        \/ call.by = "caller" /\ ~Running

\* The account's and the trade log's part of the invariant.
SessionInv ==
    /\ Books /\ TradesTyped /\ CallFits /\ StartKnown /\ GainsLogged
    /\ Watched /\ AllowedMeansFilled

\* The inductive invariant.
SInv == SessionInv /\ RunTyped /\ CallIsOf /\ SnapshotReconciles

-----------------------------------------------------------------------------
\* Proposals and intents

LEMMA GivenShape ==
    ASSUME NEW p \in Given
    PROVE  /\ p.ticker \in Tickers /\ p.sector \in STRING /\ p.stop \in Nat
           /\ p.dollars \in Nat /\ \A q \in Prices : p.dollars % q = 0
<1>1. CASE p \in Proposals
  BY <1>1, ProposalsAssumption
<1>2. CASE p \in StopExits
  <2>1. p.ticker \in Tickers /\ p.sector \in STRING /\ p.stop \in Nat /\ p.dollars = 0
    BY <1>2 DEF StopExits
  <2> QED BY <2>1, LedgerAssumption
<1> QED BY <1>1, <1>2 DEF Given

\* An intent that is created can be traded, and a purchase has a stop and a
\* sector.
LEMMA CreatedIntent ==
    ASSUME NEW p \in Given, NEW f, NEW h, CreatesIntent(p, f, h)
    PROVE  /\ Tradable(IntentOf(p, f))
           /\ IntentOf(p, f).ticker = p.ticker /\ IntentOf(p, f).action = p.action
           /\ IntentOf(p, f).reference = p.entry
           /\ p.action \in Actions
           /\ p.action \in ExposureIncreasing => p.stop # NoStop /\ p.sector # "none"
<1>1. p.action \in Actions
  BY DEF CreatesIntent, Actions, ExposureIncreasing, RiskReducing
<1>2. /\ IntentOf(p, f).ticker = p.ticker /\ IntentOf(p, f).action = p.action
      /\ IntentOf(p, f).reference = p.entry
      /\ IntentOf(p, f).dollars \in {0, p.dollars}
  BY DEF IntentOf
<1>3. \A q \in Prices : 0 % q = 0
  BY LedgerAssumption
<1>4. Tradable(IntentOf(p, f))
  BY <1>1, <1>2, <1>3, GivenShape DEF Tradable
<1>5. p.action \in ExposureIncreasing => ValidTradeProposal(p)
  BY DEF CreatesIntent, ExposureIncreasing
<1>6. ValidTradeProposal(p) => p.stop # NoStop /\ p.sector # "none"
  BY GivenShape DEF ValidTradeProposal, NoStop
<1> QED BY <1>1, <1>2, <1>4, <1>5, <1>6

\* The gateway foresees every rejection of the paper broker.
LEMMA AllowedIsFillable ==
    ASSUME Books, NEW i, Tradable(i), quote[i.ticker] \in Prices, ControllerAllows(i)
    PROVE  Fillable(i)
<1> DEFINE t == i.ticker
<1>1. /\ t \in Tickers /\ i.dollars \in Nat /\ quote[t] \in Nat \ {0}
      /\ units[t] \in Nat /\ cash \in Nat /\ quote[t] # NoQuote
  BY LedgerAssumption DEF Tradable, Books, NoQuote
<1>2. i.ref \notin filledRefs /\ (i.action # "EXIT" => i.dollars > 0) /\ PositionAllows(i)
  BY DEF ControllerAllows, GatewayAllows
<1>3. i.action # "EXIT" => Quantity(i) \in Nat /\ Quantity(i) * quote[t] = i.dollars
  BY <1>1, ExactUnits DEF Tradable, Quantity
<1>4. ASSUME i.action = "REDUCE"
      PROVE  units[t] > 0 /\ i.dollars > 0 /\ Quantity(i) <= units[t]
  <2>1. units[t] > 0 /\ i.dollars > 0 /\ Quantity(i) * quote[t] <= units[t] * quote[t]
    BY <1>2, <1>3, <1>4 DEF PositionAllows, ExposureIncreasing, RiskReducing
  <2>2. Quantity(i) \in Nat
    BY <1>3, <1>4
  <2>3. ASSUME Quantity(i) > units[t] PROVE FALSE
    <3> DEFINE n == Quantity(i)
    <3>1. n \in Nat /\ n >= units[t] + 1
      BY <1>1, <2>2, <2>3
    <3> HIDE DEF n
    <3>2. n * quote[t] >= (units[t] + 1) * quote[t]
      BY <1>1, <3>1
    <3>3. (units[t] + 1) * quote[t] = units[t] * quote[t] + quote[t]
      BY <1>1
    <3>4. units[t] * quote[t] \in Nat /\ n * quote[t] \in Nat
      BY <1>1, <3>1
    <3> QED BY <1>1, <2>1, <3>2, <3>3, <3>4 DEF n
  <2> QED BY <1>1, <2>1, <2>2, <2>3
<1>5. CASE i.action \in ExposureIncreasing
  BY <1>1, <1>2, <1>5 DEF Fillable, PositionAllows, ExposureIncreasing, RiskReducing
<1>6. CASE i.action = "REDUCE"
  BY <1>1, <1>2, <1>4, <1>6 DEF Fillable
<1>7. CASE i.action = "EXIT"
  BY <1>1, <1>2, <1>7 DEF Fillable, PositionAllows, RiskReducing
<1> QED BY <1>5, <1>6, <1>7 DEF Tradable, Actions, RiskReducing

-----------------------------------------------------------------------------
\* The trade log

LEMMA NoGains == GainsOf(<<>>) = 0
BY SumOfNothing DEF GainsOf

LEMMA GainsAppend ==
    ASSUME NEW s \in Seq(Trade), NEW r \in Trade
    PROVE  GainsOf(Append(s, r)) = GainsOf(s) + r.gain
<1> DEFINE n == Len(s) + 1
           f == [k \in DOMAIN s |-> s[k].gain]
           g == [k \in DOMAIN Append(s, r) |-> Append(s, r)[k].gain]
<1>1. /\ DOMAIN s = 1..Len(s) /\ Len(s) \in Nat
      /\ DOMAIN Append(s, r) = 1..n
      /\ Append(s, r)[n] = r /\ \A k \in 1..Len(s) : Append(s, r)[k] = s[k]
      /\ \A k \in 1..Len(s) : s[k] \in Trade
  OBVIOUS
<1>2. (1..n) \ {n} = 1..Len(s) /\ n \in 1..n
  BY <1>1
<1>3. /\ IsFiniteSet(1..n) /\ IsFiniteSet(1..Len(s))
  BY <1>1, FS_Interval
<1>4. \A k \in 1..Len(s) : g[k] = f[k] /\ f[k] \in Int
  BY <1>1, <1>2 DEF Trade
<1>5. g[n] = r.gain /\ r.gain \in Int
  BY <1>1, <1>2 DEF Trade
<1>6. \A k \in 1..n : g[k] \in Int
  <2> HIDE DEF f, g
  <2> QED BY <1>1, <1>4, <1>5
<1>7. GainsOf(s) = SumOver(f, 1..Len(s)) /\ GainsOf(Append(s, r)) = SumOver(g, 1..n)
  BY <1>1 DEF GainsOf
<1> HIDE DEF f, g, n
<1>8. SumOver(g, 1..n) = g[n] + SumOver(g, (1..n) \ {n})
  BY <1>2, <1>3, <1>6, SumTakesOut
<1>9. SumOver(g, 1..Len(s)) = SumOver(f, 1..Len(s))
  BY <1>3, <1>4, SumAgrees
<1>10. SumOver(f, 1..Len(s)) \in Int
  BY <1>3, <1>4, SumIsInt
<1>11. SumOver(g, 1..n) = r.gain + SumOver(f, 1..Len(s))
  BY <1>2, <1>5, <1>8, <1>9
<1> QED BY <1>5, <1>7, <1>10, <1>11

LEMMA AppendedTrade ==
    ASSUME TradesTyped, NEW r, trades' = Append(trades, r)
    PROVE  /\ Len(trades) \in Nat /\ DOMAIN trades = 1..Len(trades)
           /\ DOMAIN trades' = 1..(Len(trades) + 1)
           /\ trades'[Len(trades) + 1] = r
           /\ \A k \in DOMAIN trades : trades'[k] = trades[k]
BY DEF TradesTyped

\* A record is added, and what is held afterwards was held before or bought
\* with it.
LEMMA TradeIsLogged ==
    ASSUME SessionInv, day \in Nat \ {0}, NEW r \in Trade, trades' = Append(trades, r),
           r.day = day, day' = day,
           r.sent => r.filled,
           r.filled /\ r.action \in ExposureIncreasing =>
              r.stop # NoStop /\ r.sector # "none",
           \A t \in Held' : \/ t \in Held
                            \/ t = r.ticker /\ r.filled /\ r.action \in ExposureIncreasing,
           SumOver(pnl', Tickers) = SumOver(pnl, Tickers) + r.gain
    PROVE  TradesTyped' /\ GainsLogged' /\ Watched' /\ AllowedMeansFilled'
<1> DEFINE n == Len(trades) + 1
<1>1. /\ Len(trades) \in Nat /\ DOMAIN trades = 1..Len(trades)
      /\ DOMAIN trades' = 1..n /\ trades'[n] = r
      /\ \A k \in DOMAIN trades : trades'[k] = trades[k]
  BY AppendedTrade DEF SessionInv
<1>2. \A k \in 1..n : k = n \/ k \in DOMAIN trades
  BY <1>1
<1>3. n \in 1..n /\ DOMAIN trades \subseteq 1..n
  BY <1>1
<1> HIDE DEF n
<1>4. TradesTyped'
  BY <1>1, <1>2 DEF SessionInv, TradesTyped
<1>5. GainsLogged'
  BY GainsAppend DEF SessionInv, TradesTyped, GainsLogged
<1>6. AllowedMeansFilled'
  BY <1>1, <1>2 DEF SessionInv, AllowedMeansFilled
<1>7. \A k \in DOMAIN trades' :
          trades'[k].filled /\ trades'[k].action \in ExposureIncreasing =>
             trades'[k].stop # NoStop /\ trades'[k].sector # "none"
  BY <1>1, <1>2 DEF SessionInv, Watched
<1>8. ASSUME NEW t \in Held' PROVE Purchases(t)' # {}
  <2>1. CASE t \in Held
    <3>1. PICK k \in Purchases(t) : TRUE
      BY <2>1 DEF SessionInv, Watched
    <3>2. k \in Purchases(t)'
      BY <1>1, <1>3, <3>1 DEF Purchases
    <3> QED BY <3>2
  <2>2. CASE t = r.ticker /\ r.filled /\ r.action \in ExposureIncreasing
    <3>1. n \in Purchases(t)'
      BY <1>1, <1>3, <2>2 DEF Purchases
    <3> QED BY <3>1
  <2> QED BY <2>1, <2>2
<1> QED BY <1>4, <1>5, <1>6, <1>7, <1>8 DEF Watched

-----------------------------------------------------------------------------
\* Equity and profit

Values == [t \in Tickers |-> MarketValue(t)]

LEMMA ValuesAreNat ==
    ASSUME Books
    PROVE  /\ Values \in [Tickers -> Nat]
           /\ \A t \in Tickers : /\ quote[t] \in Nat /\ units[t] \in Nat
                                 /\ Values[t] = units[t] * quote[t]
<1>1. quote \in [Tickers -> Nat] /\ units \in [Tickers -> Nat]
  <2>1. Prices \cup {NoQuote} \subseteq Nat
    BY LedgerAssumption DEF NoQuote
  <2>2. quote \in [Tickers -> Prices \cup {NoQuote}] /\ units \in [Tickers -> Nat]
    BY DEF Books
  <2> QED BY <2>1, <2>2
<1> QED BY <1>1 DEF Values, MarketValue

LEMMA SumOfIs == ASSUME NEW f PROVE SumOf(f) = SumOver(f, DOMAIN f)
BY SumOfFunction DEF SumOf

LEMMA EquityIs == Equity = cash + SumOver(Values, Tickers)
<1>1. SumOf(Values) = SumOver(Values, Tickers)
  BY SumOfIs DEF Values
<1> QED BY <1>1 DEF Equity, Values

\* Cash alone.
LEMMA EquityAtStart ==
    ASSUME Books, \A t \in Tickers : units[t] = 0
    PROVE  Equity = cash
<1>1. \A t \in Tickers : Values[t] = 0
  <2> TAKE t \in Tickers
  <2>1. quote[t] \in Nat /\ Values[t] = units[t] * quote[t] /\ units[t] = 0
    BY ValuesAreNat
  <2> QED BY <2>1
<1>2. SumOver(Values, Tickers) = 0
  BY <1>1, SumOfZeros, TickersAssumption
<1> QED BY <1>2, EquityIs DEF Books

\* The first purchase is worth what was paid for it.
LEMMA EquityAfterPurchase ==
    ASSUME Books, NEW i, Tradable(i), Fillable(i), Buys(i),
           \A t \in Tickers : units[t] = 0
    PROVE  Equity' = cash
<1> DEFINE t == i.ticker
<1>1. /\ t \in Tickers /\ cash' = cash - i.dollars /\ quote' = quote
      /\ units' = [units EXCEPT ![t] = units[t] + Quantity(i)]
      /\ i.dollars \in Nat /\ cash \in Nat /\ units[t] = 0
  BY DEF Tradable, Buys, Settles, Books
<1>2. Quantity(i) \in Nat /\ Quantity(i) * quote[t] = i.dollars
  BY FillQuantities DEF Buys, ExposureIncreasing
<1>3. units' = [units EXCEPT ![t] = Quantity(i)]
  <2>1. units[t] + Quantity(i) = Quantity(i)
    BY <1>1, <1>2
  <2> QED BY <1>1, <2>1
<1>4. Values' = [Values EXCEPT ![t] = i.dollars]
  <2>1. /\ units \in [Tickers -> Nat] /\ Values = [s \in Tickers |-> units[s] * quote[s]]
        /\ Values' = [s \in Tickers |-> units'[s] * quote'[s]]
    BY DEF Books, Values, MarketValue
  <2>2. \A s \in Tickers : Values'[s] = IF s = t THEN i.dollars ELSE Values[s]
    <3> SUFFICES ASSUME NEW s \in Tickers
                 PROVE  Values'[s] = IF s = t THEN i.dollars ELSE Values[s]
      OBVIOUS
    <3>1. Values'[s] = units'[s] * quote[s] /\ Values[s] = units[s] * quote[s]
      BY <1>1, <2>1
    <3>2. units'[s] = IF s = t THEN Quantity(i) ELSE units[s]
      BY <1>3, <2>1
    <3> QED BY <1>2, <3>1, <3>2
  <2> QED BY <2>1, <2>2
<1>5. Values \in [Tickers -> Int] /\ Values[t] = 0 /\ \A s \in Tickers : Values[s] = 0
  <2>1. \A s \in Tickers : Values[s] = 0
    <3> TAKE s \in Tickers
    <3>1. quote[s] \in Nat /\ Values[s] = units[s] * quote[s] /\ units[s] = 0
      BY ValuesAreNat
    <3> QED BY <3>1
  <2> QED BY <1>1, <2>1, ValuesAreNat
<1>6. SumOver(Values', Tickers) = SumOver(Values, Tickers) + (i.dollars - Values[t])
  <2>1. i.dollars \in Int /\ t \in Tickers /\ Values \in [Tickers -> Int]
    BY <1>1, <1>5
  <2>2. SumOver([Values EXCEPT ![t] = i.dollars], Tickers)
          = SumOver(Values, Tickers) + (i.dollars - Values[t])
    BY <2>1, SumUpdates, TickersAssumption
  <2> QED BY <1>4, <2>2
<1>7. SumOver(Values, Tickers) = 0
  BY <1>5, SumOfZeros, TickersAssumption
<1>8. SumOver(Values', Tickers) = i.dollars
  BY <1>1, <1>5, <1>6, <1>7
<1>9. Equity' = cash' + SumOver(Values', Tickers)
  <2>1. SumOf(Values)' = SumOver(Values', Tickers)
    BY SumOfIs DEF Values
  <2> QED BY <2>1 DEF Equity, Values
<1> QED BY <1>1, <1>8, <1>9

\* The profit since the start is the realized and the unrealized together.
LEMMA ProfitAddsUp ==
    ASSUME Books, TradesTyped, GainsLogged
    PROVE  Equity - StartCash = RealizedPnl + UnrealizedPnl
<1> DEFINE d == [t \in Tickers |-> MarketValue(t) - basis[t]]
<1>1. RealizedPnl = SumOver(pnl, Tickers)
  <2> DEFINE g == [k \in DOMAIN trades |-> trades[k].gain]
  <2>1. SumOf(g) = SumOver(g, DOMAIN g) /\ DOMAIN g = DOMAIN trades
    BY SumOfIs
  <2> QED BY <2>1 DEF RealizedPnl, GainsLogged, GainsOf
<1>2. UnrealizedPnl = SumOver(d, Tickers)
  <2>1. SumOf(d) = SumOver(d, DOMAIN d) /\ DOMAIN d = Tickers
    BY SumOfIs
  <2> QED BY <2>1 DEF UnrealizedPnl
<1>3. \A t \in Tickers : Values[t] \in Int /\ basis[t] \in Int /\ d[t] = Values[t] - basis[t]
  <2> TAKE t \in Tickers
  <2>1. d[t] = MarketValue(t) - basis[t] /\ Values[t] = MarketValue(t)
    BY DEF Values
  <2>2. basis[t] \in Int
    BY DEF Books
  <2> QED BY <2>1, <2>2, ValuesAreNat
<1> HIDE DEF d
<1>4. SumOver(d, Tickers) = SumOver(Values, Tickers) - SumOver(basis, Tickers)
  BY <1>3, SumOfDifferences, TickersAssumption
<1>5. /\ SumOver(Values, Tickers) \in Int /\ SumOver(basis, Tickers) \in Int
      /\ SumOver(pnl, Tickers) \in Int
  BY <1>3, SumIsInt, TickersAssumption DEF Books
<1>6. /\ cash + SumOver(basis, Tickers) = StartCash + SumOver(pnl, Tickers)
      /\ cash \in Int /\ StartCash \in Int
  BY LedgerAssumption DEF Books
<1> QED BY <1>1, <1>2, <1>4, <1>5, <1>6, EquityIs

-----------------------------------------------------------------------------
\* What the steps do to the session

LEMMA QuietStep ==
    ASSUME SessionInv, UNCHANGED <<ledgerVars, sessionVars>>,
           day \in Nat \ {0}, day' \in Nat, day <= day'
    PROVE  SessionInv'
<1> USE DEF ledgerVars, bookVars, sessionVars
<1>1. Books' /\ CallFits' /\ StartKnown' /\ GainsLogged' /\ AllowedMeansFilled'
  BY DEF SessionInv, Books, CallFits, StartKnown, GainsLogged, AllowedMeansFilled
<1>2. TradesTyped'
  <2>1. \A k \in DOMAIN trades : trades[k] \in Trade /\ trades[k].day <= day
    BY DEF SessionInv, TradesTyped
  <2>2. \A k \in DOMAIN trades : trades[k].day \in Nat
    BY <2>1 DEF Trade
  <2>3. \A k \in DOMAIN trades : trades[k].day <= day'
    BY <2>1, <2>2
  <2> QED BY <2>3 DEF SessionInv, TradesTyped
<1>3. Watched'
  BY DEF SessionInv, Watched, Held, Purchases
<1> QED BY <1>1, <1>2, <1>3 DEF SessionInv

\* Only quotes change, and the call.
LEMMA QuoteStep ==
    ASSUME SessionInv, UNCHANGED <<bookVars, trades, startEquity, day>>,
           quote' \in [Tickers -> Prices \cup {NoQuote}], CallFits'
    PROVE  SessionInv'
<1> USE DEF bookVars
<1>1. Books'
  BY QuoteKeepsBooks DEF SessionInv
<1>2. StartKnown' /\ GainsLogged' /\ AllowedMeansFilled' /\ TradesTyped'
  BY DEF SessionInv, StartKnown, GainsLogged, AllowedMeansFilled, TradesTyped
<1>3. Watched'
  BY DEF SessionInv, Watched, Held, Purchases
<1> QED BY <1>1, <1>2, <1>3 DEF SessionInv

LEMMA ArrivalStep ==
    ASSUME SessionInv, NEW p \in Given, NEW f, NEW h, NEW by, QuoteArrives(p, f, h, by),
           day' = day
    PROVE  SessionInv'
<1>1. PICK q \in Prices : SetsQuote(p.ticker, q)
  BY DEF QuoteArrives
<1>2. /\ quote' = [quote EXCEPT ![p.ticker] = q] /\ p.ticker \in Tickers
      /\ UNCHANGED <<bookVars, trades, startEquity, day>>
      /\ call' = [by |-> by, proposal |-> p, facts |-> f, holds |-> h]
  BY <1>1, GivenShape DEF SetsQuote, QuoteArrives
<1>3. quote' \in [Tickers -> Prices \cup {NoQuote}] /\ quote'[p.ticker] = q
  BY <1>2 DEF SessionInv, Books
<1>4. CallFits'
  BY <1>2, <1>3 DEF CallFits
<1> QED BY <1>2, <1>3, <1>4, QuoteStep

LEMMA RefreshStep ==
    ASSUME SessionInv, RefreshesHeld, day' = day
    PROVE  SessionInv'
<1>1. PICK now \in [Held -> Prices \cup {NoQuote}] :
          quote' = [t \in Tickers |-> IF t \in Held /\ now[t] # NoQuote
                                      THEN now[t] ELSE quote[t]]
  BY DEF RefreshesHeld
<1>2. quote' \in [Tickers -> Prices \cup {NoQuote}]
  BY <1>1 DEF SessionInv, Books
<1>3. UNCHANGED <<bookVars, trades, startEquity, day>> /\ call = NoCall /\ call' = call
  BY DEF RefreshesHeld, sessionVars
<1>4. CallFits'
  BY <1>3 DEF CallFits, NoCall
<1> QED BY <1>2, <1>3, <1>4, QuoteStep

LEMMA RefusalStep ==
    ASSUME SessionInv, RefusesProposal, day' = day
    PROVE  SessionInv'
<1>1. /\ UNCHANGED <<bookVars, trades, startEquity, day>> /\ quote' = quote
      /\ call' = NoCall
  BY DEF RefusesProposal, ledgerVars
<1>2. CallFits' /\ quote' \in [Tickers -> Prices \cup {NoQuote}]
  BY <1>1 DEF CallFits, NoCall, SessionInv, Books
<1> QED BY <1>1, <1>2, QuoteStep

LEMMA RecordTyped ==
    ASSUME NEW p \in Given, p.action \in Actions, day \in Nat \ {0},
           NEW s \in BOOLEAN, NEW f \in BOOLEAN,
           f /\ p.action \in RiskReducing => Gain(IntentOf(p, call.facts)) \in Int
    PROVE  Record(p, s, f) \in Trade
<1>1. p.ticker \in Tickers /\ p.sector \in STRING /\ p.stop \in Nat
  BY GivenShape
<1> DEFINE g == IF f /\ p.action \in RiskReducing THEN Gain(IntentOf(p, call.facts)) ELSE 0
<1>2. g \in Int
  OBVIOUS
<1>3. Record(p, s, f) = [ticker |-> p.ticker, action |-> p.action, sector |-> p.sector,
                         stop |-> p.stop, sent |-> s, filled |-> f, day |-> day, gain |-> g]
  BY DEF Record
<1> HIDE DEF g
<1> QED BY <1>1, <1>2, <1>3 DEF Trade

\* The starting equity, when an evaluation or a snapshot establishes it.
LEMMA StartEstablished ==
    ASSUME StartKnown, startEquity = NoEquity => Equity' = StartCash,
           startEquity' = IF startEquity = NoEquity THEN Equity' ELSE startEquity
    PROVE  StartKnown'
BY LedgerAssumption DEF StartKnown, NoEquity

LEMMA BlockStep ==
    ASSUME SessionInv, day \in Nat \ {0}, BlocksIntent, day' = day
    PROVE  SessionInv'
<1> DEFINE p == call.proposal  r == Record(p, FALSE, FALSE)
<1>1. /\ UNCHANGED <<bookVars, quote, day>> /\ trades' = Append(trades, r)
      /\ startEquity' = IF startEquity = NoEquity THEN Equity' ELSE startEquity
      /\ call' = NoCall /\ p \in Given /\ CreatesIntent(p, call.facts, call.holds)
  BY DEF BlocksIntent, Concludes, ledgerVars, SessionInv, CallFits
<1>2. Books' /\ CallFits' /\ Held' = Held
  BY <1>1 DEF SessionInv, Books, CallFits, NoCall, bookVars, Held
<1>3. r \in Trade
  BY <1>1, CreatedIntent, RecordTyped
<1>4. r.day = day /\ r.sent = FALSE /\ r.filled = FALSE /\ r.gain = 0
  BY DEF Record
<1> HIDE DEF r
<1>5. SumOver(pnl', Tickers) = SumOver(pnl, Tickers) + r.gain
  <2>1. pnl' = pnl /\ SumOver(pnl, Tickers) \in Int
    BY <1>1, SumIsInt, TickersAssumption DEF bookVars, SessionInv, Books
  <2> QED BY <1>4, <2>1
<1>6. TradesTyped' /\ GainsLogged' /\ Watched' /\ AllowedMeansFilled'
  BY <1>1, <1>2, <1>3, <1>4, <1>5, TradeIsLogged
<1>7. StartKnown'
  <2>1. StartKnown /\ Books
    BY DEF SessionInv
  <2>2. ASSUME startEquity = NoEquity PROVE Equity' = StartCash
    <3>1. Equity = StartCash
      BY <2>1, <2>2, EquityAtStart DEF StartKnown
    <3>2. Equity' = Equity
      BY <1>1 DEF Equity, MarketValue, bookVars
    <3> QED BY <3>1, <3>2
  <2> QED BY <1>1, <2>1, <2>2, StartEstablished
<1> QED BY <1>2, <1>6, <1>7 DEF SessionInv

\* What an evaluation's fill does: the books stay right, the record's gain is
\* the one that the paper broker reported, and only a purchase adds a holding.
LEMMA FillLogged ==
    ASSUME Books, NEW i, Tradable(i), FillsIntent(i)
    PROVE  /\ Books'
           /\ i.action \in RiskReducing =>
                 /\ Gain(i) \in Int
                 /\ SumOver(pnl', Tickers) = SumOver(pnl, Tickers) + Gain(i)
           /\ i.action \in ExposureIncreasing =>
                 SumOver(pnl', Tickers) = SumOver(pnl, Tickers)
           /\ \A t \in Held' : t \in Held \/ (t = i.ticker /\ i.action \in ExposureIncreasing)
<1> DEFINE t == i.ticker
<1>1. Books' /\ t \in Tickers /\ pnl \in [Tickers -> Int] /\ units \in [Tickers -> Nat]
  BY FillKeepsBooks DEF Tradable, Books
<1>2. SumOver(pnl, Tickers) \in Int
  BY <1>1, SumIsInt, TickersAssumption
<1>3. ASSUME NEW m, NEW u, NEW c, NEW g, MoneyMoves(t, m, u, c, g)
      PROVE  /\ g \in Int /\ SumOver(pnl', Tickers) = SumOver(pnl, Tickers) + g
             /\ \A s \in Held' : s \in Held \/ s = t
  <2>1. /\ g \in Int /\ pnl' = [pnl EXCEPT ![t] = pnl[t] + g]
        /\ units' = [units EXCEPT ![t] = u] /\ pnl[t] \in Int
    BY <1>1, <1>3 DEF MoneyMoves
  <2>2. pnl[t] + g \in Int /\ (pnl[t] + g) - pnl[t] = g
    BY <2>1
  <2>3. SumOver(pnl', Tickers) = SumOver(pnl, Tickers) + ((pnl[t] + g) - pnl[t])
    BY <1>1, <2>1, <2>2, SumUpdates, TickersAssumption
  <2>4. \A s \in Held' : s \in Held \/ s = t
    BY <1>1, <2>1 DEF Held
  <2> QED BY <2>1, <2>2, <2>3, <2>4
<1>4. CASE Buys(i)
  <2>1. MoneyMoves(t, -i.dollars, units[t] + Quantity(i), basis[t] + i.dollars, 0)
    BY <1>4, BuyMoves DEF FillsIntent
  <2>2. i.action \in ExposureIncreasing /\ i.action \notin RiskReducing
    BY <1>4 DEF Buys, ExposureIncreasing, RiskReducing
  <2>3. /\ SumOver(pnl', Tickers) = SumOver(pnl, Tickers) + 0
        /\ \A s \in Held' : s \in Held \/ s = t
    BY <1>3, <2>1
  <2> QED BY <1>1, <1>2, <2>2, <2>3
<1>5. CASE Sells(i)
  <2>1. /\ MoneyMoves(t, Proceeds(i), units[t] - Quantity(i), basis[t] - Released(i), Gain(i))
        /\ units[t] > 0
    BY <1>5, SaleMoves DEF FillsIntent
  <2>2. i.action \in RiskReducing /\ i.action \notin ExposureIncreasing
    BY <1>5 DEF Sells, ExposureIncreasing, RiskReducing
  <2>3. /\ Gain(i) \in Int /\ SumOver(pnl', Tickers) = SumOver(pnl, Tickers) + Gain(i)
        /\ \A s \in Held' : s \in Held \/ s = t
    BY <1>3, <2>1
  <2>4. t \in Held
    BY <1>1, <2>1 DEF Held
  <2> QED BY <1>1, <2>2, <2>3, <2>4
<1> QED BY <1>4, <1>5 DEF FillsIntent

\* What is executed is filled, and recorded as filled.
LEMMA ExecutionFills ==
    ASSUME SessionInv, ExecutesIntent,
           NEW p, p = call.proposal, NEW i, i = IntentOf(p, call.facts)
    PROVE  /\ p \in Given /\ CreatesIntent(p, call.facts, call.holds)
           /\ Tradable(i) /\ i.ticker = p.ticker /\ i.action = p.action
           /\ p.action \in Actions
           /\ p.action \in ExposureIncreasing => p.stop # NoStop /\ p.sector # "none"
           /\ FillsIntent(i) /\ trades' = Append(trades, Record(p, TRUE, TRUE))
           /\ startEquity' = IF startEquity = NoEquity THEN Equity' ELSE startEquity
           /\ call' = NoCall
           /\ \A t \in Held' : t \in Held \/ (t = i.ticker /\ i.action \in ExposureIncreasing)
<1>1. /\ p \in Given /\ quote[p.ticker] \in Prices
      /\ CreatesIntent(p, call.facts, call.holds) /\ ControllerAllows(i)
  BY DEF ExecutesIntent, SessionInv, CallFits
<1>2. /\ Tradable(i) /\ i.ticker = p.ticker /\ i.action = p.action /\ p.action \in Actions
      /\ p.action \in ExposureIncreasing => p.stop # NoStop /\ p.sector # "none"
  BY <1>1, CreatedIntent
<1>3. Fillable(i)
  BY <1>1, <1>2, AllowedIsFillable DEF SessionInv
<1>4. /\ FillsIntent(i) /\ trades' = Append(trades, Record(p, TRUE, TRUE))
      /\ startEquity' = IF startEquity = NoEquity THEN Equity' ELSE startEquity
      /\ call' = NoCall
  BY <1>3 DEF ExecutesIntent, Concludes
<1>5. \A t \in Held' : t \in Held \/ (t = i.ticker /\ i.action \in ExposureIncreasing)
  BY <1>2, <1>4, FillLogged DEF SessionInv
<1> QED BY <1>1, <1>2, <1>4, <1>5

LEMMA ExecuteStep ==
    ASSUME SessionInv, day \in Nat \ {0}, ExecutesIntent, day' = day
    PROVE  SessionInv'
<1> DEFINE p == call.proposal  i == IntentOf(p, call.facts)  r == Record(p, TRUE, TRUE)
<1>1. p \in Given
  BY ExecutionFills
<1>2. /\ Tradable(i) /\ i.ticker = p.ticker /\ i.action = p.action /\ p.action \in Actions
      /\ p.action \in ExposureIncreasing => p.stop # NoStop /\ p.sector # "none"
  BY ExecutionFills
<1>3. /\ FillsIntent(i) /\ trades' = Append(trades, r)
      /\ startEquity' = IF startEquity = NoEquity THEN Equity' ELSE startEquity
      /\ call' = NoCall
  BY ExecutionFills
<1>4. /\ Books'
      /\ i.action \in RiskReducing =>
            /\ Gain(i) \in Int
            /\ SumOver(pnl', Tickers) = SumOver(pnl, Tickers) + Gain(i)
      /\ i.action \in ExposureIncreasing =>
            SumOver(pnl', Tickers) = SumOver(pnl, Tickers)
      /\ \A t \in Held' : t \in Held \/ (t = i.ticker /\ i.action \in ExposureIncreasing)
  BY <1>2, <1>3, FillLogged DEF SessionInv
<1>5. CallFits'
  BY <1>3 DEF CallFits, NoCall
<1>6. r \in Trade
  BY <1>1, <1>2, <1>4, RecordTyped
<1>7. /\ r.day = day /\ r.sent = TRUE /\ r.filled = TRUE /\ r.ticker = p.ticker
      /\ r.action = p.action /\ r.stop = p.stop /\ r.sector = p.sector
      /\ r.gain = IF p.action \in RiskReducing THEN Gain(i) ELSE 0
  BY DEF Record
<1>8. p.action \in RiskReducing \/ p.action \in ExposureIncreasing
  BY <1>2 DEF Actions
<1>9. SumOver(pnl, Tickers) \in Int
  BY SumIsInt, TickersAssumption DEF SessionInv, Books
<1> HIDE DEF r, i, p
<1>10. SumOver(pnl', Tickers) = SumOver(pnl, Tickers) + r.gain
  <2>1. CASE p.action \in RiskReducing
    BY <1>2, <1>4, <1>7, <2>1
  <2>2. CASE p.action \notin RiskReducing
    <3>1. SumOver(pnl', Tickers) = SumOver(pnl, Tickers) /\ r.gain = 0
      BY <1>2, <1>4, <1>7, <1>8, <2>2
    <3> QED BY <1>9, <3>1
  <2> QED BY <2>1, <2>2
<1>11. TradesTyped' /\ GainsLogged' /\ Watched' /\ AllowedMeansFilled'
  <2>1. \A t \in Held' : \/ t \in Held
                         \/ t = r.ticker /\ r.filled /\ r.action \in ExposureIncreasing
    BY <1>2, <1>4, <1>7
  <2>2. r.action \in ExposureIncreasing => r.stop # NoStop /\ r.sector # "none"
    BY <1>2, <1>7
  <2> QED BY <1>3, <1>6, <1>7, <1>10, <2>1, <2>2, TradeIsLogged
<1>12. StartKnown'
  <2>1. StartKnown /\ Books
    BY DEF SessionInv
  <2>2. ASSUME startEquity = NoEquity PROVE Equity' = StartCash
    <3>1. cash = StartCash /\ \A t \in Tickers : units[t] = 0
      BY <2>1, <2>2 DEF StartKnown
    <3>2. ~Sells(i)
      BY <1>2, <1>3, <2>1, <3>1, SaleMoves DEF FillsIntent, Tradable
    <3>3. Buys(i) /\ Fillable(i)
      BY <1>3, <3>2 DEF FillsIntent
    <3> QED BY <1>2, <2>1, <3>1, <3>3, EquityAfterPurchase
  <2> QED BY <1>3, <2>1, <2>2, StartEstablished
<1> QED BY <1>4, <1>5, <1>11, <1>12 DEF SessionInv

LEMMA RestartStep ==
    ASSUME SessionRestarts, day \in Nat \ {0}, day' = day
    PROVE  SessionInv'
<1> USE DEF SessionRestarts
<1>1. /\ cash' = StartCash /\ StartCash \in Nat
      /\ units' \in [Tickers -> Nat] /\ basis' \in [Tickers -> Nat]
      /\ quote' \in [Tickers -> Prices \cup {NoQuote}]
      /\ flow' \in [Tickers -> Int] /\ pnl' \in [Tickers -> Int]
  BY LedgerAssumption
<1>2. \A t \in Tickers : flow'[t] = 0 /\ pnl'[t] = 0 /\ basis'[t] = 0 /\ units'[t] = 0
  OBVIOUS
<1>3. SumOver(basis', Tickers) = 0 /\ SumOver(pnl', Tickers) = 0
  <2>1. \A t \in Tickers : basis'[t] = 0 /\ pnl'[t] = 0
    BY <1>2
  <2> HIDE DEF SessionRestarts
  <2> QED BY <2>1, SumOfZeros, TickersAssumption
<1>4. Books'
  BY <1>1, <1>2, <1>3 DEF Books
<1>5. TradesTyped' /\ CallFits' /\ AllowedMeansFilled'
  BY DEF TradesTyped, CallFits, AllowedMeansFilled
<1>6. GainsLogged'
  <2>1. GainsOf(trades)' = GainsOf(<<>>)
    BY DEF GainsOf
  <2> QED BY <1>3, <2>1, NoGains DEF GainsLogged
<1>7. Held' = {}
  BY <1>2 DEF Held
<1>8. Watched'
  BY <1>7 DEF Watched
<1>9. StartKnown'
  BY <1>1, <1>2 DEF StartKnown
<1> QED BY <1>4, <1>5, <1>6, <1>8, <1>9 DEF SessionInv

LEMMA FreshSession ==
    ASSUME SessionInit, day \in Nat \ {0}
    PROVE  SessionInv
<1> USE DEF SessionInit
<1>1. Books
  BY FreshBooks
<1>2. TradesTyped /\ CallFits /\ AllowedMeansFilled
  BY DEF TradesTyped, CallFits, AllowedMeansFilled
<1>3. GainsLogged
  <2>1. \A t \in Tickers : pnl[t] = 0
    BY DEF LedgerInit
  <2>2. SumOver(pnl, Tickers) = 0
    BY <2>1, SumOfZeros, TickersAssumption
  <2> QED BY <2>2, NoGains DEF GainsLogged
<1>4. Held = {} /\ cash = StartCash /\ \A t \in Tickers : units[t] = 0
  BY DEF Held, LedgerInit
<1>5. Watched /\ StartKnown
  BY <1>4 DEF Watched, StartKnown
<1> QED BY <1>1, <1>2, <1>3, <1>5 DEF SessionInv

\* daily_snapshot() finds a starting equity or takes the one of now for it.
LEMMA EstablishStep ==
    ASSUME SessionInv,
           UNCHANGED <<bookVars, quote, trades, call, day>>,
           startEquity' = IF startEquity = NoEquity THEN Equity ELSE startEquity
    PROVE  SessionInv' /\ startEquity' = StartCash
<1>1. /\ Books' /\ TradesTyped' /\ CallFits' /\ GainsLogged' /\ Watched'
      /\ AllowedMeansFilled'
  BY DEF bookVars, SessionInv, Books, TradesTyped, CallFits, GainsLogged, Watched, Held,
         Purchases, AllowedMeansFilled
<1>2. startEquity = NoEquity => Equity = StartCash
  BY EquityAtStart DEF SessionInv, StartKnown
<1>3. startEquity' = StartCash
  BY <1>2 DEF SessionInv, StartKnown
<1>4. StartKnown'
  BY <1>3, LedgerAssumption DEF StartKnown, NoEquity
<1> QED BY <1>1, <1>3, <1>4 DEF SessionInv

-----------------------------------------------------------------------------
\* What check_mechanical_stops builds

\* The greatest of a finite set of integers is one of them.
LEMMA GreatestExists ==
    ASSUME NEW S, IsFiniteSet(S), S \subseteq Int, S # {}
    PROVE  Max(S) \in S
<1> DEFINE G == {T \in SUBSET S : T = {} \/ \E x \in T : \A y \in T : x >= y}
<1>1. ASSUME NEW T \in SUBSET S, \A x \in T : T \ {x} \in G
      PROVE  T \in G
  <2>1. SUFFICES ASSUME T # {} PROVE \E x \in T : \A y \in T : x >= y
    OBVIOUS
  <2>2. PICK z \in T : TRUE
    BY <2>1
  <2>3. CASE T \ {z} = {}
    <3>1. \A y \in T : y = z
      BY <2>3
    <3> QED BY <2>2, <3>1
  <2>4. CASE T \ {z} # {}
    <3>1. PICK x \in T \ {z} : \A y \in T \ {z} : x >= y
      BY <1>1, <2>2, <2>4
    <3>2. x \in Int /\ z \in Int /\ \A y \in T : y = z \/ y \in T \ {z}
      BY <2>2
    <3>3. CASE x >= z
      BY <3>1, <3>2, <3>3
    <3>4. CASE z >= x
      <4>1. \A y \in T : z >= y
        BY <3>1, <3>2, <3>4
      <4> QED BY <2>2, <4>1
    <3> QED BY <3>2, <3>3, <3>4
  <2> QED BY <2>3, <2>4
<1> HIDE DEF G
<1>2. S \in G
  BY <1>1, SubsetInduction
<1>3. \E x \in S : \A y \in S : x >= y
  BY <1>2 DEF G
<1> QED BY <1>3 DEF Max

LEMMA LastPurchase ==
    ASSUME TradesTyped, NEW t, Purchases(t) # {}
    PROVE  Max(Purchases(t)) \in Purchases(t)
<1>1. Purchases(t) \subseteq 1..Len(trades) /\ Len(trades) \in Nat
  BY DEF Purchases, TradesTyped
<1>2. IsFiniteSet(1..Len(trades))
  BY <1>1, FS_Interval
<1>3. IsFiniteSet(Purchases(t)) /\ Purchases(t) \subseteq Int
  BY <1>1, <1>2, FS_Subset
<1> QED BY <1>3, GreatestExists

LEMMA SectorIsText ==
    ASSUME TradesTyped, NEW t, Purchases(t) # {}
    PROVE  SectorForTicker(t) \in STRING
<1>1. Max(Purchases(t)) \in DOMAIN trades
  BY LastPurchase DEF Purchases
<1>2. \A k \in DOMAIN trades : trades[k].sector \in STRING
  <2>1. \A k \in DOMAIN trades : trades[k] \in Trade
    BY DEF TradesTyped
  <2> QED BY <2>1 DEF Trade
<1> QED BY <1>1, <1>2 DEF SectorForTicker

LEMMA ListOfSet ==
    ASSUME NEW T, IsFiniteSet(T)
    PROVE  SetToSeq(T) \in Seq(T)
<1> DEFINE n == Cardinality(T)
<1>1. n \in Nat
  BY FS_CardinalityType
<1>2. \E f \in [1..n -> T] : IsInjective(f)
  <2>1. PICK f : f \in Bijection(1..n, T)
    BY FS_CardinalityType DEF ExistsBijection
  <2>2. f \in [1..n -> T] /\ IsInjective(f)
    BY <2>1 DEF Bijection, Injection, IsInjective
  <2> QED BY <2>2
<1>3. SetToSeq(T) \in [1..n -> T]
  BY <1>2 DEF SetToSeq
<1> QED BY <1>1, <1>3

LEMMA ExitsTyped ==
    ASSUME TradesTyped, runs \in Nat, NEW now \in [Held -> Prices \cup {NoQuote}],
           NEW hit, hit \subseteq {t \in Held : now[t] # NoQuote /\ StopForTicker(t) # NoStop}
    PROVE  /\ \A t \in hit : MechanicalExit(t, now[t]) \in StopExits
           /\ SetToSeq({MechanicalExit(t, now[t]) : t \in hit}) \in Seq(StopExits)
<1> DEFINE T == {MechanicalExit(t, now[t]) : t \in hit}
<1>1. ASSUME NEW t \in hit PROVE MechanicalExit(t, now[t]) \in StopExits
  <2>1. t \in Tickers /\ now[t] \in Prices
    BY DEF Held
  <2>2. (9 * now[t]) \div 10 \in Nat /\ (11 * now[t]) \div 10 \in Nat
    <3>1. now[t] \in Nat
      BY <2>1, LedgerAssumption
    <3>2. \A x \in Nat : (9 * x) \div 10 \in Nat /\ (11 * x) \div 10 \in Nat
      OBVIOUS
    <3> QED BY <3>1, <3>2
  <2>3. SectorForTicker(t) \in STRING
    BY SectorIsText DEF StopForTicker
  <2> QED BY <2>1, <2>2, <2>3 DEF MechanicalExit, StopExits
<1>2. T \subseteq StopExits
  BY <1>1
<1>3. IsFiniteSet(T)
  <2>1. IsFiniteSet(hit)
    BY TickersAssumption, FS_Subset DEF Held
  <2> DEFINE f == [t \in hit |-> MechanicalExit(t, now[t])]
  <2>2. f \in Surjection(hit, T)
    BY DEF Surjection
  <2> HIDE DEF f, T
  <2> QED BY <2>1, <2>2, FS_Surjection
<1>4. SetToSeq(T) \in Seq(T)
  BY <1>3, ListOfSet
<1>5. SetToSeq(T) \in Seq(StopExits)
  BY <1>2, <1>4
<1> QED BY <1>1, <1>5

-----------------------------------------------------------------------------
\* The invariant

LEMMA ListsAreGiven ==
    /\ \A c \in CandidateLists : c \in Seq(Given)
    /\ \A r \in ReviewLists : r \in Seq(Proposals)
<1>1. Proposals \subseteq Given
  BY DEF Given
<1> QED BY <1>1, ProposalsAssumption

LEMMA TailTyped ==
    ASSUME NEW S, NEW s \in Seq(S), s # <<>>
    PROVE  Tail(s) \in Seq(S) /\ Head(s) \in S
OBVIOUS

LEMMA SInvInit == ASSUME Init PROVE SInv
<1> USE DEF Init, NoRun
<1>1. SessionInv
  BY FreshSession
<1>2. RunTyped
  BY RunnerAssumption DEF RunTyped, Phases
<1>3. CallIsOf /\ SnapshotReconciles
  BY DEF CallIsOf, SnapshotReconciles, NoSnapshot, SessionInit
<1> QED BY <1>1, <1>2, <1>3 DEF SInv

\* What does not belong to the evaluation in progress can happen only when
\* there is none, or in another phase.
LEMMA NobodyElse ==
    ASSUME SInv,
           AtRest \/ (Running /\ todo = <<>>)
    PROVE  call = NoCall
BY DEF SInv, CallIsOf, AtRest, Running

LEMMA MovesOn ==
    ASSUME SInv, Running, todo # <<>>, NEW stage, Moves(stage), call' = NoCall,
           SessionInv', day' = day, runs' = runs
    PROVE  SInv'
<1>1. RunTyped'
  BY TailTyped DEF SInv, RunTyped, Moves
<1>2. CallIsOf' /\ SnapshotReconciles'
  BY DEF SInv, CallIsOf, SnapshotReconciles, Moves
<1> QED BY <1>1, <1>2 DEF SInv

LEMMA EndKeepsSInv ==
    ASSUME SInv, EvaluationEnds
    PROVE  SInv'
<1>1. day \in Nat \ {0} /\ SessionInv /\ day' = day /\ runs' = runs /\ call # NoCall
  BY DEF SInv, RunTyped, EvaluationEnds, RefusesProposal, BlocksIntent, ExecutesIntent
<1>2. SessionInv' /\ call' = NoCall
  BY <1>1, RefusalStep, BlockStep, ExecuteStep
     DEF EvaluationEnds, RefusesProposal, BlocksIntent, ExecutesIntent, Concludes
<1>3. CASE call.by = "runner"
  <2>1. Running /\ todo # <<>>
    BY <1>1, <1>3 DEF SInv, CallIsOf
  <2>2. \E stage : Moves(stage)
    BY <1>3 DEF EvaluationEnds
  <2> QED BY <1>1, <1>2, <2>1, <2>2, MovesOn
<1>4. CASE call.by # "runner"
  <2>1. UNCHANGED <<phase, runVars>>
    BY <1>4 DEF EvaluationEnds
  <2> QED BY <1>1, <1>2, <2>1
          DEF SInv, RunTyped, CallIsOf, SnapshotReconciles, runVars
<1> QED BY <1>3, <1>4

LEMMA QuietKeepsSInv ==
    ASSUME SInv, UNCHANGED <<ledgerVars, sessionVars>>, call = NoCall,
           day' \in Nat \ {0}, day <= day', RunTyped', SnapshotReconciles'
    PROVE  SInv'
<1>1. SessionInv'
  BY QuietStep DEF SInv, RunTyped
<1>2. CallIsOf'
  BY DEF CallIsOf, sessionVars
<1> QED BY <1>1, <1>2 DEF SInv

LEMMA SInvNext ==
    ASSUME SInv, [Next]_vars
    PROVE  SInv'
<1>1. day \in Nat \ {0} /\ SessionInv /\ runs \in 0..MaxRuns /\ MaxRuns \in Nat
  BY RunnerAssumption DEF SInv, RunTyped
<1>2. CASE StartsRun
  <2>1. call = NoCall /\ day' = day /\ UNCHANGED <<ledgerVars, sessionVars>>
    BY <1>2 DEF StartsRun, AtRest
  <2>2. RunTyped'
    BY <1>1, <1>2, ListsAreGiven DEF StartsRun, SInv, RunTyped, Phases
  <2>3. SnapshotReconciles'
    BY <1>2 DEF StartsRun, SnapshotReconciles, NoSnapshot
  <2> QED BY <1>1, <2>1, <2>2, <2>3, QuietKeepsSInv
<1>3. CASE EvaluatesNext
  <2> DEFINE p == Head(todo)
  <2>1. /\ QuoteArrives(p, AccountKwargs(facts, p), FALSE, "runner")
        /\ Running /\ todo # <<>> /\ UNCHANGED <<day, phase, runVars, runs>>
    BY <1>3 DEF EvaluatesNext
  <2>2. p \in Given
    BY <2>1, TailTyped DEF SInv, RunTyped
  <2>3. SessionInv'
    BY <1>1, <2>1, <2>2, ArrivalStep
  <2>4. call'.by = "runner" /\ call'.proposal = p
    BY <2>1 DEF QuoteArrives
  <2>5. CallIsOf'
    BY <2>1, <2>4 DEF CallIsOf, Running, runVars
  <2>6. RunTyped' /\ SnapshotReconciles'
    BY <2>1 DEF SInv, RunTyped, SnapshotReconciles, runVars
  <2> QED BY <2>3, <2>5, <2>6 DEF SInv
<1>4. CASE QuoteUnavailable
  <2>1. /\ UNCHANGED <<ledgerVars, sessionVars, day, runs>> /\ Running /\ todo # <<>>
        /\ call = NoCall /\ Moves("quote_unavailable")
    BY <1>4 DEF QuoteUnavailable
  <2>2. SessionInv' /\ call' = NoCall
    BY <1>1, <2>1, QuietStep DEF sessionVars
  <2> QED BY <2>1, <2>2, MovesOn
<1>5. CASE QuoteRaises
  <2>1. /\ UNCHANGED <<ledgerVars, sessionVars, day, runs, reviews, snapshot>>
        /\ call = NoCall /\ phase' = "raised" /\ todo' = <<>>
    BY <1>5 DEF QuoteRaises
  <2>2. RunTyped' /\ SnapshotReconciles'
    BY <2>1 DEF SInv, RunTyped, SnapshotReconciles, Phases
  <2> QED BY <1>1, <2>1, <2>2, QuietKeepsSInv
<1>6. CASE EvaluationEnds
  BY <1>6, EndKeepsSInv
<1>7. CASE ChecksStops
  <2>1. /\ UNCHANGED <<ledgerVars, sessionVars, day, runs, reviews, snapshot>>
        /\ phase' = "reviews" /\ call = NoCall
    BY <1>7, NobodyElse DEF ChecksStops, Running
  <2>2. todo' \in Seq(Given)
    <3>1. PICK now \in [Held -> Prices \cup {NoQuote}] :
             LET hit == {t \in Held : /\ now[t] # NoQuote
                                      /\ StopForTicker(t) # NoStop
                                      /\ now[t] <= StopForTicker(t)}
             IN  todo' = SetToSeq({MechanicalExit(t, now[t]) : t \in hit}) \o reviews
      BY <1>7 DEF ChecksStops
    <3> DEFINE hit == {t \in Held : /\ now[t] # NoQuote
                                    /\ StopForTicker(t) # NoStop
                                    /\ now[t] <= StopForTicker(t)}
               s == SetToSeq({MechanicalExit(t, now[t]) : t \in hit})
    <3>2. s \in Seq(StopExits)
      <4>1. hit \subseteq {t \in Held : now[t] # NoQuote /\ StopForTicker(t) # NoStop}
        OBVIOUS
      <4>2. TradesTyped /\ runs \in Nat
        BY <1>1 DEF SInv, SessionInv
      <4> HIDE DEF hit
      <4> QED BY <4>1, <4>2, ExitsTyped
    <3>3. s \in Seq(Given) /\ reviews \in Seq(Given)
      BY <3>2 DEF Given, SInv, RunTyped
    <3>4. todo' = s \o reviews
      BY <3>1
    <3> QED BY <3>3, <3>4
  <2>3. RunTyped' /\ SnapshotReconciles'
    BY <2>1, <2>2 DEF SInv, RunTyped, SnapshotReconciles, Phases
  <2> QED BY <1>1, <2>1, <2>3, QuietKeepsSInv
<1>8. CASE FinishesRun
  <2>1. /\ UNCHANGED <<bookVars, quote, trades, call, day, runs, todo, reviews>>
        /\ phase' = "finished" /\ call = NoCall
        /\ startEquity' = IF startEquity = NoEquity THEN Equity ELSE startEquity
        /\ snapshot' = [total |-> Equity - startEquity', realized |-> RealizedPnl,
                        unrealized |-> UnrealizedPnl]
    BY <1>8, NobodyElse DEF FinishesRun, Running, ledgerVars
  <2>2. SessionInv' /\ startEquity' = StartCash
    BY <1>1, <2>1, EstablishStep
  <2>3. SnapshotReconciles'
    BY <1>1, <2>1, <2>2, ProfitAddsUp DEF SnapshotReconciles, SessionInv
  <2>4. RunTyped'
    BY <2>1 DEF SInv, RunTyped, Phases
  <2>5. CallIsOf'
    BY <2>1 DEF CallIsOf
  <2> QED BY <2>2, <2>3, <2>4, <2>5 DEF SInv
<1>9. CASE PersistStep
  <2>1. /\ UNCHANGED <<ledgerVars, sessionVars, day, runVars, runs>> /\ call = NoCall
        /\ phase' \in Phases
    BY <1>9 DEF PersistStep, AppendsResearch, AppendsTrade, AppendsSnapshot, MayAppend,
                Phases, SInv, RunTyped
  <2>2. RunTyped' /\ SnapshotReconciles'
    BY <2>1 DEF SInv, RunTyped, SnapshotReconciles, runVars
  <2> QED BY <1>1, <2>1, <2>2, QuietKeepsSInv
<1>10. CASE DirectEvaluation
  <2>1. PICK p \in DirectProposals :
           QuoteArrives(p, AccountKwargs(AccountState, p), TRUE, "caller")
    BY <1>10 DEF DirectEvaluation
  <2>2. p \in Given /\ UNCHANGED <<day, phase, runVars, runs>> /\ ~Running
    BY <1>10 DEF DirectEvaluation, Given, Proposals, AtRest, Running
  <2>3. SessionInv'
    BY <1>1, <2>1, <2>2, ArrivalStep
  <2>4. call'.by = "caller" /\ ~Running'
    BY <2>1, <2>2 DEF QuoteArrives, Running
  <2>5. CallIsOf'
    BY <2>4 DEF CallIsOf
  <2>6. RunTyped' /\ SnapshotReconciles'
    BY <2>2 DEF SInv, RunTyped, SnapshotReconciles, runVars
  <2> QED BY <2>3, <2>5, <2>6 DEF SInv
<1>11. CASE DirectTracking
  <2>1. RefreshesHeld /\ UNCHANGED <<day, phase, runVars, runs>> /\ call' = NoCall
    BY <1>11 DEF DirectTracking, RefreshesHeld, AtRest, sessionVars
  <2>2. SessionInv'
    BY <1>1, <2>1, RefreshStep
  <2>3. RunTyped' /\ SnapshotReconciles' /\ CallIsOf'
    BY <2>1 DEF SInv, RunTyped, SnapshotReconciles, CallIsOf, runVars
  <2> QED BY <2>2, <2>3 DEF SInv
<1>12. CASE Restart
  <2>1. SessionRestarts /\ UNCHANGED <<day, runs>> /\ call' = NoCall
    BY <1>12 DEF Restart, SessionRestarts
  <2>2. SessionInv'
    BY <1>1, <2>1, RestartStep
  <2>3. RunTyped' /\ SnapshotReconciles' /\ CallIsOf'
    BY <1>12, <2>1 DEF Restart, SInv, RunTyped, SnapshotReconciles, CallIsOf, Phases, NoSnapshot
  <2> QED BY <2>2, <2>3 DEF SInv
<1>13. CASE NextDay
  <2>1. /\ UNCHANGED <<ledgerVars, sessionVars, phase, runVars, runs>> /\ call = NoCall
        /\ day' = day + 1
    BY <1>13 DEF NextDay, AtRest
  <2>2. day' \in Nat \ {0} /\ day <= day'
    BY <1>1, <2>1
  <2>3. RunTyped' /\ SnapshotReconciles'
    BY <2>1, <2>2 DEF SInv, RunTyped, SnapshotReconciles, runVars
  <2> QED BY <1>1, <2>1, <2>2, <2>3, QuietKeepsSInv
<1>14. CASE UNCHANGED vars
  <2>1. UNCHANGED <<ledgerVars, sessionVars, day, phase, runVars, runs>>
    BY <1>14 DEF vars
  <2>2. SessionInv'
    BY <1>1, <2>1, QuietStep
  <2>3. RunTyped' /\ SnapshotReconciles' /\ CallIsOf'
    BY <2>1 DEF SInv, RunTyped, SnapshotReconciles, CallIsOf, runVars, sessionVars, Running
  <2> QED BY <2>2, <2>3 DEF SInv
<1> QED BY <1>2, <1>3, <1>4, <1>5, <1>6, <1>7, <1>8, <1>9, <1>10, <1>11, <1>12, <1>13, <1>14
        DEF Next, RunStep

\* The invariant of the session holds in every state of the daily lifecycle.
THEOREM SessionInvariant == Spec => []SInv
<1>1. Init => SInv
  BY SInvInit
<1>2. SInv /\ [Next]_vars => SInv'
  BY SInvNext
<1> QED BY <1>1, <1>2, PTL DEF Spec

\* Every order that the controller lets through is filled, for any proposals
\* and at any prices: no submission that is reported "executed" was rejected
\* by the paper broker.
THEOREM AllowedIsExecuted == Spec => []AllowedMeansFilled
<1>1. SInv => AllowedMeansFilled
  BY DEF SInv, SessionInv
<1> QED BY <1>1, SessionInvariant, PTL

\* The total profit of every snapshot is its realized and unrealized profit
\* together, whatever was traded before and wherever the prices are.
THEOREM SnapshotsReconcile == Spec => []SnapshotReconciles
<1>1. SInv => SnapshotReconciles
  BY DEF SInv
<1> QED BY <1>1, SessionInvariant, PTL

\* Every position has a stop and a sector on record.
THEOREM PositionsAreWatched == Spec => []HeldIsWatched
<1>1. ASSUME SInv PROVE HeldIsWatched
  <2> SUFFICES ASSUME NEW t \in Held
               PROVE  StopForTicker(t) # NoStop /\ SectorForTicker(t) # "none"
    BY DEF HeldIsWatched
  <2>1. Purchases(t) # {} /\ TradesTyped
    BY <1>1 DEF SInv, SessionInv, Watched
  <2>2. Max(Purchases(t)) \in Purchases(t)
    BY <2>1, LastPurchase
  <2>3. /\ trades[Max(Purchases(t))].stop # NoStop
        /\ trades[Max(Purchases(t))].sector # "none"
    BY <1>1, <2>2 DEF SInv, SessionInv, Watched, Purchases
  <2> QED BY <2>1, <2>3 DEF StopForTicker, SectorForTicker
<1> QED BY <1>1, SessionInvariant, PTL
=============================================================================

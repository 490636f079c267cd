----------------------- MODULE FakePaperBrokerProofs -----------------------
(***************************************************************************)
(* What every fill of FakePaperBroker does to its books, whoever submits   *)
(* the intent: the lemmas that the proofs about the ledger on its own and  *)
(* about the daily session rest on.                                        *)
(***************************************************************************)
EXTENDS FakePaperBroker, SumProofs

\* No debt, no short position, valid quotes; and each dollar that came in is
\* the starting cash's, is a gain or a cost.
Books ==
    /\ cash \in Nat
    /\ units \in [Tickers -> Nat] /\ basis \in [Tickers -> Nat]
    /\ quote \in [Tickers -> Prices \cup {NoQuote}]
    /\ flow \in [Tickers -> Int] /\ pnl \in [Tickers -> Int]
    /\ \A t \in Tickers : /\ flow[t] = pnl[t] - basis[t]
                          /\ units[t] = 0 => basis[t] = 0
    /\ cash + SumOver(basis, Tickers) = StartCash + SumOver(pnl, Tickers)

\* An intent of the right shape, whose amount every price divides.
Tradable(i) ==
    /\ i.ticker \in Tickers /\ i.action \in Actions /\ i.dollars \in Nat
    /\ \A p \in Prices : i.dollars % p = 0

-----------------------------------------------------------------------------

\* A share of a cost in proportion n/u is no more than the cost.
LEMMA ShareOfCost ==
    ASSUME NEW b \in Nat, NEW n \in Nat, NEW u \in Nat, u > 0, n <= u
    PROVE  (b * n) \div u \in 0..b
<1> DEFINE q == (b * n) \div u
<1>1. b * n \in Nat /\ b * n <= b * u
  OBVIOUS
<1>2. q \in Int /\ u * q <= b * n /\ b * n < u * (q + 1)
  BY <1>1
<1>3. q >= 0
  <2> SUFFICES ASSUME q + 1 <= 0 PROVE FALSE
    BY <1>2
  <2>1. u * (q + 1) <= 0
    BY <1>2
  <2> QED BY <2>1, <1>1, <1>2
<1>4. q <= b
  <2> SUFFICES ASSUME q >= b + 1 PROVE FALSE
    BY <1>2
  <2>1. u * q >= u * (b + 1)
    BY <1>2
  <2>2. u * (b + 1) = b * u + u
    OBVIOUS
  <2> QED BY <2>1, <2>2, <1>1, <1>2
<1> QED BY <1>2, <1>3, <1>4

\* An amount that a price divides buys units worth exactly the amount.
LEMMA ExactUnits ==
    ASSUME NEW d \in Nat, NEW p \in Nat \ {0}, d % p = 0
    PROVE  d \div p \in Nat /\ (d \div p) * p = d
<1>1. d = p * (d \div p) + (d % p)
  OBVIOUS
<1>2. d \div p \in Nat
  OBVIOUS
<1> QED BY <1>1, <1>2

\* The quantities of a fill: units are traded at a valid price, a purchase is
\* worth its amount, a sale takes no more units than there are.
LEMMA FillQuantities ==
    ASSUME Books, NEW i, Tradable(i), Fillable(i)
    PROVE  /\ quote[i.ticker] \in Nat \ {0}
           /\ Quantity(i) \in Nat /\ Quantity(i) > 0
           /\ i.action # "EXIT" => Quantity(i) * quote[i.ticker] = i.dollars
           /\ i.action \in RiskReducing =>
                /\ Quantity(i) <= units[i.ticker]
                /\ units[i.ticker] > 0
                /\ Released(i) \in 0..basis[i.ticker]
<1> USE DEF Tradable
<1>1. quote[i.ticker] \in Prices /\ quote[i.ticker] \in Nat \ {0}
  BY LedgerAssumption DEF Books, Fillable, NoQuote
<1>2. /\ i.dollars \div quote[i.ticker] \in Nat
      /\ (i.dollars \div quote[i.ticker]) * quote[i.ticker] = i.dollars
  BY <1>1, ExactUnits
<1>3. units[i.ticker] \in Nat /\ basis[i.ticker] \in Nat
  BY DEF Books
<1>4. Quantity(i) \in Nat
  BY <1>2, <1>3 DEF Quantity
<1>5. i.action # "EXIT" => Quantity(i) * quote[i.ticker] = i.dollars
  BY <1>2 DEF Quantity
<1>6. ASSUME i.action \in RiskReducing
      PROVE  Quantity(i) <= units[i.ticker] /\ units[i.ticker] > 0
  <2>1. CASE i.action = "REDUCE"
    BY <2>1 DEF Fillable
  <2>2. CASE i.action = "EXIT"
    BY <2>2, <1>3 DEF Fillable, Quantity
  <2> QED BY <1>6, <2>1, <2>2 DEF RiskReducing
<1>7. ASSUME i.action \in RiskReducing
      PROVE  Released(i) \in 0..basis[i.ticker]
  BY <1>3, <1>4, <1>6, <1>7, ShareOfCost DEF Released
<1>8. Quantity(i) > 0
  <2>1. CASE i.action = "EXIT"
    BY <1>3, <1>6, <2>1 DEF Quantity, RiskReducing
  <2>2. CASE i.action # "EXIT"
    <3>1. i.dollars > 0 /\ Quantity(i) * quote[i.ticker] = i.dollars
      BY <1>5, <2>2 DEF Fillable, RiskReducing
    <3> QED BY <1>1, <1>4, <3>1
  <2> QED BY <2>1, <2>2
<1> QED BY <1>1, <1>4, <1>5, <1>6, <1>7, <1>8

\* What a fill is: money m moves, the position of t is left with u units at a
\* cost of c, and a gain g is reported.
MoneyMoves(t, m, u, c, g) ==
    /\ m \in Int /\ u \in Nat /\ c \in Nat /\ g \in Int
    /\ cash' = cash + m /\ cash' \in Nat
    /\ units' = [units EXCEPT ![t] = u]
    /\ basis' = [basis EXCEPT ![t] = c]
    /\ flow' = [flow EXCEPT ![t] = flow[t] + m]
    /\ pnl' = [pnl EXCEPT ![t] = pnl[t] + g]
    /\ quote' = quote
    /\ m + c = basis[t] + g
    /\ u = 0 => c = 0

LEMMA BuyMoves ==
    ASSUME Books, NEW i, Tradable(i), Fillable(i), Buys(i)
    PROVE  /\ MoneyMoves(i.ticker, -i.dollars, units[i.ticker] + Quantity(i),
                    basis[i.ticker] + i.dollars, 0)
           /\ units[i.ticker] + Quantity(i) > 0
<1> DEFINE t == i.ticker  n == Quantity(i)
<1>1. t \in Tickers /\ i.action # "EXIT" /\ i.dollars \in 1..cash
  BY DEF Tradable, Buys, Fillable, ExposureIncreasing, RiskReducing
<1>2. quote[t] \in Nat \ {0} /\ n \in Nat /\ n > 0 /\ n * quote[t] = i.dollars
  BY <1>1, FillQuantities
<1>3. /\ cash \in Nat /\ units[t] \in Nat /\ basis[t] \in Nat
      /\ flow[t] \in Int /\ pnl[t] \in Int
  BY <1>1 DEF Books
<1>4. CostAfterBuy(i) = basis[t] + i.dollars
  BY <1>2 DEF CostAfterBuy
<1>5. /\ cash' = cash + (-i.dollars)
      /\ units' = [units EXCEPT ![t] = units[t] + n]
      /\ basis' = [basis EXCEPT ![t] = basis[t] + i.dollars]
      /\ flow' = [flow EXCEPT ![t] = flow[t] + (-i.dollars)]
      /\ pnl' = [pnl EXCEPT ![t] = pnl[t] + 0]
      /\ quote' = quote
  BY <1>4 DEF Buys, Settles
<1>6. -i.dollars \in Int /\ cash + (-i.dollars) \in Nat /\ units[t] + n \in Nat
      /\ units[t] + n > 0 /\ basis[t] + i.dollars \in Nat
      /\ -i.dollars + (basis[t] + i.dollars) = basis[t] + 0
  BY <1>1, <1>2, <1>3
<1> HIDE DEF n
<1> QED BY <1>5, <1>6 DEF MoneyMoves, n

LEMMA SaleMoves ==
    ASSUME Books, NEW i, Tradable(i), Fillable(i), Sells(i)
    PROVE  /\ MoneyMoves(i.ticker, Proceeds(i), units[i.ticker] - Quantity(i),
                    basis[i.ticker] - Released(i), Gain(i))
           /\ units[i.ticker] > 0
<1> DEFINE t == i.ticker  n == Quantity(i)  r == Released(i)  m == Proceeds(i)
<1>1. t \in Tickers /\ i.action \in RiskReducing
  BY DEF Tradable, Sells
<1>2. /\ quote[t] \in Nat \ {0} /\ n \in Nat /\ n <= units[t] /\ units[t] > 0
      /\ r \in 0..basis[t]
  BY <1>1, FillQuantities
<1>3. m \in Nat
  BY <1>2 DEF Proceeds
<1>4. /\ cash \in Nat /\ units[t] \in Nat /\ basis[t] \in Nat
      /\ flow[t] \in Int /\ pnl[t] \in Int
  BY <1>1 DEF Books
<1>5. n = units[t] => r = basis[t]
  BY DEF Released
<1>6. /\ cash' = cash + m
      /\ units' = [units EXCEPT ![t] = units[t] - n]
      /\ basis' = [basis EXCEPT ![t] = basis[t] - r]
      /\ flow' = [flow EXCEPT ![t] = flow[t] + m]
      /\ pnl' = [pnl EXCEPT ![t] = pnl[t] + Gain(i)]
      /\ quote' = quote
  BY DEF Sells, Settles
<1>7. Gain(i) = m - r
  BY DEF Gain
<1> HIDE DEF m, n, r
<1>8. /\ m \in Int /\ cash + m \in Nat /\ units[t] - n \in Nat /\ basis[t] - r \in Nat
      /\ Gain(i) \in Int /\ m + (basis[t] - r) = basis[t] + Gain(i)
      /\ units[t] - n = 0 => basis[t] - r = 0
  BY <1>2, <1>3, <1>4, <1>5, <1>7
<1> QED BY <1>2, <1>6, <1>8 DEF MoneyMoves, m, n, r

\* Such a move keeps the books.
LEMMA MoveKeepsBooks ==
    ASSUME Books, NEW t \in Tickers, NEW m, NEW u, NEW c, NEW g, MoneyMoves(t, m, u, c, g)
    PROVE  Books'
<1> USE DEF MoneyMoves
<1>1. /\ cash' \in Nat /\ units' \in [Tickers -> Nat] /\ basis' \in [Tickers -> Nat]
      /\ quote' \in [Tickers -> Prices \cup {NoQuote}]
  BY DEF Books
<1>2. flow' \in [Tickers -> Int] /\ pnl' \in [Tickers -> Int]
  <2>1. flow[t] + m \in Int /\ pnl[t] + g \in Int
    BY DEF Books
  <2> QED BY <2>1 DEF Books
<1>3. ASSUME NEW s \in Tickers
      PROVE  flow'[s] = pnl'[s] - basis'[s] /\ (units'[s] = 0 => basis'[s] = 0)
  <2>1. CASE s = t
    <3>1. /\ flow'[t] = flow[t] + m /\ pnl'[t] = pnl[t] + g
          /\ basis'[t] = c /\ units'[t] = u
      BY DEF Books
    <3>2. /\ flow[t] = pnl[t] - basis[t] /\ flow[t] \in Int /\ pnl[t] \in Int
          /\ basis[t] \in Nat
      BY DEF Books
    <3> QED BY <2>1, <3>1, <3>2
  <2>2. CASE s # t
    BY <2>2 DEF Books
  <2> QED BY <2>1, <2>2
<1>4. /\ SumOver(basis', Tickers) = SumOver(basis, Tickers) + (c - basis[t])
      /\ SumOver(pnl', Tickers) = SumOver(pnl, Tickers) + g
  <2>1. /\ basis \in [Tickers -> Int] /\ pnl \in [Tickers -> Int]
        /\ basis' = [basis EXCEPT ![t] = c] /\ pnl' = [pnl EXCEPT ![t] = pnl[t] + g]
        /\ c \in Int /\ pnl[t] + g \in Int /\ (pnl[t] + g) - pnl[t] = g
    BY DEF Books
  <2> HIDE DEF MoneyMoves
  <2>2. SumOver(basis', Tickers) = SumOver(basis, Tickers) + (c - basis[t])
    BY <2>1, SumUpdates, TickersAssumption
  <2>3. SumOver(pnl', Tickers) = SumOver(pnl, Tickers) + ((pnl[t] + g) - pnl[t])
    BY <2>1, SumUpdates, TickersAssumption
  <2> QED BY <2>1, <2>2, <2>3
<1>5. cash' + SumOver(basis', Tickers) = StartCash + SumOver(pnl', Tickers)
  <2>1. SumOver(basis, Tickers) \in Int /\ SumOver(pnl, Tickers) \in Int
    BY SumIsInt, TickersAssumption DEF Books
  <2>2. cash \in Int /\ basis[t] \in Int /\ StartCash \in Int
    BY LedgerAssumption DEF Books
  <2>3. cash + SumOver(basis, Tickers) = StartCash + SumOver(pnl, Tickers)
    BY DEF Books
  <2> QED BY <1>4, <2>1, <2>2, <2>3
<1> QED BY <1>1, <1>2, <1>3, <1>5 DEF Books

LEMMA FillKeepsBooks ==
    ASSUME Books, NEW i, Tradable(i), FillsIntent(i)
    PROVE  Books'
BY BuyMoves, SaleMoves, MoveKeepsBooks DEF FillsIntent, Tradable

LEMMA QuoteKeepsBooks ==
    ASSUME Books, UNCHANGED bookVars, quote' \in [Tickers -> Prices \cup {NoQuote}]
    PROVE  Books'
BY DEF Books, bookVars

LEMMA FreshBooks == ASSUME LedgerInit PROVE Books
<1> USE DEF LedgerInit
<1>1. /\ cash = StartCash /\ StartCash \in Nat
      /\ units \in [Tickers -> Nat] /\ basis \in [Tickers -> Nat]
      /\ quote \in [Tickers -> Prices \cup {NoQuote}]
      /\ flow \in [Tickers -> Int] /\ pnl \in [Tickers -> Int]
  BY LedgerAssumption
<1>2. \A t \in Tickers : flow[t] = 0 /\ pnl[t] = 0 /\ basis[t] = 0
  OBVIOUS
<1>3. SumOver(basis, Tickers) = 0 /\ SumOver(pnl, Tickers) = 0
  BY <1>2, SumOfZeros, TickersAssumption
<1> QED BY <1>1, <1>2, <1>3 DEF Books
=============================================================================

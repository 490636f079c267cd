------------------------- MODULE PaperLedgerProofs --------------------------
(***************************************************************************)
(* The books of FakePaperBroker for every set of intents, prices and       *)
(* starting cash: type correctness, one fill per audit reference, and the  *)
(* agreement of reported profit with cash flow, ticker by ticker and in    *)
(* total.                                                                  *)
(***************************************************************************)
EXTENDS PaperLedger, FakePaperBrokerProofs

Fill == [ref: AuditRefs \cup {NoRef}, ticker: Tickers, action: Actions,
         qty: Nat, price: Nat, gain: Int]

\* The references of the fills are all marked: what makes the check of
\* _filled_audit_references decide.
FillsMarked == \A k \in 1..Len(fills) : fills[k].ref \in filledRefs \cup {NoRef}

BooksInv == Books /\ filledRefs \subseteq AuditRefs /\ fills \in Seq(Fill)

RefsInv == FillsMarked /\ FillsOncePerReference

\* What a step of the ledger may be: the fill of an intent or of an
\* administrative close, or a new quote.
MayArrive == Intents \cup {AdminCloseIntent(t) : t \in Tickers}

-----------------------------------------------------------------------------

\* Whatever arrives has the shape of an intent, and its amount is divisible.
LEMMA ArrivalShape ==
    ASSUME NEW i \in MayArrive
    PROVE  i.ref \in AuditRefs \cup {NoRef} /\ Tradable(i)
<1>1. CASE i \in Intents
  BY <1>1, IntentsAssumption, LedgerAssumption DEF Intent, Tradable
<1>2. CASE \E t \in Tickers : i = AdminCloseIntent(t)
  BY <1>2, LedgerAssumption
  DEF AdminCloseIntent, Actions, ExposureIncreasing, RiskReducing, Tradable
<1> QED BY <1>1, <1>2 DEF MayArrive

\* A step fills something that may arrive, changes a quote, or does nothing.
LEMMA StepShape ==
    ASSUME [LedgerNext]_ledgerVars
    PROVE  \/ \E i \in MayArrive : FillsIntent(i)
           \/ \E t \in Tickers, p \in Prices \cup {NoQuote} : SetsQuote(t, p)
           \/ UNCHANGED ledgerVars
BY DEF LedgerNext, ClosesPosition, MayArrive

-----------------------------------------------------------------------------

LEMMA BooksInit == ASSUME LedgerInit PROVE BooksInv /\ RefsInv
<1>1. Books
  BY FreshBooks
<1>2. filledRefs = {} /\ fills = <<>> /\ fills \in Seq(Fill)
  BY DEF LedgerInit
<1> QED BY <1>1, <1>2 DEF BooksInv, RefsInv, FillsMarked, FillsOncePerReference

\* The order that a fill appends.
LEMMA FillIsRecorded ==
    ASSUME BooksInv, NEW i \in MayArrive, FillsIntent(i)
    PROVE  /\ filledRefs' \subseteq AuditRefs
           /\ \E f \in Fill : fills' = Append(fills, f) /\ f.ref = i.ref
<1>1. Books /\ Tradable(i) /\ i.ref \in AuditRefs \cup {NoRef} /\ Fillable(i)
  BY ArrivalShape DEF BooksInv, FillsIntent
<1>2. filledRefs' = filledRefs \cup ({i.ref} \ {NoRef})
  BY DEF FillsIntent, Buys, Sells, Settles, MarksFilled
<1>3. /\ Quantity(i) \in Nat /\ quote[i.ticker] \in Nat
      /\ i.ticker \in Tickers /\ i.action \in Actions
  BY <1>1, FillQuantities DEF Tradable
<1>4. PICK g \in Int :
          fills' = Append(fills, [ref |-> i.ref, ticker |-> i.ticker, action |-> i.action,
                                  qty |-> Quantity(i), price |-> quote[i.ticker],
                                  gain |-> g])
  <2>1. CASE Buys(i)
    BY <2>1 DEF Buys, Settles
  <2>2. CASE Sells(i)
    <3>1. Gain(i) \in Int
      BY <1>1, <2>2, SaleMoves DEF MoneyMoves
    <3> QED BY <2>2, <3>1 DEF Sells, Settles
  <2> QED BY <2>1, <2>2 DEF FillsIntent
<1> DEFINE f == [ref |-> i.ref, ticker |-> i.ticker, action |-> i.action,
                 qty |-> Quantity(i), price |-> quote[i.ticker], gain |-> g]
<1>5. f \in Fill /\ f.ref = i.ref
  BY <1>1, <1>3 DEF Fill
<1> QED BY <1>1, <1>2, <1>4, <1>5 DEF BooksInv

LEMMA BooksStep == ASSUME BooksInv, [LedgerNext]_ledgerVars PROVE BooksInv'
<1>1. ASSUME NEW i \in MayArrive, FillsIntent(i) PROVE BooksInv'
  <2>1. Books'
    BY <1>1, ArrivalShape, FillKeepsBooks DEF BooksInv
  <2>2. filledRefs' \subseteq AuditRefs /\ \E f \in Fill : fills' = Append(fills, f)
    BY <1>1, FillIsRecorded
  <2> QED BY <2>1, <2>2 DEF BooksInv
<1>2. ASSUME NEW t \in Tickers, NEW p \in Prices \cup {NoQuote}, SetsQuote(t, p)
      PROVE  BooksInv'
  <2>1. quote' \in [Tickers -> Prices \cup {NoQuote}]
    BY <1>2 DEF SetsQuote, BooksInv, Books
  <2>2. UNCHANGED bookVars
    BY <1>2 DEF SetsQuote
  <2>3. Books'
    BY <2>1, <2>2, QuoteKeepsBooks DEF BooksInv
  <2> QED BY <2>2, <2>3 DEF BooksInv, bookVars
<1>3. CASE UNCHANGED ledgerVars
  BY <1>3 DEF BooksInv, Books, ledgerVars, bookVars
<1> QED BY StepShape, <1>1, <1>2, <1>3

LEMMA BooksAlways == LedgerSpec => []BooksInv
<1>1. LedgerInit => BooksInv
  BY BooksInit
<1>2. BooksInv /\ [LedgerNext]_ledgerVars => BooksInv'
  BY BooksStep
<1> QED BY <1>1, <1>2, PTL DEF LedgerSpec

\* The account never goes into debt and never holds a short position, and its
\* records keep their shape, whatever is submitted (FakePaperBroker).
THEOREM LedgerTypeCorrect == LedgerSpec => []TypeOK
<1>1. BooksInv => TypeOK
  <2>1. \A p \in Prices \cup {NoQuote} : p \in Nat
    BY LedgerAssumption DEF NoQuote
  <2> QED BY <2>1 DEF BooksInv, Books, TypeOK, Fill
<1> QED BY <1>1, BooksAlways, PTL

\* The realized profit that the orders report, and the cost of what is left,
\* account for all the money that moved (_fill_buy_or_add, _fill_reduce,
\* _fill_exit), for every sequence of purchases, reductions and exits.
THEOREM ProfitAccountsForCash == LedgerSpec => []ProfitIsCashFlow
<1>1. BooksInv => ProfitIsCashFlow
  BY DEF BooksInv, Books, ProfitIsCashFlow
<1> QED BY <1>1, BooksAlways, PTL

\* Cash and the cost of all positions together are the starting cash and the
\* realized profit of all tickers, however many there are.
THEOREM BooksAlwaysBalance == LedgerSpec => []BooksBalance
<1>1. BooksInv => BooksBalance
  <2> SUFFICES ASSUME BooksInv PROVE BooksBalance
    OBVIOUS
  <2>1. DOMAIN basis = Tickers /\ DOMAIN pnl = Tickers
    BY DEF BooksInv, Books
  <2>2. /\ FoldFunction(+, 0, basis) = SumOver(basis, Tickers)
        /\ FoldFunction(+, 0, pnl) = SumOver(pnl, Tickers)
    BY <2>1, SumOfFunction
  <2> QED BY <2>2 DEF BooksInv, Books, BooksBalance
<1> QED BY <1>1, BooksAlways, PTL

-----------------------------------------------------------------------------

\* A fill appends an order whose reference was not marked, and marks it.
LEMMA FillKeepsRefs ==
    ASSUME RefsInv, BooksInv, NEW i \in MayArrive, FillsIntent(i)
    PROVE  FillsMarked' /\ FillsOncePerReference'
<1>1. i.ref \notin filledRefs
  BY DEF FillsIntent, Fillable
<1>2. filledRefs' = filledRefs \cup ({i.ref} \ {NoRef})
  BY DEF FillsIntent, Buys, Sells, Settles, MarksFilled
<1>3. PICK f : fills' = Append(fills, f) /\ f.ref = i.ref
  BY FillIsRecorded
<1>4. fills \in Seq(Fill)
  BY DEF BooksInv
<1>5. /\ Len(fills') = Len(fills) + 1
      /\ Len(fills) \in Nat
      /\ \A k \in 1..Len(fills) : fills'[k] = fills[k]
      /\ fills'[Len(fills) + 1] = f
  BY <1>3, <1>4
<1>6. FillsMarked'
  BY <1>2, <1>3, <1>5 DEF RefsInv, FillsMarked
<1>7. FillsOncePerReference'
  <2> SUFFICES ASSUME NEW j \in 1..Len(fills'), NEW k \in 1..Len(fills'),
                      fills'[j].ref = fills'[k].ref, fills'[j].ref # NoRef
               PROVE  j = k
    BY DEF FillsOncePerReference
  <2>1. CASE j \in 1..Len(fills) /\ k \in 1..Len(fills)
    BY <2>1, <1>5 DEF RefsInv, FillsOncePerReference
  <2>2. ASSUME NEW x \in 1..Len(fills), fills'[x].ref = i.ref, i.ref # NoRef
        PROVE  FALSE
    BY <2>2, <1>1, <1>5 DEF RefsInv, FillsMarked
  <2>3. CASE j = Len(fills) + 1 /\ k \in 1..Len(fills)
    BY <2>2, <2>3, <1>3, <1>5
  <2>4. CASE k = Len(fills) + 1 /\ j \in 1..Len(fills)
    BY <2>2, <2>4, <1>3, <1>5
  <2> QED BY <2>1, <2>3, <2>4, <1>5
<1> QED BY <1>6, <1>7

LEMMA RefsStep ==
    ASSUME RefsInv, BooksInv, [LedgerNext]_ledgerVars PROVE RefsInv'
<1>1. ASSUME NEW i \in MayArrive, FillsIntent(i) PROVE RefsInv'
  BY <1>1, FillKeepsRefs DEF RefsInv
<1>2. CASE UNCHANGED <<fills, filledRefs>>
  BY <1>2 DEF RefsInv, FillsMarked, FillsOncePerReference
<1> QED BY StepShape, <1>1, <1>2 DEF SetsQuote, ledgerVars, bookVars

\* An audit reference fills at most once, for every set of intents.
THEOREM OneFillPerReference == LedgerSpec => []FillsOncePerReference
<1>1. LedgerInit => BooksInv /\ RefsInv
  BY BooksInit
<1>2. BooksInv /\ RefsInv /\ [LedgerNext]_ledgerVars => (BooksInv /\ RefsInv)'
  BY BooksStep, RefsStep
<1>3. RefsInv => FillsOncePerReference
  BY DEF RefsInv
<1> QED BY <1>1, <1>2, <1>3, PTL DEF LedgerSpec
=============================================================================

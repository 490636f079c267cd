-------------------------- MODULE WritePathProofs ---------------------------
(***************************************************************************)
(* TLAPS proofs about the write path.  The inductive invariant is built in *)
(* layers, each proved on top of the ones before it.                       *)
(***************************************************************************)
EXTENDS WritePath, TLAPS

USE DEF RiskReducing, ExposureIncreasing

\* Steps of a call before anything was posted, and after the broker accepted
\* the intent.
BeforeAnswer == Steps \ {"idle", "returned", "brk_lookup"}
InsideBroker == {"brk_quote", "brk_account", "brk_position", "brk_post"}

\* What a call carries at each of its steps.
CallOK ==
    /\ Len(orders) <= MaxOrders
    /\ pc \in BeforeAnswer => Len(orders) < MaxOrders
    /\ pc = "brk_lookup" => Len(orders) > 0
    /\ pc # "idle" =>
          intent \in IF via = "admin" THEN AdminIntents ELSE Intents
    /\ pc \in GatewaySteps \cup {"brk_check", "brk_account"} => via # "admin"
    /\ pc = "ctl_quote" => via = "controller"
    /\ pc \in {"brk_account", "brk_position"} => quote \in Prices
    /\ pc = "brk_post" => qty > 0
    /\ pc = "returned" => result # "NONE"

TInv == TypeOK /\ CallOK

-----------------------------------------------------------------------------
\* Facts about the data.

LEMMA NatProduct == \A a, b \in Nat : a * b \in Nat
  OBVIOUS

\* An ExecutionIntent and an administrative close are what the call's steps
\* take them to be.
LEMMA IntentFacts ==
  /\ \A i \in Intents :
        /\ i.ref \in AuditRefs /\ i.ref # NoRef /\ i.ticker \in Tickers
        /\ i.action \in Actions /\ i.dollars \in Nat
  /\ \A i \in AdminIntents :
        /\ i.ref = NoRef /\ i.ticker \in Tickers /\ i.action = "EXIT"
        /\ i.dollars = 0
  <1>1. \A i \in Intents :
           /\ i.ref \in AuditRefs /\ i.ref # NoRef /\ i.ticker \in Tickers
           /\ i.action \in Actions /\ i.dollars \in Nat
    BY IntentsAssumption DEF Intent
  <1>2. \A i \in AdminIntents :
           /\ i.ref = NoRef /\ i.ticker \in Tickers /\ i.action = "EXIT"
           /\ i.dollars = 0
    BY DEF AdminIntents, AdminCloseIntent
  <1> QED
    BY <1>1, <1>2

\* A call at work has a well-formed intent.
LEMMA CallIntent ==
  ASSUME TInv, pc # "idle"
  PROVE  /\ intent.ref \in AuditRefs \cup {NoRef}
         /\ intent.ticker \in Tickers
         /\ intent.action \in Actions
         /\ intent.dollars \in Nat
         /\ via # "admin" => intent.ref \in AuditRefs /\ intent.ref # NoRef
         /\ via = "admin" => intent.ref = NoRef /\ intent.action = "EXIT"
  BY IntentFacts DEF TInv, TypeOK, CallOK, Actions

\* The order that a POST adds is an order.
LEMMA NewOrderType ==
  ASSUME TInv, pc = "brk_post"
  PROVE  NewOrder(armings) \in Order
  BY CallIntent DEF TInv, TypeOK, AccountTypeOK, CallOK, NewOrder, Order

-----------------------------------------------------------------------------
\* Layer 1: types and the shape of the call.

LEMMA TInvInit == Init => TInv
  <1> SUFFICES ASSUME Init PROVE TInv
    OBVIOUS
  <1> USE DEF Init, NoCall
  <1>1. AccountTypeOK /\ Len(orders) = 0
    BY AccountAssumption DEF AccountInit, AccountTypeOK
  <1>2. TypeOK
    BY <1>1 DEF TypeOK, Steps, BrokerInit, ControllerInit
  <1>3. CallOK
    BY <1>1, AccountAssumption DEF CallOK, BeforeAnswer, GatewaySteps
  <1> QED
    BY <1>2, <1>3 DEF TInv

\* The steps of the gateway, of the controller and of the broker up to the
\* POST touch nothing but the call.
QuietStep ==
    \/ ValidatesIntent \/ ValidatesQuote \/ ValidatesCash \/ ValidatesPosition
    \/ ControllerReadsQuote
    \/ ChecksIntent \/ ReadsQuote \/ ReadsAccount \/ ConstructsOrder

LEMMA QuietStepTInv ==
  ASSUME TInv, QuietStep,
         UNCHANGED <<gwHalted, controllerVars>>
  PROVE  TInv'
  <1> USE DEF TInv, TypeOK, CallOK, Steps, GatewaySteps, BrokerSteps, BeforeAnswer,
              accountVars, brokerMemory, controllerVars, GoTo, Blocked, Answer,
              OrderStatus
  <1>0. AccountTypeOK' /\ UNCHANGED orders
    <2>1. {k \in 1..Len(orders) : IsOpen(k)} \subseteq OrderIds
      BY AccountAssumption DEF AccountTypeOK, OrderIds
    <2> QED
      BY <2>1 DEF QuietStep, AccountTypeOK, ValidatesIntent, ValidatesQuote,
         ValidatesCash, ValidatesPosition, ControllerReadsQuote, ChecksIntent,
         ReadsQuote, ReadsAccount, ConstructsOrder
  <1>1. CASE ValidatesIntent
    BY <1>0, <1>1 DEF ValidatesIntent
  <1>2. CASE ValidatesQuote
    <2>1. pc # "idle"
      BY <1>2 DEF ValidatesQuote
    <2>2. price[intent.ticker] \in Prices /\ price[intent.ticker] \in Nat
      BY <2>1, CallIntent, AccountAssumption DEF AccountTypeOK
    <2> QED
      BY <1>0, <1>2, <2>2 DEF ValidatesQuote
  <1>3. CASE ValidatesCash
    BY <1>0, <1>3 DEF ValidatesCash
  <1>4. CASE ValidatesPosition
    BY <1>0, <1>4 DEF ValidatesPosition
  <1>5. CASE ControllerReadsQuote
    BY <1>0, <1>5 DEF ControllerReadsQuote
  <1>6. CASE ChecksIntent
    BY <1>0, <1>6 DEF ChecksIntent
  <1>7. CASE ReadsQuote
    <2>1. pc # "idle"
      BY <1>7 DEF ReadsQuote
    <2>2. price[intent.ticker] \in Prices /\ price[intent.ticker] \in Nat
      BY <2>1, CallIntent, AccountAssumption DEF AccountTypeOK
    <2> QED
      BY <1>0, <1>7, <2>2 DEF ReadsQuote
  <1>8. CASE ReadsAccount
    BY <1>0, <1>8 DEF ReadsAccount
  <1>9. CASE ConstructsOrder
    <2>1. CASE Constructible(held[intent.ticker]) /\ qty' = OrderQty(held[intent.ticker])
      <3>1. held[intent.ticker] \in Nat /\ intent.dollars \in Nat /\ quote \in Nat \ {0}
        BY <1>9, CallIntent, AccountAssumption DEF ConstructsOrder, AccountTypeOK
      <3>2. qty' \in Nat /\ qty' > 0
        BY <2>1, <3>1 DEF OrderQty, Constructible
      <3> QED
        BY <1>0, <1>9, <2>1, <3>2 DEF ConstructsOrder
    <2>2. CASE ~(Constructible(held[intent.ticker]) /\ qty' = OrderQty(held[intent.ticker]))
      BY <1>0, <1>9, <2>2 DEF ConstructsOrder
    <2> QED
      BY <2>1, <2>2
  <1> QED
    BY <1>1, <1>2, <1>3, <1>4, <1>5, <1>6, <1>7, <1>8, <1>9 DEF QuietStep

\* The only step that lengthens the account's book.
LEMMA PostsOrderTInv ==
  ASSUME TInv, PostsOrder(armings), UNCHANGED <<gwHalted, controllerVars>>
  PROVE  TInv'
  <1> USE DEF TInv, TypeOK, CallOK, Steps, GatewaySteps, BrokerSteps, BeforeAnswer,
              controllerVars, GoTo, Answer, OrderStatus, PostsOrder
  <1>1. NewOrder(armings) \in Order
    BY NewOrderType
  <1>2. /\ orders' \in Seq(Order)
        /\ Len(orders') <= MaxOrders
        /\ pc' = "brk_lookup" => Len(orders') > 0
    <2>1. orders \in Seq(Order) /\ Len(orders) \in Nat /\ MaxOrders \in Nat
      BY AccountAssumption DEF AccountTypeOK
    <2>2. /\ Append(orders, NewOrder(armings)) \in Seq(Order)
          /\ Len(Append(orders, NewOrder(armings))) = Len(orders) + 1
      BY <1>1, <2>1
    <2>3. Len(orders) < MaxOrders
      OBVIOUS
    <2>4. orders' \in {orders, Append(orders, NewOrder(armings))}
      OBVIOUS
    <2>5. pc' = "brk_lookup" => orders' = Append(orders, NewOrder(armings))
      OBVIOUS
    <2> HIDE DEF PostsOrder, TInv
    <2>6. CASE orders' = orders /\ pc' # "brk_lookup"
      BY <2>1, <2>3, <2>6
    <2>7. CASE orders' = Append(orders, NewOrder(armings))
      BY <2>1, <2>2, <2>3, <2>7
    <2> QED
      BY <2>4, <2>5, <2>6, <2>7
  <1>3. AccountTypeOK'
    BY <1>2 DEF AccountTypeOK
  <1>4. brkProcessed' \subseteq AuditRefs
    BY CallIntent
  <1>5. TypeOK'
    BY <1>3, <1>4
  <1>6. CallOK'
    BY <1>2
  <1> QED
    BY <1>5, <1>6

LEMMA LooksUpStatusTInv ==
  ASSUME TInv, LooksUpStatus, UNCHANGED <<gwHalted, controllerVars>>
  PROVE  TInv'
  <1> USE DEF TInv, TypeOK, CallOK, Steps, GatewaySteps, BrokerSteps, BeforeAnswer,
              controllerVars, accountVars, Answer, OrderStatus, LooksUpStatus
  <1>1. AccountTypeOK' /\ UNCHANGED orders
    BY DEF AccountTypeOK
  <1>2. ReportedStatus(orders[Len(orders)]) \in OrderStatus
    BY DEF ReportedStatus
  <1>3. /\ journal' \in [OrderIds -> OrderStatus \cup {"NONE"}]
        /\ result' \in OrderStatus \cup {"RAISED"}
    BY <1>2
  <1> QED
    BY <1>1, <1>3

LEMMA FinishesTInv ==
  ASSUME TInv, Finishes
  PROVE  TInv'
  <1> USE DEF TInv, TypeOK, CallOK, Steps, GatewaySteps, BrokerSteps, BeforeAnswer,
              brokerMemory, accountVars, Finishes
  <1>1. AccountTypeOK' /\ UNCHANGED orders
    BY DEF AccountTypeOK
  <1>2. ctlProcessed' \subseteq AuditRefs
    BY CallIntent DEF Consumes
  <1> QED
    BY <1>1, <1>2

LEMMA CallerTInv ==
  ASSUME TInv, Caller
  PROVE  TInv'
  <1> USE DEF TInv, TypeOK, CallOK, Steps, GatewaySteps, BrokerSteps, BeforeAnswer,
              brokerMemory, accountVars, controllerVars, MayCall, Caller
  <1>1. AccountTypeOK' /\ UNCHANGED orders
    BY DEF AccountTypeOK, ControllerSubmits, GatewaySubmits, ClosesPosition
  <1>2. CASE \E i \in Intents : ControllerSubmits(i) /\ MayCall("controller")
    BY <1>1, <1>2 DEF ControllerSubmits
  <1>3. CASE \E i \in Intents :
                GatewaySubmits(i) /\ MayCall("gateway") /\ UNCHANGED controllerVars
    BY <1>1, <1>3 DEF GatewaySubmits
  <1>4. CASE \E t \in Tickers :
                /\ ClosesPosition(t) /\ MayCall("admin")
                /\ UNCHANGED <<gwHalted, controllerVars>>
    BY <1>1, <1>4 DEF ClosesPosition, AdminIntents
  <1> QED
    BY <1>2, <1>3, <1>4

\* cancel_order changes the status of one order and of its journal entry.
LEMMA CancelsOrderTInv ==
  ASSUME TInv, NEW k \in 1..Len(orders), CancelsOrder(k),
         UNCHANGED <<gwHalted, controllerVars>>
  PROVE  TInv'
  <1> USE DEF TInv, TypeOK, CallOK, Steps, BeforeAnswer,
              callVars, controllerVars, CancelsOrder, OrderStatus
  <1>1. orders[k] \in Order
    BY DEF AccountTypeOK
  <1>2. [orders[k] EXCEPT !.status = "canceled"] \in Order
    BY <1>1 DEF Order
  <1>3. orders' \in Seq(Order) /\ Len(orders') = Len(orders)
    BY <1>2 DEF AccountTypeOK
  <1>4. AccountTypeOK'
    BY <1>3 DEF AccountTypeOK
  <1>5. journal' \in [OrderIds -> OrderStatus \cup {"NONE"}]
    OBVIOUS
  <1> QED
    BY <1>3, <1>4, <1>5

LEMMA OperatorTInv ==
  ASSUME TInv, Operator
  PROVE  TInv'
  <1> USE DEF Operator
  <1>1. CASE \E k \in 1..Len(orders) :
                CancelsOrder(k) /\ UNCHANGED <<gwHalted, controllerVars>>
    BY <1>1, CancelsOrderTInv
  <1>2. CASE Arm \/ Disarm \/ \E layer \in HaltLayers : ReviewSetsFlags(layer)
    <2> USE DEF TInv, brokerMemory, accountVars, callVars
    <2>1. UNCHANGED <<accountVars, callVars, life, brkProcessed, journal, brkWrite>>
      BY <1>2 DEF Arm, Disarm, ReviewSetsFlags
    <2>2. AccountTypeOK' /\ CallOK'
      BY <2>1 DEF AccountTypeOK, CallOK, TypeOK
    <2>3. /\ brkHalted' \in BOOLEAN /\ gwHalted' \in BOOLEAN
          /\ ctlHalted' \in BOOLEAN /\ ctlWrite' \in BOOLEAN
      BY <1>2 DEF Arm, Disarm, ReviewSetsFlags, TypeOK
    <2>4. /\ ctlState' \in {"ARMED", "DISARMED"}
          /\ ctlProcessed' \subseteq AuditRefs
          /\ armings' \in Nat
      BY <1>2 DEF Arm, Disarm, ReviewSetsFlags, TypeOK
    <2> QED
      BY <2>1, <2>2, <2>3, <2>4 DEF TypeOK
  <1> QED
    BY <1>1, <1>2

\* The account keeps its types, and the length of its book, whatever it does.
LEMMA AccountTInv ==
  ASSUME TInv, Account
  PROVE  TInv'
  <1> USE DEF TInv, TypeOK, CallOK, Steps, BeforeAnswer, callVars, brokerMemory,
              controllerVars, Account
  <1>1. ASSUME NEW t \in Tickers, MarketMoves(t)
        PROVE  AccountTypeOK' /\ Len(orders') = Len(orders)
    BY <1>1 DEF MarketMoves, AccountTypeOK
  <1>2. ASSUME NEW k \in 1..Len(orders), NEW n \in 1..orders[k].qty, RemoteFill(k, n)
        PROVE  AccountTypeOK' /\ Len(orders') = Len(orders)
    <2> DEFINE o == orders[k]
               t == o.ticker
               status == IF o.filled + n = o.qty THEN "filled" ELSE "open"
    <2>0. orders[k] \in Order
      BY DEF AccountTypeOK
    <2>1. o \in Order /\ t \in Tickers /\ o.qty \in Nat /\ o.filled \in Nat
      BY <2>0 DEF Order
    <2>2. n \in Nat /\ price[t] \in Nat /\ cash \in Nat /\ held[t] \in Nat
      <3>1. n \in Nat
        BY <2>1
      <3>2. price \in [Tickers -> Prices] /\ held \in [Tickers -> Nat] /\ cash \in Nat
        BY DEF AccountTypeOK
      <3> QED
        BY <2>1, <3>1, <3>2, AccountAssumption
    <2>3. [o EXCEPT !.filled = @ + n, !.status = status] \in Order
      <3>1. status \in {"filled", "open"} /\ o.filled + n \in Nat
        BY <2>1, <2>2
      <3> HIDE DEF status
      <3> QED
        BY <2>1, <3>1 DEF Order
    <2>4. orders' = [orders EXCEPT ![k] = [o EXCEPT !.filled = @ + n, !.status = status]]
      BY <1>2 DEF RemoteFill
    <2>5. orders' \in Seq(Order) /\ Len(orders') = Len(orders)
      BY <2>3, <2>4 DEF AccountTypeOK
    <2>6. n * price[t] \in Nat
      BY <2>2, NatProduct
    <2>7. cash' \in Nat /\ held' \in [Tickers -> Nat]
      <3>1. CASE Side(o.action) = "BUY"
        <4>1. cash' = cash - n * price[t] /\ n * price[t] <= cash
          BY <1>2, <3>1 DEF RemoteFill
        <4>2. cash' \in Nat
          BY <2>2, <2>6, <4>1
        <4>3. held' \in [Tickers -> Nat]
          <5>1. held' = [held EXCEPT ![t] = @ + n]
            BY <1>2, <3>1 DEF RemoteFill
          <5>2. held[t] + n \in Nat /\ held \in [Tickers -> Nat]
            BY <2>2 DEF AccountTypeOK
          <5> QED
            BY <5>1, <5>2
        <4> QED
          BY <4>2, <4>3
      <3>2. CASE Side(o.action) = "SELL"
        <4>1. cash' = cash + n * price[t]
          BY <1>2, <3>2 DEF RemoteFill
        <4>2. cash' \in Nat
          BY <2>2, <2>6, <4>1
        <4>3. held' \in [Tickers -> Nat]
          <5>1. held' = [held EXCEPT ![t] = @ - n] /\ n <= held[t]
            BY <1>2, <3>2 DEF RemoteFill
          <5>2. held[t] - n \in Nat /\ held \in [Tickers -> Nat]
            BY <2>2, <5>1 DEF AccountTypeOK
          <5> QED
            BY <5>1, <5>2
        <4> QED
          BY <4>2, <4>3
      <3> QED
        BY <3>1, <3>2 DEF Side
    <2> QED
      BY <1>2, <2>5, <2>7 DEF AccountTypeOK, RemoteFill
  <1>3. ASSUME NEW k \in 1..Len(orders), NEW s \in {"rejected", "canceled"},
               RemoteClose(k, s)
        PROVE  AccountTypeOK' /\ Len(orders') = Len(orders)
    <2>1. orders[k] \in Order
      BY DEF AccountTypeOK
    <2>2. [orders[k] EXCEPT !.status = s] \in Order
      BY <2>1 DEF Order
    <2> QED
      BY <1>3, <2>2 DEF RemoteClose, AccountTypeOK
  <1>4. AccountTypeOK' /\ Len(orders') = Len(orders)
    BY <1>1, <1>2, <1>3
  <1> QED
    BY <1>4

LEMMA RestartTInv ==
  ASSUME TInv, Restart
  PROVE  TInv'
  <1> USE DEF TInv, Restart
  <1>1. AccountTypeOK' /\ UNCHANGED orders
    BY DEF AccountTypeOK, TypeOK, accountVars
  <1>2. CallOK'
    BY <1>1 DEF CallOK, BeforeAnswer, GatewaySteps
  <1>3. /\ pc' \in Steps /\ via' \in {"controller", "gateway", "admin"}
        /\ intent' = NoIntent /\ quote' \in Nat /\ qty' \in Nat
        /\ result' = "NONE" /\ life' \in Nat /\ armings' \in Nat
    BY DEF TypeOK, Steps
  <1>4. /\ brkWrite' \in BOOLEAN /\ brkHalted' \in BOOLEAN /\ gwHalted' \in BOOLEAN
        /\ ctlWrite' \in BOOLEAN /\ ctlHalted' \in BOOLEAN
        /\ ctlState' \in {"ARMED", "DISARMED"}
        /\ brkProcessed' \subseteq AuditRefs /\ ctlProcessed' \subseteq AuditRefs
    OBVIOUS
  <1>5. journal' \in [OrderIds -> OrderStatus \cup {"NONE"}]
    OBVIOUS
  <1>6. TypeOK'
    BY <1>1, <1>3, <1>4, <1>5 DEF TypeOK
  <1> QED
    BY <1>2, <1>6

LEMMA TInvNext == TInv /\ [Next]_vars => TInv'
  <1> SUFFICES ASSUME TInv, [Next]_vars PROVE TInv'
    OBVIOUS
  <1>1. CASE GatewayStep
    BY <1>1, QuietStepTInv DEF GatewayStep, QuietStep, ValidatesIntent,
       ValidatesQuote, ValidatesCash, ValidatesPosition
  <1>2. CASE ControllerReadsQuote
    BY <1>2, QuietStepTInv DEF QuietStep, ControllerReadsQuote
  <1>3. CASE BrokerStep
    BY <1>3, QuietStepTInv, PostsOrderTInv, LooksUpStatusTInv DEF BrokerStep, QuietStep
  <1>4. CASE Finishes
    BY <1>4, FinishesTInv
  <1>5. CASE Caller
    BY <1>5, CallerTInv
  <1>6. CASE Operator
    BY <1>6, OperatorTInv
  <1>7. CASE Account
    BY <1>7, AccountTInv
  <1>8. CASE Restart
    BY <1>8, RestartTInv
  <1>9. CASE UNCHANGED vars
    BY <1>9 DEF vars, accountVars, callVars, brokerMemory, controllerVars, TInv,
       TypeOK, AccountTypeOK, CallOK
  <1> QED
    BY <1>1, <1>2, <1>3, <1>4, <1>5, <1>6, <1>7, <1>8, <1>9 DEF Next, CallStep

\* Every state of the write path is well typed, and a call carries at each of
\* its steps what that step needs (a quote before an amount is divided by
\* it, a quantity before a request is posted, room in the book).
THEOREM TypeCorrect == Spec => []TypeOK
  <1>1. Spec => []TInv
    BY TInvInit, TInvNext, PTL DEF Spec
  <1> QED
    BY <1>1, PTL DEF TInv

-----------------------------------------------------------------------------
\* Layer 2: a gate found open stays open while the call is at work, because
\* the program is single-threaded; a reference found fresh stays fresh.

PastGatewayChecks ==
    {"gw_quote", "gw_account", "gw_position", "ctl_quote", "brk_check"}
       \cup InsideBroker

Gates ==
    /\ via = "controller" /\ pc # "idle" =>
          /\ ctlState = "ARMED" /\ ctlWrite
          /\ Exposure => ~ctlHalted
    /\ via # "admin" /\ pc \in PastGatewayChecks => (Exposure => ~gwHalted)
    /\ via # "admin" /\ pc \in InsideBroker => (Exposure => ~brkHalted)

Fresh ==
    /\ via = "controller" /\ pc \in BeforeAnswer => intent.ref \notin ctlProcessed
    /\ via # "admin" /\ pc \in InsideBroker => intent.ref \notin brkProcessed

GInv == Gates /\ Fresh

LEMMA GInvInit == Init => GInv
  BY DEF Init, NoCall, GInv, Gates, Fresh, PastGatewayChecks, InsideBroker,
         BeforeAnswer

LEMMA GInvNext == TInv /\ GInv /\ [Next]_vars => GInv'
  <1> SUFFICES ASSUME TInv, GInv, [Next]_vars PROVE GInv'
    OBVIOUS
  <1> USE DEF GInv, Gates, Fresh, PastGatewayChecks, InsideBroker, BeforeAnswer,
              Steps, GatewaySteps, BrokerSteps, Exposure
  <1>1. CASE GatewayStep
    BY <1>1 DEF GatewayStep, ValidatesIntent, ValidatesQuote, ValidatesCash,
       ValidatesPosition, GoTo, Blocked, controllerVars, brokerMemory
  <1>2. CASE ControllerReadsQuote
    BY <1>2 DEF ControllerReadsQuote, GoTo, Blocked, controllerVars, brokerMemory
  <1>3. CASE BrokerStep
    BY <1>3 DEF BrokerStep, ChecksIntent, AcceptsIntent, ReadsQuote, ReadsAccount,
       ConstructsOrder, PostsOrder, LooksUpStatus, GoTo, Answer, controllerVars,
       brokerMemory, TInv, CallOK
  <1>4. CASE Finishes
    BY <1>4 DEF Finishes
  <1>5. CASE Caller
    BY <1>5 DEF Caller, ControllerSubmits, GatewaySubmits, ClosesPosition,
       controllerVars, brokerMemory
  <1>6. CASE Operator
    BY <1>6 DEF Operator, Arm, Disarm, ReviewSetsFlags, CancelsOrder, callVars
  <1>7. CASE Account
    BY <1>7 DEF Account, callVars, controllerVars, brokerMemory
  <1>8. CASE Restart
    BY <1>8 DEF Restart
  <1>9. CASE UNCHANGED vars
    BY <1>9 DEF vars, callVars, controllerVars, brokerMemory
  <1> QED
    BY <1>1, <1>2, <1>3, <1>4, <1>5, <1>6, <1>7, <1>8, <1>9 DEF Next, CallStep

-----------------------------------------------------------------------------
\* What a step does to the account's book.

SameIdentity(j, k) ==
    /\ j.ref = k.ref /\ j.life = k.life /\ j.via = k.via /\ j.arming = k.arming
    /\ j.ticker = k.ticker /\ j.action = k.action
    /\ j.qty = k.qty /\ j.rivals = k.rivals

KeepsOrders ==
    /\ Len(orders') = Len(orders)
    /\ \A k \in 1..Len(orders) : SameIdentity(orders'[k], orders[k])

AddsOrder ==
    /\ pc = "brk_post"
    /\ brkWrite
    /\ orders' = Append(orders, NewOrder(armings))

\* Fills, closures and cancellations change filled and status only.
LEMMA OrderUpdates ==
  ASSUME TInv, NEW k \in 1..Len(orders),
         \/ CancelsOrder(k)
         \/ \E n \in 1..orders[k].qty : RemoteFill(k, n)
         \/ \E s \in {"rejected", "canceled"} : RemoteClose(k, s)
  PROVE  KeepsOrders
  <1>0. orders \in Seq(Order) /\ Len(orders) \in Nat
    BY DEF TInv, TypeOK, AccountTypeOK
  <1>1. orders[k] \in Order
    BY <1>0
  <1>2. \E f, s :
           orders' = [orders EXCEPT ![k] = [@ EXCEPT !.filled = f, !.status = s]]
    <2>1. CASE CancelsOrder(k)
      <3>1. orders' = [orders EXCEPT ![k] =
                          [@ EXCEPT !.filled = orders[k].filled, !.status = "canceled"]]
        BY <2>1, <1>1 DEF CancelsOrder, Order
      <3> QED
        BY <3>1
    <2>2. CASE \E n \in 1..orders[k].qty : RemoteFill(k, n)
      <3>1. PICK n \in 1..orders[k].qty : RemoteFill(k, n)
        BY <2>2
      <3> DEFINE status ==
            IF orders[k].filled + n = orders[k].qty THEN "filled" ELSE "open"
      <3>2. orders' = [orders EXCEPT ![k] =
                          [@ EXCEPT !.filled = orders[k].filled + n, !.status = status]]
        BY <3>1, <1>1 DEF RemoteFill, Order
      <3> QED
        BY <3>2
    <2>3. CASE \E s \in {"rejected", "canceled"} : RemoteClose(k, s)
      <3>1. PICK s \in {"rejected", "canceled"} : RemoteClose(k, s)
        BY <2>3
      <3>2. orders' = [orders EXCEPT ![k] =
                          [@ EXCEPT !.filled = orders[k].filled, !.status = s]]
        BY <3>1, <1>1 DEF RemoteClose, Order
      <3> QED
        BY <3>2
    <2> QED
      BY <2>1, <2>2, <2>3
  <1>3. PICK f, s :
           orders' = [orders EXCEPT ![k] = [@ EXCEPT !.filled = f, !.status = s]]
    BY <1>2
  <1>4. Len(orders') = Len(orders)
    BY <1>0, <1>3
  <1>5. ASSUME NEW j \in 1..Len(orders)
        PROVE  SameIdentity(orders'[j], orders[j])
    <2>1. orders[j] \in Order
      BY <1>0
    <2>2. CASE j = k
      BY <1>0, <1>1, <1>3, <2>2 DEF SameIdentity, Order
    <2>3. CASE j # k
      BY <1>0, <1>3, <2>3 DEF SameIdentity
    <2> QED
      BY <2>2, <2>3
  <1> QED
    BY <1>4, <1>5 DEF KeepsOrders

\* Only the POST lengthens the book, by the order the call constructed, and
\* no step ever changes who sent an order, when and for which reference.
LEMMA OrdersStep == TInv /\ [Next]_vars => KeepsOrders \/ AddsOrder
  <1> SUFFICES ASSUME TInv, [Next]_vars PROVE KeepsOrders \/ AddsOrder
    OBVIOUS
  <1>0. orders \in Seq(Order) /\ Len(orders) \in Nat
    BY DEF TInv, TypeOK, AccountTypeOK
  <1>1. CASE UNCHANGED orders
    BY <1>1 DEF KeepsOrders, SameIdentity
  <1>2. CASE BrokerStep /\ ~UNCHANGED orders
    BY <1>2 DEF BrokerStep, ChecksIntent, ReadsQuote, ReadsAccount, ConstructsOrder,
       PostsOrder, LooksUpStatus, accountVars, AddsOrder
  <1>4. CASE Next /\ ~BrokerStep /\ ~UNCHANGED orders
    BY OrderUpdates, <1>4 DEF Next, CallStep, GatewayStep, ValidatesIntent, ValidatesQuote,
       ValidatesCash, ValidatesPosition, ControllerReadsQuote, Finishes, Caller,
       ControllerSubmits, GatewaySubmits, ClosesPosition, Operator, Arm, Disarm,
       ReviewSetsFlags, Account, MarketMoves, Restart, accountVars
  <1> QED
    BY <1>1, <1>2, <1>4 DEF vars, accountVars

-----------------------------------------------------------------------------
\* Layer 3: every reference sent in this lifetime is remembered by one of the
\* two sets of processed references, or the exception that will make the
\* controller remember it is on its way.

Remembered(ref) ==
    \/ ref \in ctlProcessed \cup brkProcessed
    \/ pc = "returned" /\ result = "RAISED" /\ via = "controller" /\ intent.ref = ref

SentAreRemembered ==
    \A k \in 1..Len(orders) :
        /\ orders[k].life <= life
        /\ SentByController(k) => Remembered(orders[k].ref)

RInv == SentAreRemembered /\ AtMostOncePerReference

LEMMA RInvInit == Init => RInv
  BY DEF Init, AccountInit, RInv, SentAreRemembered, AtMostOncePerReference

\* Nothing that was remembered is forgotten, except by a restart.
LEMMA RememberedStays ==
  ASSUME TInv, GInv, [Next]_vars, ~Restart, NEW ref, Remembered(ref)
  PROVE  Remembered(ref)'
  <1> USE DEF Remembered
  <1>1. CASE GatewayStep
    BY <1>1 DEF GatewayStep, ValidatesIntent, ValidatesQuote, ValidatesCash,
       ValidatesPosition, brokerMemory, controllerVars
  <1>2. CASE ControllerReadsQuote
    BY <1>2 DEF ControllerReadsQuote, brokerMemory, controllerVars
  <1>3. CASE BrokerStep
    BY <1>3 DEF BrokerStep, ChecksIntent, ReadsQuote, ReadsAccount, ConstructsOrder,
       PostsOrder, LooksUpStatus, brokerMemory, controllerVars
  <1>4. CASE Finishes
    BY <1>4 DEF Finishes, Consumes, brokerMemory
  <1>5. CASE Caller
    BY <1>5 DEF Caller, ControllerSubmits, GatewaySubmits, ClosesPosition,
       brokerMemory, controllerVars
  <1>6. CASE Operator
    BY <1>6 DEF Operator, Arm, Disarm, ReviewSetsFlags, CancelsOrder, callVars,
       brokerMemory, controllerVars
  <1>7. CASE Account
    BY <1>7 DEF Account, callVars, brokerMemory, controllerVars
  <1>8. CASE UNCHANGED vars
    BY <1>8 DEF vars, callVars, brokerMemory, controllerVars
  <1> QED
    BY <1>1, <1>2, <1>3, <1>4, <1>5, <1>6, <1>7, <1>8 DEF Next, CallStep

LEMMA LifeStays ==
  ASSUME [Next]_vars, ~Restart
  PROVE  life' = life
  BY DEF Next, vars, CallStep, GatewayStep, ValidatesIntent, ValidatesQuote,
     ValidatesCash, ValidatesPosition, ControllerReadsQuote, BrokerStep, ChecksIntent,
     ReadsQuote, ReadsAccount, ConstructsOrder, PostsOrder, LooksUpStatus, Finishes,
     Caller, ControllerSubmits, GatewaySubmits, ClosesPosition, Operator, Arm, Disarm,
     ReviewSetsFlags, CancelsOrder, Account

\* An order joins the book in the POST of the call at work only.
LEMMA SentByPost ==
  ASSUME TInv, [Next]_vars, ~Restart, AddsOrder
  PROVE  PostsOrder(armings) /\ UNCHANGED <<gwHalted, controllerVars>>
  <1>0. orders \in Seq(Order) /\ Len(orders) \in Nat
    BY DEF TInv, TypeOK, AccountTypeOK
  <1>1. pc = "brk_post" /\ Len(orders') # Len(orders)
    BY <1>0 DEF AddsOrder
  <1>2. ~Account
    <2>1. ~(\E t \in Tickers : MarketMoves(t))
      BY <1>1 DEF MarketMoves
    <2>2. ~KeepsOrders
      BY <1>1 DEF KeepsOrders
    <2> QED
      BY <2>1, <2>2, OrderUpdates DEF Account
  <1>3. ~Caller /\ ~Operator
    BY <1>1 DEF Caller, ControllerSubmits, GatewaySubmits, ClosesPosition,
       Operator, Arm, Disarm, ReviewSetsFlags, CancelsOrder
  <1>4. BrokerStep
    BY <1>1, <1>2, <1>3 DEF Next, vars, CallStep, GatewayStep,
       ValidatesIntent, ValidatesQuote, ValidatesCash, ValidatesPosition,
       ControllerReadsQuote, Finishes, accountVars
  <1> QED
    BY <1>1, <1>4 DEF BrokerStep, ChecksIntent, ReadsQuote, ReadsAccount,
       ConstructsOrder, LooksUpStatus, accountVars

LEMMA RInvNext == TInv /\ GInv /\ RInv /\ [Next]_vars => RInv'
  <1> SUFFICES ASSUME TInv, GInv, RInv, [Next]_vars PROVE RInv'
    OBVIOUS
  <1>0. orders \in Seq(Order) /\ Len(orders) \in Nat /\ life \in Nat
    BY DEF TInv, TypeOK, AccountTypeOK
  <1>00. ASSUME NEW k \in 1..Len(orders) PROVE orders[k].life \in Nat
    <2>1. orders[k] \in Order
      BY <1>0
    <2> QED
      BY <2>1 DEF Order
  \* A restart opens a lifetime in which nothing was sent.
  <1>1. CASE Restart
    <2>1. UNCHANGED orders /\ life' = life + 1
      BY <1>1 DEF Restart, accountVars
    <2>2. \A k \in 1..Len(orders) : orders[k].life < life'
      BY <1>0, <1>00, <2>1 DEF RInv, SentAreRemembered
    <2>3. \A k \in 1..Len(orders') : ~SentByController(k)' /\ orders'[k].life <= life'
      BY <1>0, <1>00, <2>1, <2>2 DEF SentByController
    <2> QED
      BY <2>3 DEF RInv, SentAreRemembered, AtMostOncePerReference
  <1>2. CASE KeepsOrders /\ ~Restart
    <2>1. life' = life
      BY <1>2, LifeStays
    <2>2. ASSUME NEW k \in 1..Len(orders')
          PROVE  /\ k \in 1..Len(orders)
                 /\ orders'[k].ref = orders[k].ref
                 /\ orders'[k].life = orders[k].life
                 /\ SentByController(k)' <=> SentByController(k)
      BY <1>2, <2>1 DEF KeepsOrders, SameIdentity, SentByController
    <2>3. SentAreRemembered'
      <3> SUFFICES ASSUME NEW k \in 1..Len(orders')
                   PROVE  /\ orders'[k].life <= life'
                          /\ SentByController(k)' => Remembered(orders[k].ref)'
        BY <2>2 DEF SentAreRemembered, Remembered
      <3> QED
        BY <1>2, <2>1, <2>2, RememberedStays DEF RInv, SentAreRemembered
    <2>4. AtMostOncePerReference'
      BY <2>2 DEF RInv, AtMostOncePerReference
    <2> QED
      BY <2>3, <2>4 DEF RInv
  \* The new order's reference was remembered by neither set, so no order of
  \* this lifetime carries it; now one of them, or the exception, does.
  <1>3. CASE AddsOrder /\ ~Restart
    <2>0. PICK new \in Nat : new = Len(orders) + 1
      BY <1>0
    <2>1. life' = life
      BY <1>3, LifeStays
    <2>2. /\ Len(orders') = new
          /\ \A k \in 1..Len(orders) : orders'[k] = orders[k]
          /\ orders'[new] = NewOrder(armings)
      BY <1>0, <1>3, <2>0 DEF AddsOrder
    <2>3. \A k \in 1..Len(orders) : SentByController(k)' <=> SentByController(k)
      BY <1>0, <2>1, <2>2 DEF SentByController
    <2>4. SentByController(new)' <=> via = "controller"
      BY <1>0, <2>1, <2>2 DEF SentByController, NewOrder
    <2>5. PostsOrder(armings)
      BY <1>3, SentByPost
    <2>6. orders'[new].ref = intent.ref /\ orders'[new].life = life
      BY <2>2 DEF NewOrder
    <2>7. via = "controller" =>
            \A r : r = intent.ref => Remembered(r)'
      <3>1. pc = "brk_post" /\ UNCHANGED <<via, intent>>
        BY <1>3, <2>5 DEF AddsOrder, PostsOrder, GoTo, Answer
      <3>2. via # "admin" => intent.ref # NoRef
        BY <3>1, CallIntent
      <3>3. orders' # orders
        BY <1>0, <2>0, <2>2
      <3>4. \/ brkProcessed' = brkProcessed \cup ({intent.ref} \ {NoRef})
            \/ pc' = "returned" /\ result' = "RAISED"
        BY <2>5, <3>3 DEF PostsOrder, Answer
      <3> QED
        BY <3>1, <3>2, <3>4 DEF Remembered
    <2>8. SentAreRemembered'
      <3> SUFFICES ASSUME NEW k \in 1..Len(orders'), NEW r, r = orders'[k].ref
                   PROVE  /\ orders'[k].life <= life'
                          /\ SentByController(k)' => Remembered(r)'
        BY DEF SentAreRemembered, Remembered
      <3>1. CASE k \in 1..Len(orders)
        <4>1. orders'[k] = orders[k] /\ orders[k].life <= life
          BY <2>2, <3>1 DEF RInv, SentAreRemembered
        <4>2. SentByController(k) => Remembered(r)
          BY <3>1, <4>1 DEF RInv, SentAreRemembered
        <4>3. SentByController(k) => Remembered(r)'
          BY <1>3, <4>2, RememberedStays
        <4> QED
          BY <2>1, <2>3, <3>1, <4>1, <4>3
      <3>2. CASE k = new
        BY <1>0, <2>1, <2>4, <2>6, <2>7, <3>2
      <3> QED
        BY <1>0, <2>0, <2>2, <3>1, <3>2
    <2>9. AtMostOncePerReference'
      <3>1. via = "controller" =>
               \A k \in 1..Len(orders) : SentByController(k) => orders[k].ref # intent.ref
        BY <1>3 DEF AddsOrder, GInv, Fresh, BeforeAnswer, InsideBroker, Steps,
           BrokerSteps, RInv, SentAreRemembered, Remembered
      <3>2. ASSUME NEW j \in 1..Len(orders'), NEW k \in 1..Len(orders'),
                   SentByController(j)', SentByController(k)',
                   orders'[j].ref = orders'[k].ref
            PROVE  j = k
        <4>1. CASE j \in 1..Len(orders) /\ k \in 1..Len(orders)
          BY <2>2, <2>3, <3>2, <4>1 DEF RInv, AtMostOncePerReference
        <4>2. CASE j \in 1..Len(orders) /\ k = new
          BY <2>2, <2>3, <2>4, <2>6, <3>1, <3>2, <4>2
        <4>3. CASE j = new /\ k \in 1..Len(orders)
          BY <2>2, <2>3, <2>4, <2>6, <3>1, <3>2, <4>3
        <4> QED
          BY <1>0, <2>0, <2>2, <4>1, <4>2, <4>3
      <3> QED
        BY <3>2 DEF AtMostOncePerReference
    <2> QED
      BY <2>8, <2>9 DEF RInv
  <1> QED
    BY <1>1, <1>2, <1>3, OrdersStep

\* No audit reference reaches the account twice through the controller in one
\* lifetime of the process, for any intents, prices, bounds and entry points
\* in use beside it.
THEOREM AtMostOnce == Spec => []AtMostOncePerReference
  <1>1. TInv /\ GInv /\ RInv /\ [Next]_vars => (TInv /\ GInv /\ RInv)'
    BY TInvNext, GInvNext, RInvNext
  <1>2. Spec => [](TInv /\ GInv /\ RInv)
    BY <1>1, TInvInit, GInvInit, RInvInit, PTL DEF Spec
  <1> QED
    BY <1>2, PTL DEF RInv

-----------------------------------------------------------------------------
\* Every order sent through any entry point finds all the gates of its path
\* open at the moment of the POST: those of the layers the call has passed
\* were open when it passed them, and no step of the call closes one.
THEOREM GatesOpenAtSend == Spec => EveryGateOpenAtSend
  <1> DEFINE Open ==
        LET o == NewestOrder IN
        /\ brkWrite
        /\ o.via = "controller" => ctlState = "ARMED" /\ ctlWrite
        /\ o.action \in ExposureIncreasing =>
              /\ o.via # "admin"
              /\ ~brkHalted /\ ~gwHalted
              /\ o.via = "controller" => ~ctlHalted
  <1>1. ASSUME TInv, GInv, [Next]_vars, SendsOrder PROVE Open
    <2>0. orders \in Seq(Order) /\ Len(orders) \in Nat
      BY <1>1 DEF TInv, TypeOK, AccountTypeOK
    <2>1. AddsOrder
      BY <1>1, <2>0, OrdersStep DEF SendsOrder, KeepsOrders
    <2>2. NewestOrder.via = via /\ NewestOrder.action = intent.action
      <3>1. NewestOrder = NewOrder(armings)
        BY <2>0, <2>1 DEF AddsOrder, NewestOrder
      <3> QED
        BY <3>1 DEF NewOrder
    <2>3. pc = "brk_post" /\ brkWrite
      BY <2>1 DEF AddsOrder
    <2>4. via = "admin" => intent.action = "EXIT"
      BY <1>1, <2>3, CallIntent
    <2> QED
      BY <1>1, <2>2, <2>3, <2>4 DEF GInv, Gates, PastGatewayChecks, InsideBroker,
         Exposure, ExposureIncreasing, TInv, TypeOK
  <1>2. TInv /\ GInv /\ [Next]_vars => [SendsOrder => Open]_vars
    BY <1>1
  <1>3. TInv /\ GInv /\ [Next]_vars => (TInv /\ GInv)'
    BY TInvNext, GInvNext
  <1>4. Spec => [][SendsOrder => Open]_vars
    BY <1>2, <1>3, TInvInit, GInvInit, PTL DEF Spec
  <1> QED
    BY <1>4 DEF EveryGateOpenAtSend

-----------------------------------------------------------------------------
\* Layer 4: what a first test order may cost.  The controller has compared the
\* amount with the cap, and the broker buys no more than the amount is worth
\* at the quote it has read, whatever the controller's quote was.

CapInv ==
    /\ FirstOrderTest /\ Exposure /\ via = "controller"
         /\ pc \in {"brk_check"} \cup InsideBroker => intent.dollars <= TestCap
    /\ Exposure /\ pc = "brk_post" => qty * quote <= intent.dollars

LEMMA WholeShares ==
  ASSUME NEW d \in Nat, NEW p \in Nat \ {0}
  PROVE  (d \div p) * p <= d
  <1>1. d = p * (d \div p) + (d % p) /\ d % p \in Nat /\ d \div p \in Nat
    OBVIOUS
  <1>2. p * (d \div p) = (d \div p) * p
    BY <1>1
  <1>3. p * (d \div p) \in Nat
    BY <1>1, NatProduct
  <1> QED
    BY <1>1, <1>2, <1>3

LEMMA CapInvNext == TInv /\ CapInv /\ [Next]_vars => CapInv'
  <1> SUFFICES ASSUME TInv, CapInv, [Next]_vars PROVE CapInv'
    OBVIOUS
  <1> USE DEF CapInv, InsideBroker, Exposure
  <1>1. CASE GatewayStep
    BY <1>1 DEF GatewayStep, ValidatesIntent, ValidatesQuote, ValidatesCash,
       ValidatesPosition, GoTo, Blocked, callVars
  <1>2. CASE ControllerReadsQuote
    BY <1>2 DEF ControllerReadsQuote, WithinTestCap, Exposure, GoTo, Blocked
  <1>3. CASE ConstructsOrder
    <2>1. CASE pc' = "brk_post"
      <3>1. intent.dollars \in Nat /\ quote \in Nat \ {0}
        BY <1>3, CallIntent, AccountAssumption DEF ConstructsOrder, TInv, CallOK
      <3>2. UNCHANGED <<intent, via, quote>> /\ pc = "brk_position"
        BY <1>3, <2>1 DEF ConstructsOrder, GoTo, Answer
      <3>3. Exposure => qty' = intent.dollars \div quote
        BY <1>3, <2>1 DEF ConstructsOrder, OrderQty, Answer
      <3>4. Exposure => qty' * quote <= intent.dollars
        BY <3>1, <3>3, WholeShares
      <3> QED
        BY <2>1, <3>2, <3>4
    <2>2. CASE pc' # "brk_post"
      BY <1>3, <2>2 DEF ConstructsOrder, GoTo, Answer
    <2> QED
      BY <2>1, <2>2
  <1>4. CASE BrokerStep /\ ~ConstructsOrder
    BY <1>4 DEF BrokerStep, ChecksIntent, ReadsQuote, ReadsAccount, PostsOrder,
       LooksUpStatus, GoTo, Answer
  <1>5. CASE Finishes
    BY <1>5 DEF Finishes
  <1>6. CASE Caller
    BY <1>6 DEF Caller, ControllerSubmits, GatewaySubmits, ClosesPosition
  <1>7. CASE Operator
    BY <1>7 DEF Operator, Arm, Disarm, ReviewSetsFlags, CancelsOrder, callVars
  <1>8. CASE Account \/ UNCHANGED vars
    BY <1>8 DEF Account, callVars, vars
  <1>9. CASE Restart
    BY <1>9 DEF Restart
  <1> QED
    BY <1>1, <1>2, <1>3, <1>4, <1>5, <1>6, <1>7, <1>8, <1>9 DEF Next, CallStep

\* A BUY or ADD sent in first-order test mode costs no more than the cap, for
\* any cap, prices and amounts, although the price moves between the quote
\* that the controller checks and the one that sizes the order.
THEOREM TestOrderCapped == Spec => TestOrderWithinCap
  <1> DEFINE Applies ==
        SendsOrder /\ FirstOrderTest /\ NewestOrder.via = "controller"
          /\ NewestOrder.action \in ExposureIncreasing
  <1>1. ASSUME TInv, CapInv, [Next]_vars, Applies PROVE qty * quote <= TestCap
    <2>0. orders \in Seq(Order) /\ Len(orders) \in Nat
      BY <1>1 DEF TInv, TypeOK, AccountTypeOK
    <2>1. AddsOrder
      BY <1>1, <2>0, OrdersStep DEF SendsOrder, KeepsOrders
    <2>2. NewestOrder = NewOrder(armings) /\ pc = "brk_post"
      BY <2>0, <2>1 DEF AddsOrder, NewestOrder
    <2>3. Exposure /\ via = "controller"
      BY <1>1, <2>2 DEF NewOrder, Exposure
    <2>4. qty * quote \in Nat /\ intent.dollars \in Nat
      BY <1>1, <2>2, NatProduct, CallIntent DEF TInv, TypeOK
    <2> QED
      BY <1>1, <2>2, <2>3, <2>4, ControllerAssumption DEF CapInv, InsideBroker
  <1>2. TInv /\ CapInv /\ [Next]_vars => [Applies => qty * quote <= TestCap]_vars
    BY <1>1
  <1>3. Init => CapInv
    BY DEF Init, NoCall, CapInv, InsideBroker
  <1>4. TInv /\ CapInv /\ [Next]_vars => (TInv /\ CapInv)'
    BY TInvNext, CapInvNext
  <1>5. Spec => [][Applies => qty * quote <= TestCap]_vars
    BY <1>2, <1>3, <1>4, TInvInit, PTL DEF Spec
  <1> QED
    BY <1>5 DEF TestOrderWithinCap

-----------------------------------------------------------------------------
\* Layer 5: the write path implements OrderPermits.

\* Nothing was sent yet under the present arming of a controller in test mode.
Unused ==
    \A k \in 1..Len(orders) : SentByController(k) => orders[k].arming # armings

PermitInv ==
    /\ \A k \in 1..Len(orders) : orders[k].arming <= armings
    /\ FirstOrderTest /\ ctlState = "ARMED"
         /\ (pc = "idle" \/ via # "controller" \/ pc \in BeforeAnswer) => Unused

\* What a step that keeps the book does to the placed orders: a restart
\* forgets them, no other step changes them.
LEMMA PlacedKept ==
  ASSUME TInv, [Next]_vars, ~Restart, KeepsOrders
  PROVE  PlacedByController' = PlacedByController
  <1>0. life' = life
    BY LifeStays
  <1>1. Len(orders') = Len(orders)
    BY DEF KeepsOrders
  <1>2. ASSUME NEW k \in 1..Len(orders)
        PROVE  /\ orders'[k].ref = orders[k].ref
               /\ orders'[k].arming = orders[k].arming
               /\ SentByController(k)' <=> SentByController(k)
    BY <1>0 DEF KeepsOrders, SameIdentity, SentByController
  <1> QED
    BY <1>1, <1>2 DEF PlacedByController

LEMMA PlacedForgotten ==
  ASSUME TInv, RInv, Restart
  PROVE  PlacedByController' = {}
  <1>1. orders' = orders /\ life' = life + 1
    BY DEF Restart, accountVars
  <1>2. ASSUME NEW k \in 1..Len(orders) PROVE ~SentByController(k)'
    <2>1. orders[k] \in Order
      BY DEF TInv, TypeOK, AccountTypeOK
    <2>2. orders[k].life \in Nat /\ orders[k].life <= life /\ life \in Nat
      BY <2>1 DEF Order, RInv, SentAreRemembered, TInv, TypeOK
    <2> QED
      BY <1>1, <2>2 DEF SentByController
  <1> QED
    BY <1>1, <1>2 DEF PlacedByController

\* An order that is sent is placed if it came through the controller.
LEMMA PlacedAdded ==
  ASSUME TInv, [Next]_vars, ~Restart, AddsOrder, NEW new \in Nat, new = Len(orders) + 1
  PROVE  /\ via # "controller" => PlacedByController' = PlacedByController
         /\ via = "controller" =>
               PlacedByController' = PlacedByController \cup
                  {[id |-> new, ref |-> intent.ref, grant |-> armings]}
  <1>0. orders \in Seq(Order) /\ Len(orders) \in Nat
    BY DEF TInv, TypeOK, AccountTypeOK
  <1>1. life' = life
    BY LifeStays
  <1>2. /\ 1..Len(orders') = 1..Len(orders) \cup {new}
        /\ \A k \in 1..Len(orders) : orders'[k] = orders[k]
        /\ orders'[new] = NewOrder(armings)
    BY <1>0 DEF AddsOrder
  <1>3. \A k \in 1..Len(orders) : SentByController(k)' <=> SentByController(k)
    BY <1>1, <1>2 DEF SentByController
  <1>4. SentByController(new)' <=> via = "controller"
    BY <1>1, <1>2 DEF SentByController, NewOrder
  <1>5. orders'[new].ref = intent.ref /\ orders'[new].arming = armings
    BY <1>2 DEF NewOrder
  <1> DEFINE Entry(k) == [id |-> k, ref |-> orders[k].ref, grant |-> orders[k].arming]
             Old == {k \in 1..Len(orders) : SentByController(k)}
             Now == {k \in 1..Len(orders') : SentByController(k)'}
             EntryNow(k) ==
               [id |-> k, ref |-> orders'[k].ref, grant |-> orders'[k].arming]
  <1>6. PlacedByController = {Entry(k) : k \in Old}
    BY DEF PlacedByController
  <1>7. PlacedByController' = {EntryNow(k) : k \in Now}
    BY DEF PlacedByController
  <1>8. Now = IF via = "controller" THEN Old \cup {new} ELSE Old
    BY <1>2, <1>3, <1>4
  <1>9. \A k \in Old : EntryNow(k) = Entry(k)
    BY <1>2
  <1>10. EntryNow(new) = [id |-> new, ref |-> intent.ref, grant |-> armings]
    BY <1>5
  <1> HIDE DEF Entry, EntryNow, Old, Now
  <1>11. CASE via = "controller"
    BY <1>6, <1>7, <1>8, <1>9, <1>10, <1>11
  <1>12. CASE via # "controller"
    BY <1>6, <1>7, <1>8, <1>9, <1>12
  <1> QED
    BY <1>11, <1>12

LEMMA PermitInvNext == TInv /\ GInv /\ RInv /\ PermitInv /\ [Next]_vars => PermitInv'
  <1> SUFFICES ASSUME TInv, GInv, RInv, PermitInv, [Next]_vars PROVE PermitInv'
    OBVIOUS
  <1>0. /\ orders \in Seq(Order) /\ Len(orders) \in Nat /\ armings \in Nat
        /\ \A k \in 1..Len(orders) : orders[k].arming \in Nat
    <2>1. orders \in Seq(Order) /\ Len(orders) \in Nat /\ armings \in Nat
      BY DEF TInv, TypeOK, AccountTypeOK
    <2>2. \A k \in 1..Len(orders) : orders[k] \in Order
      BY <2>1
    <2> QED
      BY <2>1, <2>2 DEF Order
  \* A restart disarms.
  <1>1. CASE Restart
    BY <1>1 DEF Restart, accountVars, PermitInv
  \* The order uses up the permission: the call has yet to answer.
  <1>2. CASE AddsOrder /\ ~Restart
    <2>1. PostsOrder(armings) /\ UNCHANGED <<gwHalted, controllerVars>>
      BY <1>2, SentByPost
    <2>2. pc' \in {"brk_lookup", "returned"} /\ via' = via
      BY <1>2, <1>0, <2>1 DEF PostsOrder, GoTo, Answer, AddsOrder
    <2>3. /\ armings' = armings /\ ctlState' = ctlState
          /\ life' = life
      BY <2>1 DEF PostsOrder, controllerVars
    <2>4. /\ \A k \in 1..Len(orders) : orders'[k] = orders[k]
          /\ Len(orders') = Len(orders) + 1
          /\ orders'[Len(orders) + 1].arming = armings
          /\ orders'[Len(orders) + 1].via = via
      BY <1>0, <1>2 DEF AddsOrder, NewOrder
    <2>5. \A k \in 1..Len(orders') : orders'[k].arming <= armings'
      BY <1>0, <2>3, <2>4 DEF PermitInv
    <2>6. ASSUME FirstOrderTest, ctlState = "ARMED", via # "controller"
          PROVE  Unused'
      <3>1. Unused
        BY <2>6 DEF PermitInv
      <3>2. ASSUME NEW k \in 1..Len(orders'), SentByController(k)'
            PROVE  k \in 1..Len(orders) /\ SentByController(k)
        BY <1>0, <2>3, <2>4, <2>6, <3>2 DEF SentByController
      <3> QED
        BY <2>3, <2>4, <3>1, <3>2 DEF Unused
    <2> QED
      BY <2>2, <2>3, <2>5, <2>6 DEF PermitInv, BeforeAnswer
  <1>3. CASE KeepsOrders /\ ~Restart
    <2>1. life' = life
      BY <1>3, LifeStays
    <2>2. /\ Len(orders') = Len(orders)
          /\ \A k \in 1..Len(orders) :
                /\ orders'[k].arming = orders[k].arming
                /\ SentByController(k)' <=> SentByController(k)
      BY <1>3, <2>1 DEF KeepsOrders, SameIdentity, SentByController
    \* A new arming is one that no order carries yet.
    <2>3. CASE Arm
      <3>1. armings' = armings + 1
        BY <2>3 DEF Arm
      <3>2. \A k \in 1..Len(orders) :
               orders[k].arming <= armings' /\ orders[k].arming # armings'
        BY <1>0, <3>1 DEF PermitInv
      <3> QED
        BY <2>2, <3>2 DEF PermitInv, Unused
    <2>4. CASE ~Arm
      <3>1. armings' = armings
        BY <1>3, <2>4 DEF Next, CallStep, vars, controllerVars, GatewayStep,
           ControllerReadsQuote, BrokerStep, Finishes, Caller, ControllerSubmits,
           Operator, Disarm, ReviewSetsFlags, Account
      <3>2. \A k \in 1..Len(orders') : orders'[k].arming <= armings'
        BY <2>2, <3>1 DEF PermitInv
      <3>3. Unused => Unused'
        BY <2>2, <3>1 DEF Unused
      <3>4. ASSUME FirstOrderTest, ctlState' = "ARMED",
                   pc' = "idle" \/ via' # "controller" \/ pc' \in BeforeAnswer
            PROVE  /\ ctlState = "ARMED"
                   /\ pc = "idle" \/ via # "controller" \/ pc \in BeforeAnswer
        <4> USE <3>4 DEF BeforeAnswer, Steps, GatewaySteps, BrokerSteps
        <4>1. CASE GatewayStep
          BY <4>1 DEF GatewayStep, ValidatesIntent, ValidatesQuote, ValidatesCash,
             ValidatesPosition, controllerVars
        <4>2. CASE ControllerReadsQuote
          BY <4>2 DEF ControllerReadsQuote, controllerVars
        <4>3. CASE BrokerStep
          BY <4>3 DEF BrokerStep, ChecksIntent, ReadsQuote, ReadsAccount,
             ConstructsOrder, PostsOrder, LooksUpStatus, GoTo, Answer, controllerVars
        <4>4. CASE Finishes
          BY <4>4 DEF Finishes, Disarms
        <4>5. CASE Caller
          BY <4>5 DEF Caller, ControllerSubmits, GatewaySubmits, ClosesPosition,
             controllerVars
        <4>6. CASE Operator
          BY <2>4, <4>6 DEF Operator, Disarm, ReviewSetsFlags, CancelsOrder,
             callVars, controllerVars
        <4>7. CASE Account \/ UNCHANGED vars
          BY <4>7 DEF Account, callVars, controllerVars, vars
        <4> QED
          BY <1>3, <4>1, <4>2, <4>3, <4>4, <4>5, <4>6, <4>7 DEF Next, CallStep
      <3> QED
        BY <3>2, <3>3, <3>4 DEF PermitInv
    <2> QED
      BY <2>3, <2>4
  <1> QED
    BY <1>1, <1>2, <1>3, OrdersStep

LEMMA PermitStep ==
  ASSUME TInv, GInv, RInv, PermitInv, [Next]_vars
  PROVE  Permits!Next \/ UNCHANGED <<ctlState = "ARMED", armings, PlacedByController>>
  <1>1. CASE Restart
    <2>1. ctlState' = "DISARMED" /\ armings' = armings
      BY <1>1 DEF Restart
    <2>2. PlacedByController' = {}
      BY <1>1, PlacedForgotten
    <2> QED
      BY <2>1, <2>2 DEF Permits!Next, Permits!Forget
  <1>2. CASE AddsOrder /\ ~Restart
    <2>1. UNCHANGED <<ctlState, armings>>
      BY <1>2, SentByPost DEF controllerVars
    <2>2. PICK new \in Nat : new = Len(orders) + 1
      BY DEF TInv, TypeOK, AccountTypeOK
    <2>3. CASE via # "controller"
      BY <1>2, <2>1, <2>2, <2>3, PlacedAdded
    <2>4. CASE via = "controller"
      <3> DEFINE order == [id |-> new, ref |-> intent.ref, grant |-> armings]
      <3>1. PlacedByController' = PlacedByController \cup {order}
        BY <1>2, <2>2, <2>4, PlacedAdded
      <3>2. ctlState = "ARMED"
        BY <1>2, <2>4 DEF GInv, Gates, AddsOrder
      <3>3. ASSUME NEW earlier \in PlacedByController
            PROVE  earlier.ref # order.ref /\ (FirstOrderTest => earlier.grant # armings)
        <4>1. PICK k \in 1..Len(orders) :
                 /\ SentByController(k)
                 /\ earlier.ref = orders[k].ref /\ earlier.grant = orders[k].arming
          BY DEF PlacedByController
        <4>2. orders[k].ref # intent.ref
          BY <1>2, <2>4, <4>1 DEF AddsOrder, GInv, Fresh, BeforeAnswer, InsideBroker,
             Steps, BrokerSteps, RInv, SentAreRemembered, Remembered
        <4>3. FirstOrderTest => orders[k].arming # armings
          BY <1>2, <3>2, <4>1 DEF AddsOrder, PermitInv, Unused, BeforeAnswer, Steps,
             BrokerSteps
        <4> QED
          BY <4>1, <4>2, <4>3
      <3>4. order \in PlacedByController' /\ order.grant = armings
        BY <3>1
      <3> HIDE DEF order
      <3>5. Permits!Place
        BY <2>1, <3>1, <3>2, <3>3, <3>4 DEF Permits!Place
      <3> QED
        BY <3>5 DEF Permits!Next
    <2> QED
      BY <2>3, <2>4
  <1>3. CASE KeepsOrders /\ ~Restart
    <2>1. PlacedByController' = PlacedByController
      BY <1>3, PlacedKept
    <2>2. \/ ctlState' = "ARMED" /\ armings' = armings + 1
          \/ ctlState' = "DISARMED" /\ armings' = armings
          \/ UNCHANGED <<ctlState, armings>>
      BY <1>3 DEF Next, CallStep, vars, controllerVars, GatewayStep, Disarms,
         ControllerReadsQuote, BrokerStep, Finishes, Caller, ControllerSubmits,
         Operator, Arm, Disarm, ReviewSetsFlags, Account
    <2> QED
      BY <2>1, <2>2 DEF Permits!Next, Permits!Grant, Permits!Revoke
  <1> QED
    BY <1>1, <1>2, <1>3, OrdersStep

\* The write path behind the controller implements OrderPermits, whatever
\* other entry points are used beside it: an order is placed only under a
\* standing permission, once for each reference of a lifetime, and in
\* first-order test mode once for each arming.
THEOREM ControllerImplementsPermits == Spec => ImplementsPermits
  <1>1. Init => Permits!Init
    <2> SUFFICES ASSUME Init PROVE Permits!Init
      OBVIOUS
    <2>1. PlacedByController = {}
      BY DEF Init, AccountInit, PlacedByController
    <2> QED
      BY <2>1 DEF Init, ControllerInit, Permits!Init
  <1>2. Init => PermitInv
    BY DEF Init, AccountInit, PermitInv, Unused
  <1>3. TInv /\ GInv /\ RInv /\ PermitInv /\ [Next]_vars
          => (TInv /\ GInv /\ RInv /\ PermitInv)'
    BY TInvNext, GInvNext, RInvNext, PermitInvNext
  <1>4. TInv /\ GInv /\ RInv /\ PermitInv /\ [Next]_vars
          => [Permits!Next]_<<ctlState = "ARMED", armings, PlacedByController>>
    BY PermitStep
  <1> QED
    BY <1>1, <1>2, <1>3, <1>4, TInvInit, GInvInit, RInvInit, PTL
       DEF Spec, ImplementsPermits, Permits!Spec

-----------------------------------------------------------------------------
\* Layer 6: what the account has reached it never takes back, and the journal
\* knows of no order the account has not received.

\* Fills last, and so does the status of an order that is no longer open.
Lasts ==
    /\ Len(orders) <= Len(orders')
    /\ \A k \in 1..Len(orders) :
          /\ orders[k].filled > 0 => orders'[k].filled > 0
          /\ ~IsOpen(k) => orders'[k].status = orders[k].status

LEMMA OutcomesLast == TInv /\ [Next]_vars => Lasts
  <1> SUFFICES ASSUME TInv, [Next]_vars PROVE Lasts
    OBVIOUS
  <1>0. /\ orders \in Seq(Order) /\ Len(orders) \in Nat
        /\ \A k \in 1..Len(orders) : orders[k] \in Order
    BY DEF TInv, TypeOK, AccountTypeOK
  <1>1. CASE UNCHANGED orders
    BY <1>0, <1>1 DEF Lasts
  <1>2. CASE AddsOrder
    BY <1>0, <1>2 DEF Lasts, AddsOrder
  <1>3. ASSUME NEW k \in 1..Len(orders), NEW n \in 1..orders[k].qty, RemoteFill(k, n)
        PROVE  Lasts
    <2>1. IsOpen(k) /\ orders[k].filled \in Nat /\ n \in Nat /\ n > 0
      <3>1. orders[k].filled \in Nat /\ orders[k].qty \in Nat
        BY <1>0 DEF Order
      <3> QED
        BY <1>3, <3>1 DEF RemoteFill
    <2> DEFINE status ==
          IF orders[k].filled + n = orders[k].qty THEN "filled" ELSE "open"
    <2>2. orders' = [orders EXCEPT ![k] =
                        [@ EXCEPT !.filled = orders[k].filled + n, !.status = status]]
      BY <1>0, <1>3 DEF RemoteFill, Order
    <2> HIDE DEF status
    <2>4. Len(orders') = Len(orders) /\ orders'[k].filled > 0
      BY <1>0, <2>1, <2>2 DEF Order
    <2>5. \A j \in 1..Len(orders) : j # k => orders'[j] = orders[j]
      BY <1>0, <2>2
    <2> QED
      BY <1>0, <2>1, <2>4, <2>5 DEF Lasts, IsOpen
  <1>4. ASSUME NEW k \in 1..Len(orders), NEW s, IsOpen(k),
               orders' = [orders EXCEPT ![k].status = s]
        PROVE  Lasts
    <2>1. Len(orders') = Len(orders) /\ orders'[k].filled = orders[k].filled
      BY <1>0, <1>4 DEF Order
    <2>2. \A j \in 1..Len(orders) : j # k => orders'[j] = orders[j]
      BY <1>0, <1>4
    <2> QED
      BY <1>0, <1>4, <2>1, <2>2 DEF Lasts, IsOpen
  <1>5. CASE BrokerStep /\ ~UNCHANGED orders
    BY <1>2, <1>5 DEF BrokerStep, ChecksIntent, ReadsQuote, ReadsAccount,
       ConstructsOrder, PostsOrder, LooksUpStatus, accountVars, AddsOrder
  <1>6. CASE Next /\ ~BrokerStep /\ ~UNCHANGED orders
    BY <1>3, <1>4, <1>6 DEF Next, CallStep, GatewayStep, ValidatesIntent,
       ValidatesQuote, ValidatesCash, ValidatesPosition, ControllerReadsQuote,
       Finishes, Caller, ControllerSubmits, GatewaySubmits, ClosesPosition, Operator,
       Arm, Disarm, ReviewSetsFlags, CancelsOrder, Account, MarketMoves, RemoteClose,
       Restart, accountVars
  <1> QED
    BY <1>1, <1>5, <1>6 DEF vars, accountVars

\* An order id the journal names was sent: so an order that is only now
\* accepted finds no entry under its number.
JournalKnowsSent == \A k \in OrderIds : journal[k] # "NONE" => k <= Len(orders)

JInv == JournalKnowsSent /\ JournalNeverInvents

LEMMA JInvNext == TInv /\ JInv /\ [Next]_vars => JInv'
  <1> SUFFICES ASSUME TInv, JInv, [Next]_vars PROVE JInv'
    OBVIOUS
  <1>0. /\ orders \in Seq(Order) /\ Len(orders) \in Nat /\ Len(orders') \in Nat
        /\ Len(orders) <= MaxOrders /\ Len(orders') <= MaxOrders /\ MaxOrders \in Nat
        /\ journal \in [OrderIds -> OrderStatus \cup {"NONE"}]
    BY TInvNext, AccountAssumption DEF TInv, TypeOK, CallOK, AccountTypeOK
  <1>1. Lasts
    BY OutcomesLast
  <1>2. CASE UNCHANGED journal
    <2>1. JournalKnowsSent'
      BY <1>0, <1>1, <1>2 DEF JInv, JournalKnowsSent, Lasts, OrderIds
    <2>2. ASSUME NEW k \in 1..Len(orders'), k \notin 1..Len(orders)
          PROVE  journal[k] = "NONE"
      BY <1>0, <2>2 DEF JInv, JournalKnowsSent, OrderIds
    <2>3. JournalNeverInvents'
      BY <1>1, <1>2, <2>2 DEF JInv, JournalNeverInvents, Lasts, IsOpen
    <2> QED
      BY <2>1, <2>3 DEF JInv
  <1>3. CASE LooksUpStatus
    <2> DEFINE last == Len(orders)
    <2>1. UNCHANGED orders /\ last > 0
      BY <1>3 DEF LooksUpStatus, accountVars, TInv, CallOK
    <2>2. CASE \E s \in {"PENDING", ReportedStatus(orders[last])} :
                  journal' = [journal EXCEPT ![last] = s]
      <3>1. PICK s \in {"PENDING", ReportedStatus(orders[last])} :
               journal' = [journal EXCEPT ![last] = s]
        BY <2>2
      <3>2. /\ last \in OrderIds /\ journal'[last] = s
            /\ \A k \in OrderIds : k # last => journal'[k] = journal[k]
        BY <1>0, <2>1, <3>1 DEF OrderIds
      <3>3. /\ s = "FILLED" => orders[last].filled > 0
            /\ s = "REJECTED" => orders[last].status = "rejected"
            /\ s = "CANCELED" => orders[last].status = "canceled"
        BY <3>1 DEF ReportedStatus
      <3>4. JournalKnowsSent'
        BY <1>0, <2>1, <3>2 DEF JInv, JournalKnowsSent, OrderIds
      <3>5. JournalNeverInvents'
        BY <1>0, <2>1, <3>2, <3>3 DEF JInv, JournalNeverInvents, OrderIds
      <3> QED
        BY <3>4, <3>5 DEF JInv
    <2> QED
      BY <1>2, <1>3, <2>2 DEF LooksUpStatus
  <1>4. CASE \E k \in 1..Len(orders) : CancelsOrder(k)
    <2>1. PICK k \in 1..Len(orders) : CancelsOrder(k)
      BY <1>4
    <2>2. CASE journal' = [journal EXCEPT ![k] = "CANCELED"]
      <3>1. orders' = [orders EXCEPT ![k].status = "canceled"]
        BY <2>1 DEF CancelsOrder
      <3>2. /\ Len(orders') = Len(orders) /\ orders'[k].status = "canceled"
            /\ \A j \in 1..Len(orders) : j # k => orders'[j] = orders[j]
        <4>1. orders[k] \in Order
          BY <1>0
        <4> QED
          BY <1>0, <3>1, <4>1 DEF Order
      <3>3. /\ k \in OrderIds /\ journal'[k] = "CANCELED"
            /\ \A j \in OrderIds : j # k => journal'[j] = journal[j]
        BY <1>0, <2>2 DEF OrderIds
      <3>4. JournalKnowsSent'
        BY <1>0, <3>2, <3>3 DEF JInv, JournalKnowsSent, OrderIds
      <3>5. JournalNeverInvents'
        BY <1>0, <3>2, <3>3 DEF JInv, JournalNeverInvents, OrderIds
      <3> QED
        BY <3>4, <3>5 DEF JInv
    <2> QED
      BY <1>2, <2>1, <2>2 DEF CancelsOrder
  <1>5. CASE Restart
    <2>1. journal' = [k \in OrderIds |-> "NONE"]
      BY <1>5 DEF Restart
    <2>2. \A k \in 1..Len(orders') : k \in OrderIds
      BY <1>0 DEF OrderIds
    <2> QED
      BY <2>1, <2>2 DEF JInv, JournalKnowsSent, JournalNeverInvents
  <1>6. CASE GatewayStep \/ ControllerReadsQuote \/ (BrokerStep /\ ~LooksUpStatus)
    BY <1>2, <1>6 DEF GatewayStep, ValidatesIntent, ValidatesQuote, ValidatesCash,
       ValidatesPosition, ControllerReadsQuote, BrokerStep, ChecksIntent, ReadsQuote,
       ReadsAccount, ConstructsOrder, PostsOrder, brokerMemory
  <1>7. CASE Finishes \/ Caller
    BY <1>2, <1>7 DEF Finishes, Caller, ControllerSubmits, GatewaySubmits,
       ClosesPosition, brokerMemory
  <1>8. CASE Operator
    BY <1>2, <1>4, <1>8 DEF Operator, Arm, Disarm, ReviewSetsFlags, brokerMemory
  <1>9. CASE Account \/ UNCHANGED vars
    BY <1>2, <1>9 DEF Account, vars, brokerMemory
  <1> QED
    BY <1>3, <1>5, <1>6, <1>7, <1>8, <1>9 DEF Next, CallStep

\* The broker's journal may lag behind the account and may miss orders, but
\* what it says of an order has happened: for every account, however it fills,
\* rejects, cancels and answers, and whenever the process restarts.
THEOREM JournalIsTrue == Spec => []JournalNeverInvents
  <1>1. Init => JInv
    BY DEF Init, AccountInit, BrokerInit, JInv, JournalKnowsSent, JournalNeverInvents
  <1>2. TInv /\ JInv /\ [Next]_vars => (TInv /\ JInv)'
    BY TInvNext, JInvNext
  <1>3. JInv => JournalNeverInvents
    BY DEF JInv
  <1> QED
    BY <1>1, <1>2, <1>3, TInvInit, PTL DEF Spec

-----------------------------------------------------------------------------
\* Layer 7: whatever can still sell shares behind a sale's back was open when
\* the position was read for that sale, or was sent after it.

\* Open orders sent before order k, or before the order about to be sent.
RivalsListed ==
    \A j, k \in 1..Len(orders) :
        j < k /\ IsOpen(j) /\ IsOpen(k) => j \in orders[k].rivals
RivalsRead ==
    pc = "brk_post" => \A j \in 1..Len(orders) : IsOpen(j) => j \in openAtRead

\* The sale about to be sent is of shares still held, or another one has
\* filled since the position was read.
SaleFits ==
    pc = "brk_post" /\ ~Exposure =>
        \/ qty <= held[intent.ticker]
        \/ \E j \in 1..Len(orders) : j \in openAtRead /\ Sold(j, intent.ticker)

WInv == RivalsListed /\ RivalsRead /\ SaleFits /\ OversellTakesTwo

\* An order is never reopened, and shares sold stay sold.
LEMMA OrdersLast ==
  ASSUME TInv, [Next]_vars
  PROVE  /\ Len(orders) <= Len(orders')
         /\ \A k \in 1..Len(orders) :
               /\ IsOpen(k)' => IsOpen(k)
               /\ orders[k].filled > 0 => orders'[k].filled > 0
               /\ orders'[k].rivals = orders[k].rivals
               /\ orders'[k].ticker = orders[k].ticker
               /\ orders'[k].action = orders[k].action
               /\ orders'[k].qty = orders[k].qty
  <1>0. orders \in Seq(Order) /\ Len(orders) \in Nat
    BY DEF TInv, TypeOK, AccountTypeOK
  <1>1. Lasts
    BY OutcomesLast
  <1>2. \A k \in 1..Len(orders) : SameIdentity(orders'[k], orders[k])
    BY <1>0, OrdersStep DEF KeepsOrders, AddsOrder, SameIdentity
  <1> QED
    BY <1>1, <1>2 DEF Lasts, SameIdentity, IsOpen

\* The step leaves the account alone but for the closing of an order.
ClosesOnly ==
    /\ held' = held
    /\ Len(orders') = Len(orders)
    /\ \A k \in 1..Len(orders) :
          \/ orders'[k] = orders[k]
          \/ orders'[k].status # "open"

LEMMA ClosingKeepsCover ==
  ASSUME TInv, [Next]_vars, WInv, ClosesOnly
  PROVE  RivalsListed' /\ OversellTakesTwo'
  <1>1. \A k \in 1..Len(orders) : IsOpen(k)' => orders'[k] = orders[k]
    BY DEF ClosesOnly, IsOpen
  <1>2. RivalsListed'
    BY <1>1, OrdersLast DEF ClosesOnly, WInv, RivalsListed
  <1>3. OversellTakesTwo'
    <2> SUFFICES ASSUME NEW k \in 1..Len(orders), OpenSale(k)', ~Covered(k)'
                 PROVE  SoldBehind(k)'
      BY DEF OversellTakesTwo, ClosesOnly
    <2>1. IsOpen(k)' /\ orders'[k] = orders[k]
      BY <1>1 DEF OpenSale
    <2>2. OpenSale(k) /\ ~Covered(k)
      BY <2>1 DEF OpenSale, Covered, ClosesOnly, IsOpen
    <2>3. PICK j \in 1..Len(orders) :
             (j > k \/ j \in orders[k].rivals) /\ Sold(j, orders[k].ticker)
      BY <2>2 DEF WInv, OversellTakesTwo, SoldBehind
    <2> QED
      BY <2>1, <2>3, OrdersLast DEF SoldBehind, Sold, ClosesOnly
  <1> QED
    BY <1>2, <1>3

\* Of open order i n more shares trade.  If it is a sale, it asks for n less of
\* a position that is n smaller, and explains whatever another open sale, sent
\* or about to be, may now lack.
LEMMA FillKeepsCover ==
  ASSUME TInv, [Next]_vars, WInv, UNCHANGED <<pc, qty, intent>>,
         NEW i \in 1..Len(orders), NEW n \in 1..orders[i].qty, RemoteFill(i, n)
  PROVE  WInv'
  <1> DEFINE o == orders[i]
             t == o.ticker
             status == IF o.filled + n = o.qty THEN "filled" ELSE "open"
  <1>0. /\ orders \in Seq(Order) /\ Len(orders) \in Nat
        /\ held \in [Tickers -> Nat]
    BY DEF TInv, TypeOK, AccountTypeOK
  <1>1. o \in Order
    BY <1>0
  <1>2. /\ o.qty \in Nat /\ o.filled \in Nat /\ t \in Tickers
        /\ n \in Nat /\ n > 0
    BY <1>1 DEF Order
  <1>3. IsOpen(i) /\ UNCHANGED openAtRead
    BY DEF RemoteFill
  <1>4. orders' = [orders EXCEPT ![i] = [@ EXCEPT !.filled = o.filled + n,
                                                  !.status = status]]
    BY <1>1 DEF RemoteFill, Order
  <1>5. /\ Len(orders') = Len(orders)
        /\ orders'[i].filled = o.filled + n
    <2> HIDE DEF status
    <2> QED
      BY <1>0, <1>1, <1>4 DEF Order
  <1>6. \A j \in 1..Len(orders) : j # i => orders'[j] = orders[j]
    BY <1>0, <1>4
  <1>7. RivalsListed' /\ RivalsRead'
    BY <1>3, <1>5, OrdersLast DEF WInv, RivalsListed, RivalsRead
  \* A purchase takes no shares away; a sale has now sold some.
  <1>8. /\ held' \in [Tickers -> Nat]
        /\ \A s \in Tickers : held'[s] >= held[s] \/ (s = t /\ Sold(i, t)')
        /\ Side(o.action) = "SELL" => held'[t] = held[t] - n
    <2>1. CASE Side(o.action) = "BUY"
      BY <1>0, <1>2, <2>1 DEF RemoteFill
    <2>2. CASE Side(o.action) = "SELL"
      <3>1. n <= held[t] /\ held' = [held EXCEPT ![t] = @ - n]
        BY <2>2 DEF RemoteFill
      <3>2. Sold(i, t)'
        BY <1>2, <1>5, <2>2, OrdersLast DEF Sold
      <3>3. held[t] \in Nat /\ held[t] - n \in Nat
        BY <1>0, <1>2, <3>1
      <3> QED
        BY <1>0, <1>2, <3>1, <3>2, <3>3
    <2> QED
      BY <2>1, <2>2 DEF Side
  <1>9. SaleFits'
    <2> SUFFICES ASSUME pc = "brk_post", ~Exposure
                 PROVE  \/ qty <= held'[intent.ticker]
                        \/ \E j \in 1..Len(orders) :
                              j \in openAtRead /\ Sold(j, intent.ticker)'
      BY <1>3, <1>5 DEF SaleFits, Exposure
    <2>1. intent.ticker \in Tickers /\ qty \in Nat
      BY CallIntent DEF TInv, TypeOK
    <2>2. i \in openAtRead
      BY <1>3 DEF WInv, RivalsRead
    <2>3. CASE \E j \in 1..Len(orders) : j \in openAtRead /\ Sold(j, intent.ticker)
      BY <2>3, OrdersLast DEF Sold
    <2>4. CASE qty <= held[intent.ticker]
      <3>1. CASE held'[intent.ticker] >= held[intent.ticker]
        BY <1>0, <1>8, <2>1, <2>4, <3>1
      <3>2. CASE intent.ticker = t /\ Sold(i, t)'
        BY <2>2, <3>2, OrdersLast DEF Sold
      <3> QED
        BY <1>8, <2>1, <3>1, <3>2
    <2> QED
      BY <2>3, <2>4 DEF WInv, SaleFits
  <1>10. OversellTakesTwo'
    <2> SUFFICES ASSUME NEW k \in 1..Len(orders), OpenSale(k)', ~Covered(k)'
                 PROVE  SoldBehind(k)'
      BY <1>5 DEF OversellTakesTwo
    <2>1. OpenSale(k)
      BY OrdersLast DEF OpenSale
    <2>2. /\ orders[k].ticker \in Tickers
          /\ orders[k].qty \in Nat /\ orders[k].filled \in Nat
      <3>1. orders[k] \in Order
        BY <1>0
      <3> QED
        BY <3>1 DEF Order
    <2>3. CASE ~Covered(k)
      <3>1. PICK j \in 1..Len(orders) :
               (j > k \/ j \in orders[k].rivals) /\ Sold(j, orders[k].ticker)
        BY <2>1, <2>3 DEF WInv, OversellTakesTwo, SoldBehind
      <3> QED
        BY <1>5, <3>1, OrdersLast DEF SoldBehind, Sold
    <2>4. CASE Covered(k) /\ k = i
      <3>1. Side(o.action) = "SELL"
        BY <2>1, <2>4 DEF OpenSale
      <3>2. held'[t] = held[t] - n /\ held[t] \in Nat
        BY <1>0, <1>2, <1>8, <3>1
      <3>3. o.qty - o.filled <= held[t]
        BY <2>4 DEF Covered
      <3>4. orders'[k].qty = o.qty /\ orders'[k].ticker = t
        BY <2>4, OrdersLast
      <3>5. o.qty - (o.filled + n) <= held'[t]
        BY <1>2, <3>2, <3>3
      <3> QED
        BY <1>5, <2>4, <3>4, <3>5 DEF Covered
    <2>5. CASE Covered(k) /\ k # i
      <3>1. orders'[k] = orders[k]
        BY <1>6, <2>5
      <3>2. ~(held'[orders[k].ticker] >= held[orders[k].ticker])
        BY <1>0, <1>8, <2>2, <2>5, <3>1 DEF Covered
      <3>3. orders[k].ticker = t /\ Sold(i, t)'
        BY <1>8, <2>2, <3>2
      <3>4. i > k \/ i \in orders[k].rivals
        BY <1>0, <1>3, <2>1, <2>5 DEF WInv, RivalsListed, OpenSale
      <3>5. Sold(i, orders[k].ticker)'
        BY <3>1, <3>3, OrdersLast DEF Sold
      <3> QED
        BY <1>5, <3>1, <3>4, <3>5 DEF SoldBehind, Sold
    <2> QED
      BY <2>3, <2>4, <2>5
  <1> QED
    BY <1>7, <1>9, <1>10 DEF WInv

\* What the market, a rejection, an expiry or cancel_order does is to close.
LEMMA ClosingSteps ==
  ASSUME TInv,
         \/ \E k \in 1..Len(orders) : CancelsOrder(k)
         \/ \E k \in 1..Len(orders) : \E s \in {"rejected", "canceled"} : RemoteClose(k, s)
         \/ \E t \in Tickers : MarketMoves(t)
         \/ UNCHANGED <<orders, held>>
  PROVE  ClosesOnly
  <1>0. orders \in Seq(Order) /\ \A k \in 1..Len(orders) : orders[k] \in Order
    BY DEF TInv, TypeOK, AccountTypeOK
  <1>1. ASSUME NEW k \in 1..Len(orders), NEW s \in {"rejected", "canceled"},
               orders' = [orders EXCEPT ![k].status = s], held' = held
        PROVE  ClosesOnly
    <2>1. orders[k] \in Order
      BY <1>0
    <2>2. Len(orders') = Len(orders) /\ orders'[k].status = s
      <3>1. orders' = [orders EXCEPT ![k] = [@ EXCEPT !.status = s]]
        BY <1>1
      <3>2. [orders[k] EXCEPT !.status = s].status = s
        BY <2>1 DEF Order
      <3> QED
        BY <1>0, <3>1, <3>2
    <2>3. \A j \in 1..Len(orders) : j # k => orders'[j] = orders[j]
      BY <1>0, <1>1
    <2> QED
      BY <1>1, <2>2, <2>3 DEF ClosesOnly
  <1>2. CASE UNCHANGED <<orders, held>>
    BY <1>2 DEF ClosesOnly
  <1> QED
    BY <1>1, <1>2 DEF CancelsOrder, RemoteClose, MarketMoves

\* The POST: the new order's rivals are the orders that were open at the read.
LEMMA PostKeepsCover ==
  ASSUME TInv, [Next]_vars, WInv, PostsOrder(armings),
         orders' = Append(orders, NewOrder(armings))
  PROVE  WInv'
  <1> DEFINE new == Len(orders) + 1
  <1>0. /\ orders \in Seq(Order) /\ Len(orders) \in Nat
        /\ held \in [Tickers -> Nat] /\ qty \in Nat
    BY DEF TInv, TypeOK, AccountTypeOK
  <1>1. /\ Len(orders') = new
        /\ orders'[new] = NewOrder(armings)
        /\ \A k \in 1..Len(orders) : orders'[k] = orders[k]
    BY <1>0
  <1>2. pc = "brk_post" /\ pc' # "brk_post" /\ held' = held
    BY DEF PostsOrder, GoTo, Answer
  <1>3. RivalsListed'
    <2> SUFFICES ASSUME NEW j \in 1..new, NEW k \in 1..new,
                        j < k, IsOpen(j)', IsOpen(k)'
                 PROVE  j \in orders'[k].rivals
      BY <1>1 DEF RivalsListed
    <2>0. j \in 1..Len(orders) /\ IsOpen(j)
      BY <1>0, <1>1 DEF IsOpen
    <2>1. CASE k = new
      BY <1>1, <1>2, <2>0, <2>1 DEF WInv, RivalsRead, NewOrder
    <2>2. CASE k # new
      BY <1>0, <1>1, <2>0, <2>2 DEF WInv, RivalsListed, IsOpen
    <2> QED
      BY <2>1, <2>2
  <1>4. OversellTakesTwo'
    <2> SUFFICES ASSUME NEW k \in 1..new, OpenSale(k)', ~Covered(k)'
                 PROVE  SoldBehind(k)'
      BY <1>0, <1>1 DEF OversellTakesTwo
    <2>1. CASE k = new
      <3>1. ~Exposure /\ ~(qty <= held[intent.ticker])
        BY <1>0, <1>1, <1>2, <2>1 DEF OpenSale, Covered, NewOrder, Side, Exposure
      <3>2. PICK j \in 1..Len(orders) : j \in openAtRead /\ Sold(j, intent.ticker)
        BY <1>2, <3>1 DEF WInv, SaleFits
      <3> QED
        BY <1>0, <1>1, <2>1, <3>2, OrdersLast DEF NewOrder, SoldBehind, Sold
    <2>2. CASE k # new
      <3>1. k \in 1..Len(orders) /\ orders'[k] = orders[k]
        BY <1>0, <1>1, <2>2
      <3>2. OpenSale(k) /\ ~Covered(k)
        BY <1>2, <3>1 DEF OpenSale, IsOpen, Covered
      <3>3. PICK j \in 1..Len(orders) :
               (j > k \/ j \in orders[k].rivals) /\ Sold(j, orders[k].ticker)
        BY <3>1, <3>2 DEF WInv, OversellTakesTwo, SoldBehind
      <3> QED
        BY <1>0, <1>1, <3>1, <3>3, OrdersLast DEF SoldBehind, Sold
    <2> QED
      BY <2>1, <2>2
  <1> QED
    BY <1>2, <1>3, <1>4 DEF WInv, RivalsRead, SaleFits

\* The position is read with the orders that are open at that moment.
LEMMA ConstructionKeepsCover ==
  ASSUME TInv, [Next]_vars, WInv, ConstructsOrder
  PROVE  WInv'
  <1>1. UNCHANGED <<orders, held, intent>>
    BY DEF ConstructsOrder, GoTo, Answer
  <1>2. RivalsListed' /\ OversellTakesTwo'
    BY <1>1, ClosingSteps, ClosingKeepsCover
  <1>3. CASE pc' = "brk_post"
    <2>1. /\ qty' = OrderQty(held[intent.ticker])
          /\ Constructible(held[intent.ticker])
          /\ openAtRead' = {k \in 1..Len(orders) : IsOpen(k)}
      BY <1>3 DEF ConstructsOrder, Answer
    <2>2. intent.ticker \in Tickers /\ intent.action \in Actions
      BY CallIntent DEF ConstructsOrder
    <2>3. held[intent.ticker] \in Nat
      BY <2>2 DEF TInv, TypeOK, AccountTypeOK
    <2>4. ~Exposure => qty' <= held[intent.ticker]
      BY <2>1, <2>2, <2>3 DEF Constructible, OrderQty, Exposure, Actions
    <2>5. SaleFits'
      BY <1>1, <2>4 DEF SaleFits, Exposure
    <2>6. RivalsRead'
      BY <1>1, <2>1 DEF RivalsRead, IsOpen
    <2> QED
      BY <1>2, <2>5, <2>6 DEF WInv
  <1> QED
    BY <1>2, <1>3 DEF WInv, RivalsRead, SaleFits

LEMMA WInvNext == TInv /\ WInv /\ [Next]_vars => WInv'
  <1> SUFFICES ASSUME TInv, WInv, [Next]_vars PROVE WInv'
    OBVIOUS
  <1> USE DEF Steps, GatewaySteps, BrokerSteps
  \* A step that at most closes an order, and that ends outside brk_post or
  \* leaves the call where it was.
  <1>1. ASSUME ClosesOnly,
               pc' # "brk_post" \/ UNCHANGED <<pc, qty, intent, openAtRead>>
        PROVE  WInv'
    <2>1. RivalsListed' /\ OversellTakesTwo'
      BY <1>1, ClosingKeepsCover
    <2>2. RivalsRead'
      BY <1>1, OrdersLast DEF ClosesOnly, WInv, RivalsRead
    <2>3. SaleFits'
      BY <1>1, OrdersLast DEF ClosesOnly, WInv, SaleFits, Exposure, Sold
    <2> QED
      BY <2>1, <2>2, <2>3 DEF WInv
  <1>2. CASE GatewayStep \/ ControllerReadsQuote
    BY <1>1, <1>2, ClosingSteps DEF GatewayStep, ValidatesIntent, ValidatesQuote,
       ValidatesCash, ValidatesPosition, ControllerReadsQuote, GoTo, Blocked, accountVars
  <1>3. CASE ConstructsOrder
    BY <1>3, ConstructionKeepsCover
  <1>4. CASE ChecksIntent \/ ReadsQuote \/ ReadsAccount \/ LooksUpStatus \/ Finishes
    BY <1>1, <1>4, ClosingSteps DEF ChecksIntent, ReadsQuote, ReadsAccount,
       LooksUpStatus, Finishes, GoTo, Answer, accountVars
  <1>5. CASE PostsOrder(armings)
    <2>1. CASE orders' = orders
      BY <1>1, <1>5, <2>1, ClosingSteps DEF PostsOrder, GoTo, Answer
    <2>2. CASE orders' = Append(orders, NewOrder(armings))
      BY <1>5, <2>2, PostKeepsCover
    <2> QED
      BY <1>5, <2>1, <2>2 DEF PostsOrder
  <1>6. CASE Caller
    BY <1>1, <1>6, ClosingSteps DEF Caller, ControllerSubmits, GatewaySubmits,
       ClosesPosition, accountVars
  <1>7. CASE Operator
    <2>1. pc' # "brk_post"
      BY <1>7 DEF Operator, Arm, Disarm, ReviewSetsFlags, CancelsOrder, callVars
    <2>2. ClosesOnly
      BY <1>7, ClosingSteps DEF Operator, Arm, Disarm, ReviewSetsFlags, accountVars
    <2> QED
      BY <1>1, <2>1, <2>2
  <1>8. CASE Account
    <2>1. UNCHANGED <<pc, qty, intent>>
      BY <1>8 DEF Account, callVars
    <2>2. CASE \E k \in 1..Len(orders) : \E n \in 1..orders[k].qty : RemoteFill(k, n)
      BY <2>1, <2>2, FillKeepsCover
    <2>3. CASE ~\E k \in 1..Len(orders) : \E n \in 1..orders[k].qty : RemoteFill(k, n)
      <3>1. ClosesOnly
        BY <1>8, <2>3, ClosingSteps DEF Account
      <3>2. UNCHANGED openAtRead
        BY <1>8, <2>3 DEF Account, MarketMoves, RemoteClose
      <3> QED
        BY <1>1, <2>1, <3>1, <3>2
    <2> QED
      BY <2>2, <2>3
  <1>9. CASE Restart
    BY <1>1, <1>9, ClosingSteps DEF Restart, accountVars
  <1>10. CASE UNCHANGED vars
    BY <1>1, <1>10, ClosingSteps DEF vars, accountVars, callVars
  <1> QED
    BY <1>2, <1>3, <1>4, <1>5, <1>6, <1>7, <1>8, <1>9, <1>10
       DEF Next, CallStep, BrokerStep

\* No order asks for more than is held but through another sale that filled
\* while it was open, or between the read of its position and its POST: for
\* any number of orders and any intents, through every entry point, with
\* fills and price moves between any two requests and across restarts.
THEOREM OversellTraced == Spec => []OversellTakesTwo
  <1>1. Init => WInv
    BY DEF Init, AccountInit, NoCall, WInv, RivalsListed, RivalsRead, SaleFits,
           OversellTakesTwo
  <1>2. TInv /\ WInv /\ [Next]_vars => (TInv /\ WInv)'
    BY TInvNext, WInvNext
  <1>3. WInv => OversellTakesTwo
    BY DEF WInv
  <1> QED
    BY <1>1, <1>2, <1>3, TInvInit, PTL DEF Spec
=============================================================================

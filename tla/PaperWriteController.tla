------------------------ MODULE PaperWriteController ------------------------
(***************************************************************************)
(* execution/paper_write_controller.py, and the write path it completes:   *)
(*                                                                         *)
(*   ExecutionIntent -> BrokerGateway -> PaperWriteController              *)
(*                   -> MoomooPaperBroker -> simulated account             *)
(*                                                                         *)
(* together with the operator (arm, disarm, the safety flags, the two      *)
(* administrative broker calls) and the loss of the process's memory in a  *)
(* crash.  A submit blocked by a check that needs no HTTP request changes  *)
(* nothing, so only the submits that pass those checks are steps.          *)
(***************************************************************************)
EXTENDS BrokerGateway

CONSTANTS
    EntryPoints,    \* which of "controller", "gateway", "admin" are in use
    HaltLayers,     \* the layers whose safety flags may be set
    FirstOrderTest, \* first_order_test_mode
    TestCap,        \* first_test_max_notional
    MaxArmings,     \* BOUND: calls of arm()
    MaxRestarts     \* BOUND: crashes

ASSUME ControllerAssumption ==
    /\ EntryPoints \subseteq {"controller", "gateway", "admin"}
    /\ HaltLayers \subseteq {"controller", "gateway", "broker"}
    /\ FirstOrderTest \in BOOLEAN
    /\ TestCap \in Nat \ {0}
    /\ MaxArmings \in Nat
    /\ MaxRestarts \in Nat

VARIABLES
    ctlState,       \* _state
    ctlWrite,       \* _write_enabled
    ctlHalted,      \* safe_mode, daily_loss_breached or weekly_drawdown_breached
    ctlProcessed,   \* _processed_audit_references
    armings         \* history: number of arm() calls so far

controllerVars == <<ctlState, ctlWrite, ctlHalted, ctlProcessed, armings>>
vars == <<accountVars, callVars, brokerMemory, life, gwHalted, controllerVars>>

ControllerInit ==
    /\ ctlState = "DISARMED"
    /\ ctlWrite \in BOOLEAN
    /\ ctlHalted = FALSE
    /\ ctlProcessed = {}

NoCall ==
    /\ pc = "idle" /\ intent = NoIntent /\ via = "controller"
    /\ quote = 0 /\ qty = 0 /\ result = "NONE"

Init ==
    /\ AccountInit
    /\ NoCall
    /\ BrokerInit
    /\ gwHalted = FALSE
    /\ ControllerInit
    /\ life = 0
    /\ armings = 0

\* The entry point is in use and the bound on orders leaves room for a call.
\* Earlier orders may still be open: nothing in the code waits for them.
MayCall(entry) == entry \in EntryPoints /\ Len(orders) < MaxOrders

-----------------------------------------------------------------------------

\* submit, down to the call of gateway.validate.
ControllerSubmits(i) ==
    /\ pc = "idle"
    /\ i.ref \notin ctlProcessed
    /\ ctlState = "ARMED"
    /\ ctlWrite
    /\ i.stock
    /\ i.action \in ExposureIncreasing => ~ctlHalted
    /\ pc' = "gw_check"
    /\ intent' = i
    /\ via' = "controller"
    /\ UNCHANGED <<accountVars, quote, qty, result, brokerMemory, life,
                   gwHalted, controllerVars>>

\* Mutant: the cap is compared with the amount's lower bound only.
MutWithinTestCap(q) == FirstOrderTest /\ Exposure => intent.dollars \div q >= 1

\* FIRST_ORDER_TEST_MODE: the notional cap, on whole shares.
WithinTestCap(q) ==
    (FirstOrderTest /\ Exposure) =>
        /\ intent.dollars \in 1..TestCap
        /\ intent.dollars \div q >= 1
        /\ (intent.dollars \div q) * q <= TestCap

\* Resolve the account, read the quote again, apply the notional cap, call
\* the broker.  A failure to resolve the account rejects, a failure of
\* get_quote propagates to the caller: neither changes any state.
ControllerReadsQuote ==
    /\ pc = "ctl_quote"
    /\ \/ /\ WithinTestCap(price[intent.ticker])
          /\ GoTo("brk_check")
          /\ UNCHANGED <<quote, qty>>
       \/ Blocked
    /\ UNCHANGED <<accountVars, brokerMemory, life, gwHalted, controllerVars>>

\* Mutants: an exception leaves the reference unconsumed; every entry point
\* consumes; an exception leaves a first-order test armed.
MutConsumesUnlessRaised(r) ==
    IF via = "controller" /\ r \notin {"REJECTED", "RAISED"} THEN {intent.ref} ELSE {}
MutConsumesAlways(r) == IF r # "REJECTED" THEN {intent.ref} ELSE {}
MutDisarms(r) == FirstOrderTest /\ via = "controller" /\ r # "RAISED"

\* The reference that result r consumes: an exception or any status but
\* REJECTED consumes it.
Consumes(r) == IF via = "controller" /\ r # "REJECTED" THEN {intent.ref} ELSE {}

\* Any result of an attempt disarms the controller in first_order_test_mode.
Disarms(r) == FirstOrderTest /\ via = "controller"

\* submit, after broker.submit_execution_intent returned or raised.  A call
\* that came in elsewhere just returns.
Finishes ==
    /\ pc = "returned"
    /\ pc' = "idle"
    /\ intent' = NoIntent
    /\ result' = "NONE"
    /\ ctlProcessed' = ctlProcessed \cup Consumes(result)
    /\ ctlState' = IF Disarms(result) THEN "DISARMED" ELSE ctlState
    /\ UNCHANGED <<accountVars, via, quote, qty, brokerMemory, life, gwHalted,
                   ctlWrite, ctlHalted, armings>>

-----------------------------------------------------------------------------

Arm ==
    /\ pc = "idle"
    /\ armings < MaxArmings
    /\ armings' = armings + 1
    /\ ctlState' = "ARMED"
    /\ UNCHANGED <<accountVars, callVars, brokerMemory, life, gwHalted,
                   ctlWrite, ctlHalted, ctlProcessed>>

Disarm ==
    /\ pc = "idle"
    /\ ctlState' = "DISARMED"
    /\ UNCHANGED <<accountVars, callVars, brokerMemory, life, gwHalted,
                   ctlWrite, ctlHalted, ctlProcessed, armings>>

\* The daily or weekly review sets or clears one layer's safety flags.  The
\* three layers keep copies of their own and nothing keeps them equal.
ReviewSetsFlags(layer) ==
    /\ pc = "idle"
    /\ layer \in HaltLayers
    /\ ctlHalted' = IF layer = "controller" THEN ~ctlHalted ELSE ctlHalted
    /\ gwHalted' = IF layer = "gateway" THEN ~gwHalted ELSE gwHalted
    /\ brkHalted' = IF layer = "broker" THEN ~brkHalted ELSE brkHalted
    /\ UNCHANGED <<accountVars, callVars, brkWrite, brkProcessed, journal, life,
                   ctlState, ctlWrite, ctlProcessed, armings>>

\* The process dies at any point and a new one is constructed: every layer
\* starts over from its constructor, the account does not.
Restart ==
    /\ life < MaxRestarts
    /\ life' = life + 1
    /\ pc' = "idle" /\ intent' = NoIntent /\ via' = "controller"
    /\ quote' = 0 /\ qty' = 0 /\ result' = "NONE"
    /\ brkWrite' \in BOOLEAN /\ brkHalted' = FALSE /\ brkProcessed' = {}
    /\ journal' = [k \in OrderIds |-> "NONE"]
    /\ gwHalted' = FALSE
    /\ ctlState' = "DISARMED" /\ ctlWrite' \in BOOLEAN /\ ctlHalted' = FALSE
    /\ ctlProcessed' = {}
    /\ UNCHANGED <<accountVars, armings>>

-----------------------------------------------------------------------------

GatewayStep ==
    /\ ValidatesIntent \/ ValidatesQuote \/ ValidatesCash \/ ValidatesPosition
    /\ UNCHANGED controllerVars

BrokerStep ==
    /\ \/ ChecksIntent \/ ReadsQuote \/ ReadsAccount \/ ConstructsOrder
       \/ PostsOrder(armings) \/ LooksUpStatus
    /\ UNCHANGED <<gwHalted, controllerVars>>

CallStep == GatewayStep \/ ControllerReadsQuote \/ BrokerStep \/ Finishes

Caller ==
    \/ MayCall("controller") /\ \E i \in Intents : ControllerSubmits(i)
    \/ /\ MayCall("gateway")
       /\ \E i \in Intents : GatewaySubmits(i)
       /\ UNCHANGED controllerVars
    \/ /\ MayCall("admin")
       /\ \E t \in Tickers : ClosesPosition(t)
       /\ UNCHANGED <<gwHalted, controllerVars>>

Operator ==
    \/ Arm \/ Disarm
    \/ \E layer \in HaltLayers : ReviewSetsFlags(layer)
    \/ /\ "admin" \in EntryPoints
       /\ \E k \in 1..Len(orders) : CancelsOrder(k)
       /\ UNCHANGED <<gwHalted, controllerVars>>

Account ==
    /\ \/ \E t \in Tickers : MarketMoves(t)
       \/ \E k \in 1..Len(orders) :
             \/ \E n \in 1..orders[k].qty : RemoteFill(k, n)
             \/ \E s \in {"rejected", "canceled"} : RemoteClose(k, s)
    /\ UNCHANGED <<callVars, brokerMemory, life, gwHalted, controllerVars>>

Next == CallStep \/ Caller \/ Operator \/ Account \/ Restart

Spec == Init /\ [][Next]_vars
=============================================================================

----------------------------- MODULE WritePath ------------------------------
(***************************************************************************)
(* The properties of the write path: what the three layers together        *)
(* guarantee about the orders the account receives, and the statements of  *)
(* the source's documentation that its code does not keep.                 *)
(***************************************************************************)
EXTENDS PaperWriteController

Steps == {"idle", "ctl_quote", "returned"} \cup GatewaySteps \cup BrokerSteps

AdminIntents == {AdminCloseIntent(t) : t \in Tickers}

\* Type invariant of the write path: every variable of the account, the
\* broker, the gateway, the controller and the call in progress.
TypeOK ==
    /\ AccountTypeOK
    /\ pc \in Steps
    /\ intent \in Intents \cup AdminIntents \cup {NoIntent}
    /\ via \in {"controller", "gateway", "admin"}
    /\ quote \in Nat
    /\ qty \in Nat
    /\ result \in OrderStatus \cup {"NONE", "RAISED"}
    /\ life \in Nat
    /\ brkWrite \in BOOLEAN /\ brkHalted \in BOOLEAN
    /\ brkProcessed \subseteq AuditRefs
    /\ journal \in [OrderIds -> OrderStatus \cup {"NONE"}]
    /\ gwHalted \in BOOLEAN
    /\ ctlState \in {"ARMED", "DISARMED"}
    /\ ctlWrite \in BOOLEAN /\ ctlHalted \in BOOLEAN
    /\ ctlProcessed \subseteq AuditRefs
    /\ armings \in Nat

-----------------------------------------------------------------------------
\* Safety

\* Orders k sent through the controller since the process started.
SentByController(k) == orders[k].via = "controller" /\ orders[k].life = life

\* At most one order per audit_reference reaches the account through the
\* controller in one lifetime of the process, whatever raised, timed out,
\* was rejected or was retried (the two _processed_audit_references sets).
AtMostOncePerReference ==
    \A j, k \in 1..Len(orders) :
        /\ SentByController(j) /\ SentByController(k)
        /\ orders[j].ref = orders[k].ref
        => j = k

SendsOrder == Len(orders') > Len(orders)
NewestOrder == orders'[Len(orders')]

\* An order leaves only if, at the moment of the POST, every gate of every
\* layer it came through stands open: the broker's write flag always, the
\* controller's arming and write flag on its path, and for BUY and ADD each
\* layer's own safe-mode / daily-loss / weekly-drawdown flags.
EveryGateOpenAtSend ==
    [][SendsOrder =>
        LET o == NewestOrder IN
        /\ brkWrite
        /\ o.via = "controller" => ctlState = "ARMED" /\ ctlWrite
        /\ o.action \in ExposureIncreasing =>
              /\ o.via # "admin"
              /\ ~brkHalted /\ ~gwHalted
              /\ o.via = "controller" => ~ctlHalted]_vars

\* In FIRST_ORDER_TEST_MODE a BUY or ADD built by the broker from the quote
\* it read itself costs no more than the cap the controller checked against
\* another quote.
TestOrderWithinCap ==
    [][SendsOrder /\ FirstOrderTest /\ NewestOrder.via = "controller"
         /\ NewestOrder.action \in ExposureIncreasing
       => qty * quote <= TestCap]_vars

Covered(k) == orders[k].qty - orders[k].filled <= held[orders[k].ticker]
OpenSale(k) == IsOpen(k) /\ Side(orders[k].action) = "SELL"

\* Order j has sold shares of ticker t.
Sold(j, t) ==
    /\ orders[j].ticker = t
    /\ Side(orders[j].action) = "SELL"
    /\ orders[j].filled > 0

\* Shares were sold behind the back of order k: by an order that was open when
\* the position was read for k, or was sent after it.
SoldBehind(k) ==
    \E j \in 1..Len(orders) :
        /\ j > k \/ j \in orders[k].rivals
        /\ Sold(j, orders[k].ticker)

\* A sale never asks for more than is held on its own account: it does so only
\* through another sale of the ticker that has filled behind its back.  Prices,
\* purchases, restarts between read and POST, lost answers and sales that had
\* settled by then do not make an order oversell.
OversellTakesTwo ==
    \A k \in 1..Len(orders) : OpenSale(k) /\ ~Covered(k) => SoldBehind(k)

\* The journal is a snapshot and may lag behind the account, but it never
\* claims an outcome the account has not reached: FILLED needs a fill,
\* REJECTED a rejection, CANCELED a cancellation.
JournalNeverInvents ==
    \A k \in 1..Len(orders) :
        /\ journal[k] = "FILLED" => orders[k].filled > 0
        /\ journal[k] = "REJECTED" => orders[k].status = "rejected"
        /\ journal[k] = "CANCELED" => orders[k].status = "canceled"

-----------------------------------------------------------------------------
\* Refinement: the write path behind the controller implements OrderPermits.

PlacedByController ==
    {[id |-> k, ref |-> orders[k].ref, grant |-> orders[k].arming] :
        k \in {j \in 1..Len(orders) : SentByController(j)}}

Permits == INSTANCE OrderPermits WITH
    SinglePermits <- FirstOrderTest,
    permitted <- (ctlState = "ARMED"),
    grants <- armings,
    placed <- PlacedByController

\* Every step of the code is a grant, a revocation, the placing of one order
\* under a standing permission, a restart, or invisible.
ImplementsPermits == Permits!Spec

-----------------------------------------------------------------------------
\* Statements of the documentation that the code does not keep.

\* broker/moomoo_paper.py:582 an EXIT is "never more than what is actually
\* held", broker/gateway.py:539 "never over-sell": what an open SELL still asks
\* for is held.
OpenSellsCovered == \A k \in 1..Len(orders) : OpenSale(k) => Covered(k)

\* broker/moomoo_paper.py:328 get_audit_log is the "Full attempted-submission
\* audit trail": every order this process sent is in the journal (and so in
\* the audit log, which _record appends to with it) once the call is over.
EveryAttemptJournaled ==
    pc = "idle" =>
        \A k \in 1..Len(orders) : orders[k].life = life => journal[k] # "NONE"
=============================================================================

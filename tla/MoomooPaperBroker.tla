------------------------- MODULE MoomooPaperBroker --------------------------
(***************************************************************************)
(* broker/moomoo_paper.py: the write adapter.  One call runs at a time (the *)
(* program is single-threaded), but each HTTP request of a call is a step  *)
(* of its own, so the account (module SimAccount) moves between them.  The *)
(* call in progress is pc, intent, via and what it has read or built so    *)
(* far.  Every read may raise; the place-order request may be accepted     *)
(* although its answer is lost.                                            *)
(***************************************************************************)
EXTENDS SimAccount

VARIABLES
    pc,             \* where the call in progress stands, or "idle"
    intent,         \* its ExecutionIntent (or _AdminCloseIntent), or NoIntent
    via,            \* the entry point that was called
    quote,          \* the quote last read by the call, 0 when none
    qty,            \* "qty" of the constructed order request, 0 when none
    result,         \* how submit_execution_intent ended, while pc = "returned"
    life,           \* history: number of restarts so far
    brkWrite,       \* _write_enabled
    brkHalted,      \* safe_mode, daily_loss_breached or weekly_drawdown_breached
    brkProcessed,   \* _processed_audit_references
    journal         \* _orders: status recorded for each order id sent

callVars == <<pc, intent, via, quote, qty, result>>
brokerMemory == <<brkWrite, brkHalted, brkProcessed, journal>>

NoIntent == [ref |-> NoRef]

BrokerSteps == {"brk_check", "brk_quote", "brk_account", "brk_position",
                "brk_post", "brk_lookup"}
OrderStatus == {"PENDING", "FILLED", "REJECTED", "CANCELED"}

\* Mutant: an order that is only submitted is taken for filled.
MutReportedStatus(o) ==
    IF o.status \in {"rejected", "canceled"} THEN "CANCELED" ELSE "FILLED"

\* moomoo_readonly.ORDER_STATUS_MAP: a partial fill is reported FILLED.
ReportedStatus(o) ==
    CASE o.status = "rejected" -> "REJECTED"
      [] o.status = "canceled" -> "CANCELED"
      [] o.filled > 0          -> "FILLED"
      [] OTHER                 -> "PENDING"

BrokerInit ==
    /\ brkWrite \in BOOLEAN
    /\ brkHalted = FALSE
    /\ brkProcessed = {}
    /\ journal = [k \in OrderIds |-> "NONE"]

\* The call moves on to step p, keeping what it carries.
GoTo(p) == pc' = p /\ UNCHANGED <<intent, via, result>>

\* submit_execution_intent (or close_position) ends: with the status of the
\* Order it returns, or "RAISED".
Answer(r) ==
    /\ pc' = "returned"
    /\ result' = r
    /\ quote' = 0 /\ qty' = 0
    /\ UNCHANGED <<intent, via>>

Exposure == intent.action \in ExposureIncreasing

-----------------------------------------------------------------------------

\* Mutant: the safety flags stop BUY and let ADD through.
MutAcceptsIntent ==
    /\ intent.ref \notin brkProcessed
    /\ intent.stock
    /\ intent.action = "BUY" => ~brkHalted

\* What _process_intent asks of the intent before its first HTTP request.
AcceptsIntent ==
    /\ intent.ref \notin brkProcessed
    /\ intent.stock
    /\ Exposure => ~brkHalted

\* _process_intent up to its first HTTP request.  The intent may have gone
\* stale since an earlier layer looked at its age.
ChecksIntent ==
    /\ pc = "brk_check"
    /\ \/ /\ AcceptsIntent
          /\ GoTo("brk_quote")
          /\ UNCHANGED <<quote, qty>>
       \/ Answer("REJECTED")
    /\ UNCHANGED <<accountVars, brokerMemory, life>>

\* resolve_simulated_us_account_id and get_quote; the quote may be stale or
\* carry no timestamp, which close_position does not look at.
ReadsQuote ==
    /\ pc = "brk_quote"
    /\ \/ /\ quote' = price[intent.ticker]
          /\ GoTo(IF via = "admin" THEN "brk_position" ELSE "brk_account")
          /\ UNCHANGED qty
       \/ via # "admin" /\ Answer("REJECTED")
       \/ Answer("RAISED")
    /\ UNCHANGED <<accountVars, brokerMemory, life>>

\* get_account; only BUY and ADD compare the cash it returns.
ReadsAccount ==
    /\ pc = "brk_account"
    /\ \/ /\ Exposure => intent.dollars <= cash
          /\ GoTo("brk_position")
          /\ UNCHANGED <<quote, qty>>
       \/ Exposure /\ intent.dollars > cash /\ Answer("REJECTED")
       \/ Answer("RAISED")
    /\ UNCHANGED <<accountVars, brokerMemory, life>>

\* Whole shares only: floored, EXIT closes what the position shows.
OrderQty(position) ==
    IF intent.action = "EXIT" THEN position ELSE intent.dollars \div quote

\* Mutant: REDUCE trusts the gateway's comparison with the position.
MutConstructible(position) ==
    /\ OrderQty(position) >= 1
    /\ intent.action # "BUY" => position > 0

Constructible(position) ==
    /\ OrderQty(position) >= 1
    /\ CASE intent.action = "BUY"    -> position = 0
         [] intent.action = "ADD"    -> position > 0
         [] intent.action = "REDUCE" -> OrderQty(position) <= position
         [] OTHER                    -> position > 0

\* get_position, then _construct_buy_or_add / _construct_reduce /
\* _construct_exit.
ConstructsOrder ==
    /\ pc = "brk_position"
    /\ \/ /\ Constructible(held[intent.ticker])
          /\ qty' = OrderQty(held[intent.ticker])
          /\ openAtRead' = {k \in 1..Len(orders) : IsOpen(k)}
          /\ GoTo("brk_post")
          /\ UNCHANGED quote
       \/ /\ ~Constructible(held[intent.ticker])
          /\ Answer("REJECTED")
          /\ UNCHANGED openAtRead
       \/ Answer("RAISED") /\ UNCHANGED openAtRead
    /\ UNCHANGED <<price, cash, held, orders, brokerMemory, life>>

\* What the account records when it accepts the constructed request.
NewOrder(arming) ==
    [ref |-> intent.ref, ticker |-> intent.ticker, action |-> intent.action,
     qty |-> qty, filled |-> 0, status |-> "open",
     life |-> life, arming |-> arming, via |-> via, rivals |-> openAtRead]

\* _submit_order_request: the write gate, then the POST.  The POST is
\* answered with an order_id, or it raises -- and then the account may have
\* accepted the order all the same.
PostsOrder(arming) ==
    /\ pc = "brk_post"
    /\ \/ /\ ~brkWrite
          /\ Answer("REJECTED")
          /\ UNCHANGED <<orders, brkProcessed>>
       \/ /\ brkWrite
          /\ orders' = Append(orders, NewOrder(arming))
          /\ brkProcessed' = brkProcessed \cup ({intent.ref} \ {NoRef})
          /\ GoTo("brk_lookup")
          /\ UNCHANGED <<quote, qty>>
       \/ /\ brkWrite
          /\ orders' \in {orders, Append(orders, NewOrder(arming))}
          /\ Answer("RAISED")
          /\ UNCHANGED brkProcessed
    /\ openAtRead' = {}
    /\ UNCHANGED <<price, cash, held, brkWrite, brkHalted, journal, life>>

\* _lookup_order_status and _record: the order just placed is read back, or
\* is not listed yet (PENDING), or the lookup raises and nothing is recorded.
LooksUpStatus ==
    /\ pc = "brk_lookup"
    /\ \/ \E s \in {"PENDING", ReportedStatus(orders[Len(orders)])} :
             /\ journal' = [journal EXCEPT ![Len(orders)] = s]
             /\ Answer(s)
       \/ Answer("RAISED") /\ UNCHANGED journal
    /\ UNCHANGED <<accountVars, brkWrite, brkHalted, brkProcessed, life>>

\* cancel_order, for an order id the journal shows PENDING (an unknown id
\* raises KeyError, any other status is returned as it is).  The cancel
\* request is refused, or it raises although the account has canceled.
CancelsOrder(k) ==
    /\ pc = "idle"
    /\ journal[k] = "PENDING"
    /\ brkWrite
    /\ IsOpen(k)
    /\ orders' = [orders EXCEPT ![k].status = "canceled"]
    /\ \/ journal' = [journal EXCEPT ![k] = "CANCELED"]
       \/ UNCHANGED journal
    /\ UNCHANGED <<price, cash, held, openAtRead, callVars, brkWrite,
                   brkHalted, brkProcessed, life>>

\* close_position: an administrative EXIT that skips the gateway, the
\* controller and every check of _process_intent but the quote's validity.
ClosesPosition(t) ==
    /\ pc = "idle"
    /\ pc' = "brk_quote"
    /\ intent' = AdminCloseIntent(t)
    /\ via' = "admin"
    /\ UNCHANGED <<accountVars, quote, qty, result, brokerMemory, life>>
=============================================================================

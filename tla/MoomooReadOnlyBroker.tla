------------------------ MODULE MoomooReadOnlyBroker ------------------------
(***************************************************************************)
(* broker/moomoo_readonly.py: the account it selects once and keeps, the   *)
(* order list it merges from two requests, and whether it keeps a          *)
(* timestamp of its last quote.  One thread calls it; every request may    *)
(* raise, and moomoo changes between them.  get_account and get_positions  *)
(* are one request each, whose figures are left out.  The writing methods  *)
(* always raise.                                                           *)
(***************************************************************************)
EXTENDS AccountService

CONSTANT Tickers

VARIABLES
    configured, \* simulated_account_id
    selected,   \* _resolved_account_id
    call,       \* the method in progress
    cache       \* _quote_cache: what is kept of the last quote of each ticker

vars == <<serviceVars, configured, selected, call, cache>>

Methods == {"resolve", "read_one", "get_orders"}

\* merged: the orders so far.  History: those that were in a list when the
\* method was called (listed), and those of the history that its request
\* returned (archived) and did not (cut).
At(step, m, listed) == [at |-> step, method |-> m, merged |-> [o \in {} |-> "PENDING"],
                        listed |-> listed, archived |-> {}, cut |-> {}]
Idle == At("idle", "resolve", {})

Init ==
    /\ ServiceInit
    /\ configured \in Accounts \cup {NoAccount}
    /\ selected = NoAccount
    /\ call = Idle
    /\ cache = [t \in Tickers |-> "none"]

-----------------------------------------------------------------------------
\* Account selection

\* After the account is known, the first request of a method.
FirstRequest(m) ==
    CASE m = "resolve"    -> "idle"
      [] m = "read_one"   -> "one"
      [] m = "get_orders" -> "first"

\* It is over, with an answer or an exception.
Ends ==
    /\ call' = Idle
    /\ during' = [o \in OrderIds |-> {}]
    /\ UNCHANGED <<opened, alone, orders>>

\* Mutant: the account is taken for known.
MutStartsAt(m) == FirstRequest(m)

StartsAt(m) == IF selected = NoAccount THEN "accounts" ELSE FirstRequest(m)

\* A method is called; the selected account is kept from earlier calls.
Calls(m) ==
    /\ call.at = "idle"
    /\ call' = At(StartsAt(m), m, IF m = "get_orders" THEN InSomeList ELSE {})
    /\ during' = [o \in OrderIds |->
                     IF m = "get_orders" THEN {orders[o].status} ELSE {}]
    /\ UNCHANGED <<opened, alone, orders, configured, selected, cache>>

\* Mutant: the first account of several will do.
MutSelectable == IF configured # NoAccount THEN {configured} \cap opened ELSE opened

\* The configured account if it is listed, or the only one.
Selectable ==
    IF configured # NoAccount THEN {configured} \cap opened ELSE Alone(opened)

SelectsAccount ==
    /\ call.at = "accounts"
    /\ selected' \in Selectable
    /\ call' = [call EXCEPT !.at = FirstRequest(call.method)]
    /\ UNCHANGED <<serviceVars, configured, cache>>

\* Any request may raise: no account or several, no token, the transport, the
\* status, the envelope, the fields.
Raises ==
    /\ call.at \notin {"idle", "answered"}
    /\ Ends
    /\ UNCHANGED <<configured, selected, cache>>

\* refresh_account_selection
RefreshAccountSelection ==
    /\ call.at = "idle"
    /\ selected' = NoAccount
    /\ UNCHANGED <<serviceVars, configured, call, cache>>

\* get_account, get_positions: one request for the selected account.
ReadsOne ==
    /\ call.at = "one"
    /\ Ends
    /\ UNCHANGED <<configured, selected, cache>>

-----------------------------------------------------------------------------
\* get_orders

\* ORDER_STATUS_MAP: no entry for any other word.
StatusMap == [submitted |-> "PENDING", part |-> "FILLED", filled |-> "FILLED",
              cancelled |-> "CANCELED", rejected |-> "REJECTED"]

\* What get_orders may have merged: the reported status of some orders.
OrderLists ==
    UNION {[os -> {"PENDING", "FILLED", "CANCELED", "REJECTED"}] : os \in SUBSET OrderIds}

\* Mutant: an order that is already merged is not replaced.
MutMerge(old, os) ==
    [o \in DOMAIN old \cup os |->
        IF o \in DOMAIN old THEN old[o] ELSE StatusMap[orders[o].status]]

\* The orders of one response, mapped, over those merged before.
Merge(old, os) ==
    [o \in DOMAIN old \cup os |->
        IF o \in os THEN StatusMap[orders[o].status] ELSE old[o]]

\* Mutant: the history is read first.
MutListOf(step) == IF step = "first" THEN "history" ELSE "today"

ListOf(step) == IF step = "first" THEN "today" ELSE "history"

\* _fetch_orders: one response, whose page key is not followed, is mapped as a
\* whole or not at all.
FetchesOrders ==
    /\ call.at \in {"first", "second"}
    /\ LET l == ListOf(call.at) IN
       \E page \in FirstPages(selected, l) :
          /\ \A o \in page : orders[o].status \in DOMAIN StatusMap
          /\ call' = [call EXCEPT
                         !.at = IF @ = "first" THEN "second" ELSE "answered",
                         !.merged = Merge(@, page),
                         !.archived = IF l = "history" THEN page ELSE @,
                         !.cut = IF l = "history" THEN Listed(selected, l) \ page ELSE @]
    /\ UNCHANGED <<serviceVars, configured, selected, cache>>

\* The caller has the list.
Returns ==
    /\ call.at = "answered"
    /\ Ends
    /\ UNCHANGED <<configured, selected, cache>>

-----------------------------------------------------------------------------
\* Quotes

\* get_quote: a valid price, with a timestamp or without; get_quote_timestamp
\* answers from what is kept.  A response without a price raises and changes
\* nothing.
GetsQuote(t) ==
    /\ call.at = "idle"
    /\ \E kept \in {"price", "price and time"} : cache' = [cache EXCEPT ![t] = kept]
    /\ UNCHANGED <<serviceVars, configured, selected, call>>

-----------------------------------------------------------------------------

ServiceStep ==
    /\ \/ \E a \in Accounts \ opened : AccountOpens(a)
       \/ \E o \in OrderIds : OrderMoves(o) \/ OrderListed(o)
    /\ UNCHANGED <<configured, selected, call, cache>>

Next ==
    \/ ServiceStep
    \/ \E m \in Methods : Calls(m)
    \/ SelectsAccount \/ RefreshAccountSelection
    \/ ReadsOne \/ FetchesOrders \/ Returns \/ Raises
    \/ \E t \in Tickers : GetsQuote(t)

Spec == Init /\ [][Next]_vars

-----------------------------------------------------------------------------

CallType == [at: {"idle", "accounts", "one", "first", "second", "answered"},
             method: Methods, merged: OrderLists,
             listed: SUBSET OrderIds, archived: SUBSET OrderIds, cut: SUBSET OrderIds]

\* Type invariant: the service, the broker's fields and the call in progress,
\* which has an account before it asks for anything of one.
TypeOK ==
    /\ ServiceTypeOK
    /\ {configured, selected} \subseteq Accounts \cup {NoAccount}
    /\ call \in CallType
    /\ call.at \in {"one", "first", "second", "answered"} => selected # NoAccount
    /\ cache \in [Tickers -> {"none", "price", "price and time"}]

\* The account that cash, positions, orders and every POST are about is the
\* configured one, or the only one there was when it was chosen, whatever
\* accounts appear later and however often the selection is refreshed.
AccountIsJustified ==
    selected # NoAccount =>
        /\ selected \in opened
        /\ selected = configured \/ (configured = NoAccount /\ selected \in alone)

\* Of the orders that were listed when get_orders was called it misses those on
\* later pages of the history at most, which it never asks for: no order slips
\* through between the two requests, although orders go from one list to the
\* other meanwhile (moomoo_readonly.py:420 "Broker.get_orders() expects the full
\* order list, not just one of the two moomoo exposes separately").
OnlyPagingLosesOrders ==
    call.at = "answered" =>
        \A o \in call.listed :
            orders[o].account = selected => o \in DOMAIN call.merged \cup call.cut

\* It names orders of the selected account only, each with a status it had
\* during the call, and with the final one if the history showed it ("History
\* wins on a duplicate order_id, since it reflects the final state").
OrdersAreObserved ==
    call.at = "answered" =>
        /\ \A o \in DOMAIN call.merged :
              /\ orders[o].account = selected
              /\ \E s \in during[o] \cap DOMAIN StatusMap : call.merged[o] = StatusMap[s]
        /\ \A o \in call.archived : call.merged[o] = StatusMap[orders[o].status]
=============================================================================

--------------------------- MODULE ReadOnlyProofs ---------------------------
(***************************************************************************)
(* MoomooReadOnlyBroker for any number of accounts, orders and tickers:    *)
(* the account it reads is justified, and get_orders misses only what the  *)
(* pages cut off and reports what it saw, however orders move between its  *)
(* two requests.                                                           *)
(***************************************************************************)
EXTENDS MoomooReadOnlyBroker, TLAPS

\* An account that is the only one has been remembered as such.
AloneIsKnown == Alone(opened) \subseteq alone

\* An order that was placed has an account, as a listed one has, and one in
\* the history is closed.
ListedOrders ==
    \A o \in OrderIds :
        /\ orders[o].status # "none" => orders[o].account # NoAccount
        /\ orders[o].lists # {} => orders[o].account # NoAccount
        /\ "history" \in orders[o].lists => orders[o].status \in Closed

Fetching == {"first", "second"}

\* Only get_orders fetches orders.
FetchingIsGetOrders ==
    call.at \in Fetching \cup {"answered"} => call.method = "get_orders"

\* While get_orders waits for its requests, it has seen the present statuses.
PresentIsSeen ==
    call.at \in {"accounts"} \cup Fetching /\ call.method = "get_orders" =>
        \A o \in OrderIds : orders[o].status \in during[o]

\* What was in some list still is; and after the first request it has been
\* merged already, or waits in the history for the second.
NothingLost ==
    /\ \A o \in call.listed : orders[o].lists # {}
    /\ call.at = "second" =>
          \A o \in call.listed :
              orders[o].account = selected =>
                  o \in DOMAIN call.merged \/ "history" \in orders[o].lists

\* What has been merged so far is of the account, and was seen.
MergedWasSeen ==
    /\ call.at \in {"accounts", "first"} => DOMAIN call.merged = {}
    /\ call.at \in {"second", "answered"} =>
          \A o \in DOMAIN call.merged :
              /\ orders[o].account = selected
              /\ orders[o].lists # {}
              /\ \E s \in during[o] \cap DOMAIN StatusMap : call.merged[o] = StatusMap[s]

\* What the history showed is in it, with its final status.
HistoryWins ==
    \A o \in call.archived :
        /\ "history" \in orders[o].lists
        /\ o \in DOMAIN call.merged
        /\ call.merged[o] = StatusMap[orders[o].status]

CallInv ==
    /\ FetchingIsGetOrders /\ PresentIsSeen /\ NothingLost
    /\ OnlyPagingLosesOrders /\ MergedWasSeen /\ HistoryWins

IInv ==
    /\ TypeOK /\ AloneIsKnown /\ AccountIsJustified /\ ListedOrders /\ CallInv

-----------------------------------------------------------------------------

\* What is kept of the fields of a call as it goes on.
LEMMA CallFields ==
    ASSUME TypeOK
    PROVE  /\ call.merged \in OrderLists
           /\ call.method \in Methods
           /\ call.listed \subseteq OrderIds /\ call.archived \subseteq OrderIds
           /\ DOMAIN call.merged \subseteq OrderIds
BY DEF TypeOK, CallType, OrderLists

\* A call that is (or is not yet) under way has merged nothing.
LEMMA FreshCall ==
    ASSUME NEW step \in {"idle", "accounts", "one", "first", "second", "answered"},
           NEW m \in Methods, NEW listed \in SUBSET OrderIds
    PROVE  /\ At(step, m, listed) \in CallType
           /\ At(step, m, listed).at = step
           /\ At(step, m, listed).method = m
           /\ At(step, m, listed).listed = listed
           /\ At(step, m, listed).archived = {} /\ At(step, m, listed).cut = {}
           /\ DOMAIN At(step, m, listed).merged = {}
<1> DEFINE none == [o \in {} |-> "PENDING"]
<1>1. none \in [{} -> {"PENDING", "FILLED", "CANCELED", "REJECTED"}]
  OBVIOUS
<1>2. none \in OrderLists
  <2>1. {} \in SUBSET OrderIds
    OBVIOUS
  <2> QED BY <1>1, <2>1 DEF OrderLists
<1> QED BY <1>2 DEF At, CallType

\* A response is of the list that was asked for: all of today's, or a page.
LEMMA FirstPagesFacts ==
    ASSUME NEW a, NEW l, NEW page \in FirstPages(a, l)
    PROVE  /\ page \in SUBSET Listed(a, l)
           /\ l = "today" => page = Listed(a, l)
BY DEF FirstPages

LEMMA FirstRequests ==
    ASSUME NEW m \in Methods
    PROVE  /\ FirstRequest(m) \in {"idle", "one", "first"}
           /\ FirstRequest(m) = "first" => m = "get_orders"
BY DEF Methods, FirstRequest

\* Merging the orders of a response, all of whose statuses are known.
LEMMA MergeIsList ==
    ASSUME NEW old \in OrderLists, NEW os \in SUBSET OrderIds,
           \A o \in os : orders[o].status \in DOMAIN StatusMap
    PROVE  /\ Merge(old, os) \in OrderLists
           /\ DOMAIN Merge(old, os) = DOMAIN old \cup os
           /\ \A o \in os : Merge(old, os)[o] = StatusMap[orders[o].status]
           /\ \A o \in DOMAIN old \ os : Merge(old, os)[o] = old[o]
<1> DEFINE R == {"PENDING", "FILLED", "CANCELED", "REJECTED"}
<1>1. PICK S \in SUBSET OrderIds : old \in [S -> R]
  BY DEF OrderLists
<1>2. \A s \in DOMAIN StatusMap : StatusMap[s] \in R
  BY DEF StatusMap
<1>3. Merge(old, os) \in [S \cup os -> R]
  BY <1>1, <1>2 DEF Merge
<1>4. S \cup os \in SUBSET OrderIds
  OBVIOUS
<1>5. Merge(old, os) \in OrderLists
  BY <1>3, <1>4 DEF OrderLists
<1> QED BY <1>1, <1>5 DEF Merge

-----------------------------------------------------------------------------
\* The service's steps

\* An order that moves stays where it is listed and, once placed, with its
\* account; a closed one does not move; and the new status is seen.
LEMMA OrderMovesFacts ==
    ASSUME TypeOK, ListedOrders, NEW o \in OrderIds, OrderMoves(o), NEW p \in OrderIds
    PROVE  /\ orders'[p].lists = orders[p].lists
           /\ orders[p].account # NoAccount => orders'[p].account = orders[p].account
           /\ orders'[p].account \in {NoAccount} \cup Accounts
           /\ orders'[p].status = orders[p].status \/ orders[p].status \notin Closed
           /\ orders'[p].status # "none" => orders'[p].account # NoAccount
           /\ during[p] \subseteq during'[p]
           /\ orders[p].status \in during[p] => orders'[p].status \in during'[p]
<1>1. PICK a \in opened, s \in Follows(orders[o].status) :
          /\ orders[o].account \in {NoAccount, a}
          /\ orders' = [orders EXCEPT ![o].account = a, ![o].status = s]
          /\ during' = [during EXCEPT ![o] = IF @ = {} THEN {} ELSE @ \cup {s}]
  BY DEF OrderMoves
<1>2. orders \in [OrderIds -> [account: Accounts \cup {NoAccount},
                             status: Statuses, lists: SUBSET Lists]]
      /\ during \in [OrderIds -> SUBSET Statuses] /\ opened \subseteq Accounts
  BY DEF TypeOK, ServiceTypeOK
<1>3. orders[o].status \notin Closed
  BY <1>1 DEF Follows, Closed
<1>4. CASE p = o
  BY <1>1, <1>2, <1>3, <1>4, ServiceAssumption
<1>5. CASE p # o
  BY <1>1, <1>2, <1>5 DEF ListedOrders
<1> QED BY <1>4, <1>5

\* An order changes lists but leaves neither both nor the history.
LEMMA OrderListedFacts ==
    ASSUME TypeOK, NEW o \in OrderIds, OrderListed(o), NEW p \in OrderIds
    PROVE  /\ orders'[p].account = orders[p].account
           /\ orders'[p].status = orders[p].status
           /\ orders[p].lists # {} => orders'[p].lists # {}
           /\ "history" \in orders[p].lists => "history" \in orders'[p].lists
           /\ orders'[p].lists # {} => orders[p].lists # {} \/ orders[p].status # "none"
           /\ "history" \in orders'[p].lists =>
                 "history" \in orders[p].lists \/ orders[p].status \in Closed
<1>1. orders \in [OrderIds -> [account: Accounts \cup {NoAccount},
                             status: Statuses, lists: SUBSET Lists]]
  BY DEF TypeOK, ServiceTypeOK
<1>2. CASE p = o
  BY <1>1, <1>2 DEF OrderListed, Lists
<1>3. CASE p # o
  BY <1>1, <1>3 DEF OrderListed
<1> QED BY <1>2, <1>3

-----------------------------------------------------------------------------
\* Type correctness

LEMMA TypeInit == ASSUME Init PROVE TypeOK
<1>1. ServiceTypeOK
  BY DEF Init, ServiceInit, ServiceTypeOK, Alone, Statuses
<1>2. call \in CallType /\ call.at = "idle"
  BY FreshCall DEF Init, Idle, Methods
<1> QED BY <1>1, <1>2 DEF Init, TypeOK

LEMMA ServiceTypeNext ==
    ASSUME TypeOK, ServiceStep PROVE ServiceTypeOK'
<1>1. opened \subseteq Accounts /\ alone \subseteq Accounts
      /\ orders \in [OrderIds -> [account: Accounts \cup {NoAccount},
                                 status: Statuses, lists: SUBSET Lists]]
      /\ during \in [OrderIds -> SUBSET Statuses]
  BY DEF TypeOK, ServiceTypeOK
<1>2. ASSUME NEW a \in Accounts \ opened, AccountOpens(a) PROVE ServiceTypeOK'
  BY <1>1, <1>2 DEF AccountOpens, ServiceTypeOK, Alone
<1>3. ASSUME NEW o \in OrderIds, OrderMoves(o) PROVE ServiceTypeOK'
  <2>1. PICK a \in opened, s \in Follows(orders[o].status) :
            /\ orders' = [orders EXCEPT ![o].account = a, ![o].status = s]
            /\ during' = [during EXCEPT ![o] = IF @ = {} THEN {} ELSE @ \cup {s}]
    BY <1>3 DEF OrderMoves
  <2>2. s \in Statuses
    BY ServiceAssumption DEF Follows
  <2>3. orders' \in [OrderIds -> [account: Accounts \cup {NoAccount},
                                  status: Statuses, lists: SUBSET Lists]]
    BY <1>1, <2>1, <2>2
  <2>4. during[o] \cup {s} \in SUBSET Statuses /\ {} \in SUBSET Statuses
    BY <1>1, <2>2
  <2>5. during' \in [OrderIds -> SUBSET Statuses]
    BY <1>1, <2>1, <2>4
  <2> QED BY <1>1, <1>3, <2>3, <2>5 DEF OrderMoves, ServiceTypeOK
<1>4. ASSUME NEW o \in OrderIds, OrderListed(o) PROVE ServiceTypeOK'
  <2>1. PICK where \in SUBSET Lists : orders' = [orders EXCEPT ![o].lists = where]
    BY <1>4 DEF OrderListed, Lists
  <2> QED BY <1>1, <1>4, <2>1 DEF OrderListed, ServiceTypeOK
<1> QED BY <1>2, <1>3, <1>4 DEF ServiceStep

LEMMA TypeNext == ASSUME TypeOK, [Next]_vars PROVE TypeOK'
<1> USE DEF TypeOK
<1>1. CASE ServiceStep
  BY <1>1, ServiceTypeNext DEF ServiceStep
<1>2. ASSUME NEW m \in Methods, Calls(m) PROVE TypeOK'
  <2>1. StartsAt(m) \in {"idle", "accounts", "one", "first"}
        /\ (StartsAt(m) \in {"one", "first"} => selected # NoAccount)
    BY FirstRequests DEF StartsAt
  <2>2. ServiceTypeOK'
    BY <1>2 DEF Calls, ServiceTypeOK
  <2> DEFINE listed == IF m = "get_orders" THEN InSomeList ELSE {}
  <2>3. call' = At(StartsAt(m), m, listed)
    BY <1>2 DEF Calls
  <2>4. listed \in SUBSET OrderIds
    BY DEF InSomeList
  <2> HIDE DEF listed
  <2>5. call' \in CallType /\ call'.at = StartsAt(m)
    <3> HIDE DEF TypeOK
    <3>1. /\ At(StartsAt(m), m, listed) \in CallType
          /\ At(StartsAt(m), m, listed).at = StartsAt(m)
      BY <2>1, <2>4, FreshCall
    <3> QED BY <2>3, <3>1
  <2> QED BY <1>2, <2>1, <2>2, <2>5 DEF Calls
<1>3. CASE SelectsAccount
  <2>1. FirstRequest(call.method) \in {"idle", "one", "first"}
    BY FirstRequests, CallFields
  <2>2. selected' \in Accounts
    BY <1>3 DEF SelectsAccount, Selectable, Alone, ServiceTypeOK
  <2>3. ServiceTypeOK'
    BY <1>3 DEF SelectsAccount, ServiceTypeOK, serviceVars
  <2> QED BY <1>3, <2>1, <2>2, <2>3, ServiceAssumption DEF SelectsAccount, CallType
<1>4. CASE RefreshAccountSelection
  <2>1. ServiceTypeOK'
    BY <1>4 DEF RefreshAccountSelection, ServiceTypeOK, serviceVars
  <2> QED BY <1>4, <2>1 DEF RefreshAccountSelection
<1>5. CASE Ends /\ UNCHANGED <<configured, selected, cache>>
  <2>1. ServiceTypeOK'
    BY <1>5 DEF Ends, ServiceTypeOK
  <2>2. call' \in CallType /\ call'.at = "idle"
    <3>1. call' = At("idle", "resolve", {}) /\ "resolve" \in Methods
      BY <1>5 DEF Ends, Idle, Methods
    <3>2. At("idle", "resolve", {}) \in CallType /\ At("idle", "resolve", {}).at = "idle"
      <4> HIDE DEF TypeOK
      <4> QED BY <3>1, FreshCall
    <3> QED BY <3>1, <3>2
  <2> QED BY <1>5, <2>1, <2>2
<1>6. CASE FetchesOrders
  <2> DEFINE listed == Listed(selected, ListOf(call.at))
  <2>1. PICK page \in FirstPages(selected, ListOf(call.at)) :
            /\ \A o \in page : orders[o].status \in DOMAIN StatusMap
            /\ call' = [call EXCEPT
                          !.at = IF @ = "first" THEN "second" ELSE "answered",
                          !.merged = Merge(@, page),
                          !.archived = IF ListOf(call.at) = "history" THEN page ELSE @,
                          !.cut = IF ListOf(call.at) = "history" THEN listed \ page ELSE @]
    BY <1>6 DEF FetchesOrders
  <2>2. page \in SUBSET OrderIds /\ listed \in SUBSET OrderIds
    <3>1. page \in SUBSET listed
      BY <2>1, FirstPagesFacts
    <3> QED BY <3>1 DEF Listed
  <2>3. Merge(call.merged, page) \in OrderLists
    BY <2>1, <2>2, MergeIsList, CallFields
  <2>4. ServiceTypeOK'
    BY <1>6 DEF FetchesOrders, ServiceTypeOK, serviceVars
  <2> HIDE DEF listed
  <2>5. call' \in CallType
    BY <2>1, <2>2, <2>3 DEF CallType
  <2> QED BY <1>6, <2>4, <2>5 DEF FetchesOrders
<1>7. ASSUME NEW t \in Tickers, GetsQuote(t) PROVE TypeOK'
  <2>1. ServiceTypeOK'
    BY <1>7 DEF GetsQuote, ServiceTypeOK, serviceVars
  <2>2. cache' \in [Tickers -> {"none", "price", "price and time"}]
    BY <1>7 DEF GetsQuote
  <2> QED BY <1>7, <2>1, <2>2 DEF GetsQuote
<1>8. CASE UNCHANGED vars
  BY <1>8 DEF vars, serviceVars, ServiceTypeOK
<1> QED
  BY <1>1, <1>2, <1>3, <1>4, <1>5, <1>6, <1>7, <1>8
  DEF Next, ReadsOne, Returns, Raises

-----------------------------------------------------------------------------
\* The account

\* The account stays justified: only SelectsAccount chooses one, and neither
\* the accounts that exist nor those once alone become fewer.
LEMMA AccountNext ==
    ASSUME TypeOK, AloneIsKnown, AccountIsJustified, [Next]_vars
    PROVE  AloneIsKnown' /\ AccountIsJustified'
<1> USE DEF AloneIsKnown, AccountIsJustified
<1>1. ASSUME NEW a \in Accounts \ opened, AccountOpens(a),
             UNCHANGED <<configured, selected>>
      PROVE  AloneIsKnown' /\ AccountIsJustified'
  BY <1>1 DEF AccountOpens, Alone
<1>2. CASE SelectsAccount
  <2>1. UNCHANGED <<opened, alone, configured>> /\ selected' \in Selectable
    BY <1>2 DEF SelectsAccount, serviceVars
  <2> QED BY <2>1 DEF Selectable, Alone
<1>3. CASE RefreshAccountSelection
  BY <1>3 DEF RefreshAccountSelection, serviceVars, Alone
<1>4. CASE UNCHANGED <<opened, alone, configured, selected>>
  BY <1>4 DEF Alone
<1> QED
  BY <1>1, <1>2, <1>3, <1>4
  DEF Next, vars, serviceVars, ServiceStep, OrderMoves, OrderListed, Calls, Ends,
      ReadsOne, Returns, Raises, FetchesOrders, GetsQuote

-----------------------------------------------------------------------------
\* The orders

\* What a step of the service keeps of an order.
LEMMA ServiceFacts ==
    ASSUME TypeOK, ListedOrders, ServiceStep, NEW p \in OrderIds
    PROVE  /\ orders[p].lists # {} =>
                 orders'[p].lists # {} /\ orders'[p].account = orders[p].account
           /\ "history" \in orders[p].lists =>
                 "history" \in orders'[p].lists /\ orders'[p].status = orders[p].status
           /\ during[p] \subseteq during'[p]
           /\ orders[p].status \in during[p] => orders'[p].status \in during'[p]
           /\ orders'[p].status # "none" => orders'[p].account # NoAccount
           /\ orders'[p].lists # {} => orders'[p].account # NoAccount
           /\ "history" \in orders'[p].lists => orders'[p].status \in Closed
<1>1. ASSUME NEW a \in Accounts, AccountOpens(a)
      PROVE  UNCHANGED <<orders, during>>
  BY <1>1 DEF AccountOpens
<1>2. ASSUME NEW o \in OrderIds, OrderListed(o)
      PROVE  UNCHANGED during
  BY <1>2 DEF OrderListed
<1>3. CASE \E a \in Accounts \ opened : AccountOpens(a)
  BY <1>1, <1>3 DEF ListedOrders
<1>4. CASE \E o \in OrderIds : OrderMoves(o)
  BY <1>4, OrderMovesFacts DEF ListedOrders
<1>5. CASE \E o \in OrderIds : OrderListed(o)
  BY <1>2, <1>5, OrderListedFacts DEF ListedOrders
<1> QED BY <1>3, <1>4, <1>5 DEF ServiceStep

LEMMA ListedNext ==
    ASSUME TypeOK, ListedOrders, [Next]_vars
    PROVE  ListedOrders'
<1>1. CASE ServiceStep
  BY <1>1, ServiceFacts DEF ListedOrders
<1>2. CASE UNCHANGED orders
  BY <1>2 DEF ListedOrders
<1> QED
  BY <1>1, <1>2
  DEF Next, vars, serviceVars, Calls, SelectsAccount, RefreshAccountSelection, Ends,
      ReadsOne, Returns, Raises, FetchesOrders, GetsQuote

-----------------------------------------------------------------------------
\* The call in progress

\* A call that is over, or has not asked for orders yet, has nothing to lose.
LEMMA FreshCallInv ==
    ASSUME NEW step \in {"idle", "accounts", "one", "first"}, NEW m \in Methods,
           NEW listed \in SUBSET OrderIds,
           call' = At(step, m, listed),
           step = "first" => m = "get_orders",
           \A o \in listed : orders'[o].lists # {},
           m = "get_orders" => \A o \in OrderIds : orders'[o].status \in during'[o]
                               \/ step = "idle"
    PROVE  CallInv'
<1>1. /\ call'.at = step /\ call'.method = m /\ call'.listed = listed
      /\ call'.archived = {} /\ DOMAIN call'.merged = {}
  BY FreshCall
<1>2. FetchingIsGetOrders'
  BY <1>1 DEF FetchingIsGetOrders, Fetching
<1>3. PresentIsSeen'
  BY <1>1 DEF PresentIsSeen, Fetching
<1>4. NothingLost' /\ OnlyPagingLosesOrders'
  BY <1>1 DEF NothingLost, OnlyPagingLosesOrders
<1>5. MergedWasSeen' /\ HistoryWins'
  BY <1>1 DEF MergedWasSeen, HistoryWins
<1> QED BY <1>2, <1>3, <1>4, <1>5 DEF CallInv

\* While the service moves, a listed order stays listed, in the history it is
\* final, and what get_orders has seen it keeps.
LEMMA CallServiceNext ==
    ASSUME TypeOK, ListedOrders, CallInv, ServiceStep
    PROVE  CallInv'
<1>1. call' = call /\ selected' = selected
  BY DEF ServiceStep
<1>2. \A o \in call.listed \cup call.archived \cup DOMAIN call.merged : o \in OrderIds
  BY CallFields
<1>3. FetchingIsGetOrders'
  BY <1>1 DEF CallInv, FetchingIsGetOrders
<1>4. PresentIsSeen'
  BY <1>1, ServiceFacts DEF CallInv, PresentIsSeen
<1>5. NothingLost'
  <2>1. \A o \in call.listed : orders'[o].lists # {} /\ orders'[o].account = orders[o].account
    BY <1>2, ServiceFacts DEF CallInv, NothingLost
  <2>2. \A o \in call.listed :
            "history" \in orders[o].lists => "history" \in orders'[o].lists
    BY <1>2, ServiceFacts
  <2> QED BY <1>1, <2>1, <2>2 DEF CallInv, NothingLost
<1>6. OnlyPagingLosesOrders'
  <2>1. \A o \in call.listed : orders'[o].account = orders[o].account
    BY <1>2, ServiceFacts DEF CallInv, NothingLost
  <2> QED BY <1>1, <2>1 DEF CallInv, OnlyPagingLosesOrders
<1>7. MergedWasSeen'
  <2>1. CASE call.at \in {"second", "answered"}
    <3>1. ASSUME NEW o \in DOMAIN call.merged
          PROVE  /\ orders'[o].account = selected
                 /\ orders'[o].lists # {}
                 /\ during[o] \subseteq during'[o]
      BY <1>2, <2>1, <3>1, ServiceFacts DEF CallInv, MergedWasSeen
    <3> QED BY <1>1, <2>1, <3>1 DEF CallInv, MergedWasSeen
  <2> QED BY <1>1, <2>1 DEF CallInv, MergedWasSeen
<1>8. HistoryWins'
  BY <1>1, <1>2, ServiceFacts DEF CallInv, HistoryWins
<1> QED BY <1>3, <1>4, <1>5, <1>6, <1>7, <1>8 DEF CallInv

\* get_orders: the first response holds the listed orders that are not in the
\* history; what was in the history then still is, and comes with the second,
\* or is cut off from it.
LEMMA CallFetchesNext ==
    ASSUME TypeOK, CallInv, FetchesOrders
    PROVE  CallInv'
<1> DEFINE listed == Listed(selected, ListOf(call.at))
<1>1. PICK page \in FirstPages(selected, ListOf(call.at)) :
          /\ \A o \in page : orders[o].status \in DOMAIN StatusMap
          /\ call' = [call EXCEPT
                        !.at = IF @ = "first" THEN "second" ELSE "answered",
                        !.merged = Merge(@, page),
                        !.archived = IF ListOf(call.at) = "history" THEN page ELSE @,
                        !.cut = IF ListOf(call.at) = "history" THEN listed \ page ELSE @]
  BY DEF FetchesOrders
<1>2. /\ page \in SUBSET OrderIds /\ page \subseteq listed
      /\ ListOf(call.at) = "today" => page = listed
      /\ \A o \in OrderIds : o \in listed <=>
            orders[o].account = selected /\ ListOf(call.at) \in orders[o].lists
  BY FirstPagesFacts DEF Listed
<1>3. call.at \in {"first", "second"}
      /\ UNCHANGED <<orders, during, selected>>
  BY DEF FetchesOrders, serviceVars
<1> HIDE DEF listed
<1>4. /\ call'.at = IF call.at = "first" THEN "second" ELSE "answered"
      /\ call'.method = call.method /\ call'.listed = call.listed
      /\ call'.merged = Merge(call.merged, page)
      /\ call'.archived = IF call.at = "second" THEN page ELSE call.archived
      /\ call'.cut = IF call.at = "second" THEN listed \ page ELSE call.cut
  BY <1>1, <1>3 DEF TypeOK, CallType, ListOf
<1>5. /\ DOMAIN call'.merged = DOMAIN call.merged \cup page
      /\ \A o \in page : call'.merged[o] = StatusMap[orders[o].status]
      /\ \A o \in DOMAIN call.merged \ page : call'.merged[o] = call.merged[o]
  <2>1. call.merged \in OrderLists
    BY CallFields
  <2>2. /\ DOMAIN Merge(call.merged, page) = DOMAIN call.merged \cup page
        /\ \A o \in page : Merge(call.merged, page)[o] = StatusMap[orders[o].status]
        /\ \A o \in DOMAIN call.merged \ page :
              Merge(call.merged, page)[o] = call.merged[o]
    BY <1>1, <1>2, <2>1, MergeIsList
  <2> QED BY <1>4, <2>2
<1>6. \A o \in call.listed : o \in OrderIds /\ orders[o].lists \subseteq {"today", "history"}
  BY CallFields DEF TypeOK, ServiceTypeOK, Lists
<1>7. FetchingIsGetOrders'
  BY <1>3, <1>4 DEF CallInv, FetchingIsGetOrders, Fetching
<1>8. PresentIsSeen'
  BY <1>3, <1>4 DEF CallInv, PresentIsSeen, Fetching
<1>9. NothingLost'
  <2>1. CASE call.at = "first"
    BY <1>1, <1>2, <1>3, <1>4, <1>5, <1>6, <2>1 DEF CallInv, NothingLost, ListOf
  <2>2. CASE call.at = "second"
    BY <1>3, <1>4, <2>2 DEF CallInv, NothingLost
  <2> QED BY <1>3, <2>1, <2>2
<1>10. OnlyPagingLosesOrders'
  BY <1>1, <1>2, <1>3, <1>4, <1>5, <1>6
  DEF CallInv, NothingLost, OnlyPagingLosesOrders, ListOf
<1>11. MergedWasSeen'
  <2>1. ASSUME NEW o \in page
        PROVE  /\ orders[o].account = selected /\ orders[o].lists # {}
               /\ orders[o].status \in during[o] \cap DOMAIN StatusMap
               /\ call'.merged[o] = StatusMap[orders[o].status]
    BY <1>1, <1>2, <1>3, <1>5 DEF CallInv, PresentIsSeen, FetchingIsGetOrders, Fetching
  <2>2. ASSUME NEW o \in DOMAIN call.merged \ page
        PROVE  /\ orders[o].account = selected /\ orders[o].lists # {}
               /\ \E s \in during[o] \cap DOMAIN StatusMap :
                     call'.merged[o] = StatusMap[s]
    BY <1>3, <1>5 DEF CallInv, MergedWasSeen
  <2> QED BY <1>3, <1>4, <1>5, <2>1, <2>2 DEF MergedWasSeen
<1>12. HistoryWins'
  <2>1. CASE call.at = "first"
    BY <1>3, <1>4, <1>5, <2>1 DEF CallInv, MergedWasSeen, HistoryWins
  <2>2. CASE call.at = "second"
    BY <1>1, <1>2, <1>3, <1>4, <1>5, <2>2 DEF HistoryWins, ListOf
  <2> QED BY <1>3, <2>1, <2>2
<1> QED BY <1>7, <1>8, <1>9, <1>10, <1>11, <1>12 DEF CallInv

LEMMA CallNext ==
    ASSUME TypeOK, ListedOrders, CallInv, [Next]_vars
    PROVE  CallInv'
<1>1. CASE ServiceStep
  BY <1>1, CallServiceNext
<1>2. ASSUME NEW m \in Methods, Calls(m) PROVE CallInv'
  <2> DEFINE listed == IF m = "get_orders" THEN InSomeList ELSE {}
  <2>1. /\ StartsAt(m) \in {"idle", "accounts", "one", "first"}
        /\ StartsAt(m) = "first" => m = "get_orders"
    BY FirstRequests DEF StartsAt
  <2>2. call' = At(StartsAt(m), m, listed) /\ UNCHANGED orders
    BY <1>2 DEF Calls
  <2>3. listed \in SUBSET OrderIds /\ \A o \in listed : orders'[o].lists # {}
    BY <2>2 DEF InSomeList
  <2>4. m = "get_orders" => \A o \in OrderIds : orders'[o].status \in during'[o]
    BY <1>2, <2>2 DEF Calls
  <2> HIDE DEF listed
  <2> QED BY <2>1, <2>2, <2>3, <2>4, FreshCallInv
<1>3. CASE Ends
  <2>1. call' = At("idle", "resolve", {}) /\ "resolve" \in Methods
    BY <1>3 DEF Ends, Idle, Methods
  <2> QED BY <2>1, FreshCallInv
<1>4. CASE SelectsAccount
  <2>1. call.at = "accounts" /\ UNCHANGED <<orders, during>>
    BY <1>4 DEF SelectsAccount, serviceVars
  <2>2. /\ call'.at = FirstRequest(call.method)
        /\ call'.method = call.method /\ call'.merged = call.merged
        /\ call'.listed = call.listed /\ call'.archived = call.archived
    BY <1>4 DEF SelectsAccount, TypeOK, CallType
  <2>3. /\ call'.at \in {"idle", "one", "first"}
        /\ call'.at = "first" => call.method = "get_orders"
    BY <2>2, FirstRequests, CallFields
  <2>4. DOMAIN call.merged = {} /\ call.archived = {}
    BY <2>1 DEF CallInv, MergedWasSeen, HistoryWins
  <2>5. FetchingIsGetOrders' /\ PresentIsSeen'
    BY <2>1, <2>2, <2>3 DEF CallInv, FetchingIsGetOrders, PresentIsSeen, Fetching
  <2>6. NothingLost' /\ OnlyPagingLosesOrders'
    BY <2>1, <2>2, <2>3 DEF CallInv, NothingLost, OnlyPagingLosesOrders
  <2>7. MergedWasSeen' /\ HistoryWins'
    BY <2>2, <2>3, <2>4 DEF MergedWasSeen, HistoryWins
  <2> QED BY <2>5, <2>6, <2>7 DEF CallInv
<1>5. CASE RefreshAccountSelection
  <2>1. call.at = "idle" /\ UNCHANGED <<call, orders, during>>
    BY <1>5 DEF RefreshAccountSelection, serviceVars
  <2> QED BY <2>1 DEF CallInv, FetchingIsGetOrders, PresentIsSeen, NothingLost,
                     OnlyPagingLosesOrders, MergedWasSeen, HistoryWins, Fetching
<1>6. CASE FetchesOrders
  BY <1>6, CallFetchesNext
<1>7. CASE UNCHANGED <<call, orders, during, selected>>
  BY <1>7 DEF CallInv, FetchingIsGetOrders, PresentIsSeen, NothingLost,
              OnlyPagingLosesOrders, MergedWasSeen, HistoryWins
<1> QED
  BY <1>1, <1>2, <1>3, <1>4, <1>5, <1>6, <1>7
  DEF Next, vars, serviceVars, ReadsOne, Returns, Raises, GetsQuote

-----------------------------------------------------------------------------
\* The invariant, and what follows from it

LEMMA IInvInit == ASSUME Init PROVE IInv
<1>1. TypeOK
  BY TypeInit
<1>2. AloneIsKnown /\ AccountIsJustified /\ ListedOrders
  BY DEF Init, ServiceInit, AloneIsKnown, AccountIsJustified,
         ListedOrders
<1>3. /\ call.at = "idle" /\ call.listed = {} /\ call.archived = {}
  BY FreshCall DEF Init, Idle, Methods
<1>4. CallInv
  BY <1>3 DEF CallInv, FetchingIsGetOrders, PresentIsSeen, NothingLost,
              OnlyPagingLosesOrders, MergedWasSeen, HistoryWins, Fetching
<1> QED BY <1>1, <1>2, <1>4 DEF IInv

LEMMA IInvNext == ASSUME IInv, [Next]_vars PROVE IInv'
BY TypeNext, AccountNext, ListedNext, CallNext DEF IInv

\* The inductive invariant holds in every reachable state.
THEOREM ReadOnlyInductive == Spec => []IInv
BY IInvInit, IInvNext, PTL DEF Spec

\* The broker's fields and its call in progress have their types, and nothing
\* is asked of an account before one is known.
THEOREM ReadOnlyTypeCorrect == Spec => []TypeOK
<1>1. IInv => TypeOK
  BY DEF IInv
<1> QED BY <1>1, ReadOnlyInductive, PTL

\* The account every request is about is the configured one, or was the only
\* one, however many accounts appear between _list_us_accounts and its use.
THEOREM AccountJustified == Spec => []AccountIsJustified
<1>1. IInv => AccountIsJustified
  BY DEF IInv
<1> QED BY <1>1, ReadOnlyInductive, PTL

\* get_orders, which reads today's list and then the history, returns every
\* order of the account that was in either when it was called, except those on
\* later pages of the history: none is lost by moving between the two.
THEOREM OrdersLostByPagingOnly == Spec => []OnlyPagingLosesOrders
<1>1. IInv => OnlyPagingLosesOrders
  BY DEF IInv, CallInv
<1> QED BY <1>1, ReadOnlyInductive, PTL

\* It returns orders of that account only, each with a status it had during
\* the call, and the final one where the history showed it.
THEOREM OrderListObserved == Spec => []OrdersAreObserved
<1>1. IInv => OrdersAreObserved
  BY DEF IInv, CallInv, MergedWasSeen, HistoryWins, OrdersAreObserved
<1> QED BY <1>1, ReadOnlyInductive, PTL
=============================================================================

--------------------------- MODULE AccountService ---------------------------
(***************************************************************************)
(* EXTERNAL: what moomoo answers read requests from: the user's simulated  *)
(* US accounts, the orders of each and the two lists they are read from,   *)
(* "today" and "history".  All of it changes between any two requests.     *)
(* The contract notes leave open when an order moves from one list to the  *)
(* other, so it may, once closed, be in both, and a new order may not be   *)
(* either yet.  An order never leaves both.  The history is answered in    *)
(* pages, each with the key of the next (MOOMOO_API_CONTRACT.md:121).      *)
(***************************************************************************)
EXTENDS Naturals, FiniteSets

CONSTANTS
    Accounts,   \* account ids
    OrderIds,   \* order ids
    NoAccount,  \* no account id
    PageSize,   \* the most orders that a page of the history has
    Words       \* BOUND: the status words that occur

\* The status words; "new" stands for all that the documentation leaves out.
Closed == {"filled", "cancelled", "rejected"}
Statuses == {"none", "new", "submitted", "part"} \cup Closed
Lists == {"today", "history"}

ASSUME ServiceAssumption ==
    /\ NoAccount \notin Accounts /\ Words \subseteq Statuses
    /\ PageSize \in Nat \ {0}

Follows(s) ==
    Words \cap CASE s = "none"      -> {"new", "submitted"}
                 [] s = "new"       -> {"submitted", "rejected"}
                 [] s = "submitted" -> {"part", "filled", "cancelled", "rejected"}
                 [] s = "part"      -> {"filled", "cancelled"}
                 [] OTHER           -> {}

VARIABLES
    opened,   \* the US accounts that exist
    alone,    \* history: the accounts that have been the only one
    orders,   \* every order: its account, its status, the lists it is in
    during    \* history: the statuses of each order since get_orders was called

serviceVars == <<opened, alone, orders, during>>

ServiceTypeOK ==
    /\ opened \subseteq Accounts /\ alone \subseteq Accounts
    /\ orders \in [OrderIds -> [account: Accounts \cup {NoAccount},
                                status: Statuses, lists: SUBSET Lists]]
    /\ during \in [OrderIds -> SUBSET Statuses]

Alone(as) == IF Cardinality(as) = 1 THEN as ELSE {}

ServiceInit ==
    /\ opened \in SUBSET Accounts
    /\ alone = Alone(opened)
    /\ orders = [o \in OrderIds |->
                    [account |-> NoAccount, status |-> "none", lists |-> {}]]
    /\ during = [o \in OrderIds |-> {}]

-----------------------------------------------------------------------------

AccountOpens(a) ==
    /\ opened' = opened \cup {a}
    /\ alone' = alone \cup Alone(opened')
    /\ UNCHANGED <<orders, during>>

\* Order o is placed, or it moves on.
OrderMoves(o) ==
    /\ \E a \in opened, s \in Follows(orders[o].status) :
          /\ orders[o].account \in {NoAccount, a}
          /\ orders' = [orders EXCEPT ![o].account = a, ![o].status = s]
          /\ during' = [during EXCEPT ![o] = IF @ = {} THEN {} ELSE @ \cup {s}]
    /\ UNCHANGED <<opened, alone>>

\* It is listed as today's, and once closed in the history, then only there.
OrderListed(o) ==
    /\ orders[o].status # "none"
    /\ \/ orders[o].lists = {} /\ orders' = [orders EXCEPT ![o].lists = {"today"}]
       \/ /\ orders[o].status \in Closed
          /\ \E where \in {Lists, {"history"}} :
                orders' = [orders EXCEPT ![o].lists = where]
          /\ "history" \in orders[o].lists => orders'[o].lists = {"history"}
    /\ UNCHANGED <<opened, alone, during>>

InSomeList == {o \in OrderIds : orders[o].lists # {}}

\* List l of account a.
Listed(a, l) == {o \in OrderIds : orders[o].account = a /\ l \in orders[o].lists}

\* What a request for it, without a page key, may return: all of today's
\* list, but of the history one page.
FirstPages(a, l) ==
    IF l = "today" \/ Cardinality(Listed(a, l)) <= PageSize
    THEN {Listed(a, l)}
    ELSE {page \in SUBSET Listed(a, l) : Cardinality(page) = PageSize}
=============================================================================

---------------------------- MODULE OrderPermits ----------------------------
(***************************************************************************)
(* What PaperWriteController promises about real orders, without saying    *)
(* how.  A person grants and revokes the permission to place orders; an    *)
(* order is placed only while it stands, never twice for one audit         *)
(* reference, and with single permits at most one order is placed per      *)
(* grant.  The promise covers one lifetime of the process: a new one has   *)
(* no permission and remembers no order.                                   *)
(***************************************************************************)
EXTENDS Integers

CONSTANT SinglePermits  \* a grant is good for one order only

VARIABLES
    permitted,  \* the permission stands
    grants,     \* grants so far
    placed      \* orders placed in this lifetime: [id, ref, grant]

Init == permitted = FALSE /\ grants = 0 /\ placed = {}

Grant == permitted' = TRUE /\ grants' = grants + 1 /\ placed' = placed

Revoke == permitted' = FALSE /\ UNCHANGED <<grants, placed>>

Place ==
    /\ permitted
    /\ \E order \in placed' :
          /\ \A earlier \in placed :
                /\ earlier.ref # order.ref
                /\ SinglePermits => earlier.grant # grants
          /\ order.grant = grants
          /\ placed' = placed \cup {order}
    /\ UNCHANGED <<permitted, grants>>

Forget == permitted' = FALSE /\ placed' = {} /\ grants' = grants

Next == Grant \/ Revoke \/ Place \/ Forget

Spec == Init /\ [][Next]_<<permitted, grants, placed>>
=============================================================================

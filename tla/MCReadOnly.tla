----------------------------- MODULE MCReadOnly -----------------------------
(***************************************************************************)
(* Two accounts and two orders, so that an account can appear after        *)
(* another was selected and orders of both can be in the lists at once.    *)
(***************************************************************************)
EXTENDS MoomooReadOnlyBroker, TLC

Symmetric == Permutations(OrderIds) \cup Permutations(Accounts)
=============================================================================

-------------------------- MODULE MCStoredSession ---------------------------
(***************************************************************************)
(* Two programs and a login over one credential store.  The skew is twice  *)
(* the longest request, which is what RequestsCarryLiveToken needs of the  *)
(* 10 and the 30 seconds of the code, and the lifetime leaves one instant  *)
(* at which a fresh token is used without a refresh.  9 is a client id     *)
(* registered elsewhere, as --client-id passes one.                        *)
(***************************************************************************)
EXTENDS StoredSession, TLC

Symmetric == Permutations(Apps)
=============================================================================

--------------------------- MODULE StoredSession ----------------------------
(***************************************************************************)
(* The login and the processes that live on what it stored, together, and  *)
(* what they guarantee.                                                    *)
(***************************************************************************)
EXTENDS MoomooLogin

Init == EndpointInit /\ ClientInit /\ LoginInit

Next ==
    \/ \E p \in Apps : AppStep(p) /\ UNCHANGED loginVars
    \/ \E l \in Logins : LoginStep(l)
    \/ User
    \/ Tick /\ UNCHANGED loginVars

\* A login that was started goes on, and each of its requests ends by its
\* timeout; the user may never answer, and no program need ever be started.
Fairness == \A l \in Logins : WF_vars(MainThread(l))

Spec == Init /\ [][Next]_vars
FairSpec == Spec /\ Fairness

\* In addition no browser keeps a silent connection open for ever.
PatientSpec == FairSpec /\ \A l \in Logins : WF_vars(SilenceEnds(l))

-----------------------------------------------------------------------------

\* Type invariant: the endpoint, the store, every process and every listener;
\* a refresh is only asked for with a refresh token.
TypeOK ==
    /\ EndpointTypeOK
    /\ registration \in 0..clients
    /\ tokens \in [access: DOMAIN grants, refresh: 0..Len(grants), expires: Nat]
                  \cup {NoTokens}
    /\ call \in [Procs -> [at: AppSteps \cup LoginSteps, client: Nat,
                           shown: Nat, held: 0..Len(grants), since: Nat]]
    /\ \A p \in Apps : call[p].at = "sent" => call[p].shown # 0
    /\ lost \subseteq DOMAIN grants
    /\ asked \in 0..MaxLogins
    /\ opened \subseteq 1..asked
    /\ browser \in [Logins -> [own: 0..MaxLogins, heard: 0..MaxLogins,
                               event: BOOLEAN, thread: {"down", "serving", "stuck"}]]

\* Successors of refresh token r: the grants it was rotated into.
Successors(r) == {g \in DOMAIN grants : grants[g].from = r /\ grants[g].fresh}

\* A process has been answered with grant g and has not saved it yet.
InHand(g) == \E p \in Procs : call[p].at = "answered" /\ call[p].held = g

\* The stored refresh token can be used again, however two processes refresh,
\* log in and end, except while its successor is on its way to the store or
\* after the successor's response was lost; there is none only when the login
\* itself was given none (refresh_access_token: "never silently drop the
\* ability to refresh again").
StoredRefreshIsLive ==
    tokens # NoTokens =>
        IF tokens.refresh # 0
        THEN \/ tokens.refresh \in live
             \/ \E g \in Successors(tokens.refresh) : g \in lost \/ InHand(g)
        ELSE grants[tokens.access].from = 0 /\ ~grants[tokens.access].fresh

\* A token that get_valid_access_token returned is still good when the request
\* that carries it arrives, although the stored expiry was counted from the
\* arrival of the response and the token from before it ("never returns a
\* stale or empty token").
RequestsCarryLiveToken ==
    \A p \in Apps : call[p].at = "using" =>
        call[p].held # 0 /\ now < grants[call[p].held].dies

\* Only the code that answered this login's own request is exchanged, although
\* late and repeated callbacks may overwrite the result until the listener is
\* down (verify_callback_state looks at the state, the exchange takes the code).
OwnCodeOnly ==
    \A l \in Logins : call[l].at = "sent" =>
        call[l].shown = browser[l].own /\ browser[l].own \in approved

\* auth/moomoo_login.py:175 "Waiting up to ...s for the redirect callback": a
\* login ends, whether the user answers or not.
LoginEnds == \A l \in Logins : (call[l].at # "off") ~> (call[l].at = "off")
=============================================================================

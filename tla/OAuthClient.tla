---------------------------- MODULE OAuthClient ----------------------------
(***************************************************************************)
(* auth/moomoo_oauth.py and auth/token_storage.py: the credential store    *)
(* shared by every process of the user, and the processes that call        *)
(* get_valid_access_token before each request to moomoo (as                *)
(* broker/moomoo_smoke_test.py wires it).  Nothing locks the store, and    *)
(* refresh_access_token reads it, asks the endpoint and writes it, so      *)
(* other processes come between the three.  A process may end at any step. *)
(***************************************************************************)
EXTENDS TokenEndpoint

CONSTANTS
    Apps,    \* processes that use a stored session
    Logins,  \* processes that run a login
    Skew,    \* _TOKEN_EXPIRY_SKEW_SECONDS
    Delay    \* the longest a request takes (its timeout)

Procs == Apps \cup Logins

ASSUME ClientAssumption ==
    /\ Apps \cap Logins = {}
    /\ Skew \in Nat /\ Delay \in Nat
    /\ 2 * Delay <= Skew
    /\ 2 * Delay < Lifetime

VARIABLES
    registration, \* the stored ClientRegistration's client_id, 0 when none
    tokens,       \* the stored TokenSet
    call,         \* of each process: where it stands and what it carries
    lost          \* history: the grants whose response was never saved

clientVars == <<registration, tokens, call, lost>>

NoTokens == [access |-> 0, refresh |-> 0, expires |-> 0]

AppSteps == {"off", "ready", "expired", "sent", "answered", "using"}

\* client: client_id as the process knows it; shown: the refresh token or
\* code it presents; held: the grant it was answered with or uses, 0 for a
\* refusal; since: when its request was sent.
At(step, c) == [at |-> step, client |-> c, shown |-> 0, held |-> 0, since |-> 0]

Becomes(p, new) == call' = [call EXCEPT ![p] = new]

ClientInit ==
    /\ registration = 0
    /\ tokens = NoTokens
    /\ call = [p \in Procs |-> At("off", 0)]
    /\ lost = {}

-----------------------------------------------------------------------------

\* Mutant: the stored expiry is taken as it is.
MutIsExpired(t) == now >= t.expires

\* TokenSet.is_expired
IsExpired(t) == now + Skew >= t.expires

\* Mutant: the refresh token that was used is kept in any case.
MutRefreshToken(g, used) == IF used = 0 /\ grants[g].fresh THEN g ELSE used

\* Mutant: a response that omits the refresh token drops it.
MutDropsRefreshToken(g, used) == IF grants[g].fresh THEN g ELSE 0

\* The refresh token that is saved with grant g: its own, or the one that was
\* used to get it when the response omits it; none (0) after a code.
RefreshToken(g, used) == IF grants[g].fresh THEN g ELSE used

\* TokenStorage.save of the TokenSet built from the response, at its arrival.
SavesTokens(p, used) ==
    tokens' = [access |-> call[p].held,
               refresh |-> RefreshToken(call[p].held, used),
               expires |-> now + Lifetime]

\* What p was granted and has not saved is lost with its call.
LosesAnswer(p) ==
    lost' = lost \cup (IF call[p].at = "answered" THEN {call[p].held} \ {0} ELSE {})

-----------------------------------------------------------------------------

\* The program starts: get_stored_registration, once.
AppStarts(p) ==
    /\ call[p].at = "off"
    /\ registration # 0
    /\ Becomes(p, At("ready", registration))
    /\ UNCHANGED <<registration, tokens, lost, now, endpointVars>>

\* get_valid_access_token: the stored token is still good and a request goes
\* out with it, or it has to be refreshed.  Without one it raises.
ChecksToken(p) ==
    /\ call[p].at = "ready"
    /\ tokens # NoTokens
    /\ Becomes(p, IF IsExpired(tokens)
                  THEN At("expired", call[p].client)
                  ELSE [At("using", call[p].client) EXCEPT
                            !.held = tokens.access, !.since = now])
    /\ UNCHANGED <<registration, tokens, lost, now, endpointVars>>

\* Mutant: a session without a refresh token is not noticed.
MutCanRefresh == TRUE

\* The stored session has a refresh token.
CanRefresh == tokens.refresh # 0

\* refresh_access_token reads the store again and sends its request; without a
\* refresh token it raises, and a new authorization is needed.
SendsRefresh(p) ==
    /\ call[p].at = "expired"
    /\ \/ /\ CanRefresh
          /\ Becomes(p, [At("sent", call[p].client) EXCEPT
                             !.shown = tokens.refresh, !.since = now])
       \/ ~CanRefresh /\ Becomes(p, At("ready", call[p].client))
    /\ UNCHANGED <<registration, tokens, lost, now, endpointVars>>

\* The endpoint handles it.
AnswersRefresh(p) ==
    /\ call[p].at = "sent"
    /\ \/ /\ Refreshes(call[p].client, call[p].shown)
          /\ Becomes(p, [call[p] EXCEPT !.at = "answered", !.held = NextGrant])
       \/ /\ ~Accepts(call[p].client, call[p].shown)
          /\ Becomes(p, [call[p] EXCEPT !.at = "answered"])
          /\ UNCHANGED endpointVars
    /\ UNCHANGED <<registration, tokens, lost, now>>

\* The new tokens are saved and the first is used at once; or the store
\* refuses them (a blob too long, an OSError); or the refresh was refused.
ReceivesRefresh(p) ==
    /\ call[p].at = "answered"
    /\ \/ /\ call[p].held # 0
          /\ SavesTokens(p, call[p].shown)
          /\ Becomes(p, [At("using", call[p].client) EXCEPT
                             !.held = call[p].held, !.since = now])
          /\ UNCHANGED lost
       \/ /\ Becomes(p, At("ready", call[p].client))
          /\ LosesAnswer(p)
          /\ UNCHANGED tokens
    /\ UNCHANGED <<registration, now, endpointVars>>

\* A refresh request fails, or its response does not arrive: TokenRefreshError.
RefreshFails(p) ==
    /\ call[p].at \in {"sent", "answered"}
    /\ Becomes(p, At("ready", call[p].client))
    /\ LosesAnswer(p)
    /\ UNCHANGED <<registration, tokens, now, endpointVars>>

\* moomoo has taken the request that carried the token, or it failed.
RequestEnds(p) ==
    /\ call[p].at = "using"
    /\ Becomes(p, At("ready", call[p].client))
    /\ UNCHANGED <<registration, tokens, lost, now, endpointVars>>

\* The process ends, wherever it stands.
AppEnds(p) ==
    /\ call[p].at # "off"
    /\ Becomes(p, At("off", 0))
    /\ LosesAnswer(p)
    /\ UNCHANGED <<registration, tokens, now, endpointVars>>

\* Steps that follow from a started call, the process's own and the ones that
\* end its requests.
AppCallStep(p) ==
    \/ SendsRefresh(p) \/ AnswersRefresh(p) \/ ReceivesRefresh(p)
    \/ RefreshFails(p) \/ RequestEnds(p)

AppStep(p) == AppStarts(p) \/ ChecksToken(p) \/ AppCallStep(p) \/ AppEnds(p)

\* Time passes, but never past the end of a request in flight.
InFlight == {"sent", "answered", "using"}

Tick ==
    /\ now < MaxTime
    /\ \A p \in Procs : call[p].at \in InFlight => now < call[p].since + Delay
    /\ now' = now + 1
    /\ UNCHANGED <<clientVars, endpointVars>>
=============================================================================

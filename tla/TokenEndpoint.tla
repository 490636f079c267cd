--------------------------- MODULE TokenEndpoint ---------------------------
(***************************************************************************)
(* EXTERNAL: moomoo's OAuth endpoints (/oauth2/register, /oauth2/authorize *)
(* and /oauth2/token) as auth/moomoo_oauth.py uses them, with the clock.   *)
(* A token response is a grant, known by its place in "grants": grant g is *)
(* an access token, and a refresh token too if it is fresh.  A code may be *)
(* answered with or without a refresh token.  A refresh either rotates (a  *)
(* fresh grant, the old refresh token is dead) or omits refresh_token from *)
(* its response and leaves the old one alive.                              *)
(***************************************************************************)
EXTENDS Naturals, Sequences, FiniteSets

CONSTANTS
    Lifetime,   \* expires_in of every access token
    MaxTime,    \* BOUND: the clock
    MaxGrants,  \* BOUND: token responses
    MaxClients, \* BOUND: registrations, whose ids are 1, 2, ...
    MaxLogins   \* BOUND: authorization requests

ASSUME EndpointAssumption ==
    /\ Lifetime \in Nat /\ MaxTime \in Nat /\ MaxGrants \in Nat
    /\ MaxClients \in Nat /\ MaxLogins \in Nat

VARIABLES
    now,        \* the clock
    rotates,    \* whether a refresh rotates the refresh token
    grants,     \* every grant: [client, dies, from, fresh]
    live,       \* the grants whose refresh token is accepted
    clients,    \* history: number of registrations so far
    redeemed,   \* the authorization requests whose code has been used
    approved    \* the authorization requests the user has consented to: the
                \* browser may send their code and state, now or again

endpointVars == <<rotates, grants, live, clients, redeemed, approved>>

Grant == [client: Nat, dies: Nat, from: Nat, fresh: BOOLEAN]

EndpointTypeOK ==
    /\ now \in Nat
    /\ rotates \in BOOLEAN
    /\ grants \in Seq(Grant)
    /\ live \subseteq DOMAIN grants
    /\ clients \in 0..MaxClients
    /\ redeemed \subseteq 1..MaxLogins
    /\ approved \subseteq 1..MaxLogins

EndpointInit ==
    /\ now = 0
    /\ rotates \in BOOLEAN
    /\ grants = <<>> /\ live = {} /\ clients = 0
    /\ redeemed = {} /\ approved = {}

-----------------------------------------------------------------------------

\* The id of the grant that the next accepted request is given.
NextGrant == Len(grants) + 1

Issue(c, from, fresh) ==
    /\ NextGrant <= MaxGrants
    /\ grants' = Append(grants, [client |-> c, dies |-> now + Lifetime,
                                 from |-> from, fresh |-> fresh])

\* grant_type=refresh_token, presented by client c.
Accepts(c, token) == token \in live /\ grants[token].client = c

Refreshes(c, token) ==
    /\ Accepts(c, token)
    /\ Issue(c, token, rotates)
    /\ live' = IF rotates THEN (live \ {token}) \cup {NextGrant} ELSE live
    /\ UNCHANGED <<rotates, clients, redeemed, approved>>

\* grant_type=authorization_code: the code that answered request "code", with
\* the verifier that belongs to request "verifier".
Redeemable(code, verifier) == code = verifier /\ code \notin redeemed

Redeems(c, code, fresh) ==
    /\ Issue(c, 0, fresh)
    /\ live' = IF fresh THEN live \cup {NextGrant} ELSE live
    /\ redeemed' = redeemed \cup {code}
    /\ UNCHANGED <<rotates, clients, approved>>

\* The user consents to request n.
Consents(n) ==
    /\ approved' = approved \cup {n}
    /\ UNCHANGED <<now, rotates, grants, live, clients, redeemed>>
=============================================================================

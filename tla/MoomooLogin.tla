---------------------------- MODULE MoomooLogin -----------------------------
(***************************************************************************)
(* auth/moomoo_login.py: the interactive login.  A login has two threads:  *)
(* the main one runs run_login, the other one serves the local listener    *)
(* and writes into the shared _CallbackResult.  The browser may send an    *)
(* answer early, late, twice, or the answer of an earlier login.           *)
(***************************************************************************)
EXTENDS OAuthClient

\* The client ids a user may pass by --client-id; 0 is the empty one.
CONSTANT Given

ASSUME GivenAssumption == Given \subseteq Nat

VARIABLES
    asked,   \* history: logins started so far
    opened,  \* the authorization requests the browser has been given
    browser  \* of each login: its request and the listener's side

loginVars == <<asked, opened, browser>>
vars == <<now, endpointVars, clientVars, loginVars>>

LoginSteps == {"off", "registering", "opening", "opened", "waiting", "got",
               "late", "heard", "verified", "sent", "answered"}

\* own: the request whose state and verifier this login holds; heard: the
\* request whose code and state _CallbackResult holds, 0 when it has no code
\* (none yet, an error, or the address opened by hand); event: its event;
\* thread: the listener.
NoListener(n) == [own |-> n, heard |-> 0, event |-> FALSE, thread |-> "down"]

LoginInit ==
    /\ asked = 0
    /\ opened = {}
    /\ browser = [l \in Logins |-> NoListener(0)]

\* The login goes on to its next step.
GoesTo(l, step) == Becomes(l, [call[l] EXCEPT !.at = step])

\* It is over: it returns, or ends in SystemExit or an exception.
Ends(l) == Becomes(l, At("off", 0)) /\ browser' = [browser EXCEPT ![l] = NoListener(0)]

Quiet == UNCHANGED <<registration, tokens, lost, now, endpointVars>>

-----------------------------------------------------------------------------
\* A, B, C: registration, authorization URL, browser

\* client_id_override, or get_stored_registration when none is given.
KnownClients == Given \cup {registration}

\* A known client is used as it is; without one a client is registered.
StartsLogin(l) ==
    /\ call[l].at = "off"
    /\ asked < MaxLogins
    /\ asked' = asked + 1
    /\ browser' = [browser EXCEPT ![l] = NoListener(asked')]
    /\ \E c \in KnownClients :
          Becomes(l, IF c # 0 THEN At("opening", c) ELSE At("registering", 0))
    /\ Quiet /\ UNCHANGED opened

\* register_client: the endpoint registers one and it is stored; or the
\* request, its response or the store fails.
Registers(l) ==
    /\ call[l].at = "registering"
    /\ \/ /\ clients < MaxClients
          /\ clients' = clients + 1
          /\ registration' = clients'
          /\ Becomes(l, At("opening", clients'))
          /\ UNCHANGED browser
       \/ /\ clients' \in {clients, clients + 1} \cap 0..MaxClients
          /\ Ends(l)
          /\ UNCHANGED registration
    /\ UNCHANGED <<tokens, lost, now, rotates, grants, live, redeemed, approved,
                   asked, opened>>

OpensBrowser(l) ==
    /\ call[l].at = "opening"
    /\ opened' = opened \cup {browser[l].own}
    /\ GoesTo(l, "opened")
    /\ Quiet /\ UNCHANGED <<asked, browser>>

-----------------------------------------------------------------------------
\* D: _wait_for_callback

\* The listener is bound; that raises when another one has the port, unless
\* the platform lets two share it.
Listens(l) ==
    /\ call[l].at = "opened"
    /\ \/ /\ browser' = [browser EXCEPT ![l].thread = "serving"]
          /\ GoesTo(l, "waiting")
       \/ /\ \E m \in Logins : browser[m].thread # "down"
          /\ Ends(l)
    /\ Quiet /\ UNCHANGED <<asked, opened>>

\* do_GET for /callback: the result is overwritten, the response written, the
\* event set.  When the browser has hung up the write raises before that.
HandlesCallback(l) ==
    /\ browser[l].thread = "serving"
    /\ \E n \in approved \cup {0}, e \in {TRUE, browser[l].event} :
          browser' = [browser EXCEPT ![l].heard = n, ![l].event = e]
    /\ Quiet /\ UNCHANGED <<call, asked, opened>>

\* A connection is open on which nothing is sent: the single-threaded listener
\* reads from it, without a time limit, until the browser closes it.
GoesSilent(l) ==
    /\ call[l].at = "waiting" /\ browser[l].thread = "serving"
    /\ browser' = [browser EXCEPT ![l].thread = "stuck"]
    /\ Quiet /\ UNCHANGED <<call, asked, opened>>

SilenceEnds(l) ==
    /\ browser[l].thread = "stuck"
    /\ browser' = [browser EXCEPT ![l].thread = "serving"]
    /\ Quiet /\ UNCHANGED <<call, asked, opened>>

\* Mutant: the wait has no time limit.
MutWaitEnds(l) ==
    /\ call[l].at = "waiting"
    /\ browser[l].event /\ GoesTo(l, "got")
    /\ Quiet /\ UNCHANGED loginVars

\* event.wait returns, and shutdown() asks the listener to stop after the
\* request it is handling.  The wait may report the time limit although the
\* event has just been set.
WaitEnds(l) ==
    /\ call[l].at = "waiting"
    /\ \/ browser[l].event /\ GoesTo(l, "got")
       \/ GoesTo(l, "late")
    /\ Quiet /\ UNCHANGED loginVars

\* Mutant: the result is used without waiting for the listener to stop.
MutStopped(l) == browser[l]

\* The listener's side once shutdown() has returned.
Stopped(l) == [browser[l] EXCEPT !.thread = "down"]

\* The finally clause: shutdown() returns when no request is being handled.
ListenerStops(l) ==
    /\ browser[l].thread = "serving"
    /\ \/ /\ call[l].at = "got"
          /\ browser' = [browser EXCEPT ![l] = Stopped(l)]
          /\ GoesTo(l, "heard")
       \/ call[l].at = "late" /\ Ends(l)
    /\ Quiet /\ UNCHANGED <<asked, opened>>

-----------------------------------------------------------------------------
\* E: the code for tokens

\* No error, a code and a state, and verify_callback_state.
Verified(l) == browser[l].heard # 0 /\ browser[l].heard = browser[l].own

ChecksCallback(l) ==
    /\ call[l].at = "heard"
    /\ \/ Verified(l) /\ GoesTo(l, "verified") /\ UNCHANGED browser
       \/ ~Verified(l) /\ Ends(l)
    /\ Quiet /\ UNCHANGED <<asked, opened>>

\* exchange_authorization_code, with the code as the result holds it now.
SendsCode(l) ==
    /\ call[l].at = "verified"
    /\ Becomes(l, [call[l] EXCEPT !.at = "sent", !.shown = browser[l].heard,
                                  !.since = now])
    /\ Quiet /\ UNCHANGED loginVars

AnswersCode(l) ==
    /\ call[l].at = "sent"
    /\ \/ /\ Redeemable(call[l].shown, browser[l].own)
          /\ \E fresh \in BOOLEAN : Redeems(call[l].client, call[l].shown, fresh)
          /\ Becomes(l, [call[l] EXCEPT !.at = "answered", !.held = NextGrant])
       \/ /\ ~Redeemable(call[l].shown, browser[l].own)
          /\ GoesTo(l, "answered")
          /\ UNCHANGED endpointVars
    /\ UNCHANGED <<registration, tokens, lost, now, loginVars>>

ReceivesTokens(l) ==
    /\ call[l].at = "answered"
    /\ \/ call[l].held # 0 /\ SavesTokens(l, 0) /\ UNCHANGED lost
       \/ LosesAnswer(l) /\ UNCHANGED tokens
    /\ Ends(l)
    /\ UNCHANGED <<registration, now, endpointVars, asked, opened>>

\* The request fails, or its response does not arrive.
ExchangeFails(l) ==
    /\ call[l].at = "sent"
    /\ Ends(l)
    /\ Quiet /\ UNCHANGED <<asked, opened>>

\* The process ends, wherever it stands, and its listener with it.
LoginDies(l) ==
    /\ call[l].at # "off"
    /\ LosesAnswer(l)
    /\ Ends(l)
    /\ UNCHANGED <<registration, tokens, now, endpointVars, asked, opened>>

MainThread(l) ==
    \/ Registers(l) \/ OpensBrowser(l) \/ Listens(l) \/ WaitEnds(l)
    \/ ListenerStops(l) \/ ChecksCallback(l) \/ SendsCode(l) \/ AnswersCode(l)
    \/ ReceivesTokens(l) \/ ExchangeFails(l)

LoginStep(l) ==
    \/ StartsLogin(l) \/ MainThread(l) \/ HandlesCallback(l) \/ GoesSilent(l)
    \/ SilenceEnds(l) \/ LoginDies(l)

User ==
    /\ \E n \in opened : Consents(n)
    /\ UNCHANGED <<clientVars, loginVars>>
=============================================================================

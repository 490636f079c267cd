------------------------ MODULE StoredSessionProofs ------------------------
(***************************************************************************)
(* The stored session for any number of programs, logins, grants and       *)
(* instants: what is stored and what is in hand is known well enough that  *)
(* no request carries a dead token, no login exchanges a foreign code, and *)
(* the ability to refresh is lost only with a lost answer.                 *)
(***************************************************************************)
EXTENDS StoredSession, TLAPS

Steps ==
    /\ \A p \in Apps : call[p].at \in AppSteps
    /\ \A l \in Logins : call[l].at \in LoginSteps

\* What a login is sure of at each of its steps.
IsSure(l) ==
    /\ browser[l].heard \in approved \cup {0}
    /\ call[l].at # "off" => browser[l].own \in 1..asked
    /\ call[l].at \notin {"off", "registering"} => call[l].client # 0
    /\ browser[l].thread # "down" => call[l].at \in {"waiting", "got", "late"}
    /\ call[l].at \in {"verified", "sent"} => Verified(l)
    /\ call[l].at = "sent" => call[l].shown = browser[l].own

LoginHolds == \A l \in Logins : IsSure(l)

\* Only a call that was answered has a grant.
HeldIsAnswered ==
    \A p \in Procs : call[p].at \notin {"answered", "using"} => call[p].held = 0

\* A program shows refresh tokens that exist.
ShownExists == \A p \in Apps : call[p].shown \in 0..Len(grants)

\* A grant in hand lasts from the request on, and the refresh token that would
\* be saved with it is accepted; a login may have been given none.
AnswerIsGood ==
    \A p \in Procs : call[p].at = "answered" /\ call[p].held # 0 =>
        /\ call[p].since + Lifetime <= grants[call[p].held].dies
        /\ IF grants[call[p].held].fresh
              THEN call[p].held \in live
              ELSE IF p \in Logins THEN grants[call[p].held].from = 0
                                  ELSE ~rotates /\ call[p].shown \in live

\* A grant in hand is known to its process alone.
AnswerIsUnknown ==
    \A p \in Procs : call[p].at = "answered" /\ call[p].held # 0 =>
        /\ tokens.refresh # call[p].held
        /\ \A q \in Apps : call[q].shown # call[p].held
        /\ \A q \in Procs \ {p} : call[q].at = "answered" => call[q].held # call[p].held

\* A request in flight is not older than its time limit.
InTime ==
    \A p \in Procs : call[p].at \in InFlight =>
        call[p].since <= now /\ now <= call[p].since + Delay

\* The stored expiry is late by less than a request takes.
StoreInTime ==
    tokens # NoTokens => tokens.expires <= grants[tokens.access].dies + Delay

\* A token in use outlives the request that carries it.
UseInTime ==
    \A p \in Apps : call[p].at = "using" =>
        call[p].held # 0 /\ call[p].since + Delay < grants[call[p].held].dies

IInv ==
    /\ TypeOK /\ Steps /\ LoginHolds /\ HeldIsAnswered /\ ShownExists
    /\ AnswerIsGood /\ AnswerIsUnknown /\ InTime /\ StoreInTime /\ UseInTime
    /\ StoredRefreshIsLive

-----------------------------------------------------------------------------
\* Every step is of one of six kinds, as far as tokens are concerned.

CallType(n) ==
    [at: AppSteps \cup LoginSteps, client: Nat, shown: Nat, held: 0..n, since: Nat]

OnlyCallOf(p) == call' = [call EXCEPT ![p] = call'[p]]

\* Nothing happens to them.
Still == UNCHANGED <<now, rotates, grants, live, tokens, call, lost>>

\* The call of p goes on, and what it had in hand is lost.
Local(p) ==
    /\ UNCHANGED <<now, rotates, grants, live, tokens>>
    /\ OnlyCallOf(p)
    /\ LosesAnswer(p)
    /\ call'[p] \in CallType(Len(grants))
    /\ p \in Apps => /\ call'[p].at \in AppSteps
                     /\ call'[p].shown \in {0, call[p].shown, tokens.refresh}
                     /\ call'[p].at = "sent" => call'[p].shown # 0
    /\ p \in Logins => call'[p].at \in LoginSteps
    /\ call'[p].at # "using" => call'[p].held = 0
    /\ call'[p].at = "using" => /\ tokens # NoTokens /\ ~IsExpired(tokens)
                                /\ call'[p].held = tokens.access
    /\ call'[p].at \in InFlight =>
          \/ call'[p].since = now
          \/ call[p].at \in InFlight /\ call'[p].since = call[p].since

\* The request of p is answered with a new grant.
Granted(p) ==
    /\ UNCHANGED <<now, rotates, tokens, lost>>
    /\ OnlyCallOf(p)
    /\ call[p].at = "sent"
    /\ call'[p] = [call[p] EXCEPT !.at = "answered", !.held = NextGrant]
    /\ \E c \in Nat, from \in Nat, fresh \in BOOLEAN :
          /\ Issue(c, from, fresh)
          /\ \/ /\ p \in Logins /\ from = 0
                /\ live' = IF fresh THEN live \cup {NextGrant} ELSE live
             \/ /\ p \in Apps /\ from = call[p].shown /\ from \in live
                /\ fresh = rotates
                /\ live' = IF fresh THEN (live \ {from}) \cup {NextGrant} ELSE live

\* The refresh token p has used, none if it is a login.
Used(p) == IF p \in Apps THEN call[p].shown ELSE 0

\* p saves the grant it has in hand.
Saved(p) ==
    /\ UNCHANGED <<now, rotates, grants, live, lost>>
    /\ OnlyCallOf(p)
    /\ call[p].at = "answered" /\ call[p].held # 0
    /\ SavesTokens(p, Used(p))
    /\ call'[p] \in CallType(Len(grants)) /\ call'[p].shown = 0
    /\ \/ p \in Apps /\ call'[p].at = "using" /\ call'[p].held = call[p].held
                     /\ call'[p].since = now
       \/ p \in Logins /\ call'[p].at = "off" /\ call'[p].held = 0

\* What the types of a call and of the stored tokens say of their fields.
LEMMA CallIs ==
    ASSUME TypeOK, NEW p \in Procs
    PROVE  /\ call[p] \in CallType(Len(grants))
           /\ call[p] = [at |-> call[p].at, client |-> call[p].client,
                         shown |-> call[p].shown, held |-> call[p].held,
                         since |-> call[p].since]
           /\ Len(grants) \in Nat /\ DOMAIN grants = 1..Len(grants)
           /\ tokens.refresh \in 0..Len(grants) /\ tokens.access \in 0..Len(grants)
           /\ tokens.refresh \in Nat /\ call[p].shown \in Nat
           /\ registration \in Nat
<1>1. Len(grants) \in Nat /\ DOMAIN grants = 1..Len(grants)
  BY DEF TypeOK, EndpointTypeOK
<1>2. tokens.refresh \in 0..Len(grants) /\ tokens.access \in 0..Len(grants)
  BY <1>1 DEF TypeOK, NoTokens
<1>3. call[p] \in CallType(Len(grants)) /\ call[p].shown \in Nat
  BY DEF TypeOK, CallType
<1>4. tokens.refresh \in Nat
  BY <1>1, <1>2
<1>5. registration \in Nat
  BY EndpointAssumption DEF TypeOK, EndpointTypeOK
<1> QED BY <1>1, <1>2, <1>3, <1>4, <1>5 DEF CallType

LEMMA CallHolds ==
    ASSUME TypeOK, NEW p \in Procs
    PROVE  /\ call[p].held \in 0..Len(grants) /\ call[p].since \in Nat
           /\ call[p].held # 0 => call[p].held \in DOMAIN grants
<1>1. call[p].held \in 0..Len(grants) /\ call[p].since \in Nat
  BY CallIs DEF CallType
<1>2. DOMAIN grants = 1..Len(grants) /\ Len(grants) \in Nat
  BY CallIs
<1> QED BY <1>1, <1>2

LEMMA GrantIs ==
    ASSUME TypeOK, NEW g \in DOMAIN grants
    PROVE  /\ grants[g].client \in Nat
           /\ grants[g].dies \in Nat /\ grants[g].fresh \in BOOLEAN
<1>1. grants[g] \in Grant
  BY DEF TypeOK, EndpointTypeOK
<1> QED BY <1>1 DEF Grant

\* A call that begins or changes its step.
LEMMA CallFields ==
    ASSUME NEW n \in Nat, NEW s \in AppSteps \cup LoginSteps, NEW c \in Nat
    PROVE  /\ At(s, c) \in CallType(n)
           /\ At(s, c).at = s /\ At(s, c).client = c
           /\ At(s, c).shown = 0 /\ At(s, c).held = 0 /\ At(s, c).since = 0
BY DEF At, CallType

\* A request that goes out with a refresh token.
LEMMA SentFields ==
    ASSUME NEW c, NEW token, NEW t, NEW new,
           new = [At("sent", c) EXCEPT !.shown = token, !.since = t]
    PROVE  new = [at |-> "sent", client |-> c, shown |-> token, held |-> 0, since |-> t]
BY DEF At

LEMMA CallChanges ==
    ASSUME TypeOK, NEW p \in Procs, NEW new, Becomes(p, new)
    PROVE  OnlyCallOf(p) /\ call'[p] = new
BY DEF TypeOK, Becomes, OnlyCallOf

\* A call that starts, ends, or goes back before its first request.
LEMMA StartsLocally ==
    ASSUME IInv, NEW p \in Procs, NEW s \in AppSteps \cup LoginSteps,
           NEW c \in Nat, Becomes(p, At(s, c)), LosesAnswer(p),
           UNCHANGED <<now, rotates, grants, live, tokens>>,
           s \notin InFlight, p \in Apps => s \in AppSteps, p \in Logins => s \in LoginSteps
    PROVE  Local(p)
<1>1. TypeOK
  BY DEF IInv
<1>2. Len(grants) \in Nat
  BY <1>1, CallIs
<1>3. call'[p] = At(s, c) /\ OnlyCallOf(p)
  BY <1>1, CallChanges
<1>4. /\ At(s, c) \in CallType(Len(grants)) /\ At(s, c).at = s
      /\ At(s, c).shown = 0 /\ At(s, c).held = 0
  BY <1>2, CallFields
<1> QED BY <1>3, <1>4 DEF Local, InFlight

\* A call that goes on to the next step, without an answer.
LEMMA GoesLocally ==
    ASSUME IInv, NEW p \in Procs, NEW s \in AppSteps \cup LoginSteps,
           Becomes(p, [call[p] EXCEPT !.at = s]), lost' = lost,
           UNCHANGED <<now, rotates, grants, live, tokens>>,
           call[p].at \notin {"answered", "using"}, s # "using",
           s \in InFlight => call[p].at \in InFlight, p \in Apps => s # "sent",
           p \in Apps => s \in AppSteps, p \in Logins => s \in LoginSteps
    PROVE  Local(p)
<1>1. TypeOK /\ call[p].held = 0
  BY DEF IInv, HeldIsAnswered
<1>2. call'[p] = [call[p] EXCEPT !.at = s] /\ OnlyCallOf(p)
  BY <1>1, CallChanges
<1>3. call[p] \in CallType(Len(grants))
  BY <1>1, CallIs
<1>4. /\ call'[p] \in CallType(Len(grants)) /\ call'[p].at = s
      /\ call'[p].shown = call[p].shown /\ call'[p].held = 0
      /\ call'[p].since = call[p].since
  BY <1>1, <1>2, <1>3 DEF CallType
<1> QED BY <1>2, <1>4 DEF Local, LosesAnswer

\* What is true of the call of a program that takes a step.
LEMMA AppKnows ==
    ASSUME IInv, NEW p \in Apps
    PROVE  /\ TypeOK /\ p \in Procs /\ p \notin Logins
           /\ now \in Nat /\ call[p].client \in Nat
           /\ 0 \in Nat /\ registration \in Nat
           /\ call[p].at \notin {"answered", "using"} => call[p].held = 0
<1>1. TypeOK /\ p \in Procs /\ p \notin Logins
  BY ClientAssumption DEF IInv, Procs
<1>2. call[p] \in CallType(Len(grants)) /\ registration \in Nat
  BY <1>1, CallIs
<1>3. call[p].client \in Nat
  BY <1>2 DEF CallType
<1> QED BY <1>1, <1>2, <1>3, EndpointAssumption DEF TypeOK, EndpointTypeOK, IInv, HeldIsAnswered

\* Each step of a program is of one of these kinds.
LEMMA AppShape ==
    ASSUME IInv, NEW p \in Apps, AppStep(p)
    PROVE  Local(p) \/ Granted(p) \/ Saved(p)
<1>0. /\ TypeOK /\ p \in Procs /\ p \notin Logins
      /\ now \in Nat /\ call[p].client \in Nat
      /\ 0 \in Nat /\ registration \in Nat
      /\ call[p].at \notin {"answered", "using"} => call[p].held = 0
  BY AppKnows
<1>1. CASE AppStarts(p)
  BY <1>0, <1>1, StartsLocally
  DEF AppStarts, endpointVars, LosesAnswer, AppSteps, InFlight
<1>2. CASE ChecksToken(p) /\ IsExpired(tokens)
  BY <1>0, <1>2, StartsLocally
  DEF ChecksToken, endpointVars, LosesAnswer, AppSteps, InFlight
<1>3. CASE ChecksToken(p) /\ ~IsExpired(tokens)
  <2> DEFINE new == [At("using", call[p].client) EXCEPT !.held = tokens.access, !.since = now]
  <2>1. call'[p] = new /\ OnlyCallOf(p)
    BY <1>0, <1>3, CallChanges DEF ChecksToken
  <2>2. tokens.access \in 0..Len(grants)
    BY <1>0, CallIs
  <2>3. /\ new \in CallType(Len(grants)) /\ new.at = "using" /\ new.shown = 0
        /\ new.held = tokens.access /\ new.since = now
    BY <1>0, <2>2 DEF At, CallType, AppSteps
  <2> HIDE DEF new
  <2> QED BY <1>0, <1>3, <2>1, <2>3
          DEF ChecksToken, endpointVars, Local, LosesAnswer, AppSteps
<1>4. CASE SendsRefresh(p) /\ ~CanRefresh
  BY <1>0, <1>4, StartsLocally
  DEF SendsRefresh, endpointVars, LosesAnswer, AppSteps, InFlight
<1>5. CASE SendsRefresh(p) /\ CanRefresh
  <2> DEFINE new == [at |-> "sent", client |-> call[p].client, shown |-> tokens.refresh,
                     held |-> 0, since |-> now]
  <2>1. Len(grants) \in Nat /\ tokens.refresh \in Nat
    BY <1>0, CallIs
  <2>2. [At("sent", call[p].client) EXCEPT !.shown = tokens.refresh, !.since = now] = new
    BY SentFields
  <2>3. call'[p] = new /\ OnlyCallOf(p)
    BY <1>0, <1>5, <2>2, CallChanges DEF SendsRefresh
  <2>4. 0 \in 0..Len(grants) /\ "sent" \in AppSteps
    BY <2>1 DEF AppSteps
  <2>5. /\ new \in CallType(Len(grants)) /\ new.at = "sent" /\ new.shown = tokens.refresh
        /\ new.held = 0 /\ new.since = now
    BY <1>0, <2>1, <2>4 DEF CallType
  <2> HIDE DEF new
  <2>6. tokens.refresh # 0
    BY <1>5 DEF CanRefresh
  <2> QED BY <1>0, <1>5, <2>3, <2>4, <2>5, <2>6
          DEF SendsRefresh, endpointVars, Local, LosesAnswer
<1>6. CASE AnswersRefresh(p)
  <2>1. CASE /\ Refreshes(call[p].client, call[p].shown)
             /\ Becomes(p, [call[p] EXCEPT !.at = "answered", !.held = NextGrant])
    <3>1. /\ call'[p] = [call[p] EXCEPT !.at = "answered", !.held = NextGrant]
          /\ OnlyCallOf(p)
      BY <1>0, <2>1, CallChanges
    <3>2. /\ call[p].shown \in live /\ live \subseteq DOMAIN grants
          /\ grants[call[p].shown].client = call[p].client
      BY <1>0, <2>1 DEF Refreshes, Accepts, TypeOK, EndpointTypeOK
    <3>3. call[p].client \in Nat /\ call[p].shown \in Nat
      BY <1>0, <3>2, CallIs, GrantIs
    <3>4. rotates \in BOOLEAN
      BY <1>0 DEF TypeOK, EndpointTypeOK
    <3> QED BY <1>6, <2>1, <3>1, <3>2, <3>3, <3>4 DEF AnswersRefresh, Refreshes, Granted
  <2>2. CASE /\ ~Accepts(call[p].client, call[p].shown)
             /\ Becomes(p, [call[p] EXCEPT !.at = "answered"])
             /\ UNCHANGED endpointVars
    BY <1>0, <1>6, <2>2, GoesLocally DEF AnswersRefresh, endpointVars, AppSteps, InFlight
  <2> QED BY <1>6, <2>1, <2>2 DEF AnswersRefresh
<1>7. CASE ReceivesRefresh(p)
  <2>1. CASE /\ call[p].held # 0 /\ SavesTokens(p, call[p].shown) /\ UNCHANGED lost
             /\ Becomes(p, [At("using", call[p].client) EXCEPT
                               !.held = call[p].held, !.since = now])
    <3> DEFINE new == [At("using", call[p].client) EXCEPT !.held = call[p].held, !.since = now]
    <3>1. call'[p] = new /\ OnlyCallOf(p)
      BY <1>0, <2>1, CallChanges
    <3>2. call[p].held \in 0..Len(grants)
      BY <1>0, CallIs DEF CallType
    <3>3. /\ new \in CallType(Len(grants)) /\ new.at = "using" /\ new.shown = 0
          /\ new.held = call[p].held /\ new.since = now
      BY <1>0, <3>2 DEF At, CallType, AppSteps
    <3> HIDE DEF new
    <3> QED BY <1>0, <1>7, <2>1, <3>1, <3>3 DEF ReceivesRefresh, endpointVars, Saved, Used
  <2>2. CASE /\ Becomes(p, At("ready", call[p].client))
             /\ LosesAnswer(p) /\ UNCHANGED tokens
    BY <1>0, <1>7, <2>2, StartsLocally
    DEF ReceivesRefresh, endpointVars, AppSteps, InFlight
  <2> QED BY <1>7, <2>1, <2>2 DEF ReceivesRefresh
<1>8. CASE RefreshFails(p)
  BY <1>0, <1>8, StartsLocally DEF RefreshFails, endpointVars, AppSteps, InFlight
<1>9. CASE RequestEnds(p)
  BY <1>0, <1>9, StartsLocally
  DEF RequestEnds, endpointVars, LosesAnswer, AppSteps, InFlight
<1>10. CASE AppEnds(p)
  BY <1>0, <1>10, StartsLocally DEF AppEnds, endpointVars, AppSteps, InFlight
<1> QED
  BY <1>1, <1>2, <1>3, <1>4, <1>5, <1>6, <1>7, <1>8, <1>9, <1>10
  DEF AppStep, AppCallStep

\* What is true of a login that takes a step.
LEMMA LoginKnows ==
    ASSUME IInv, NEW l \in Logins
    PROVE  /\ TypeOK /\ l \in Procs /\ l \notin Apps
           /\ now \in Nat /\ 0 \in Nat /\ KnownClients \subseteq Nat
           /\ call[l].at \notin {"answered", "using"} => call[l].held = 0
           /\ browser[l].heard \in 0..MaxLogins
           /\ call[l].at \notin {"off", "registering"} => call[l].client \in Nat
<1>1. TypeOK /\ l \in Procs /\ l \notin Apps
  BY ClientAssumption DEF IInv, Procs
<1>2. call[l] \in CallType(Len(grants)) /\ registration \in Nat
  BY <1>1, CallIs
<1>3. call[l].client \in Nat
  BY <1>2 DEF CallType
<1>4. call[l].at \notin {"off", "registering"} => call[l].client \in Nat
  BY <1>3, EndpointAssumption DEF IInv, LoginHolds, IsSure
<1>5. browser[l].heard \in 0..MaxLogins /\ now \in Nat
  BY <1>1 DEF TypeOK, EndpointTypeOK
<1> QED BY <1>1, <1>2, <1>4, <1>5, EndpointAssumption, GivenAssumption DEF IInv, HeldIsAnswered, KnownClients

\* A login that ends, with nothing in hand or losing it.
LEMMA EndsLocally ==
    ASSUME IInv, NEW l \in Logins, Ends(l), LosesAnswer(l),
           UNCHANGED <<now, rotates, grants, live, tokens>>
    PROVE  Local(l)
BY StartsLocally, LoginKnows DEF Ends, InFlight, LoginSteps

\* Each step of a login is of one of these kinds.
LEMMA LoginShape ==
    ASSUME IInv, NEW l \in Logins, LoginStep(l)
    PROVE  Still \/ Local(l) \/ Granted(l) \/ Saved(l)
<1>0. /\ TypeOK /\ l \in Procs /\ l \notin Apps
      /\ now \in Nat /\ 0 \in Nat /\ KnownClients \subseteq Nat
      /\ call[l].at \notin {"answered", "using"} => call[l].held = 0
      /\ browser[l].heard \in 0..MaxLogins
      /\ call[l].at \notin {"off", "registering"} => call[l].client \in Nat
  BY LoginKnows
<1> USE <1>0 DEF Quiet, endpointVars
<1>1. CASE StartsLogin(l)
  BY <1>1, StartsLocally DEF StartsLogin, LosesAnswer, LoginSteps, InFlight
<1>2. CASE Registers(l)
  <2>1. LosesAnswer(l) /\ UNCHANGED <<now, rotates, grants, live, tokens>>
    BY <1>2 DEF Registers, LosesAnswer
  <2>2. CASE Ends(l)
    BY <2>1, <2>2, EndsLocally
  <2>3. CASE clients < MaxClients /\ clients' = clients + 1 /\ Becomes(l, At("opening", clients'))
    <3>1. clients' \in Nat
      BY <2>3, EndpointAssumption DEF TypeOK, EndpointTypeOK
    <3> QED BY <2>1, <2>3, <3>1, StartsLocally DEF LoginSteps, InFlight
  <2> QED BY <1>2, <2>2, <2>3 DEF Registers
<1>3. CASE OpensBrowser(l)
  BY <1>3, GoesLocally DEF OpensBrowser, GoesTo, LoginSteps, InFlight
<1>4. CASE Listens(l)
  BY <1>4, GoesLocally, EndsLocally DEF Listens, GoesTo, LosesAnswer, LoginSteps, InFlight
<1>5. CASE HandlesCallback(l) \/ GoesSilent(l) \/ SilenceEnds(l)
  BY <1>5 DEF HandlesCallback, GoesSilent, SilenceEnds, Still
<1>6. CASE WaitEnds(l)
  BY <1>6, GoesLocally DEF WaitEnds, GoesTo, LoginSteps, InFlight
<1>7. CASE ListenerStops(l)
  BY <1>7, GoesLocally, EndsLocally DEF ListenerStops, GoesTo, LosesAnswer, LoginSteps, InFlight
<1>8. CASE ChecksCallback(l)
  BY <1>8, GoesLocally, EndsLocally DEF ChecksCallback, GoesTo, LosesAnswer, LoginSteps, InFlight
<1>9. CASE SendsCode(l)
  <2> DEFINE new == [call[l] EXCEPT !.at = "sent", !.shown = browser[l].heard, !.since = now]
  <2>1. call'[l] = new /\ OnlyCallOf(l)
    BY <1>9, CallChanges DEF SendsCode
  <2>2. call[l].held = 0 /\ browser[l].heard \in Nat
    BY <1>9 DEF SendsCode
  <2>3. call[l] \in CallType(Len(grants))
    BY CallIs
  <2>4. call[l] \in CallType(Len(grants)) /\ call[l].held = 0 /\ browser[l].heard \in Nat
    BY <2>2, <2>3
  <2>5. "sent" \in AppSteps
    BY DEF AppSteps
  <2>6. new \in CallType(Len(grants)) /\ new.at = "sent" /\ new.held = 0 /\ new.since = now
    BY <2>4, <2>5 DEF CallType
  <2> HIDE DEF new
  <2> QED BY <1>9, <2>1, <2>6 DEF SendsCode, Local, LosesAnswer, LoginSteps
<1>10. CASE AnswersCode(l)
  <2>1. CASE /\ \E fresh \in BOOLEAN : Redeems(call[l].client, call[l].shown, fresh)
             /\ Becomes(l, [call[l] EXCEPT !.at = "answered", !.held = NextGrant])
    <3>1. /\ call'[l] = [call[l] EXCEPT !.at = "answered", !.held = NextGrant]
          /\ OnlyCallOf(l)
      BY <2>1, CallChanges
    <3>2. PICK fresh \in BOOLEAN : Redeems(call[l].client, call[l].shown, fresh)
      BY <2>1
    <3>3. /\ Issue(call[l].client, 0, fresh) /\ call[l].client \in Nat
          /\ live' = IF fresh THEN live \cup {NextGrant} ELSE live
      BY <1>10, <3>2 DEF AnswersCode, Redeems
    <3>4. UNCHANGED <<now, rotates, tokens, lost>> /\ call[l].at = "sent"
      BY <1>10, <2>1 DEF AnswersCode, Redeems
    <3> QED BY <3>1, <3>2, <3>3, <3>4 DEF Granted
  <2>2. CASE GoesTo(l, "answered") /\ UNCHANGED endpointVars
    BY <1>10, <2>2, GoesLocally DEF AnswersCode, GoesTo, LoginSteps, InFlight
  <2> QED BY <1>10, <2>1, <2>2 DEF AnswersCode
<1>11. CASE ReceivesTokens(l)
  <2>1. CASE call[l].held # 0 /\ SavesTokens(l, 0) /\ UNCHANGED lost
    <3>1. call'[l] = At("off", 0) /\ OnlyCallOf(l)
      BY <1>11, CallChanges DEF ReceivesTokens, Ends
    <3>2. /\ At("off", 0) \in CallType(Len(grants))
          /\ At("off", 0).at = "off" /\ At("off", 0).shown = 0 /\ At("off", 0).held = 0
      <4>1. Len(grants) \in Nat /\ "off" \in LoginSteps
        BY CallIs DEF LoginSteps
      <4> QED BY <4>1, CallFields
    <3> QED BY <1>11, <2>1, <3>1, <3>2 DEF ReceivesTokens, Saved, Used
  <2>2. CASE LosesAnswer(l) /\ UNCHANGED tokens
    BY <1>11, <2>2, EndsLocally DEF ReceivesTokens
  <2> QED BY <1>11, <2>1, <2>2 DEF ReceivesTokens
<1>12. CASE ExchangeFails(l)
  BY <1>12, EndsLocally DEF ExchangeFails, LosesAnswer
<1>13. CASE LoginDies(l)
  BY <1>13, EndsLocally DEF LoginDies
<1> QED
  BY <1>1, <1>2, <1>3, <1>4, <1>5, <1>6, <1>7, <1>8, <1>9, <1>10, <1>11, <1>12, <1>13
  DEF LoginStep, MainThread

\* Each step is of one of the kinds, or the clock's.
LEMMA NextShape ==
    ASSUME IInv, [Next]_vars
    PROVE  \/ Still
           \/ \E p \in Procs : Local(p) \/ Granted(p) \/ Saved(p)
           \/ Tick
<1>1. CASE User \/ UNCHANGED vars
  BY <1>1 DEF User, Consents, vars, endpointVars, clientVars, Still
<1>2. CASE \E p \in Apps : AppStep(p)
  BY <1>2, AppShape DEF Procs
<1>3. CASE \E l \in Logins : LoginStep(l)
  BY <1>3, LoginShape DEF Procs
<1> QED BY <1>1, <1>2, <1>3 DEF Next

-----------------------------------------------------------------------------
\* What each kind of step does to what was true.

\* A new grant is appended, and only the refresh token it replaces dies.
LEMMA GrantedFacts ==
    ASSUME IInv, NEW p \in Procs, Granted(p)
    PROVE  /\ grants' \in Seq(Grant) /\ Len(grants') = NextGrant
           /\ Len(grants) \in Nat /\ DOMAIN grants = 1..Len(grants)
           /\ \A g \in DOMAIN grants : grants'[g] = grants[g]
           /\ grants'[NextGrant].dies = now + Lifetime
           /\ IF grants'[NextGrant].fresh
                 THEN NextGrant \in live'
                 ELSE IF p \in Logins THEN grants'[NextGrant].from = 0
                                     ELSE ~rotates /\ call[p].shown \in live'
           /\ live' \subseteq 1..NextGrant
           /\ \A g \in live \ live' :
                 /\ p \in Apps /\ g = call[p].shown /\ rotates
                 /\ grants'[NextGrant].fresh /\ grants'[NextGrant].from = g
           /\ call'[p].at = "answered" /\ call'[p].held = NextGrant
           /\ call'[p].shown = call[p].shown /\ call'[p].since = call[p].since
<1>1. /\ grants \in Seq(Grant) /\ live \subseteq DOMAIN grants /\ now \in Nat
      /\ Len(grants) \in Nat /\ DOMAIN grants = 1..Len(grants)
  BY DEF IInv, TypeOK, EndpointTypeOK
<1>2. PICK c \in Nat, from \in Nat, fresh \in BOOLEAN :
          /\ Issue(c, from, fresh)
          /\ \/ /\ p \in Logins /\ from = 0
                /\ live' = IF fresh THEN live \cup {NextGrant} ELSE live
             \/ /\ p \in Apps /\ from = call[p].shown /\ from \in live
                /\ fresh = rotates
                /\ live' = IF fresh THEN (live \ {from}) \cup {NextGrant} ELSE live
  BY DEF Granted
<1> DEFINE g == [client |-> c, dies |-> now + Lifetime, from |-> from, fresh |-> fresh]
<1>3. g \in Grant
  BY <1>1, EndpointAssumption DEF Grant
<1>4. /\ grants' \in Seq(Grant) /\ Len(grants') = NextGrant
      /\ \A h \in DOMAIN grants : grants'[h] = grants[h]
      /\ grants'[NextGrant] = g
  BY <1>1, <1>2, <1>3 DEF Issue, NextGrant
<1>5. /\ grants'[NextGrant].dies = now + Lifetime
      /\ grants'[NextGrant].from = from /\ grants'[NextGrant].fresh = fresh
  BY <1>4
<1>6. live' \subseteq 1..NextGrant
  BY <1>1, <1>2 DEF NextGrant
<1>7. /\ call'[p].at = "answered" /\ call'[p].held = NextGrant
      /\ call'[p].shown = call[p].shown /\ call'[p].since = call[p].since
  BY CallIs DEF IInv, Granted, CallType
<1>8. IF grants'[NextGrant].fresh
         THEN NextGrant \in live'
         ELSE IF p \in Logins THEN grants'[NextGrant].from = 0
                             ELSE ~rotates /\ call[p].shown \in live'
  BY <1>2, <1>5, ClientAssumption
<1>9. ASSUME NEW h \in live \ live'
      PROVE  /\ p \in Apps /\ h = call[p].shown /\ rotates
             /\ grants'[NextGrant].fresh /\ grants'[NextGrant].from = h
  BY <1>2, <1>5, <1>9
<1> QED BY <1>1, <1>4, <1>5, <1>6, <1>7, <1>8, <1>9

\* No grant is ever changed, and each step but Granted adds none.
LEMMA GrantsKept ==
    ASSUME IInv, [Next]_vars
    PROVE  /\ grants' \in Seq(Grant) /\ live' \subseteq DOMAIN grants'
           /\ Len(grants) \in Nat /\ DOMAIN grants = 1..Len(grants)
           /\ Len(grants') \in Nat /\ DOMAIN grants' = 1..Len(grants')
           /\ Len(grants) <= Len(grants')
           /\ \A g \in DOMAIN grants : grants'[g] = grants[g]
<1>1. CASE \E p \in Procs : Granted(p)
  BY <1>1, GrantedFacts DEF NextGrant
<1>2. CASE UNCHANGED <<grants, live>>
  BY <1>2 DEF IInv, TypeOK, EndpointTypeOK
<1> QED BY <1>1, <1>2, NextShape DEF Still, Local, Saved, Tick, endpointVars

LEMMA OthersKept ==
    ASSUME IInv, NEW p \in Procs, OnlyCallOf(p), NEW q \in Procs, q # p
    PROVE  call'[q] = call[q]
BY DEF IInv, TypeOK, OnlyCallOf

LEMMA StepsNext == ASSUME IInv, [Next]_vars PROVE Steps'
<1> USE DEF Steps
<1>1. ASSUME NEW p \in Procs, OnlyCallOf(p),
             p \in Apps => call'[p].at \in AppSteps, p \in Logins => call'[p].at \in LoginSteps
      PROVE  Steps'
  BY <1>1, OthersKept DEF IInv, Procs
<1>2. ASSUME NEW p \in Procs, Local(p) PROVE Steps'
  BY <1>1, <1>2 DEF Local
<1>3. ASSUME NEW p \in Procs, Granted(p) PROVE Steps'
  BY <1>1, <1>3, GrantedFacts DEF Granted, AppSteps, LoginSteps
<1>4. ASSUME NEW p \in Procs, Saved(p) PROVE Steps'
  <2>1. Apps \cap Logins = {}
    BY ClientAssumption
  <2> QED BY <1>1, <1>4, <2>1 DEF Saved, AppSteps, LoginSteps
<1>5. CASE UNCHANGED call
  BY <1>5 DEF IInv
<1> QED BY <1>2, <1>3, <1>4, <1>5, NextShape DEF Still, Tick, clientVars

LEMMA HeldNext == ASSUME IInv, [Next]_vars PROVE HeldIsAnswered'
<1> USE DEF HeldIsAnswered
<1>1. ASSUME NEW p \in Procs, OnlyCallOf(p),
             call'[p].at \notin {"answered", "using"} => call'[p].held = 0
      PROVE  HeldIsAnswered'
  BY <1>1, OthersKept DEF IInv
<1>2. ASSUME NEW p \in Procs, Local(p) PROVE HeldIsAnswered'
  BY <1>1, <1>2 DEF Local
<1>3. ASSUME NEW p \in Procs, Granted(p) PROVE HeldIsAnswered'
  BY <1>1, <1>3, GrantedFacts DEF Granted
<1>4. ASSUME NEW p \in Procs, Saved(p) PROVE HeldIsAnswered'
  BY <1>1, <1>4 DEF Saved
<1>5. CASE UNCHANGED call
  BY <1>5 DEF IInv
<1> QED BY <1>2, <1>3, <1>4, <1>5, NextShape DEF Still, Tick, clientVars

LEMMA ShownNext == ASSUME IInv, [Next]_vars PROVE ShownExists'
<1>1. \A p \in Apps : call[p].shown \in 0..Len(grants) /\ p \in Procs
  BY DEF IInv, ShownExists, Procs
<1>2. Len(grants) \in Nat /\ Len(grants') \in Nat /\ Len(grants) <= Len(grants')
  BY GrantsKept
<1>3. ASSUME NEW q \in Apps
      PROVE  call'[q].shown \in {0, call[q].shown, tokens.refresh}
  <2>1. ASSUME NEW p \in Procs, Local(p) PROVE call'[q].shown \in {0, call[q].shown, tokens.refresh}
    BY <1>1, <2>1, OthersKept DEF Local
  <2>2. ASSUME NEW p \in Procs, Granted(p) PROVE call'[q].shown = call[q].shown
    <3>1. CASE q = p
      BY <1>1, <2>2, <3>1, GrantedFacts
    <3>2. CASE q # p
      BY <1>1, <2>2, <3>2, OthersKept DEF Granted
    <3> QED BY <3>1, <3>2
  <2>3. ASSUME NEW p \in Procs, Saved(p) PROVE call'[q].shown \in {0, call[q].shown}
    BY <1>1, <2>3, OthersKept DEF Saved
  <2>4. CASE UNCHANGED call
    BY <2>4
  <2> QED BY <2>1, <2>2, <2>3, <2>4, NextShape DEF Still, Tick, clientVars
<1>4. ASSUME NEW q \in Apps PROVE tokens.refresh \in 0..Len(grants)
  BY <1>1, <1>4, CallIs DEF IInv
<1> QED BY <1>1, <1>2, <1>3, <1>4 DEF ShownExists

\* The clock stops at the end of a request.
LEMMA InTimeNext == ASSUME IInv, [Next]_vars PROVE InTime'
<1>0. now \in Nat /\ Delay \in Nat
  BY ClientAssumption DEF IInv, TypeOK, EndpointTypeOK
<1>1. ASSUME NEW p \in Procs, OnlyCallOf(p), now' = now,
             call'[p].at \in InFlight =>
                \/ call'[p].since = now
                \/ call[p].at \in InFlight /\ call'[p].since = call[p].since
      PROVE  InTime'
  <2>1. ASSUME NEW q \in Procs, call'[q].at \in InFlight
        PROVE  call'[q].since <= now /\ now <= call'[q].since + Delay
    <3>1. CASE q = p
      BY <1>0, <1>1, <2>1, <3>1 DEF IInv, InTime
    <3>2. CASE q # p
      BY <1>1, <2>1, <3>2, OthersKept DEF IInv, InTime
    <3> QED BY <3>1, <3>2
  <2> QED BY <1>1, <2>1 DEF InTime
<1>2. ASSUME NEW p \in Procs, Local(p) PROVE InTime'
  BY <1>1, <1>2 DEF Local
<1>3. ASSUME NEW p \in Procs, Granted(p) PROVE InTime'
  BY <1>1, <1>3, GrantedFacts DEF Granted, InFlight
<1>4. ASSUME NEW p \in Procs, Saved(p) PROVE InTime'
  BY <1>1, <1>4 DEF Saved, InFlight
<1>5. CASE Tick
  <2>1. ASSUME NEW q \in Procs, call[q].at \in InFlight
        PROVE  call[q].since <= now + 1 /\ now + 1 <= call[q].since + Delay
    <3>1. call[q].since <= now /\ now < call[q].since + Delay
      BY <1>5, <2>1 DEF Tick, IInv, InTime
    <3>2. call[q].since \in Nat
      BY CallIs DEF IInv, CallType
    <3> QED BY <1>0, <3>1, <3>2
  <2> QED BY <1>5, <2>1 DEF Tick, clientVars, InTime
<1>6. CASE Still
  BY <1>6 DEF Still, IInv, InTime
<1> QED BY <1>2, <1>3, <1>4, <1>5, <1>6, NextShape

LEMMA AnswerIsGoodNext == ASSUME IInv, [Next]_vars PROVE AnswerIsGood'
<1>0. /\ now \in Nat /\ Lifetime \in Nat
      /\ DOMAIN grants = 1..Len(grants) /\ Len(grants) \in Nat
      /\ \A g \in DOMAIN grants : grants'[g] = grants[g]
  BY EndpointAssumption, GrantsKept DEF IInv, TypeOK, EndpointTypeOK
<1>1. \A q \in Procs : call[q].held \in 0..Len(grants)
  BY CallIs DEF IInv, CallType
<1>2. ASSUME NEW q \in Procs, call[q].at = "answered", call[q].held # 0,
             live \subseteq live', rotates' = rotates
      PROVE  /\ call[q].since + Lifetime <= grants'[call[q].held].dies
             /\ IF grants'[call[q].held].fresh
                   THEN call[q].held \in live'
                   ELSE IF q \in Logins THEN grants'[call[q].held].from = 0
                                       ELSE ~rotates' /\ call[q].shown \in live'
  BY <1>0, <1>1, <1>2 DEF IInv, AnswerIsGood
<1>3. ASSUME NEW p \in Procs, OnlyCallOf(p), rotates' = rotates, live \subseteq live',
             call'[p].at = "answered" => call'[p].held = 0
      PROVE  AnswerIsGood'
  <2>1. \A q \in Procs : q # p => call'[q] = call[q]
    BY <1>3, OthersKept
  <2> QED BY <1>2, <1>3, <2>1 DEF AnswerIsGood
<1>4. ASSUME NEW p \in Procs, Local(p) \/ Saved(p) PROVE AnswerIsGood'
  BY <1>3, <1>4 DEF Local, Saved
<1>5. ASSUME NEW p \in Procs, Granted(p) PROVE AnswerIsGood'
  <2>1. \A q \in Procs : q # p => call'[q] = call[q]
    BY <1>5, OthersKept DEF Granted
  <2>2. rotates' = rotates
    BY <1>5 DEF Granted
  <2>3. ASSUME NEW q \in Procs, q # p, call[q].at = "answered", call[q].held # 0
        PROVE  /\ call[q].since + Lifetime <= grants'[call[q].held].dies
               /\ IF grants'[call[q].held].fresh
                     THEN call[q].held \in live'
                     ELSE IF q \in Logins THEN grants'[call[q].held].from = 0
                                         ELSE ~rotates' /\ call[q].shown \in live'
    <3>1. \A g \in live \ live' : p \in Apps /\ g = call[p].shown /\ rotates
      BY <1>5, GrantedFacts
    <3>2. p \in Apps => call[p].shown # call[q].held
      BY <2>3 DEF IInv, AnswerIsUnknown
    <3> QED BY <1>0, <1>1, <2>2, <2>3, <3>1, <3>2 DEF IInv, AnswerIsGood
  <2>4. /\ call'[p].held = NextGrant /\ grants'[NextGrant].dies = now + Lifetime
        /\ call'[p].since = call[p].since /\ call'[p].shown = call[p].shown
        /\ IF grants'[NextGrant].fresh
              THEN NextGrant \in live'
              ELSE IF p \in Logins THEN grants'[NextGrant].from = 0
                                  ELSE ~rotates /\ call[p].shown \in live'
    BY <1>5, GrantedFacts
  <2>5. call[p].since <= now
    BY <1>5 DEF IInv, InTime, InFlight, Granted
  <2>6. call[p].since \in Nat
    BY CallIs DEF IInv, CallType
  <2>7. call'[p].since + Lifetime <= grants'[call'[p].held].dies
    BY <1>0, <2>4, <2>5, <2>6
  <2> QED BY <2>1, <2>2, <2>3, <2>4, <2>7 DEF AnswerIsGood
<1>6. CASE UNCHANGED <<rotates, grants, live, call>>
  BY <1>6 DEF IInv, AnswerIsGood
<1> QED BY <1>4, <1>5, <1>6, NextShape DEF Still, Tick, clientVars, endpointVars

\* A grant is new when it comes to hand, and nobody else can have seen it.
LEMMA AnswerIsUnknownNext == ASSUME IInv, [Next]_vars PROVE AnswerIsUnknown'
<1>0. /\ Len(grants) \in Nat /\ \A q \in Procs : call[q].held \in 0..Len(grants)
      /\ \A q \in Apps : q \in Procs /\ call[q].shown \in 0..Len(grants)
  BY GrantsKept, CallIs DEF IInv, CallType, ShownExists, Procs
<1>1. ASSUME NEW p \in Procs, Local(p) PROVE AnswerIsUnknown'
  <2>1. \A q \in Procs : q # p => call'[q] = call[q]
    BY <1>1, OthersKept DEF Local
  <2>2. \A q \in Apps : call'[q].shown \in {0, call[q].shown, tokens.refresh}
    BY <1>0, <1>1, <2>1 DEF Local
  <2>3. call'[p].at = "answered" => call'[p].held = 0
    BY <1>1 DEF Local
  <2>4. tokens' = tokens
    BY <1>1 DEF Local
  <2>5. \A q \in Procs : call'[q].at = "answered" /\ call'[q].held # 0 =>
             q # p /\ call[q].at = "answered" /\ call'[q].held = call[q].held
    BY <2>1, <2>3
  <2>6. ASSUME NEW q \in Procs, call'[q].at = "answered", call'[q].held # 0
        PROVE  /\ tokens'.refresh # call'[q].held
               /\ \A r \in Apps : call'[r].shown # call'[q].held
               /\ \A r \in Procs \ {q} : call'[r].at = "answered" => call'[r].held # call'[q].held
    <3>1. /\ tokens.refresh # call'[q].held
          /\ \A r \in Apps : call[r].shown # call'[q].held
          /\ \A r \in Procs \ {q} : call[r].at = "answered" => call[r].held # call'[q].held
      BY <2>5, <2>6 DEF IInv, AnswerIsUnknown
    <3> QED BY <2>1, <2>2, <2>3, <2>4, <2>6, <3>1
  <2> QED BY <2>6 DEF AnswerIsUnknown
<1>2. ASSUME NEW p \in Procs, Granted(p) PROVE AnswerIsUnknown'
  <2>1. \A q \in Procs : q # p => call'[q] = call[q]
    BY <1>2, OthersKept DEF Granted
  <2>2. call'[p].held = NextGrant /\ call'[p].shown = call[p].shown /\ call'[p].at = "answered"
    BY <1>2, GrantedFacts
  <2>3. tokens' = tokens
    BY <1>2 DEF Granted
  <2>4. tokens.refresh \in 0..Len(grants)
    BY CallIs DEF IInv
  <2>5. \A n \in 0..Len(grants) : n # NextGrant
    BY <1>0 DEF NextGrant
  <2>6. \A q \in Apps : call'[q].shown = call[q].shown
    BY <1>0, <2>1, <2>2
  <2> QED BY <1>0, <2>1, <2>2, <2>3, <2>4, <2>5, <2>6 DEF IInv, AnswerIsUnknown
<1>3. ASSUME NEW p \in Procs, Saved(p) PROVE AnswerIsUnknown'
  <2>1. \A q \in Procs : q # p => call'[q] = call[q]
    BY <1>3, OthersKept DEF Saved
  <2>2. call'[p].at # "answered" /\ call'[p].shown = 0
    BY <1>3 DEF Saved
  <2>3. call[p].at = "answered" /\ call[p].held # 0
    BY <1>3 DEF Saved
  <2>4. \/ tokens'.refresh \in {0, call[p].held}
        \/ p \in Apps /\ tokens'.refresh = call[p].shown
    BY <1>3 DEF Saved, SavesTokens, RefreshToken, Used
  <2>5. \A q \in Apps : call'[q].shown \in {0, call[q].shown}
    BY <1>0, <2>1, <2>2
  <2> QED BY <2>1, <2>2, <2>3, <2>4, <2>5 DEF IInv, AnswerIsUnknown
<1>4. CASE UNCHANGED <<tokens, call>>
  BY <1>4 DEF IInv, AnswerIsUnknown
<1> QED BY <1>1, <1>2, <1>3, <1>4, NextShape DEF Still, Tick, clientVars

\* The numbers a saved grant is timed by.
LEMMA SavedInTime ==
    ASSUME IInv, NEW p \in Procs, Saved(p)
    PROVE  LET g == call[p].held
           IN /\ g \in DOMAIN grants
              /\ tokens'.access = g
              /\ tokens'.expires <= grants[g].dies + Delay
              /\ now + Delay < grants[g].dies
<1>1. call[p].at = "answered" /\ call[p].held # 0 /\ SavesTokens(p, Used(p))
  BY DEF Saved
<1>2. call[p].held \in DOMAIN grants /\ call[p].since \in Nat
  BY <1>1, CallHolds DEF IInv
<1>3. /\ call[p].since + Lifetime <= grants[call[p].held].dies
      /\ now <= call[p].since + Delay
  BY <1>1 DEF IInv, AnswerIsGood, InTime, InFlight
<1>4. now \in Nat /\ Lifetime \in Nat /\ Delay \in Nat /\ 2 * Delay < Lifetime
  BY EndpointAssumption, ClientAssumption DEF IInv, TypeOK, EndpointTypeOK
<1>5. grants[call[p].held].dies \in Nat
  BY <1>2, GrantIs DEF IInv
<1>6. tokens'.access = call[p].held /\ tokens'.expires = now + Lifetime
  BY <1>1 DEF SavesTokens
<1> QED BY <1>2, <1>3, <1>4, <1>5, <1>6

LEMMA StoreInTimeNext == ASSUME IInv, [Next]_vars PROVE StoreInTime'
<1>1. /\ \A g \in DOMAIN grants : grants'[g] = grants[g]
      /\ tokens # NoTokens => tokens.access \in DOMAIN grants
  BY GrantsKept DEF IInv, TypeOK
<1>2. ASSUME NEW p \in Procs, Saved(p) PROVE StoreInTime'
  BY <1>1, <1>2, SavedInTime DEF StoreInTime
<1>3. CASE UNCHANGED tokens
  BY <1>1, <1>3 DEF IInv, StoreInTime
<1> QED BY <1>2, <1>3, NextShape DEF Still, Local, Granted, Tick, clientVars

LEMMA UseInTimeNext == ASSUME IInv, [Next]_vars PROVE UseInTime'
<1>0. /\ now \in Nat /\ Skew \in Nat /\ Delay \in Nat /\ 2 * Delay <= Skew
      /\ DOMAIN grants = 1..Len(grants)
      /\ \A g \in DOMAIN grants : grants'[g] = grants[g]
      /\ \A q \in Apps : q \in Procs
  BY ClientAssumption, GrantsKept DEF IInv, TypeOK, EndpointTypeOK, Procs
<1>1. ASSUME NEW q \in Apps, call[q].at = "using"
      PROVE  call[q].held # 0 /\ call[q].since + Delay < grants'[call[q].held].dies
  <2>1. call[q].held # 0 /\ call[q].since + Delay < grants[call[q].held].dies
    BY <1>1 DEF IInv, UseInTime
  <2>2. call[q].held \in DOMAIN grants
    BY <1>0, <2>1, CallHolds DEF IInv
  <2> QED BY <1>0, <2>1, <2>2
<1>2. ASSUME NEW p \in Procs, Local(p) PROVE UseInTime'
  <2>1. CASE call'[p].at = "using"
    <3>1. /\ tokens # NoTokens /\ ~IsExpired(tokens) /\ call'[p].held = tokens.access
          /\ \/ call'[p].since = now
             \/ call[p].at \in InFlight /\ call'[p].since = call[p].since
      BY <1>2, <2>1 DEF Local, InFlight
    <3>2. tokens.access \in DOMAIN grants /\ tokens.expires \in Nat
      BY <3>1 DEF IInv, TypeOK
    <3>3. grants[tokens.access].dies \in Nat
      BY <3>2, GrantIs DEF IInv
    <3>4. ~(now + Skew >= tokens.expires) /\ tokens.expires <= grants[tokens.access].dies + Delay
      BY <3>1 DEF IsExpired, IInv, StoreInTime
    <3>5. call'[p].since <= now /\ call'[p].since \in Nat
      BY <1>0, <3>1, CallHolds DEF IInv, InTime
    <3>6. call'[p].since + Delay < grants[tokens.access].dies
      <4> DEFINE since == call'[p].since
                 dies == grants[tokens.access].dies
                 expires == tokens.expires
      <4>1. since \in Nat /\ dies \in Nat /\ expires \in Nat
        BY <3>2, <3>3, <3>5
      <4>2. since <= now /\ ~(now + Skew >= expires) /\ expires <= dies + Delay
        BY <3>4, <3>5
      <4> HIDE DEF since, dies, expires
      <4>3. since + Delay < dies
        BY <1>0, <4>1, <4>2
      <4> QED BY <4>3 DEF since, dies
    <3>7. call'[p].held # 0 /\ call'[p].since + Delay < grants'[call'[p].held].dies
      BY <1>0, <3>1, <3>2, <3>6
    <3> QED BY <1>0, <1>1, <1>2, <3>7, OthersKept DEF Local, UseInTime
  <2>2. CASE call'[p].at # "using"
    BY <1>0, <1>1, <1>2, <2>2, OthersKept DEF Local, UseInTime
  <2> QED BY <2>1, <2>2
<1>3. ASSUME NEW p \in Procs, Granted(p) PROVE UseInTime'
  <2>1. call'[p].at # "using"
    BY <1>3, GrantedFacts
  <2> QED BY <1>0, <1>1, <1>3, <2>1, OthersKept DEF Granted, UseInTime
<1>4. ASSUME NEW p \in Procs, Saved(p) PROVE UseInTime'
  <2>1. call'[p].at = "using" => call'[p].held = call[p].held /\ call'[p].since = now
    BY <1>4 DEF Saved
  <2>2. call[p].held # 0 /\ now + Delay < grants'[call[p].held].dies
    BY <1>0, <1>4, SavedInTime DEF Saved
  <2> QED BY <1>0, <1>1, <1>4, <2>1, <2>2, OthersKept DEF Saved, UseInTime
<1>5. CASE UNCHANGED call
  BY <1>1, <1>5 DEF UseInTime
<1> QED BY <1>2, <1>3, <1>4, <1>5, NextShape DEF Still, Tick, clientVars

\* What is stored can be refreshed, unless its successor was lost or is in hand.
LEMMA RefreshIsLiveNext == ASSUME IInv, [Next]_vars PROVE StoredRefreshIsLive'
<1>0. /\ Len(grants) \in Nat /\ DOMAIN grants = 1..Len(grants)
      /\ Len(grants) <= Len(grants') /\ DOMAIN grants' = 1..Len(grants')
      /\ Len(grants') \in Nat
      /\ \A g \in DOMAIN grants : grants'[g] = grants[g]
  BY GrantsKept
<1>1. \A r : Successors(r) \subseteq Successors(r)'
  <2>1. DOMAIN grants \subseteq DOMAIN grants'
    BY <1>0
  <2> QED BY <1>0, <2>1 DEF Successors
<1>2. ASSUME tokens' = tokens, lost \subseteq lost',
             \A g \in DOMAIN grants : InHand(g) => InHand(g)' \/ g \in lost',
             \A r \in live \ live' : \E g \in Successors(r)' : InHand(g)'
      PROVE  StoredRefreshIsLive'
  <2>1. \A r : Successors(r) \subseteq DOMAIN grants
    BY DEF Successors
  <2>2. CASE tokens = NoTokens
    BY <1>2, <2>2 DEF StoredRefreshIsLive, NoTokens
  <2>3. CASE tokens.refresh # 0 /\ tokens.refresh \in live
    BY <1>2, <2>3 DEF StoredRefreshIsLive
  <2>4. ASSUME tokens.refresh # 0,
               NEW g \in Successors(tokens.refresh), g \in lost \/ InHand(g)
        PROVE  StoredRefreshIsLive'
    BY <1>1, <1>2, <2>1, <2>4 DEF StoredRefreshIsLive
  <2>5. CASE tokens # NoTokens /\ tokens.refresh = 0
    <3>1. tokens.access \in DOMAIN grants
      BY <2>5 DEF IInv, TypeOK
    <3> QED BY <1>0, <1>2, <2>5, <3>1 DEF IInv, StoredRefreshIsLive
  <2> QED BY <2>2, <2>3, <2>4, <2>5 DEF IInv, StoredRefreshIsLive
<1>3. ASSUME NEW p \in Procs, Local(p) PROVE StoredRefreshIsLive'
  <2>1. \A q \in Procs : q # p => call'[q] = call[q]
    BY <1>3, OthersKept DEF Local
  <2>2. \A g \in DOMAIN grants : InHand(g) => InHand(g)' \/ g \in lost'
    BY <1>0, <1>3, <2>1 DEF Local, LosesAnswer, InHand
  <2> QED BY <1>2, <1>3, <2>2 DEF Local, LosesAnswer
<1>4. ASSUME NEW p \in Procs, Granted(p) PROVE StoredRefreshIsLive'
  <2>1. \A q \in Procs : q # p => call'[q] = call[q]
    BY <1>4, OthersKept DEF Granted
  <2>2. \A g : InHand(g) => InHand(g)'
    BY <1>4, <2>1 DEF Granted, InHand
  <2>3. NextGrant \in DOMAIN grants'
    <3>1. Len(grants') = NextGrant
      BY <1>4, GrantedFacts
    <3>2. NextGrant > 0
      BY <1>0 DEF NextGrant
    <3> QED BY <1>0, <3>1, <3>2
  <2>4. ASSUME NEW r \in live \ live'
        PROVE  NextGrant \in {g \in DOMAIN grants' : grants'[g].from = r /\ grants'[g].fresh}
    BY <1>4, <2>3, <2>4, GrantedFacts
  <2>5. call'[p].at = "answered" /\ call'[p].held = NextGrant
    BY <1>4, GrantedFacts
  <2>6. \A r \in live \ live' : \E g \in Successors(r)' : InHand(g)'
    BY <2>4, <2>5 DEF Successors, InHand
  <2> QED BY <1>2, <1>4, <2>2, <2>6 DEF Granted
<1>5. ASSUME NEW p \in Procs, Saved(p) PROVE StoredRefreshIsLive'
  <2>1. /\ tokens'.access = call[p].held
        /\ tokens'.refresh = IF grants[call[p].held].fresh THEN call[p].held ELSE Used(p)
        /\ UNCHANGED <<grants, live>> /\ call[p].held # 0
    BY <1>5 DEF Saved, SavesTokens, RefreshToken
  <2>2. IF grants[call[p].held].fresh
           THEN call[p].held \in live
           ELSE IF p \in Logins THEN grants[call[p].held].from = 0
                               ELSE ~rotates /\ call[p].shown \in live
    BY <1>5 DEF Saved, IInv, AnswerIsGood
  <2>3. 0 \notin live
    BY <1>0 DEF IInv, TypeOK, EndpointTypeOK
  <2>4. p \in Logins => Used(p) = 0
    BY ClientAssumption DEF Used
  <2>5. p \notin Logins => Used(p) = call[p].shown
    BY DEF Used, Procs
  <2> QED BY <2>1, <2>2, <2>3, <2>4, <2>5 DEF StoredRefreshIsLive
<1>6. CASE UNCHANGED <<grants, live, tokens, call, lost>>
  BY <1>6 DEF IInv, StoredRefreshIsLive, Successors, InHand
<1> QED BY <1>3, <1>4, <1>5, <1>6, NextShape DEF Still, Tick, clientVars, endpointVars

-----------------------------------------------------------------------------
\* Type correctness

LEMMA CallTypeNext ==
    ASSUME IInv, [Next]_vars
    PROVE  /\ now' \in Nat /\ rotates' \in BOOLEAN
           /\ call' \in [Procs -> CallType(Len(grants'))]
           /\ lost' \subseteq DOMAIN grants'
<1>0. /\ Len(grants) \in Nat /\ DOMAIN grants = 1..Len(grants)
      /\ Len(grants') \in Nat /\ DOMAIN grants' = 1..Len(grants')
      /\ Len(grants) <= Len(grants')
  BY GrantsKept
<1>1. /\ call \in [Procs -> CallType(Len(grants))] /\ lost \subseteq DOMAIN grants
      /\ now \in Nat /\ rotates \in BOOLEAN
  BY DEF IInv, TypeOK, EndpointTypeOK, CallType
<1>2. CallType(Len(grants)) \subseteq CallType(Len(grants'))
  <2>1. 0..Len(grants) \subseteq 0..Len(grants')
    BY <1>0
  <2> QED BY <2>1 DEF CallType
<1>3. DOMAIN grants \subseteq DOMAIN grants'
  BY <1>0
<1>4. ASSUME NEW p \in Procs, OnlyCallOf(p), call'[p] \in CallType(Len(grants'))
      PROVE  call' \in [Procs -> CallType(Len(grants'))]
  <2>1. call \in [Procs -> CallType(Len(grants'))]
    BY <1>1, <1>2
  <2> DEFINE new == call'[p]
  <2>2. new \in CallType(Len(grants')) /\ call' = [call EXCEPT ![p] = new]
    BY <1>4 DEF OnlyCallOf
  <2> HIDE DEF new
  <2> QED BY <2>1, <2>2
<1>5. ASSUME NEW p \in Procs, Local(p)
      PROVE  call' \in [Procs -> CallType(Len(grants'))] /\ lost' \subseteq DOMAIN grants'
             /\ now' = now /\ rotates' = rotates
  <2>1. call' \in [Procs -> CallType(Len(grants'))]
    BY <1>2, <1>4, <1>5 DEF Local
  <2>2. {call[p].held} \ {0} \subseteq DOMAIN grants
    BY CallHolds DEF IInv
  <2> QED BY <1>1, <1>3, <1>5, <2>1, <2>2 DEF Local, LosesAnswer
<1>6. ASSUME NEW p \in Procs, Granted(p)
      PROVE  call' \in [Procs -> CallType(Len(grants'))] /\ lost' \subseteq DOMAIN grants'
             /\ now' = now /\ rotates' = rotates
  <2>1. NextGrant \in 0..Len(grants')
    <3>1. Len(grants') = NextGrant
      BY <1>6, GrantedFacts
    <3> QED BY <1>0, <3>1
  <2>2. call[p] \in CallType(Len(grants)) /\ "answered" \in AppSteps
    BY CallIs DEF IInv, AppSteps
  <2>3. call'[p] = [call[p] EXCEPT !.at = "answered", !.held = NextGrant] /\ OnlyCallOf(p)
    BY <1>6 DEF Granted
  <2>4. call'[p] \in CallType(Len(grants'))
    BY <2>1, <2>2, <2>3 DEF CallType
  <2> QED BY <1>1, <1>3, <1>4, <1>6, <2>3, <2>4 DEF Granted
<1>7. ASSUME NEW p \in Procs, Saved(p)
      PROVE  call' \in [Procs -> CallType(Len(grants'))] /\ lost' \subseteq DOMAIN grants'
             /\ now' = now /\ rotates' = rotates
  BY <1>1, <1>2, <1>3, <1>4, <1>7 DEF Saved
<1>8. CASE UNCHANGED <<call, lost, rotates>> /\ now' \in {now, now + 1}
  BY <1>1, <1>2, <1>3, <1>8
<1> QED BY <1>1, <1>5, <1>6, <1>7, <1>8, NextShape DEF Still, Tick, clientVars, endpointVars

\* What is stored was granted.
LEMMA TokensTypeNext ==
    ASSUME IInv, [Next]_vars
    PROVE  tokens' \in [access: DOMAIN grants', refresh: 0..Len(grants'), expires: Nat]
                       \cup {NoTokens}
<1>1. tokens \in [access: DOMAIN grants, refresh: 0..Len(grants), expires: Nat]
                 \cup {NoTokens}
  BY DEF IInv, TypeOK
<1>2. /\ DOMAIN grants \subseteq DOMAIN grants' /\ 0..Len(grants) \subseteq 0..Len(grants')
      /\ Len(grants) \in Nat /\ DOMAIN grants = 1..Len(grants)
  BY GrantsKept
<1>3. ASSUME NEW p \in Procs, Saved(p)
      PROVE  tokens' \in [access: DOMAIN grants', refresh: 0..Len(grants'), expires: Nat]
  <2>1. /\ call[p].held # 0
        /\ tokens' = [access |-> call[p].held,
                      refresh |-> RefreshToken(call[p].held, Used(p)),
                      expires |-> now + Lifetime]
    BY <1>3 DEF Saved, SavesTokens
  <2>2. call[p].held \in DOMAIN grants
    BY <2>1, CallHolds DEF IInv
  <2>3. Used(p) \in 0..Len(grants)
    BY <1>2 DEF Used, IInv, ShownExists
  <2>4. RefreshToken(call[p].held, Used(p)) \in 0..Len(grants)
    BY <1>2, <2>2, <2>3 DEF RefreshToken
  <2>5. now + Lifetime \in Nat
    BY EndpointAssumption DEF IInv, TypeOK, EndpointTypeOK
  <2> QED BY <1>2, <2>1, <2>2, <2>4, <2>5
<1>4. CASE tokens' = tokens
  BY <1>1, <1>2, <1>4
<1> QED BY <1>3, <1>4, NextShape DEF Still, Local, Granted, Tick, clientVars

\* A refresh goes out with a refresh token.
LEMMA SentNext ==
    ASSUME IInv, [Next]_vars, NEW q \in Apps, call'[q].at = "sent"
    PROVE  call'[q].shown # 0
<1>0. q \in Procs /\ (call[q].at = "sent" => call[q].shown # 0)
  BY DEF Procs, IInv, TypeOK
<1>1. ASSUME NEW p \in Procs, Local(p) PROVE call'[q].shown # 0
  BY <1>0, <1>1, OthersKept DEF Local
<1>2. ASSUME NEW p \in Procs, Granted(p) PROVE call'[q].shown # 0
  BY <1>0, <1>2, OthersKept, GrantedFacts DEF Granted
<1>3. ASSUME NEW p \in Procs, Saved(p) PROVE call'[q].shown # 0
  BY <1>0, <1>3, OthersKept DEF Saved
<1>4. CASE call' = call
  BY <1>0, <1>4
<1> QED BY <1>1, <1>2, <1>3, <1>4, NextShape DEF Still, Tick, clientVars

-----------------------------------------------------------------------------
\* The logins

Listener == [own: 0..MaxLogins, heard: 0..MaxLogins,
             event: BOOLEAN, thread: {"down", "serving", "stuck"}]

\* The registrations and the requests there have been.
CountsType ==
    /\ clients \in 0..MaxClients /\ registration \in 0..clients
    /\ redeemed \subseteq 1..MaxLogins /\ approved \subseteq 1..MaxLogins
    /\ asked \in 0..MaxLogins /\ opened \subseteq 1..asked

LEMMA EndedIsSure ==
    ASSUME IInv, NEW l \in Logins, Ends(l)
    PROVE  IsSure(l)' /\ browser' \in [Logins -> Listener]
           /\ \A m \in Logins : m # l => browser'[m] = browser[m]
<1>1. call'[l] = At("off", 0)
  BY LoginKnows, CallChanges DEF Ends
<1>2. call'[l].at = "off"
  BY <1>1 DEF At
<1>3. NoListener(0) \in Listener /\ browser \in [Logins -> Listener]
  BY EndpointAssumption DEF NoListener, Listener, IInv, TypeOK
<1>4. browser' = [browser EXCEPT ![l] = NoListener(0)]
  BY DEF Ends
<1>5. browser'[l].heard = 0 /\ browser'[l].thread = "down"
  BY <1>3, <1>4 DEF NoListener
<1> QED BY <1>2, <1>3, <1>4, <1>5 DEF IsSure

\* A login that goes on leaves the other ones alone.
LEMMA GoneOn ==
    ASSUME IInv, NEW l \in Logins, NEW s, GoesTo(l, s)
    PROVE  /\ call'[l].at = s /\ call'[l].client = call[l].client
           /\ call'[l].shown = call[l].shown
<1>1. call'[l] = [call[l] EXCEPT !.at = s]
  BY LoginKnows, CallChanges DEF GoesTo
<1>2. call[l] \in CallType(Len(grants))
  BY LoginKnows, CallIs
<1> QED BY <1>1, <1>2 DEF CallType

\* What a login is sure of after each of its own steps.
LEMMA SureOfOwn ==
    ASSUME IInv, NEW l \in Logins, LoginStep(l)
    PROVE  IsSure(l)' /\ browser' \in [Logins -> Listener]
           /\ \A m \in Logins : m # l => browser'[m] = browser[m]
<1>0. /\ IsSure(l) /\ browser \in [Logins -> Listener]
      /\ asked \in 0..MaxLogins /\ approved \subseteq 1..MaxLogins
      /\ TypeOK /\ l \in Procs /\ KnownClients \subseteq Nat
  BY LoginKnows DEF IInv, LoginHolds, TypeOK, EndpointTypeOK, Listener
<1> USE <1>0 DEF IsSure
<1>1. CASE StartsLogin(l)
  <2>1. asked' = asked + 1 /\ asked' \in 1..MaxLogins /\ UNCHANGED approved
    BY <1>1, EndpointAssumption DEF StartsLogin, Quiet, endpointVars
  <2>2. browser' = [browser EXCEPT ![l] = NoListener(asked')]
    BY <1>1 DEF StartsLogin
  <2>3. NoListener(asked') \in Listener /\ NoListener(asked').own = asked'
        /\ NoListener(asked').heard = 0 /\ NoListener(asked').thread = "down"
    BY <2>1, EndpointAssumption DEF NoListener, Listener
  <2>4. PICK c \in KnownClients :
          Becomes(l, IF c # 0 THEN At("opening", c) ELSE At("registering", 0))
    BY <1>1 DEF StartsLogin
  <2>5. call'[l] = IF c # 0 THEN At("opening", c) ELSE At("registering", 0)
    BY <2>4, CallChanges
  <2>6. CASE c # 0
    <3>1. call'[l] = At("opening", c)
      BY <2>5, <2>6
    <3>2. call'[l].at = "opening" /\ call'[l].client # 0
      BY <2>6, <3>1 DEF At
    <3> QED BY <2>1, <2>2, <2>3, <3>2
  <2>7. CASE c = 0
    <3>1. call'[l].at = "registering"
      BY <2>5, <2>7 DEF At
    <3> QED BY <2>1, <2>2, <2>3, <3>1
  <2> QED BY <2>6, <2>7
<1>2. CASE Registers(l)
  <2>1. CASE Ends(l)
    BY <2>1, EndedIsSure
  <2>2. CASE clients < MaxClients /\ clients' = clients + 1 /\ UNCHANGED browser
             /\ Becomes(l, At("opening", clients'))
    <3>1. call'[l] = At("opening", clients') /\ clients' # 0
      <4>1. clients \in Nat
        BY EndpointAssumption DEF TypeOK, EndpointTypeOK
      <4> QED BY <2>2, <4>1, CallChanges
    <3>2. call'[l].at = "opening" /\ call'[l].client # 0
      BY <3>1 DEF At
    <3>3. call[l].at = "registering" /\ UNCHANGED <<approved, asked>>
      BY <1>2 DEF Registers
    <3> QED BY <2>2, <3>2, <3>3
  <2> QED BY <1>2, <2>1, <2>2 DEF Registers
<1>3. CASE OpensBrowser(l)
  BY <1>3, GoneOn DEF OpensBrowser, Quiet, endpointVars
<1>4. CASE Listens(l)
  <2>1. CASE GoesTo(l, "waiting") /\ browser' = [browser EXCEPT ![l].thread = "serving"]
    BY <1>4, <2>1, GoneOn DEF Listens, Quiet, endpointVars, Listener
  <2> QED BY <1>4, <2>1, EndedIsSure DEF Listens
<1>5. CASE HandlesCallback(l)
  <2>1. PICK n \in approved \cup {0}, e \in {TRUE, browser[l].event} :
            browser' = [browser EXCEPT ![l].heard = n, ![l].event = e]
    BY <1>5 DEF HandlesCallback
  <2>2. n \in 0..MaxLogins /\ e \in BOOLEAN
    <3>1. n \in 0..MaxLogins
      BY EndpointAssumption
    <3>2. browser[l].event \in BOOLEAN
      BY DEF Listener
    <3> QED BY <3>1, <3>2, Zenon
  <2>3. browser' \in [Logins -> Listener] /\ browser'[l].own = browser[l].own
        /\ browser'[l].heard = n
    BY <2>1, <2>2 DEF Listener
  <2>4. call[l].at \in {"waiting", "got", "late"} /\ UNCHANGED <<call, approved, asked>>
    BY <1>5 DEF HandlesCallback, Quiet, endpointVars
  <2> QED BY <2>1, <2>3, <2>4
<1>6. CASE GoesSilent(l) \/ SilenceEnds(l)
  BY <1>6 DEF GoesSilent, SilenceEnds, Quiet, endpointVars, Listener
<1>7. CASE WaitEnds(l)
  BY <1>7, GoneOn DEF WaitEnds, Quiet, endpointVars, loginVars
<1>8. CASE ListenerStops(l)
  <2>1. CASE GoesTo(l, "heard") /\ browser' = [browser EXCEPT ![l] = Stopped(l)]
    BY <1>8, <2>1, GoneOn DEF ListenerStops, Stopped, Quiet, endpointVars, Listener
  <2> QED BY <1>8, <2>1, EndedIsSure DEF ListenerStops
<1>9. CASE ChecksCallback(l)
  <2>1. CASE Verified(l) /\ GoesTo(l, "verified") /\ UNCHANGED browser
    BY <1>9, <2>1, GoneOn DEF ChecksCallback, Quiet, endpointVars, Verified
  <2> QED BY <1>9, <2>1, EndedIsSure DEF ChecksCallback
<1>10. CASE SendsCode(l)
  <2>1. call'[l] = [call[l] EXCEPT !.at = "sent", !.shown = browser[l].heard, !.since = now]
    BY <1>10, CallChanges DEF SendsCode
  <2>2. call[l] \in CallType(Len(grants))
    BY CallIs
  <2>3. call'[l].at = "sent" /\ call'[l].client = call[l].client
        /\ call'[l].shown = browser[l].heard
    BY <2>1, <2>2 DEF CallType
  <2> QED BY <1>10, <2>3 DEF SendsCode, Quiet, endpointVars, loginVars, Verified
<1>11. CASE AnswersCode(l)
  <2>1. call'[l].at = "answered" /\ call'[l].client = call[l].client
    <3>1. CASE GoesTo(l, "answered")
      BY <3>1, GoneOn
    <3>2. CASE Becomes(l, [call[l] EXCEPT !.at = "answered", !.held = NextGrant])
      <4>1. call'[l] = [call[l] EXCEPT !.at = "answered", !.held = NextGrant]
        BY <3>2, CallChanges
      <4>2. call[l] \in CallType(Len(grants))
        BY CallIs
      <4> QED BY <4>1, <4>2 DEF CallType
    <3> QED BY <1>11, <3>1, <3>2 DEF AnswersCode
  <2>2. UNCHANGED <<approved, loginVars>> /\ call[l].at = "sent"
    BY <1>11 DEF AnswersCode, Redeems, endpointVars
  <2> QED BY <2>1, <2>2 DEF loginVars
<1>12. CASE Ends(l)
  BY <1>12, EndedIsSure
<1> QED
  BY <1>1, <1>2, <1>3, <1>4, <1>5, <1>6, <1>7, <1>8, <1>9, <1>10, <1>11, <1>12
  DEF LoginStep, MainThread, ReceivesTokens, ExchangeFails, LoginDies

LEMMA CountsNext ==
    ASSUME IInv, [Next]_vars
    PROVE  CountsType' /\ asked <= asked' /\ approved \subseteq approved'
<1>0. /\ CountsType /\ asked \in Nat /\ clients \in Nat
      /\ MaxClients \in Nat /\ MaxLogins \in Nat
  BY EndpointAssumption DEF IInv, TypeOK, EndpointTypeOK, CountsType
<1> USE <1>0 DEF CountsType
<1>1. CASE UNCHANGED <<clients, registration, redeemed, approved, asked, opened>>
  BY <1>1
<1>2. ASSUME NEW l \in Logins, StartsLogin(l)
      PROVE  CountsType' /\ asked <= asked' /\ approved \subseteq approved'
  BY <1>2 DEF StartsLogin, Quiet, endpointVars
<1>3. ASSUME NEW l \in Logins, Registers(l)
      PROVE  CountsType' /\ asked <= asked' /\ approved \subseteq approved'
  <2>1. UNCHANGED <<redeemed, approved, asked, opened>>
    BY <1>3 DEF Registers
  <2>2. \/ clients < MaxClients /\ clients' = clients + 1 /\ registration' = clients'
        \/ clients' \in {clients, clients + 1} \cap 0..MaxClients /\ registration' = registration
    BY <1>3 DEF Registers
  <2>3. clients' \in 0..MaxClients /\ registration' \in 0..clients'
    BY <2>2
  <2> QED BY <2>1, <2>3
<1>4. ASSUME NEW l \in Logins, OpensBrowser(l)
      PROVE  CountsType' /\ asked <= asked' /\ approved \subseteq approved'
  <2>1. browser[l].own \in 1..asked
    BY <1>4 DEF OpensBrowser, IInv, LoginHolds, IsSure
  <2>2. /\ UNCHANGED <<clients, registration, redeemed, approved, asked>>
        /\ opened' = opened \cup {browser[l].own}
    BY <1>4 DEF OpensBrowser, Quiet, endpointVars
  <2>3. opened' \subseteq 1..asked
    BY <2>1, <2>2
  <2> QED BY <2>2, <2>3
<1>5. ASSUME NEW l \in Logins, AnswersCode(l)
      PROVE  CountsType' /\ asked <= asked' /\ approved \subseteq approved'
  <2>1. call[l].shown \in 1..MaxLogins
    BY <1>5 DEF AnswersCode, IInv, LoginHolds, IsSure
  <2>2. redeemed' \in {redeemed, redeemed \cup {call[l].shown}}
    BY <1>5 DEF AnswersCode, Redeems, endpointVars
  <2>3. UNCHANGED <<clients, registration, approved, asked, opened>>
    BY <1>5 DEF AnswersCode, Redeems, endpointVars, loginVars
  <2> QED BY <2>1, <2>2, <2>3
<1>6. CASE User
  BY <1>6 DEF User, Consents, clientVars, loginVars
<1>7. ASSUME NEW p \in Apps, AppStep(p), UNCHANGED loginVars
      PROVE  CountsType' /\ asked <= asked' /\ approved \subseteq approved'
  BY <1>1, <1>7
  DEF AppStep, AppCallStep, AppStarts, ChecksToken, SendsRefresh, AnswersRefresh, Refreshes,
      ReceivesRefresh, RefreshFails, RequestEnds, AppEnds, endpointVars, loginVars
<1>8. ASSUME NEW l \in Logins, LoginStep(l)
      PROVE  CountsType' /\ asked <= asked' /\ approved \subseteq approved'
  BY <1>1, <1>2, <1>3, <1>4, <1>5, <1>8
  DEF LoginStep, MainThread, Listens, WaitEnds, ListenerStops, ChecksCallback, SendsCode,
      ReceivesTokens, ExchangeFails, HandlesCallback, GoesSilent, SilenceEnds, LoginDies,
      Quiet, endpointVars, loginVars
<1> QED
  BY <1>1, <1>6, <1>7, <1>8
  DEF Next, Tick, vars, clientVars, endpointVars, loginVars

LEMMA LoginHoldsNext ==
    ASSUME IInv, [Next]_vars
    PROVE  LoginHolds' /\ browser' \in [Logins -> Listener]
<1>0. asked \in Nat /\ asked' \in Nat /\ asked <= asked' /\ approved \subseteq approved'
  BY CountsNext, EndpointAssumption DEF CountsType, IInv, TypeOK
<1>1. ASSUME NEW m \in Logins, call'[m] = call[m], browser'[m] = browser[m]
      PROVE  IsSure(m)'
  BY <1>0, <1>1 DEF IInv, LoginHolds, IsSure, Verified
<1>2. browser \in [Logins -> Listener] /\ Logins \subseteq Procs /\ Apps \cap Logins = {}
  BY ClientAssumption DEF IInv, TypeOK, Listener, Procs
<1>3. ASSUME NEW l \in Logins, LoginStep(l)
      PROVE  LoginHolds' /\ browser' \in [Logins -> Listener]
  <2>1. \A m \in Logins : m # l => call'[m] = call[m]
    BY <1>2, <1>3, LoginShape, OthersKept DEF Still, Local, Granted, Saved
  <2> QED BY <1>1, <1>3, <2>1, SureOfOwn DEF LoginHolds
<1>4. ASSUME NEW p \in Apps, AppStep(p), UNCHANGED loginVars
      PROVE  LoginHolds' /\ browser' \in [Logins -> Listener]
  <2>1. p \in Procs
    BY DEF Procs
  <2>2. \A m \in Logins : call'[m] = call[m]
    BY <1>2, <1>4, <2>1, AppShape, OthersKept DEF Local, Granted, Saved
  <2> QED BY <1>1, <1>2, <1>4, <2>2 DEF LoginHolds, loginVars
<1>5. CASE UNCHANGED <<call, browser>>
  BY <1>1, <1>2, <1>5 DEF LoginHolds
<1> QED BY <1>3, <1>4, <1>5 DEF Next, User, Tick, vars, clientVars, loginVars

LEMMA TypeNext == ASSUME IInv, [Next]_vars PROVE TypeOK'
<1>1. EndpointTypeOK'
  BY GrantsKept, CallTypeNext, CountsNext DEF EndpointTypeOK, CountsType
<1>2. call' \in [Procs -> [at: AppSteps \cup LoginSteps, client: Nat,
                           shown: Nat, held: 0..Len(grants'), since: Nat]]
  BY CallTypeNext DEF CallType
<1>3. browser' \in [Logins -> [own: 0..MaxLogins, heard: 0..MaxLogins,
                               event: BOOLEAN, thread: {"down", "serving", "stuck"}]]
  BY LoginHoldsNext DEF Listener
<1> QED BY <1>1, <1>2, <1>3, CallTypeNext, TokensTypeNext, SentNext, CountsNext
        DEF TypeOK, CountsType

-----------------------------------------------------------------------------
\* The invariant, and what follows from it

LEMMA IInvInit == ASSUME Init PROVE IInv
<1>1. \A p \in Procs : /\ call[p].at = "off" /\ call[p].client = 0
                       /\ call[p].shown = 0 /\ call[p].held = 0 /\ call[p].since = 0
  BY DEF Init, ClientInit, At
<1>2. call \in [Procs -> [at: AppSteps \cup LoginSteps, client: Nat,
                          shown: Nat, held: 0..0, since: Nat]]
  BY EndpointAssumption DEF Init, ClientInit, At, AppSteps
<1>3. grants = <<>> /\ Len(grants) = 0 /\ grants \in Seq(Grant)
  BY DEF Init, EndpointInit
<1>4. browser \in [Logins -> Listener]
      /\ \A l \in Logins : browser[l].heard = 0 /\ browser[l].thread = "down"
  BY EndpointAssumption DEF Init, LoginInit, NoListener, Listener
<1>5. TypeOK
  <2>1. EndpointTypeOK
    BY <1>3, EndpointAssumption DEF Init, EndpointInit, EndpointTypeOK
  <2>2. \A p \in Apps : call[p].at # "sent"
    BY <1>1 DEF Procs
  <2>3. browser \in [Logins -> [own: 0..MaxLogins, heard: 0..MaxLogins,
                                event: BOOLEAN, thread: {"down", "serving", "stuck"}]]
    BY <1>4 DEF Listener
  <2>4. registration = 0 /\ clients = 0 /\ tokens = NoTokens /\ lost = {}
        /\ asked = 0 /\ opened = {}
    BY DEF Init, EndpointInit, ClientInit, LoginInit
  <2> QED BY <1>2, <1>3, <2>1, <2>2, <2>3, <2>4, EndpointAssumption DEF TypeOK
<1>6. Steps /\ HeldIsAnswered /\ InTime /\ UseInTime
  BY <1>1 DEF Steps, HeldIsAnswered, InTime, InFlight, UseInTime, AppSteps, LoginSteps, Procs
<1>7. ShownExists /\ AnswerIsGood /\ AnswerIsUnknown
  BY <1>1, <1>3 DEF ShownExists, AnswerIsGood, AnswerIsUnknown, Procs
<1>8. LoginHolds
  BY <1>1, <1>4 DEF LoginHolds, IsSure, Procs
<1>9. StoreInTime /\ StoredRefreshIsLive
  BY DEF Init, ClientInit, StoreInTime, StoredRefreshIsLive
<1> QED BY <1>5, <1>6, <1>7, <1>8, <1>9 DEF IInv

LEMMA IInvNext == ASSUME IInv, [Next]_vars PROVE IInv'
BY TypeNext, StepsNext, LoginHoldsNext, HeldNext, ShownNext, AnswerIsGoodNext,
   AnswerIsUnknownNext, InTimeNext, StoreInTimeNext, UseInTimeNext, RefreshIsLiveNext
DEF IInv

\* The inductive invariant holds in every reachable state.
THEOREM StoredSessionInductive == Spec => []IInv
BY IInvInit, IInvNext, PTL DEF Spec

\* Every process, listener and grant has its type, and no refresh goes out
\* without a refresh token, however the processes come between each other.
THEOREM StoredSessionTypeCorrect == Spec => []TypeOK
<1>1. IInv => TypeOK
  BY DEF IInv
<1> QED BY <1>1, StoredSessionInductive, PTL

\* The ability to refresh, once given, is lost only with an answer that was.
THEOREM RefreshNeverDropped == Spec => []StoredRefreshIsLive
<1>1. IInv => StoredRefreshIsLive
  BY DEF IInv
<1> QED BY <1>1, StoredSessionInductive, PTL

\* get_valid_access_token's answer is good until the request has arrived, when
\* the skew is twice and the lifetime more than twice what a request takes.
THEOREM LiveTokenCarried == Spec => []RequestsCarryLiveToken
<1>1. IInv => RequestsCarryLiveToken
  <2> SUFFICES ASSUME IInv, NEW p \in Apps, call[p].at = "using"
               PROVE  call[p].held # 0 /\ now < grants[call[p].held].dies
    BY DEF RequestsCarryLiveToken
  <2>1. p \in Procs /\ now \in Nat /\ Delay \in Nat
    BY ClientAssumption DEF Procs, IInv, TypeOK, EndpointTypeOK
  <2>2. call[p].held # 0 /\ call[p].since + Delay < grants[call[p].held].dies
    BY DEF IInv, UseInTime
  <2>3. now <= call[p].since + Delay
    BY <2>1 DEF IInv, InTime, InFlight
  <2>4. call[p].since \in Nat /\ grants[call[p].held].dies \in Nat
    BY <2>1, <2>2, CallHolds, GrantIs DEF IInv
  <2> QED BY <2>1, <2>2, <2>3, <2>4
<1> QED BY <1>1, StoredSessionInductive, PTL

\* No login exchanges the code of another request than its own.
THEOREM OwnCodeExchanged == Spec => []OwnCodeOnly
<1>1. IInv => OwnCodeOnly
  BY DEF IInv, LoginHolds, IsSure, Verified, OwnCodeOnly
<1> QED BY <1>1, StoredSessionInductive, PTL
=============================================================================

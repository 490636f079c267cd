# Beanstock: TLA+ models and proofs

Beanstock is a small Python program that trades stocks on paper.  Proposals
written by an AI or a person go through a schema check, a rule-based risk
engine, an execution intent, a gateway and a controller, and end either in an
in-memory paper account or in moomoo's simulated account over HTTP.  This
directory models that pipeline in TLA+, model-checks it with TLC on small
instances and proves some of its properties with TLAPS for all instances.

The source is a set of ordinary Python modules without threads (the login's
local listener apart): what makes it hard is not parallel code but the account
that moves while a call waits for an HTTP answer, answers that are lost after
the request took effect, state kept in several copies, account facts read once
and used later, processes that share one credential store without a lock, and
a process that may end between any two writes.

## Inventory

| Part of the code | State | Operations | Talks to |
|---|---|---|---|
| `risk/validator.py` | none | `validate_trade`: 18 rules | called by trade_proposal |
| `models/trade_proposal.py` | none | `validate_trade_proposal`, `evaluate_trade_proposal`, the REDUCE and EXIT routes | validator |
| `execution/intent.py` | none | `create_execution_intent`, the audit reference (hash of the decision) | trade_proposal |
| `broker/gateway.py` | safe mode and two loss flags | `validate`, `submit` | reads a broker: quote, cash, position, order history |
| `execution/paper_write_controller.py` | arming, write flag, its own copy of the flags, processed references, audit log | `arm`, `disarm`, `submit` | gateway, then broker |
| `broker/moomoo_paper.py` | write flag, its own copy of the flags, processed references, journal | `submit_execution_intent`, `cancel_order`, `close_position` | moomoo over HTTP, one request at a time |
| `broker/moomoo_readonly.py` | selected account, quote cache | account selection, `get_orders` in two requests, `get_quote`, `get_quote_timestamp`; every write raises | moomoo over HTTP |
| `broker/fake_paper.py` | cash, positions, quotes, filled references, orders | `submit_execution_intent`, `close_position`, `set_quote` | nobody |
| `execution/real_data_paper_session.py` | trade log, starting equity, equity curve | `evaluate_and_submit`, `update_open_trade_tracking`, `daily_snapshot` | real quotes; intent, controller, paper broker |
| `runner/daily_session.py` | texts of the memory files | `run`, `check_mechanical_stops`, `persist_logs` | session; memory/*.md |
| `auth/moomoo_oauth.py`, `auth/token_storage.py` | client registration and tokens in the credential store, shared by all processes | `register_client`, `exchange_authorization_code`, `refresh_access_token`, `get_valid_access_token` | OAuth endpoints; called before each request to moomoo |
| `auth/moomoo_login.py` | PKCE and state of one login, `_CallbackResult` shared by two threads | `run_login`, the local callback listener | oauth, the user's browser |
| `broker/http_transport.py`, `broker/base.py`, `broker/moomoo_smoke_test.py` | none | I/O, interface, manual script | |

What makes each correct: an order leaves only through open gates and never
twice for one reference; sizes and notionals hold at the moment the order is
sent and not only when they were checked; the journal tells the truth; the
paper books balance; the risk limits hold for the portfolio and not only for
one proposal; each position is watched by a stop; what the memory files say
happened did happen, wherever the process stopped; the ability to refresh is
never dropped, a token lives as long as the request that carries it, and a
login exchanges its own code and ends; no order slips through between the two
requests that the order list is read in.

`PROJECT.json` lists the hazards at their lines, with the properties that cover
them, or why none does.

## Modules

Write path (the real adapter, moomoo's simulated account):

    PaperIntents            what an ExecutionIntent carries
      SimAccount            EXTERNAL: the account behind the HTTP interface
        MoomooPaperBroker   broker/moomoo_paper.py, one step per HTTP request
          BrokerGateway     broker/gateway.py
            PaperWriteController   the controller, operator, restart; Next, Spec
              WritePath            properties, refinement of OrderPermits
                MCWritePath, WritePathProofs
    OrderPermits            abstract: what the controller promises

Local path (real quotes, in-memory account):

    PaperIntents
      FakePaperBroker       the books: cash, units, cost, filled references
        FakePaperBrokerProofs  lemmas on what a fill does to the books (with SumProofs)
        PaperLedger         properties of the books; MCPaperLedger, PaperLedgerProofs
        RealDataPaperSession  (with RiskEngine) evaluate_and_submit
          DailySession        the runner, persistence, restarts; Next, Spec
            DailyProperties   properties; MCDailySession
              DailySessionProofs, DailyFilesProofs
    RiskEngine              pure: routing, entry rules, reference
    SumProofs               lemmas on sums over finite sets

Session with moomoo (OAuth, login, credential store):

    TokenEndpoint           EXTERNAL: OAuth endpoints and the clock
      OAuthClient           the store and the programs that use it
        MoomooLogin         run_login, its listener thread, the browser
          StoredSession     Next, fairness, properties
            MCStoredSession, StoredSessionProofs

Reads from moomoo:

    AccountService          EXTERNAL: accounts, orders, the two order lists
      MoomooReadOnlyBroker  selection, get_orders, quotes; Next, properties
        MCReadOnly, ReadOnlyProofs

### Write path: state and steps

A call in progress is `pc`, `intent`, `via` (entry point) and what it has read
(`quote`, `qty`).  Each HTTP request is a step; between two steps the account
may fill, partly fill, reject or expire an order and prices may move.  A read
may raise; a place-order request may be accepted with its answer lost. Checks
that need no request happen within the step before the next request. The journal
is kept as the status recorded for each order id. A safety flag stands for the
three flags of a layer (safe mode, daily loss, weekly drawdown), because the
code only asks whether any is set: each of the three layers has one
(`ctlHalted`, `gwHalted`, `brkHalted`) and `ReviewSetsFlags` sets or clears them
one at a time, between calls, as the single-threaded caller does: no flag
changes between the checks of a call and its POST, so what `EveryGateOpenAtSend`
can find is a layer that does not look.  Intent and quote ages can only block a
submit, and every check that looks at them may fail in the model.

`Restart` drops the process's memory at any step and keeps the account.

### Local path: state and steps

The paper broker does no I/O, so a fill is one step.  `units` counts shares in a
unit fine enough for every amount to buy a whole number at every price
(`LedgerAssumption`): the code's 28-digit Decimals are taken for exact, with one
exception: the cost that a partial sale releases (`Released`) is rounded down to
a unit of money, where the code divides.  `basis` is quantity times average
entry price.  Orders that are rejected change only the broker's journal, which
nothing reads, and are not kept.  `flow` and `pnl` are history variables.

`evaluate_and_submit` is two steps: the quote arrives (`QuoteArrives`), then
everything else (`RefusesProposal`, `BlocksIntent`, `ExecutesIntent`).  Because
arming, flags and ages of intent and quote can only block, any submit may be
blocked.  A rejection inside the paper broker after the controller has allowed
the intent is modelled (the ELSE of `ExecutesIntent`): `AllowedMeansFilled`
says it does not happen.

`run()` keeps its place in `phase` and `todo`: candidates, then mechanical
stops and reviews, then the snapshot.  Account facts are gathered when it
starts (`facts`) and used for every proposal, as in the code.  `persist_logs`
is one step per append.  The process may end between any two steps; brokers
and session are in memory and are lost, the three files stay.

Choices of abstraction: the session id is the date (the default); a proposal is
a record that carries only the fields a rule looks at, `complete` standing for
the other required fields; `entry` is `intended_entry` for a purchase and
`current_price` for a sale; percentages are compared by cross-multiplication,
where the code divides floats; `persist_logs` is called at most once, after its
own run; the caller calls the session directly with `has_existing_position=True`
(`AccountKwargs(..., TRUE)`), the runner never does; market context, benchmark,
drawdown and win rate are left out, nothing reads them again.

### Stored session: state and steps

A token is known by its grant, the response of the token endpoint that issued it
(`grants`); `live` are the grants whose refresh token is still accepted. The
endpoint either rotates refresh tokens or leaves them out of the response to a
refresh; the code handles both, and TLC starts from each.  A code may be
redeemed for a grant with a refresh token or without one; a session without one
cannot be refreshed, and `SendsRefresh` then goes back as the code raises.  A
program (`Apps`) is the token provider around one process: `ready`, then either
`using` the stored token in a request or `expired`, `sent`, `answered` and
saved.  `refresh_access_token` reads the store, asks the endpoint and writes the
store in three steps, because nothing locks it.  A request may fail before or
after it took effect, the store may refuse the new blob, and a process may end
at any step; a grant that was issued and not saved goes into the history
variable `lost`.

A login starts with a client id that the user passes (`Given`, what
`--client-id` may be), with the stored registration's, or with none, and then
registers. It is two threads over `browser[l]`: the main one goes through
registration, browser, listener, wait, check and exchange (`call[l].at`); the
listener (`HandlesCallback`) may overwrite the result with any answer the user's
consent has produced, at any time until it is stopped, and it may be `stuck` on
a connection that sends nothing.  A state, its PKCE verifier and the code that
answers them are one request number: what the properties tell apart is which
request an answer belongs to.

Time is a number; `Tick` may not pass the end of a request in flight (`Delay`,
the transport's time limit).  The expiry is stored as it is computed, from the
arrival of the response.

### Read-only broker: state and steps

`call` is the method in progress with the orders merged so far.  Each request is
a step; before each, the service may open an account, place or move an order, or
list a closed order in the history, beside or instead of today's list.  The
history is answered in pages (`FirstPages`), of which the code asks for the
first: `cut` is what that leaves out.  A response is mapped as a whole or raises
(a status that has no entry in the map, an account that cannot be decided).
Figures of accounts, positions and orders are left out: each is mapped from one
response and kept nowhere.  Price and timestamp of a quote are stored by one
assignment: `cache` says only which of them there is.

## Runs

TLC explores every behaviour within the bounds, each named in its module
(`MaxOrders`, `MaxArmings`, `MaxRestarts`, `MaxFills`, `MaxTrades`, `MaxRuns`,
`MaxDays`, `MaxCrashes`, `MaxTime`, `MaxGrants`, `MaxClients`, `MaxLogins`,
`Words`).

| Run | Shows |
|---|---|
| `write_orders` | All entry points side by side, flags of the three layers toggled between calls: `AtMostOncePerReference`, `JournalNeverInvents`, `EveryGateOpenAtSend` |
| `write_test` | First-order test mode over a position, with two armings, a restart and administrative closes: `TestOrderWithinCap`, the path implements `OrderPermits` (one order per arming, none without, none twice), and `OversellTakesTwo`: an order asks for more than is held only through another sale that filled behind its back |
| `paper_ledger` | The paper broker called with anything: `FillsOncePerReference`, `ProfitIsCashFlow`, `BooksBalance` |
| `session` | Two runs over two days with up to two candidates each, reductions and exits beside them at a price that doubles and falls back, a crash anywhere: `AllowedMeansFilled`, `SnapshotReconciles`, `HeldIsWatched`, `SnapshotIsBacked`, `RecordedSessionNeverTrades` |
| `stored_session` | Two programs and a login that may be repeated, with and without `--client-id`, over one store: `StoredRefreshIsLive`, `RequestsCarryLiveToken`, `OwnCodeOnly` |
| `login_ends` | The liveness of a login beside one program: `LoginEnds` under `PatientSpec` |
| `read_only` | Two accounts and two orders that move between requests, a page of one order: `AccountIsJustified`, `OnlyPagingLosesOrders`, `OrdersAreObserved` |
| `oversell` (violated) | Two sales sized by one position are open side by side and ask for more than is held: broker/moomoo_paper.py:582, broker/gateway.py:539 |
| `audit_gap` (violated) | An order whose answer is lost is in no audit trail: broker/moomoo_paper.py:328 |
| `limits` (violated) | Seven purchases in one run against six positions and three trades a week, of which not even one holds: risk/validator.py:16, 17 |
| `run_raises` (violated) | A purchase is never logged when a later quote raises: routines/market-open.md:22 |
| `login_hangs` (violated) | A silent connection keeps a login from ending after its time limit: auth/moomoo_login.py:175 |

Each violated run states what a line of the documentation says, on an instance
where the code does otherwise; the trace is short and can be followed in the
source.  The limits of rules 7 and 8 fail because all candidates of a run are
judged by the facts gathered before the first; the trade limit fails across a
restart as well, because the trades of the week are counted in a list that ends
with the process.  Selling more than is held takes two sales: the code never
asks whether another is open (`oversell`), and `OversellTakesTwo` says that this
is the only way.

Why the bounds are enough.  Two orders are what it takes for one to be sent
again or to compete for the same shares, and a third adds no new pair; two
armings and one restart let a permission be granted, used and granted again.
Prices 4 and 6 change the whole shares an amount buys and both pass the
deviation check for a reference of 5.  Five fills of the ledger reach buy, add,
reduce, close and buy again.  Two runs and two days reach a run recorded,
refused, forced and run again the next day, with a crash between any two
appends; three fills a purchase, a part of it sold at twice its price, and the
rest or a second purchase.  The limits are the code's own, six positions and
three trades in seven days. An account of 300 dollars is the size the project
trades, at the code's own percentages.

Three grants are what a login and two refreshes that race for it take; a second
login finds an answer of the first in the browser.  One client that no login
registered is enough for tokens and registration to be of different clients.
The liveness of the login is a run of its own, with one program and no symmetry.
`Skew = 2`, `Delay = 1`, `Lifetime = 3` keep the proportions that matter: the
code's 30 seconds of skew are more than twice its 10 second time limit
(`ClientAssumption` asks for no more, and `RequestsCarryLiveToken` fails with
less; urllib's limit is one for each wait on the socket, and the model takes it
for one on the whole request), and a fresh token can be used for an instant
before it needs a refresh.  The clock ends at 3, past which no token of the
first instants is alive.  Two orders of two accounts make the lists of one
account differ from what is listed, and two of one account fill two pages of
one; `Words` leaves out the filled and rejected words, which the map treats as
`cancelled` and `part` are, closed and known, and keeps one that the map does
not know.  Accounts, orders and programs are symmetric: no property or action
names one.

Deadlock is checked in the write path, the ledger and the read-only broker,
where something can always happen.  The daily runs and the stored session say
`CHECK_DEADLOCK FALSE`: a caller with no runs or days left, and a store that
nobody uses any more, simply stop.

## Fairness

Each call of the trading code is made by a person or an external scheduler, so
nothing is assumed of it and no liveness is claimed for it.  The login is the
one part with a time limit of its own.  `FairSpec` states weak fairness of each
login's main thread (`MainThread`), started by the user: it is a running
thread, each of its requests ends by the transport's time limit, and
`event.wait` has one.  The user need never answer (no fairness of `User` or
`HandlesCallback`), the programs need never run, and the clock need not move.
Under `FairSpec` a login may hang (`login_hangs`); `PatientSpec` adds that a
browser does not keep a silent connection open for ever (`SilenceEnds`), an
assumption on the environment, under which `LoginEnds` holds.

## Proofs

`WritePathProofs`:

- `TypeCorrect`: `Spec => []TypeOK`.  The inductive invariant is `TInv`,
  `TypeOK` with `CallOK`, which says what a call carries at each `pc` (an order
  is built only from a quote that was read, an administrative close only enters
  at the broker, and room for the next order is left).
- `AtMostOnce`: `Spec => []AtMostOncePerReference`, for any set of intents, any
  bounds and any mix of entry points.  The property is not inductive: that no
  order carries the reference now being sent is known only because every order
  the controller sent in this lifetime has its reference in one of the two sets
  of processed references, or belongs to a call that has just raised and is
  about to be marked by the controller (`SentAreRemembered`), and because the
  reference of the call at work was in neither set when its layers looked and
  nothing has put it there since (`Fresh`).
- `GatesOpenAtSend`: `EveryGateOpenAtSend`.  `Gates` says that each gate a call
  has passed is still open while the call is at work.
- `TestOrderCapped`: `TestOrderWithinCap`.  The controller compared the amount
  with the cap, and the whole shares an amount buys at any quote cost no more
  than the amount (`WholeShares`), so the two quotes may differ.
- `JournalIsTrue`: `JournalNeverInvents`.  A fill, a rejection and a
  cancellation are never taken back by the account (`Lasts`), and the journal
  has no entry under the number of an order that is yet to be accepted
  (`JournalKnowsSent`), in this lifetime or after a restart.
- `OversellTraced`: `OversellTakesTwo`, for any caller.  The orders open when
  the position was read are kept with the order (`rivals`, a history field).
  The invariant `WInv` says what that reading is worth later: between read and
  POST, and while the order is open, the position is at least what it asks for,
  unless a sale of the ticker that was open at the read or was sent after it has
  filled (`RivalsListed`, `RivalsRead`, `SaleFits`).  Each other step of the
  account leaves that as it is (`ClosingKeepsCover`, `FillKeepsCover`).
- `ControllerImplementsPermits`: `Spec => ImplementsPermits`, the refinement of
  `OrderPermits`.  A sent order is a `Place`, arming a `Grant`, any disarming a
  `Revoke`, a restart a `Forget`, everything else a stutter.  Besides the
  invariants above it needs `PermitInv`: in test mode no order carries the
  present arming until the call that uses it has sent one, and the controller is
  disarmed before the next call.

`PaperLedgerProofs`, for any intents, prices and starting cash that satisfy
`LedgerAssumption`:

- `LedgerTypeCorrect`: no debt, no short position, no negative cost.
- `ProfitAccountsForCash`: `ProfitIsCashFlow`, and `BooksAlwaysBalance`:
  `BooksBalance`, over all tickers together.
- `OneFillPerReference`: `FillsOncePerReference`, with the strengthening that
  the reference of each fill is in the filled references (`RefsInv`).

The first two and the balance rest on `Books` of `FakePaperBrokerProofs`: the
types, that loaded quotes are valid prices, and the two equations.  The
arithmetic is in lemmas: the cost released by a partial sale is between nothing
and the whole cost (`ShareOfCost`), an amount divides into whole units
(`ExactUnits`), and every fill moves money, units, cost and gain in a way that
keeps both equations (`MoneyMoves`, `BuyMoves`, `SaleMoves`, `MoveKeepsBooks`).
The sum over the tickers is the fold of the community modules.  The library's
induction theorems cannot be instantiated here, so `SumProofs` proves what the
fold computes from the well-foundedness of the subset order (`SubsetInduction`):
a sum takes out any member, agrees for equal terms, and changes by the
difference of the one term that changes.

`StoredSessionProofs`, for any number of programs, logins, grants and instants:

- `StoredSessionTypeCorrect`: `TypeOK`, of which it is part that no refresh is
  asked for without a refresh token.
- `RefreshNeverDropped`: `StoredRefreshIsLive`.  Its strengthening is that a
  grant in hand is known to nobody else (`AnswerIsUnknown`), so that nobody can
  use it up before it is saved, and that its refresh token is live
  (`AnswerIsGood`).  The property excepts a grant whose response was lost:
  nothing in the code could bring that one back, and only a new login does.
- `LiveTokenCarried`: `RequestsCarryLiveToken`.  The stored expiry is late by at
  most one request (`StoreInTime`), a request ends in time (`InTime`), and the
  skew covers both (`UseInTime`).
- `OwnCodeExchanged`: `OwnCodeOnly`.  After the listener is down nothing writes
  the result any more (`IsSure`), which is what makes the state that was
  verified and the code that is sent those of one callback.

The proof first reduces every step to one of five kinds (`NextShape`): nothing
happens to tokens, a call goes on and loses what it had in hand, a grant is
issued, a grant is saved, time passes.  Each conjunct of the invariant is then
shown for the kinds and not for thirty actions.

`ReadOnlyProofs`, for any number of accounts, orders and tickers and any page
size: `TypeOK`, `AccountIsJustified`, and the two about `get_orders`.
`OrdersLostByPagingOnly` rests on `NothingLost`: after the first request each
order that was listed has been merged or is in the history already, which it
does not leave.  `OrderListObserved` rests on `MergedWasSeen` and on
`HistoryWins`: what the history shows is closed, and a closed order does not
move.

`DailySessionProofs`, for any proposals, prices, limits and percentages, and any
number of runs, days and process ends.  The inductive invariant is `SInv`: the
books (`Books`), the trade log of this lifetime (`TradesTyped`), that the ticker
under evaluation has a quote (`CallFits`), whose evaluation it is (`CallIsOf`),
and

- for `AllowedIsExecuted` (`AllowedMeansFilled`): nothing more.
  `AllowedIsFillable` shows that whatever passes `ControllerAllows` is
  `Fillable`, from the shape of the intents that `CreatesIntent` lets exist: a
  purchase has a positive amount of at most the cash, a REDUCE is worth no more
  than the position at the quote and so takes no more units than there are.
- for `SnapshotsReconcile` (`SnapshotReconciles`): `StartKnown`, the starting
  equity is the starting cash whenever it is established, because nothing was
  traded before, or only a purchase, which is worth what was paid for it; and
  `GainsLogged`, the trade log holds exactly the gains that the paper broker has
  reported. With the balance of the books, the total is then the realized and
  the unrealized profit.
- for `PositionsAreWatched` (`HeldIsWatched`): `Watched`, each filled purchase
  on record has a stop and a sector, and each position a filled purchase.

`DailyFilesProofs`:

- `DailyTypeCorrect` (`TypeOK`), `SnapshotsAreBacked` (`SnapshotIsBacked`) and
  `RecordedSessionsAreOver` (the action property `RecordedSessionNeverTrades`)
  rest on `FilesInv`: what persist_logs has appended so far is known from
  `phase`, and a run that is not forced works on a session that no snapshot
  names.

Assumptions are the named ASSUMEs of the modules: ranges of the constants; for
the ledger and the session, that every price divides every amount
(`LedgerAssumption`, `ProposalsAssumption`), which is how the model takes the
code's decimals for exact; that there are finitely many tickers
(`TickersAssumption`). TLC evaluates them in the runs above.  No theorem has a
hypothesis on how the program is used.

Only model-checked: `LoginEnds`, as liveness under fairness is beyond the
provers, and the violated runs.  Every invariant and action property of
a passing run is a theorem.

## Not modelled

- `FakePaperBroker.close_position` called beside a session (the paper ledger has
  it): its gain is in no trade log, and `SnapshotReconciles` would not hold.
- Properties the code does not have, and that no run states; the hazards name
  them. Every REDUCE and EXIT that the runner evaluates is refused, the
  mechanical stops included, because `_account_kwargs` never says that a
  position is held (`EvaluatesNext`; models/trade_proposal.py:355 says a
  position is all an EXIT needs). Tokens and stored registration may be of
  different clients, after a login with `--client-id` or two first logins at
  once, and each refresh is then refused.  The order list ends with the first
  page of the history, as broker/MOOMOO_API_CONTRACT.md:123 says.
- An endpoint that sometimes rotates and sometimes does not, and the moments
  within a store operation; a stored value that cannot be read counts as none.
  `TokenStorage.clear` is called by nothing.
- What a refused refresh means to the user: when another process has rotated the
  token, `refresh_access_token` raises although a usable token has been stored
  meanwhile, and the next call uses it.
- In `moomoo_readonly.py`: the figures of cash, positions and orders, daily
  change and market state, which are read and kept nowhere.
- `http_transport.py`: pure I/O.  Its time limit bounds `Tick`, and its failures
  are modelled where they arrive: reads that raise, answers that are lost.
- `base.py`: abstract methods and record types.  `moomoo_smoke_test.py`: a
  manual, read-only script, of which only the life of the process is modelled.
- Statistics of the session (excursions, win rate, drawdown, benchmark), and the
  wording of logs and reasons.
- Hazards without a property are listed with their reason in `PROJECT.json`:
  among them that exposure limits use the last quote known to the account, that
  the broker's order history is never refreshed after an order settled, and that
  a REJECTED answer may belong to an order that was sent.

## Plan

1. Write path: done; all properties of its runs and the refinement are theorems.
2. Ledger: done, likewise.
3. Risk engine, session and runner: done; their passing properties are theorems.
   Next, an abstract specification of the account over days (what a recorded
   session is, what a run may add), which the runner with its files implements
   across restarts.
4. Stored session: done but for liveness.  Next, an abstract specification of a
   session that stays usable between lost answers.
5. Read-only broker: done, four theorems.
6. Liveness of a run of the daily session, if it is ever given a schedule.

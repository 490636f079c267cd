---------------------------- MODULE DailySession ----------------------------
(***************************************************************************)
(* runner/daily_session.py: one run() per session id, the caller's direct  *)
(* use of the session beside it, persist_logs(), and the end of the        *)
(* process at any point.  Brokers and session live in memory and are lost  *)
(* with the process; the memory/*.md files are all that lasts.             *)
(*                                                                         *)
(* A run whose startup check fails, or that finds its session recorded,    *)
(* touches nothing, so only the others are steps.  The session id is the   *)
(* date, run()'s default.                                                  *)
(***************************************************************************)
EXTENDS RealDataPaperSession

CONSTANTS
    CandidateLists,  \* what candidate_proposals may be
    ReviewLists,     \* what position_review_proposals may be
    DirectProposals, \* what the caller may pass to evaluate_and_submit itself
    Tracking,        \* the caller uses update_open_trade_tracking
    Reruns,          \* the values force_rerun may have
    MaxRuns,         \* BOUND: runs
    MaxDays,         \* BOUND: days
    MaxCrashes       \* BOUND: process ends

ASSUME RunnerAssumption ==
    /\ Reruns \subseteq BOOLEAN /\ Tracking \in BOOLEAN
    /\ MaxRuns \in Nat /\ MaxDays \in Nat /\ MaxCrashes \in Nat

\* What the runner and the session are given to evaluate.
Proposals == DirectProposals \cup UNION {Range(l) : l \in CandidateLists \cup ReviewLists}

\* As in LedgerAssumption, every price divides every amount.
ASSUME ProposalsAssumption ==
    /\ CandidateLists \cup ReviewLists \subseteq Seq(Proposals)
    /\ \A p \in Proposals :
          /\ p.ticker \in Tickers /\ p.sector \in STRING
          /\ p.stop \in Nat /\ p.dollars \in Nat
          /\ \A q \in Prices : p.dollars % q = 0

VARIABLES
    phase,     \* idle, candidates, reviews, finished, raised, or what
               \* persist_logs wrote last: research, trade_log, snapshots
    forced,    \* force_rerun
    todo,      \* the proposals still to be evaluated in this phase
    reviews,   \* position_review_proposals
    facts,     \* account_state, gathered once per run
    outcomes,  \* the CandidateOutcomes so far: [proposal, stage]
    snapshot,  \* daily_snapshot() of the finished run
    runs,      \* history: runs so far
    crashes,   \* history: process ends so far
    sid,       \* session_id
    research,  \* RESEARCH-LOG.md: the runs that have an entry
    tradeLog,  \* TRADE-LOG.md: entries of each run
    snapshots  \* DAILY-SNAPSHOTS.md: [sid, run, entries]

runVars == <<forced, todo, reviews, facts, outcomes, snapshot, sid>>
diskVars == <<research, tradeLog, snapshots>>
vars == <<ledgerVars, sessionVars, day, phase, runVars, runs, crashes, diskVars>>

NoFacts == [equity |-> 0]
NoSnapshot == [total |-> 0, realized |-> 0, unrealized |-> 0]

NoRun ==
    /\ phase = "idle" /\ forced = FALSE /\ todo = <<>> /\ reviews = <<>>
    /\ facts = NoFacts /\ outcomes = <<>> /\ snapshot = NoSnapshot /\ sid = 0

Init ==
    /\ SessionInit
    /\ NoRun
    /\ day = 1 /\ runs = 0 /\ crashes = 0
    /\ research = {} /\ tradeLog = [r \in 1..MaxRuns |-> 0] /\ snapshots = {}

Running == phase \in {"candidates", "reviews"}

\* No run() and no persist_logs() is in progress.
AtRest == phase \in {"idle", "finished", "raised", "snapshots"} /\ call = NoCall

-----------------------------------------------------------------------------

\* Mutant: a session counts as recorded when the trade log has entries of it.
MutSessionAlreadyRecorded(s) ==
    \E m \in snapshots : m.sid = s /\ tradeLog[m.run] > 0

\* _session_already_recorded, on the text that the startup check just read.
SessionAlreadyRecorded(s) == \E m \in snapshots : m.sid = s

\* run(), down to the first candidate.
StartsRun ==
    /\ AtRest
    /\ runs < MaxRuns
    /\ forced' \in Reruns
    /\ ~forced' => ~SessionAlreadyRecorded(day)
    /\ runs' = runs + 1
    /\ sid' = day
    /\ facts' = AccountState
    /\ todo' \in CandidateLists
    /\ reviews' \in ReviewLists
    /\ outcomes' = <<>>
    /\ snapshot' = NoSnapshot
    /\ phase' = "candidates"
    /\ UNCHANGED <<ledgerVars, sessionVars, day, crashes, diskVars>>

Outcome(p, stage) == [proposal |-> p, stage |-> stage]

\* The evaluation of Head(todo) is over.
Moves(stage) ==
    /\ outcomes' = Append(outcomes, Outcome(Head(todo), stage))
    /\ todo' = Tail(todo)
    /\ UNCHANGED <<forced, reviews, facts, snapshot, sid, phase>>

\* _evaluate_one up to the quote.  It never claims to hold a position:
\* _account_kwargs has no has_existing_position.
EvaluatesNext ==
    /\ Running /\ todo # <<>>
    /\ LET p == Head(todo)
       IN  QuoteArrives(p, AccountKwargs(facts, p), FALSE, "runner")
    /\ UNCHANGED <<day, phase, runVars, runs, crashes, diskVars>>

\* RealQuoteUnavailableError: the quote came without a timestamp.
QuoteUnavailable ==
    /\ Running /\ todo # <<>> /\ call = NoCall
    /\ Moves("quote_unavailable")
    /\ UNCHANGED <<ledgerVars, sessionVars, day, runs, crashes, diskVars>>

\* get_quote raises any other MoomooBrokerError: run() ends in an exception,
\* its outcomes are lost (they stay in the model to be compared with).
QuoteRaises ==
    /\ Running /\ todo # <<>> /\ call = NoCall
    /\ phase' = "raised"
    /\ todo' = <<>>
    /\ UNCHANGED <<ledgerVars, sessionVars, day, forced, reviews, facts, outcomes,
                   snapshot, sid, runs, crashes, diskVars>>

\* The session's steps end the evaluation for whoever asked for it.
EvaluationEnds ==
    /\ \/ RefusesProposal /\ (call.by = "runner" => Moves("schema_or_risk_rejected"))
       \/ BlocksIntent /\ (call.by = "runner" => Moves("gateway_or_controller_rejected"))
       \/ ExecutesIntent /\ (call.by = "runner" => Moves("executed"))
    /\ call.by # "runner" => UNCHANGED <<phase, runVars>>
    /\ UNCHANGED <<day, runs, crashes, diskVars>>

\* build_mechanical_exit_proposal
MechanicalExit(t, now) ==
    [id |-> <<"stop", t, now, runs>>, ticker |-> t, action |-> "EXIT", dollars |-> 0,
     entry |-> now, stop |-> (9 * now) \div 10, target |-> (11 * now) \div 10,
     score |-> 100, allocation |-> 0, sector |-> SectorForTicker(t),
     averaging |-> FALSE, stock |-> TRUE, complete |-> FALSE]

\* check_mechanical_stops: each held ticker's quote is read (or cannot be),
\* and an EXIT is built for each that is at its stop or below.
ChecksStops ==
    /\ phase = "candidates" /\ todo = <<>>
    /\ \E now \in [Held -> Prices \cup {NoQuote}] :
          LET hit == {t \in Held : /\ now[t] # NoQuote
                                   /\ StopForTicker(t) # NoStop
                                   /\ now[t] <= StopForTicker(t)}
          IN  todo' = SetToSeq({MechanicalExit(t, now[t]) : t \in hit}) \o reviews
    /\ phase' = "reviews"
    /\ UNCHANGED <<ledgerVars, sessionVars, day, forced, reviews, facts, outcomes,
                   snapshot, sid, runs, crashes, diskVars>>

\* daily_snapshot() and the rest of run(): it returns its result.
FinishesRun ==
    /\ phase = "reviews" /\ todo = <<>>
    /\ startEquity' = IF startEquity = NoEquity THEN Equity ELSE startEquity
    /\ snapshot' = [total |-> Equity - startEquity', realized |-> RealizedPnl,
                    unrealized |-> UnrealizedPnl]
    /\ phase' = "finished"
    /\ UNCHANGED <<ledgerVars, processed, trades, call, day, forced, todo, reviews,
                   facts, outcomes, sid, runs, crashes, diskVars>>

-----------------------------------------------------------------------------
\* persist_logs: one append after the other.

\* Mutant: the snapshot is appended before the trade log.
MutAppendedAfter ==
    [finished |-> "research", research |-> "snapshots",
     snapshots |-> "trade_log", trade_log |-> "none"]

\* The file whose append follows the one that phase names.
AppendedAfter ==
    [finished |-> "research", research |-> "trade_log",
     trade_log |-> "snapshots", snapshots |-> "none"]

MayAppend(file) ==
    /\ call = NoCall
    /\ phase \in DOMAIN AppendedAfter
    /\ AppendedAfter[phase] = file
    /\ UNCHANGED <<ledgerVars, sessionVars, day, runVars, runs, crashes>>

AppendsResearch ==
    /\ MayAppend("research")
    /\ research' = research \cup {runs}
    /\ phase' = "research"
    /\ UNCHANGED <<tradeLog, snapshots>>

\* An entry per outcome, executed or not.
AppendsTrade ==
    /\ MayAppend("trade_log")
    /\ IF tradeLog[runs] < Len(outcomes)
       THEN /\ tradeLog' = [tradeLog EXCEPT ![runs] = @ + 1]
            /\ phase' = phase
       ELSE phase' = "trade_log" /\ UNCHANGED tradeLog
    /\ UNCHANGED <<research, snapshots>>

\* The snapshot carries the heading that marks the session as recorded, and
\* the number of outcomes.
AppendsSnapshot ==
    /\ MayAppend("snapshots")
    /\ snapshots' = snapshots \cup {[sid |-> sid, run |-> runs, entries |-> Len(outcomes)]}
    /\ phase' = "snapshots"
    /\ UNCHANGED <<research, tradeLog>>

-----------------------------------------------------------------------------

\* The caller uses the session itself, and claims to hold a position.
DirectEvaluation ==
    /\ AtRest
    /\ \E p \in DirectProposals :
          QuoteArrives(p, AccountKwargs(AccountState, p), TRUE, "caller")
    /\ UNCHANGED <<day, phase, runVars, runs, crashes, diskVars>>

\* The caller has the session refresh the quotes of what is held.
DirectTracking ==
    /\ AtRest /\ Tracking
    /\ RefreshesHeld
    /\ UNCHANGED <<day, phase, runVars, runs, crashes, diskVars>>

\* The process ends and a new one starts.
Restart ==
    /\ crashes < MaxCrashes
    /\ crashes' = crashes + 1
    /\ SessionRestarts
    /\ phase' = "idle" /\ forced' = FALSE /\ todo' = <<>> /\ reviews' = <<>>
    /\ facts' = NoFacts /\ outcomes' = <<>> /\ snapshot' = NoSnapshot /\ sid' = 0
    /\ UNCHANGED <<day, runs, diskVars>>

NextDay ==
    /\ AtRest
    /\ day < MaxDays
    /\ day' = day + 1
    /\ UNCHANGED <<ledgerVars, sessionVars, phase, runVars, runs, crashes, diskVars>>

RunStep ==
    \/ StartsRun \/ EvaluatesNext \/ QuoteUnavailable \/ QuoteRaises
    \/ EvaluationEnds \/ ChecksStops \/ FinishesRun

PersistStep == AppendsResearch \/ AppendsTrade \/ AppendsSnapshot

Next == RunStep \/ PersistStep \/ DirectEvaluation \/ DirectTracking \/ Restart \/ NextDay

Spec == Init /\ [][Next]_vars
=============================================================================

-------------------------- MODULE DailyFilesProofs --------------------------
(***************************************************************************)
(* The files that outlive the process: what a recorded session is backed   *)
(* by, and what it blocks.                                                 *)
(***************************************************************************)
EXTENDS DailySessionProofs

Stages == {"quote_unavailable", "schema_or_risk_rejected",
           "gateway_or_controller_rejected", "executed"}

OutcomesTyped == outcomes \in Seq([proposal: Given, stage: Stages])

\* The steps of a run and of its persist_logs.
Working == {"candidates", "reviews", "finished", "research", "trade_log"}

\* The files know of past runs, and of the one that is being recorded as much
\* as persist_logs has written.
FilesInv ==
    /\ OutcomesTyped
    /\ sid \in 0..day
    /\ phase \in Working => runs # 0 /\ sid # 0
    /\ research \subseteq 1..runs
    /\ tradeLog \in [1..MaxRuns -> Nat]
    /\ snapshots \subseteq [sid: 1..day, run: 1..runs, entries: Nat]
    /\ phase \in {"research", "trade_log"} => runs \in research
    /\ phase = "trade_log" => tradeLog[runs] >= Len(outcomes)
    /\ SnapshotIsBacked
    /\ Running => forced \/ \A m \in snapshots : m.sid # sid

-----------------------------------------------------------------------------
\* The files

LEMMA FilesInit == ASSUME Init PROVE FilesInv
BY RunnerAssumption DEF Init, NoRun, FilesInv, OutcomesTyped, Working, SnapshotIsBacked, Running

\* The files and what they are compared with are as they were.
LEMMA FilesKept ==
    ASSUME FilesInv, UNCHANGED <<diskVars, outcomes, sid, runs, forced>>,
           day \in Nat, day' \in Nat, day <= day',
           \/ phase' \in {phase, "raised"}
           \/ phase = "candidates" /\ phase' = "reviews"
           \/ phase = "reviews" /\ phase' = "finished"
    PROVE  FilesInv'
<1> USE DEF FilesInv, diskVars
<1>1. OutcomesTyped' /\ sid' \in 0..day'
  BY DEF OutcomesTyped
<1>2. phase' \in Working => runs' # 0 /\ sid' # 0
  BY DEF Working
<1>3. research' \subseteq 1..runs' /\ tradeLog' \in [1..MaxRuns -> Nat]
  OBVIOUS
<1>4. snapshots' \subseteq [sid: 1..day', run: 1..runs', entries: Nat]
  <2>1. 1..day \subseteq 1..day'
    OBVIOUS
  <2> QED BY <2>1
<1>5. /\ phase' \in {"research", "trade_log"} => runs' \in research'
      /\ phase' = "trade_log" => tradeLog'[runs'] >= Len(outcomes')
  OBVIOUS
<1>6. SnapshotIsBacked'
  BY DEF SnapshotIsBacked
<1>7. Running' => forced' \/ \A m \in snapshots' : m.sid # sid'
  BY DEF Running
<1> QED BY <1>1, <1>2, <1>3, <1>4, <1>5, <1>6, <1>7

LEMMA FilesMove ==
    ASSUME FilesInv, RunTyped, Books, Running, todo # <<>>,
           NEW stage \in Stages, Moves(stage), UNCHANGED <<diskVars, day, runs>>
    PROVE  FilesInv'
<1>1. Outcome(Head(todo), stage) \in [proposal: Given, stage: Stages]
  BY TailTyped DEF RunTyped, Outcome
<1>2. OutcomesTyped'
  BY <1>1 DEF FilesInv, OutcomesTyped, Moves
<1>3. phase \notin {"research", "trade_log"} /\ phase' = phase
  BY DEF Running, Moves
<1> QED BY <1>2, <1>3 DEF FilesInv, diskVars, Moves, SnapshotIsBacked, Running, Working

LEMMA FilesNext ==
    ASSUME SInv, FilesInv, [Next]_vars
    PROVE  FilesInv'
<1>1. /\ day \in Nat \ {0} /\ runs \in 0..MaxRuns /\ MaxRuns \in Nat /\ RunTyped /\ Books
  BY RunnerAssumption DEF SInv, SessionInv, RunTyped
<1>2. CASE StartsRun
  <2>1. /\ outcomes' = <<>> /\ sid' = day /\ runs' = runs + 1 /\ phase' = "candidates"
        /\ UNCHANGED <<day, diskVars>>
        /\ ~forced' => ~SessionAlreadyRecorded(day)
        /\ forced' \in BOOLEAN
    BY <1>2, RunnerAssumption DEF StartsRun
  <2>2. OutcomesTyped' /\ sid' \in 0..day' /\ runs' # 0 /\ sid' # 0
    BY <1>1, <2>1 DEF OutcomesTyped
  <2>3. 1..runs \subseteq 1..runs'
    BY <1>1, <2>1
  <2>4. /\ research' \subseteq 1..runs' /\ tradeLog' \in [1..MaxRuns -> Nat]
        /\ snapshots' \subseteq [sid: 1..day', run: 1..runs', entries: Nat]
    BY <2>1, <2>3 DEF FilesInv, diskVars
  <2>5. forced' \/ \A m \in snapshots' : m.sid # sid'
    BY <2>1 DEF SessionAlreadyRecorded, diskVars
  <2>6. SnapshotIsBacked'
    BY <2>1 DEF FilesInv, SnapshotIsBacked, diskVars
  <2> QED BY <2>1, <2>2, <2>4, <2>5, <2>6 DEF FilesInv
<1>3. CASE EvaluatesNext \/ DirectEvaluation \/ DirectTracking
  <2>1. UNCHANGED <<diskVars, outcomes, sid, runs, forced, day, phase>>
    BY <1>3 DEF EvaluatesNext, DirectEvaluation, DirectTracking, runVars
  <2>2. day \in Nat /\ day' \in Nat /\ day <= day'
    BY <1>1, <2>1
  <2> QED BY <2>1, <2>2, FilesKept
<1>4. CASE QuoteUnavailable
  BY <1>1, <1>4, FilesMove DEF QuoteUnavailable, Stages
<1>5. CASE QuoteRaises
  BY <1>1, <1>5, FilesKept DEF QuoteRaises
<1>6. CASE EvaluationEnds
  <2>1. UNCHANGED <<day, runs, diskVars>> /\ call # NoCall
    BY <1>6 DEF EvaluationEnds, RefusesProposal, BlocksIntent, ExecutesIntent
  <2>2. CASE call.by = "runner"
    <3>1. Running /\ todo # <<>>
      BY <2>1, <2>2 DEF SInv, CallIsOf
    <3>2. PICK stage \in Stages : Moves(stage)
      BY <1>6, <2>2 DEF EvaluationEnds, Stages
    <3> QED BY <1>1, <2>1, <3>1, <3>2, FilesMove
  <2>3. CASE call.by # "runner"
    BY <1>1, <1>6, <2>1, <2>3, FilesKept DEF EvaluationEnds, runVars
  <2> QED BY <2>2, <2>3
<1>7. CASE ChecksStops
  BY <1>1, <1>7, FilesKept DEF ChecksStops
<1>8. CASE FinishesRun
  BY <1>1, <1>8, FilesKept DEF FinishesRun
<1>9. CASE AppendsResearch
  <2>1. /\ phase = "finished" /\ phase' = "research" /\ research' = research \cup {runs}
        /\ UNCHANGED <<day, outcomes, sid, forced, runs, tradeLog, snapshots>>
    BY <1>9 DEF AppendsResearch, MayAppend, AppendedAfter, runVars
  <2>2. runs \in 1..runs /\ sid # 0
    BY <1>1, <2>1 DEF FilesInv, Working
  <2>3. SnapshotIsBacked'
    BY <2>1 DEF FilesInv, SnapshotIsBacked
  <2> QED BY <2>1, <2>2, <2>3 DEF FilesInv, OutcomesTyped, Working, Running
<1>10. CASE AppendsTrade
  <2>1. /\ phase = "research" /\ phase' \in {"research", "trade_log"}
        /\ UNCHANGED <<day, outcomes, sid, forced, runs, research, snapshots>>
        /\ \/ tradeLog' = [tradeLog EXCEPT ![runs] = @ + 1] /\ phase' = phase
           \/ tradeLog' = tradeLog /\ ~(tradeLog[runs] < Len(outcomes))
    BY <1>10 DEF AppendsTrade, MayAppend, AppendedAfter, runVars
  <2>2. /\ runs \in 1..MaxRuns /\ sid # 0 /\ runs \in research /\ tradeLog[runs] \in Nat
        /\ tradeLog \in [1..MaxRuns -> Nat] /\ runs # 0
    BY <1>1, <2>1 DEF FilesInv, Working
  <2>3. /\ tradeLog' \in [1..MaxRuns -> Nat]
        /\ \A r \in 1..MaxRuns : tradeLog'[r] >= tradeLog[r]
    <3>1. \A r \in 1..MaxRuns : tradeLog[r] \in Nat /\ tradeLog[r] >= tradeLog[r]
      BY <2>2
    <3>2. CASE tradeLog' = tradeLog
      BY <2>2, <3>1, <3>2
    <3>3. CASE tradeLog' = [tradeLog EXCEPT ![runs] = @ + 1]
      <4> DEFINE v == tradeLog[runs] + 1
      <4>1. v \in Nat /\ v >= tradeLog[runs] /\ tradeLog' = [tradeLog EXCEPT ![runs] = v]
        BY <2>2, <3>3
      <4> HIDE DEF v
      <4>2. \A r \in 1..MaxRuns : tradeLog'[r] = IF r = runs THEN v ELSE tradeLog[r]
        BY <2>2, <4>1
      <4> QED BY <2>2, <3>1, <4>1, <4>2
    <3> QED BY <2>1, <3>2, <3>3
  <2>4. Len(outcomes) \in Nat
    BY DEF FilesInv, OutcomesTyped
  <2>5. phase' = "trade_log" => tradeLog'[runs'] >= Len(outcomes')
    BY <2>1, <2>2, <2>4
  <2>6. SnapshotIsBacked'
    <3> SUFFICES ASSUME NEW m \in snapshots
                 PROVE  m.run \in research /\ tradeLog'[m.run] >= m.entries
      BY <2>1 DEF SnapshotIsBacked
    <3>1. m.run \in research /\ tradeLog[m.run] >= m.entries
      BY DEF FilesInv, SnapshotIsBacked
    <3>2. m.run \in 1..MaxRuns /\ m.entries \in Nat
      BY <1>1 DEF FilesInv
    <3>3. tradeLog[m.run] \in Nat /\ tradeLog'[m.run] \in Nat
          /\ tradeLog'[m.run] >= tradeLog[m.run]
      BY <2>2, <2>3, <3>2
    <3> QED BY <3>1, <3>2, <3>3
  <2> QED BY <2>1, <2>2, <2>3, <2>5, <2>6 DEF FilesInv, OutcomesTyped, Working, Running
<1>11. CASE AppendsSnapshot
  <2> DEFINE new == [sid |-> sid, run |-> runs, entries |-> Len(outcomes)]
  <2>1. /\ phase = "trade_log" /\ phase' = "snapshots"
        /\ UNCHANGED <<day, outcomes, sid, forced, runs, research, tradeLog>>
        /\ snapshots' = snapshots \cup {new}
    BY <1>11 DEF AppendsSnapshot, MayAppend, AppendedAfter, runVars
  <2>2. /\ runs # 0 /\ sid # 0 /\ sid \in 0..day /\ runs \in research
        /\ tradeLog[runs] >= Len(outcomes)
    BY <2>1 DEF FilesInv, Working
  <2>3. Len(outcomes) \in Nat
    BY DEF FilesInv, OutcomesTyped
  <2>4. new \in [sid: 1..day, run: 1..runs, entries: Nat]
    BY <1>1, <2>2, <2>3
  <2>5. SnapshotIsBacked'
    BY <2>1, <2>2 DEF FilesInv, SnapshotIsBacked
  <2> HIDE DEF new
  <2> QED BY <2>1, <2>4, <2>5 DEF FilesInv, OutcomesTyped, Working, Running
<1>12. CASE Restart
  <2>1. /\ UNCHANGED <<day, runs, diskVars>> /\ phase' = "idle" /\ outcomes' = <<>>
        /\ sid' = 0
    BY <1>12 DEF Restart
  <2>2. SnapshotIsBacked'
    BY <2>1 DEF FilesInv, SnapshotIsBacked, diskVars
  <2> QED BY <1>1, <2>1, <2>2 DEF FilesInv, OutcomesTyped, Working, Running, diskVars
<1>13. CASE NextDay
  BY <1>1, <1>13, FilesKept DEF NextDay, runVars
<1>14. CASE UNCHANGED vars
  BY <1>1, <1>14, FilesKept DEF vars, runVars
<1> QED BY <1>2, <1>3, <1>4, <1>5, <1>6, <1>7, <1>8, <1>9, <1>10, <1>11, <1>12, <1>13, <1>14
        DEF Next, RunStep, PersistStep

\* The invariant of the memory/*.md files, across process ends.
THEOREM FilesInvariant == Spec => []FilesInv
<1>1. Init => FilesInv
  BY FilesInit
<1>2. SInv /\ FilesInv /\ [Next]_vars => FilesInv'
  BY FilesNext
<1> QED BY <1>1, <1>2, SessionInvariant, PTL DEF Spec

\* A snapshot on disk is backed by its research entry and its trade entries,
\* wherever the process has ended.
THEOREM SnapshotsAreBacked == Spec => []SnapshotIsBacked
<1>1. FilesInv => SnapshotIsBacked
  BY DEF FilesInv
<1> QED BY <1>1, FilesInvariant, PTL

\* No run that is not forced trades for a session that is on record, its own
\* persist_logs and the end of the process notwithstanding.
THEOREM RecordedSessionsAreOver == Spec => RecordedSessionNeverTrades
<1>1. ASSUME SInv, FilesInv, call.by = "runner"
      PROVE  forced \/ \A m \in snapshots : m.sid # sid
  <2>1. call # NoCall
    BY <1>1 DEF NoCall
  <2>2. Running
    BY <1>1, <2>1 DEF SInv, CallIsOf
  <2> QED BY <1>1, <2>2 DEF FilesInv
<1>2. SInv /\ FilesInv =>
        [Len(fills') > Len(fills) /\ call.by = "runner" =>
            forced \/ \A m \in snapshots : m.sid # sid]_vars
  BY <1>1
<1> QED BY <1>2, SessionInvariant, FilesInvariant, PTL DEF RecordedSessionNeverTrades

\* The type invariant of the lifecycle.
THEOREM DailyTypeCorrect == Spec => []TypeOK
<1>1. ASSUME SInv, FilesInv PROVE TypeOK
  <2>1. /\ cash \in Nat /\ units \in [Tickers -> Nat] /\ basis \in [Tickers -> Nat]
        /\ quote \in [Tickers -> Prices \cup {NoQuote}]
    BY <1>1 DEF SInv, SessionInv, Books
  <2> DEFINE R == [ticker: Tickers, action: Actions, sector: STRING, stop: Nat,
                   sent: BOOLEAN, filled: BOOLEAN, day: 1..day, gain: Int]
  <2>2. trades \in Seq(R)
    <3>1. trades \in Seq(Trade) /\ \A k \in DOMAIN trades : trades[k].day <= day
      BY <1>1 DEF SInv, SessionInv, TradesTyped
    <3>2. day \in Nat
      BY <1>1 DEF SInv, RunTyped
    <3>3. ASSUME NEW k \in 1..Len(trades) PROVE trades[k] \in R
      <4>1. trades[k] \in Trade /\ trades[k].day <= day
        BY <3>1
      <4>2. trades[k].day \in 1..day
        BY <3>2, <4>1 DEF Trade
      <4> QED BY <4>1, <4>2 DEF Trade
    <3> HIDE DEF R
    <3> QED BY <3>1, <3>3
  <2>3. startEquity \in Nat \cup {NoEquity}
    BY <1>1, LedgerAssumption DEF SInv, SessionInv, StartKnown
  <2>4. phase \in Phases /\ runs \in 0..MaxRuns
    BY <1>1 DEF SInv, RunTyped
  <2> QED BY <1>1, <2>1, <2>2, <2>3, <2>4 DEF TypeOK, FilesInv, Phases
<1> QED BY <1>1, SessionInvariant, FilesInvariant, PTL
=============================================================================

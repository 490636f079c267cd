----------------------------- MODULE RiskEngine -----------------------------
(***************************************************************************)
(* From a TradeProposal to an ExecutionIntent: the routing of              *)
(* models/trade_proposal.py, the entry rules of risk/validator.py, and     *)
(* execution/intent.py.  Pure operators of a proposal p, of the account    *)
(* facts f the caller passes along, and of its claim to hold a position.   *)
(*                                                                         *)
(* Percentages of equity are compared by cross-multiplication; the code    *)
(* compares floats.  Rules 1 to 6 cannot fail in this pipeline: the mode   *)
(* is PAPER, the side long, margin never used, and the schema admits no    *)
(* instrument but shares.                                                  *)
(***************************************************************************)
EXTENDS Integers

CONSTANTS
    MaxOpenPositions,        \* 6 in the code
    MaxNewTradesPerWeek,     \* 3
    SmallAccountThreshold,   \* 2000 dollars of equity
    SmallAccountHardCapPct,  \* 15
    MaxCompanyExposurePct,   \* 20
    MaxSectorExposurePct,    \* 30
    MinCandidateScore        \* 75

ASSUME LimitsAssumption ==
    {MaxOpenPositions, MaxNewTradesPerWeek, SmallAccountThreshold,
     SmallAccountHardCapPct, MaxCompanyExposurePct, MaxSectorExposurePct,
     MinCandidateScore} \subseteq Nat

\* validate_trade_proposal, and rule 16: every documented field is there, a
\* sector among them, the prices are positive, and the levels form a long
\* position.
ValidTradeProposal(p) ==
    /\ p.complete /\ p.sector # "none"
    /\ 0 < p.stop /\ p.stop < p.entry /\ p.entry < p.target

\* Amount is at most pct percent of the equity; nothing is when there is none.
WithinPct(amount, pct, equity) == equity > 0 /\ 100 * amount <= pct * equity

PositionsAllow(f) == f.positions + 1 <= MaxOpenPositions          \* rule 7
TradesAllow(f) == f.trades + 1 <= MaxNewTradesPerWeek             \* rule 8

SizeAllowed(p, f) ==
    /\ f.equity < SmallAccountThreshold =>
          WithinPct(p.dollars, SmallAccountHardCapPct, f.equity)  \* rule 9
    /\ WithinPct(f.company + p.dollars, MaxCompanyExposurePct, f.equity)
    /\ WithinPct(f.sector + p.dollars, MaxSectorExposurePct, f.equity)
    /\ p.dollars <= f.cash                                        \* rule 14

\* validate_trade, for a valid proposal.
ValidateTrade(p, f) ==
    /\ PositionsAllow(f)
    /\ TradesAllow(f)
    /\ SizeAllowed(p, f)
    /\ p.score >= MinCandidateScore                               \* rule 12
    /\ p.target - p.entry >= 2 * (p.entry - p.stop)               \* rule 13
    /\ ~p.averaging                                               \* rule 17
    /\ p.sector \notin f.blocked                                  \* rule 18

\* _evaluate_reduce: the target allocation is below the exposure of now.
ReduceAllowed(p, f, holds) ==
    /\ holds
    /\ p.allocation * f.equity < 100 * f.company

\* create_execution_intent creates an intent (evaluate_trade_proposal): HOLD
\* and DO_NOTHING never get one.
CreatesIntent(p, f, holds) ==
    \/ p.action \in {"BUY", "ADD"} /\ ValidTradeProposal(p) /\ ValidateTrade(p, f)
    \/ p.action = "REDUCE" /\ ReduceAllowed(p, f, holds)
    \/ p.action = "EXIT" /\ holds

\* _audit_reference hashes the decision.  That of a BUY or ADD quotes the
\* account facts in its risk result, that of a REDUCE or EXIT does not.
AuditReference(p, f) ==
    IF p.action \in {"BUY", "ADD"} THEN <<p.id, f>> ELSE <<p.id>>

\* The ExecutionIntent (_build_result_from_decision); an EXIT has no amount.
IntentOf(p, f) ==
    [ref |-> AuditReference(p, f), ticker |-> p.ticker, action |-> p.action,
     dollars |-> IF p.action = "EXIT" THEN 0 ELSE p.dollars,
     reference |-> p.entry, stock |-> p.stock]
=============================================================================

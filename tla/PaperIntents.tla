---------------------------- MODULE PaperIntents ----------------------------
(***************************************************************************)
(* The ExecutionIntents the write path carries (execution/intent.py), kept *)
(* to the fields that the gateway, the controller and the broker branch on *)
(* once execution.intent.create_execution_intent has let them exist.       *)
(* Every intent it creates has execution_allowed = True, a PAPER mode and  *)
(* one of the four actions, so those fields are not carried.               *)
(***************************************************************************)
EXTENDS Integers

CONSTANTS
    Tickers,    \* the symbols traded
    AuditRefs,  \* the audit references an intent may carry
    Intents,    \* the intents the caller may submit, any number of times each
    NoRef       \* the missing audit reference of an administrative close

ExposureIncreasing == {"BUY", "ADD"}
RiskReducing == {"REDUCE", "EXIT"}
Actions == ExposureIncreasing \cup RiskReducing

\* "dollars" is dollar_amount, "reference" is reference_price, "stock" tells
\* instrument_type "stock" from "fractional_share".
Intent == [ref: AuditRefs, ticker: Tickers, action: Actions, dollars: Nat,
           reference: Nat \ {0}, stock: BOOLEAN]

ASSUME IntentsAssumption ==
    /\ Intents \subseteq Intent
    /\ NoRef \notin AuditRefs

\* broker.moomoo_paper._AdminCloseIntent: an EXIT without an audit reference.
AdminCloseIntent(t) ==
    [ref |-> NoRef, ticker |-> t, action |-> "EXIT", dollars |-> 0,
     reference |-> 1, stock |-> TRUE]

Side(action) == IF action \in ExposureIncreasing THEN "BUY" ELSE "SELL"
=============================================================================

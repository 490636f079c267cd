--------------------------- MODULE BrokerGateway ----------------------------
(***************************************************************************)
(* broker/gateway.py in front of the moomoo broker: validate reads the     *)
(* journal, the quote, the account and the position, one HTTP request per  *)
(* step, and allows or rejects.  It changes nothing but its audit log, and *)
(* any exception of a read is a rejection (fail closed).  The optional     *)
(* expected_cash / expected_position_quantity arguments, which no caller   *)
(* in the repository passes, could only reject more.                       *)
(***************************************************************************)
EXTENDS MoomooPaperBroker

CONSTANT MaxDeviationPct    \* max_reference_price_deviation_pct

ASSUME DeviationAssumption == MaxDeviationPct \in Nat

VARIABLE gwHalted   \* safe_mode, daily_loss_breached or weekly_drawdown_breached

GatewaySteps == {"gw_check", "gw_quote", "gw_account", "gw_position"}

\* validate (or the layer above it) refuses: the broker is never called.
Blocked ==
    /\ pc' = "idle"
    /\ intent' = NoIntent
    /\ quote' = 0
    /\ UNCHANGED <<via, qty, result>>

AlreadyFilled(ref) ==
    \E k \in 1..Len(orders) : orders[k].ref = ref /\ journal[k] = "FILLED"

Deviates(now, reference) ==
    LET gap == IF now >= reference THEN now - reference ELSE reference - now
    IN  100 * gap > MaxDeviationPct * reference

\* The checks of _validate_intent that need no HTTP request.  The intent may
\* be stale, which rejects like a failed check.
ValidatesIntent ==
    /\ pc = "gw_check"
    /\ \/ /\ Exposure => ~gwHalted
          /\ ~AlreadyFilled(intent.ref)
          /\ intent.action # "EXIT" => intent.dollars > 0
          /\ GoTo("gw_quote")
          /\ UNCHANGED <<quote, qty>>
       \/ Blocked
    /\ UNCHANGED <<accountVars, brokerMemory, life, gwHalted>>

\* get_quote, its age, and its distance from the reference price.
ValidatesQuote ==
    /\ pc = "gw_quote"
    /\ \/ /\ ~Deviates(price[intent.ticker], intent.reference)
          /\ quote' = price[intent.ticker]
          /\ GoTo("gw_account")
          /\ UNCHANGED qty
       \/ Blocked
    /\ UNCHANGED <<accountVars, brokerMemory, life, gwHalted>>

\* get_account, and the cash a BUY or ADD needs.
ValidatesCash ==
    /\ pc = "gw_account"
    /\ \/ /\ Exposure => intent.dollars <= cash
          /\ GoTo("gw_position")
          /\ UNCHANGED <<quote, qty>>
       \/ Blocked
    /\ UNCHANGED <<accountVars, brokerMemory, life, gwHalted>>

\* What the position must be for the action; REDUCE compares unrounded
\* shares, dollars / quote.
PositionAllows(position) ==
    CASE intent.action = "BUY"    -> position = 0
      [] intent.action = "REDUCE" -> /\ position > 0
                                     /\ intent.dollars <= position * quote
      [] OTHER                    -> position > 0

\* get_position and the last checks; an allowed intent goes to the next
\* layer: the controller, or the broker itself when the caller used
\* BrokerGateway.submit.
ValidatesPosition ==
    /\ pc = "gw_position"
    /\ \/ /\ PositionAllows(held[intent.ticker])
          /\ GoTo(IF via = "controller" THEN "ctl_quote" ELSE "brk_check")
          /\ quote' = 0
          /\ UNCHANGED qty
       \/ Blocked
    /\ UNCHANGED <<accountVars, brokerMemory, life, gwHalted>>

\* BrokerGateway.submit called without a PaperWriteController.
GatewaySubmits(i) ==
    /\ pc = "idle"
    /\ pc' = "gw_check"
    /\ intent' = i
    /\ via' = "gateway"
    /\ UNCHANGED <<accountVars, quote, qty, result, brokerMemory, life, gwHalted>>
=============================================================================

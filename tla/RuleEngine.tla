----------------------------- MODULE RuleEngine ------------------------------
(***************************************************************************)
(* The deterministic rule engine as a function                              *)
(* (src/src/lib/rule-engine.ts): which of the nine rules a proposal          *)
(* violates, what the engine answers, and what a stand-down writes.          *)
(*                                                                          *)
(* Amounts are abstracted to what the rules compare: a proposed size is one  *)
(* of four classes, the day's P&L is the set of limits it has reached, and   *)
(* the tables the engine only reads are facts that hold or do not.           *)
(***************************************************************************)
EXTENDS Integers, Sequences

RecoveryModes == {"NORMAL", "MORE_CONSERVATIVE_2D", "STAND_DOWN_1W"}

\* under $100; up to half of, up to, and above capital_allocated_usd
Sizes == {"tiny", "half", "full", "over"}
DailyLimits == {"loss", "gain"}

\* Facts read from tables nobody here writes: a proposal inside the cooldown of
\* the trade tempo, exposure above the user's cash, a holding period still
\* running, an unrealized loss past the drawdown protection.
WorldFacts == {"recent", "overexposed", "held", "breached"}

RuleOrder == <<"OPEN_POSITION_EXISTS", "TRADE_FREQUENCY_CAP",
    "CAPITAL_ALLOCATION_EXCEEDED", "AGGREGATE_EXPOSURE_EXCEEDED",
    "INSUFFICIENT_CAPITAL", "DAILY_MAX_LOSS_REACHED", "DAILY_MAX_GAIN_REACHED",
    "HOLDING_PERIOD_NOT_ELAPSED", "MAX_DRAWDOWN_EXCEEDED">>

StanddownRules ==
    {"DAILY_MAX_LOSS_REACHED", "DAILY_MAX_GAIN_REACHED", "MAX_DRAWDOWN_EXCEEDED"}

\* The sizes that fit the allocation, halved under MORE_CONSERVATIVE_2D.
FittingSizes(applied) ==
    IF applied = "MORE_CONSERVATIVE_2D" THEN {"tiny", "half"}
    ELSE {"tiny", "half", "full"}

\* c: exit, exitReason and size of the proposal; applied, the bot's recovery
\* mode; open, whether it has an open position; limits, today's P&L; facts.
Fires(rule, c) ==
    CASE rule = "OPEN_POSITION_EXISTS" -> ~c.exit /\ c.open
      [] rule = "TRADE_FREQUENCY_CAP" -> "recent" \in c.facts
      [] rule = "CAPITAL_ALLOCATION_EXCEEDED" -> c.size \notin FittingSizes(c.applied)
      [] rule = "AGGREGATE_EXPOSURE_EXCEEDED" -> "overexposed" \in c.facts
      [] rule = "INSUFFICIENT_CAPITAL" -> c.size = "tiny"
      [] rule = "DAILY_MAX_LOSS_REACHED" -> ~c.exit /\ "loss" \in c.limits
      [] rule = "DAILY_MAX_GAIN_REACHED" -> ~c.exit /\ "gain" \in c.limits
      [] rule = "HOLDING_PERIOD_NOT_ELAPSED" ->
            c.exit /\ c.exitReason # "STOP_LOSS" /\ c.open /\ "held" \in c.facts
      [] rule = "MAX_DRAWDOWN_EXCEEDED" -> c.exit /\ c.open /\ "breached" \in c.facts

\* The positions of the rules violated: all rules run, in order; nothing short-circuits.
Violations(c) == {i \in DOMAIN RuleOrder : Fires(RuleOrder[i], c)}

\* The stand-down writes happen in the order of the violations, each over the
\* one before, so the last trigger is what remains; "none" without one.
StanddownCause(c) ==
    LET triggers == {i \in Violations(c) : RuleOrder[i] \in StanddownRules}
    IN  IF triggers = {} THEN "none"
        ELSE RuleOrder[CHOOSE last \in triggers : \A i \in triggers : i <= last]
=============================================================================

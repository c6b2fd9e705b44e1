--------------------------- MODULE MCBotLifecycle ----------------------------
(* Instances of BotLifecycle for TLC: the bots of one user. *)
EXTENDS BotLifecycle, FiniteSetsExt

CONSTANTS k1, k2, u1

OneUser == [k \in Bots |-> u1]

\* What guards and properties tell apart, for TLC to compare states by: nothing
\* distinguishes the statuses but ACTIVE and STOOD_DOWN, nor the reasons but the
\* drawdown; the week's end counts while a reset could end the stand-down and as far as
\* it is ahead; and of the last jobs only whether they were today.
StatusSeen(k) ==
    IF bot[k].status \in {"ACTIVE", "STOOD_DOWN"} THEN bot[k].status ELSE "other"

RowSeen(k) ==
    IF row[k] = None THEN None
    ELSE [limits |-> row[k].limits, drawdown |-> row[k].reason = "MAX_DRAWDOWN_EXCEEDED"]

DueSeen(k) ==
    IF bot[k].status = "STOOD_DOWN" \/ k \in Engaged
    THEN Max({now, Min({dueAt[k], MaxTime + 1})}) ELSE 0

Relevant ==
    <<now, [k \in Bots |-> <<StatusSeen(k), bot[k].applied, bot[k].until, RowSeen(k),
                             DueSeen(k)>>],
      mode, open, reset, lastReset < Today, freed, standing, sub, trial,
      lastTrial < Today>>
=============================================================================

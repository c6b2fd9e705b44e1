---------------------------- MODULE CircuitBreaker ----------------------------
(***************************************************************************)
(* What the circuit breaker of Market Scanning promises (the comments of    *)
(* src/src/lib/universe-cache.ts and universe-refresh.worker.ts) to several *)
(* recorders that look at it and then record a failure, without saying how  *)
(* it is stored: it counts fully failed ticks in a row, is open from the    *)
(* threshold on, dates the episode from the failure that opened it, and     *)
(* owes one alarm for it.  A recorder that is overtaken between its look    *)
(* and its record tears it: until the next success the count may be wrong,  *)
(* but the breaker is still open exactly from the threshold on.             *)
(***************************************************************************)
EXTENDS Integers

CONSTANTS Threshold, Never, Recorders

VARIABLES
    time,       \* the wall clock
    failures,   \* failed ticks in a row
    openedAt,   \* when the episode began, or Never
    looked,     \* recorders that have looked and not recorded yet
    fresh,      \* those of them that saw what the breaker still is
    due,        \* recorders that owe the episode's alarm
    sent,       \* alarms sent for the episode
    torn        \* a recorder was overtaken since the last success

breakerVars == <<time, failures, openedAt, looked, fresh, due, sent, torn>>

Init ==
    /\ time = 0
    /\ failures = 0
    /\ openedAt = Never
    /\ looked = {}
    /\ fresh = {}
    /\ due = {}
    /\ sent = 0
    /\ torn = FALSE

Pass ==
    /\ time' = time + 1
    /\ UNCHANGED <<failures, openedAt, looked, fresh, due, sent, torn>>

Look(a) ==
    /\ a \notin looked
    /\ looked' = looked \cup {a}
    /\ fresh' = fresh \cup {a}
    /\ UNCHANGED <<time, failures, openedAt, due, sent, torn>>

\* The recorder fails itself before it has recorded anything.
Abandon(a) ==
    /\ a \in looked
    /\ looked' = looked \ {a}
    /\ fresh' = fresh \ {a}
    /\ UNCHANGED <<time, failures, openedAt, due, sent, torn>>

\* The breaker is written: nobody but those who look again sees for sure what it is.
Written(a) ==
    /\ looked' = looked \ {a}
    /\ fresh' \subseteq looked'
    /\ UNCHANGED <<time, sent>>

\* A tick fails before or after the threshold is reached.
Fail(a) ==
    /\ a \in fresh
    /\ failures + 1 # Threshold
    /\ failures' = failures + 1
    /\ Written(a)
    /\ UNCHANGED <<openedAt, due, torn>>

\* A tick fails and reaches the threshold.
Open(a) ==
    /\ a \in fresh
    /\ failures + 1 = Threshold
    /\ failures' = failures + 1
    /\ openedAt' = time
    /\ due' = due \cup {a}
    /\ Written(a)
    /\ UNCHANGED torn

\* A tick fails that looked at a breaker somebody else has written since.
Race(a) ==
    /\ a \in looked \ fresh
    /\ torn' = TRUE
    /\ failures' \in Nat
    /\ openedAt' = Never <=> failures' < Threshold
    /\ due' \in {due, due \cup {a}}
    /\ Written(a)

\* The alarm is sent, or lost with the job that owed it.
Settle(a) ==
    /\ a \in due
    /\ due' = due \ {a}
    /\ sent' \in {sent, sent + 1}
    /\ UNCHANGED <<time, failures, openedAt, looked, fresh, torn>>

\* A tick succeeds, which ends the episode and everything owed for it.
Succeed ==
    /\ failures' = 0
    /\ openedAt' = Never
    /\ looked' = looked
    /\ fresh' \subseteq looked'
    /\ due' = {}
    /\ sent' = 0
    /\ torn' = FALSE
    /\ UNCHANGED time

Next ==
    \/ Pass
    \/ Succeed
    \/ \E a \in Recorders :
         Look(a) \/ Abandon(a) \/ Fail(a) \/ Open(a) \/ Race(a) \/ Settle(a)

Spec == Init /\ [][Next]_breakerVars
=============================================================================

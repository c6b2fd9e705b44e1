------------------------------ MODULE BrainRouter ------------------------------
(***************************************************************************)
(* The AI calls of one bot (callBrain, src/src/lib/brain-router.ts), made by  *)
(* as many callers at a time as BULLMQ_CONCURRENCY allows, the daily cap they *)
(* share through bot_runtime_data, the usage log, and the job that zeroes the *)
(* counters of past trading days (src/src/workers/                           *)
(* reset-ai-counters.worker.ts).  One action per await, so that calls, the    *)
(* reset and New York's midnight interleave.                                 *)
(***************************************************************************)
EXTENDS Integers, FiniteSets

CONSTANTS
    Callers,        \* the slots a call can run in
    Cap,            \* dailyCap of the tier
    MaxDay,         \* bound: trading days
    MaxPaid         \* bound: successful capped calls of a day

Days == 0..MaxDay

ASSUME BrainAssumption ==
    /\ IsFiniteSet(Callers) /\ Callers # {}
    /\ Cap \in Nat
    /\ MaxDay \in Nat
    /\ MaxPaid \in Nat

VARIABLES
    day,        \* the trading day, as getTradingDay computes it
    call,       \* call[c]: where c's call waits, its day, and whether it is capped
    counter,    \* counter[d]: ai_calls_today of the row for day d (0: no row)
    logged,     \* logged[d]: rows with success = true in the usage log of day d
    reset,      \* the reset job: idle, or holding the day it compares with
    \* History, per day and for capped calls: those the provider answered, and of
    \* these the ones whose increment, or whose usage log row, could not be written.
    paid, uncounted, unlogged

historyVars == <<paid, uncounted, unlogged>>
vars == <<day, call, counter, logged, reset, historyVars>>

NoCall == [pc |-> "idle", today |-> 0, capped |-> FALSE]
At(c, pc) == call[c].pc = pc
GoTo(c, pc) == call' = [call EXCEPT ![c].pc = pc]
Return(c) == call' = [call EXCEPT ![c] = NoCall]

Init ==
    /\ day = 0
    /\ call = [c \in Callers |-> NoCall]
    /\ counter = [d \in Days |-> 0]
    /\ logged = [d \in Days |-> 0]
    /\ reset = [pc |-> "idle", cutoff |-> 0]
    /\ paid = [d \in Days |-> 0]
    /\ uncounted = [d \in Days |-> 0]
    /\ unlogged = [d \in Days |-> 0]

\* Midnight in New York.
NextDay ==
    /\ day < MaxDay
    /\ day' = day + 1
    /\ UNCHANGED <<call, counter, logged, reset, historyVars>>

\* Step 1: the active brain config is read (a bot without one is answered at once),
\* and the trading day is fixed for the rest of the call.  BYOK calls have no cap.
StartCall(c) ==
    /\ At(c, "idle")
    /\ paid[day] < MaxPaid
    /\ \E capped \in BOOLEAN :
         call' = [call EXCEPT ![c] = [pc |-> IF capped THEN "cap" ELSE "provider",
                                      today |-> day, capped |-> capped]]
    /\ UNCHANGED <<day, counter, logged, reset, historyVars>>

\* Mutant: a refused caller is left waiting.
CheckCapWaiting(c) ==
    /\ At(c, "cap")
    /\ GoTo(c, IF counter[call[c].today] >= Cap THEN "refused" ELSE "provider")
    /\ UNCHANGED <<day, counter, logged, reset, historyVars>>

\* Step 2: the cap, read and then acted on.
CheckCap(c) ==
    /\ At(c, "cap")
    /\ IF counter[call[c].today] >= Cap THEN Return(c) ELSE GoTo(c, "provider")
    /\ UNCHANGED <<day, counter, logged, reset, historyVars>>

\* Step 3: the provider answers.
ProviderAnswers(c) ==
    /\ At(c, "provider")
    /\ IF call[c].capped
       THEN /\ paid' = [paid EXCEPT ![call[c].today] = @ + 1]
            /\ GoTo(c, "count")
       ELSE /\ GoTo(c, "log")
            /\ UNCHANGED paid
    /\ UNCHANGED <<day, counter, logged, reset, uncounted, unlogged>>

\* Mutant: a failed call goes through the counter as well.
CallFailsCounted(c) ==
    /\ At(c, "provider")
    /\ IF call[c].capped THEN GoTo(c, "count") ELSE Return(c)
    /\ UNCHANGED <<day, counter, logged, reset, historyVars>>

\* Step 3, failing: the provider's error is logged as unsuccessful; an unknown
\* variant or provider, or a key that does not decrypt, is not logged at all.
CallFails(c) ==
    /\ At(c, "provider")
    /\ Return(c)
    /\ UNCHANGED <<day, counter, logged, reset, historyVars>>

\* Mutant: the day is computed again.
CountOnItsOwnDay(c) ==
    /\ At(c, "count")
    /\ counter' = [counter EXCEPT ![day] = @ + 1]
    /\ GoTo(c, "log")
    /\ UNCHANGED <<day, logged, reset, historyVars>>

\* Step 4: the row is inserted with 1 or incremented, in one statement.
Count(c) ==
    /\ At(c, "count")
    /\ counter' = [counter EXCEPT ![call[c].today] = @ + 1]
    /\ GoTo(c, "log")
    /\ UNCHANGED <<day, logged, reset, historyVars>>

\* The increment fails: logged, and the answer is still returned.
CountFails(c) ==
    /\ At(c, "count")
    /\ GoTo(c, "log")
    /\ uncounted' = [uncounted EXCEPT ![call[c].today] = @ + 1]
    /\ UNCHANGED <<day, counter, logged, reset, paid, unlogged>>

\* Step 5: the usage log; its row for an uncapped call is of no interest here.
WriteUsageLog(c) ==
    /\ At(c, "log")
    /\ Return(c)
    /\ logged' = IF call[c].capped
                 THEN [logged EXCEPT ![call[c].today] = @ + 1] ELSE logged
    /\ UNCHANGED <<day, counter, reset, historyVars>>

\* A usage log that cannot be written is ignored.
LogFails(c) ==
    /\ At(c, "log")
    /\ Return(c)
    /\ unlogged' = IF call[c].capped
                   THEN [unlogged EXCEPT ![call[c].today] = @ + 1] ELSE unlogged
    /\ UNCHANGED <<day, counter, logged, reset, paid, uncounted>>

\* The cron at 05:00 UTC: the day is computed,
StartReset ==
    /\ reset.pc = "idle"
    /\ reset' = [pc |-> "update", cutoff |-> day]
    /\ UNCHANGED <<day, call, counter, logged, historyVars>>

\* Mutant: the current day's row is reset as well.
IsPastInclusive(d) == d <= reset.cutoff

IsPast(d) == d < reset.cutoff

\* and the rows of earlier days are zeroed, in one statement.
ZeroCounters ==
    /\ reset.pc = "update"
    /\ reset' = [pc |-> "idle", cutoff |-> 0]
    /\ counter' = [d \in Days |-> IF IsPast(d) THEN 0 ELSE counter[d]]
    /\ UNCHANGED <<day, call, logged, historyVars>>

Next ==
    \/ NextDay
    \/ \E c \in Callers :
         \/ StartCall(c) \/ CheckCap(c) \/ ProviderAnswers(c) \/ CallFails(c)
         \/ Count(c) \/ CountFails(c)
         \/ WriteUsageLog(c) \/ LogFails(c)
    \/ StartReset \/ ZeroCounters

Spec == Init /\ [][Next]_vars

-----------------------------------------------------------------------------
(* Properties *)

\* Types of the calls, counters and logs: in particular every call is at a step
\* that returns.
BrainTypeOK ==
    /\ day \in Days
    /\ call \in [Callers -> [pc : {"idle", "cap", "provider", "count", "log"},
                             today : Days, capped : BOOLEAN]]
    /\ counter \in [Days -> Nat]
    /\ logged \in [Days -> Nat]
    /\ reset \in [pc : {"idle", "update"}, cutoff : Days]
    /\ paid \in [Days -> Nat]
    /\ uncounted \in [Days -> Nat]
    /\ unlogged \in [Days -> Nat]

\* The cap of the current day is overrun by at most one call per concurrent caller
\* but one, as the comment of step 2 has it, and one per increment that failed, as
\* it does not say.
CapOverrunBounded ==
    paid[day] <= Cap + Cardinality(Callers) - 1 + uncounted[day]

\* The counter never charges a bot for more than the provider answered: not for
\* failed calls, not for those of another day.
NeverOvercharged == \A d \in Days : counter[d] <= paid[d]

\* Once none of its calls is under way, the current day's counter and its usage log
\* each account for every answer, but for their own failed writes: whatever the
\* reset and midnight did meanwhile, they are billed and capped alike.
AnswersAccounted ==
    (\A c \in Callers : ~(call[c].pc \in {"count", "log"} /\ call[c].today = day))
    => /\ counter[day] + uncounted[day] = paid[day]
       /\ logged[day] + unlogged[day] = paid[day]
=============================================================================

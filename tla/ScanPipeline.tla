----------------------------- MODULE ScanPipeline -----------------------------
(***************************************************************************)
(* The scanning pipeline: scan-dispatch (src/src/workers/                    *)
(* scan-dispatch.worker.ts, concurrency 1) fans every cron tick out into one *)
(* scan-bot job per ACTIVE bot, and scan-bot (scan-bot.worker.ts, concurrency *)
(* BULLMQ_CONCURRENCY) takes each through guards, preference, staleness gate, *)
(* audit row and hand-off.  Users, BullMQ's retries and redeliveries, and      *)
(* crashes interleave with both at every await.                              *)
(* The gate is its aggregate outcome here; modules StalenessGate and          *)
(* MarketScan have its inside.                                               *)
(***************************************************************************)
EXTENDS Integers, FiniteSets

CONSTANTS
    Bots,
    Open,           \* the instants isMarketHours is true at
    Preferred,      \* Preferred[b]: the instants b's session and day preference allow
    Concurrency,    \* BULLMQ_CONCURRENCY
    MaxTime,        \* bound: instants; the cron fires at each
    MaxScans,       \* bound: scan-bot jobs
    MaxPauses,      \* bound: times a user pauses a bot
    MaxFaults       \* bound: queries that throw, gates that throw, crashes

Time == 0..MaxTime
Scans == 1..MaxScans

ASSUME PipelineAssumption ==
    /\ Open \subseteq Time
    /\ Preferred \in [Bots -> SUBSET Time]
    /\ Concurrency \in Nat \ {0}
    /\ MaxTime \in Nat /\ MaxScans \in Nat /\ MaxPauses \in Nat /\ MaxFaults \in Nat

VARIABLES
    now,        \* the time of day
    status,     \* bots.status
    ticks,      \* the scan-dispatch jobs waiting, one per cron tick
    dispatch,   \* the one running: what it waits for, and what it read
    scan,       \* scan[s]: the s-th scan-bot job ever enqueued
    rows,       \* rows[s]: scan_audit_log rows written for job s
    handed,     \* handed[s]: candidate lists job s handed on
    pauses, faults,     \* bounds
    \* History, written by no code:
    wasActive   \* wasActive[s]: the bot was ACTIVE at some moment of this delivery

dispatchVars == <<ticks, dispatch>>
outputVars == <<rows, handed>>
boundVars == <<pauses, faults>>
vars == <<now, status, dispatchVars, scan, outputVars, boundVars, wasActive>>

DispatchJob == [id : Time, attempts : 0..2, stalled : BOOLEAN]
NoDispatch == [pc |-> "idle", bots |-> {}, job |-> [id |-> 0, attempts |-> 0, stalled |-> FALSE]]
NoScan(b) == [bot |-> b, pc |-> "none", attempts |-> 0, stalled |-> FALSE,
              outcome |-> "none"]

\* Where a scan-bot job waits: in the queue, or at one of processScanBot's awaits.
Awaits == {"bot", "broker", "tier", "config", "gate", "audit", "chain"}
Ended == {"done", "failed"}
Running(s) == scan[s].pc \in Awaits
Enqueued == {s \in Scans : scan[s].pc # "none"}

GoTo(s, pc) == scan' = [scan EXCEPT ![s].pc = pc]
Fault == faults < MaxFaults /\ faults' = faults + 1

Init ==
    /\ now = 0
    /\ status = [b \in Bots |-> "ACTIVE"]
    /\ ticks = {}
    /\ dispatch = NoDispatch
    /\ scan = [s \in Scans |-> NoScan(CHOOSE b \in Bots : TRUE)]
    /\ rows = [s \in Scans |-> 0]
    /\ handed = [s \in Scans |-> 0]
    /\ pauses = 0 /\ faults = 0
    /\ wasActive = [s \in Scans |-> FALSE]

\* Time passes, and the cron adds a dispatch job.
Tick ==
    /\ now < MaxTime
    /\ now' = now + 1
    /\ ticks' = ticks \cup {[id |-> now + 1, attempts |-> 0, stalled |-> FALSE]}
    /\ UNCHANGED <<status, dispatch, scan, outputVars, boundVars, wasActive>>

\* The API: a user pauses or resumes a bot.
Pause(b) ==
    /\ status[b] = "ACTIVE" /\ pauses < MaxPauses
    /\ status' = [status EXCEPT ![b] = "PAUSED"]
    /\ pauses' = pauses + 1
    /\ UNCHANGED <<now, dispatchVars, scan, outputVars, faults, wasActive>>

Resume(b) ==
    /\ status[b] = "PAUSED"
    /\ status' = [status EXCEPT ![b] = "ACTIVE"]
    /\ wasActive' = [s \in Scans |-> wasActive[s] \/ (Running(s) /\ scan[s].bot = b)]
    /\ UNCHANGED <<now, dispatchVars, scan, outputVars, boundVars>>

-----------------------------------------------------------------------------
(* scan-dispatch *)

\* In any order: a retried job is delayed, and others may overtake it.
StartDispatch(d) ==
    /\ dispatch.pc = "idle" /\ d \in ticks
    /\ ticks' = ticks \ {d}
    /\ dispatch' = [NoDispatch EXCEPT !.pc = IF now \in Open THEN "read" ELSE "idle",
                                      !.job = IF now \in Open THEN d ELSE @]
    /\ UNCHANGED <<now, status, scan, outputVars, boundVars, wasActive>>

ReadActiveBots ==
    /\ dispatch.pc = "read"
    /\ LET active == {b \in Bots : status[b] = "ACTIVE"}
       IN dispatch' = IF active = {} THEN NoDispatch
                      ELSE [dispatch EXCEPT !.pc = "add", !.bots = active]
    /\ UNCHANGED <<now, status, ticks, scan, outputVars, boundVars, wasActive>>

\* addBulk: all the jobs in one round trip.
AddBulk ==
    /\ dispatch.pc = "add"
    /\ \E ids \in SUBSET (Scans \ Enqueued) :
         /\ Cardinality(ids) = Cardinality(dispatch.bots)
         /\ \A s \in ids, r \in Scans \ (Enqueued \cup ids) : s < r
         /\ \E owner \in [ids -> dispatch.bots] :
              /\ \A s, r \in ids : owner[s] = owner[r] => s = r
              /\ scan' = [s \in Scans |->
                            IF s \in ids THEN [NoScan(owner[s]) EXCEPT !.pc = "waiting"]
                            ELSE scan[s]]
    /\ dispatch' = [dispatch EXCEPT !.pc = "complete"]
    /\ UNCHANGED <<now, status, ticks, outputVars, boundVars, wasActive>>

\* The reply has arrived: BullMQ completes the job.
CompleteDispatch ==
    /\ dispatch.pc = "complete"
    /\ dispatch' = NoDispatch
    /\ UNCHANGED <<now, status, ticks, scan, outputVars, boundVars, wasActive>>

\* The query throws, or the reply of addBulk is lost: three attempts in all.
DispatchThrows ==
    /\ dispatch.pc \in {"read", "add", "complete"}
    /\ Fault
    /\ dispatch' = NoDispatch
    /\ ticks' = IF dispatch.job.attempts + 1 < 3
                THEN ticks \cup {[dispatch.job EXCEPT !.attempts = @ + 1]} ELSE ticks
    /\ UNCHANGED <<now, status, scan, outputVars, pauses, wasActive>>

-----------------------------------------------------------------------------
(* scan-bot *)

\* Mutant: the retried job is left in BullMQ's delayed set.
ThrowDelayed(s) ==
    scan' = [scan EXCEPT ![s].pc = IF scan[s].attempts + 1 < 3 THEN "delayed" ELSE "failed",
                         ![s].attempts = @ + 1]

\* The attempt fails: three in all.
Throw(s) ==
    scan' = [scan EXCEPT ![s].pc = IF scan[s].attempts + 1 < 3 THEN "waiting" ELSE "failed",
                         ![s].attempts = @ + 1]
\* A job that has not run yet; these start in order, others when their delay is over.
Fresh(s) == scan[s].pc = "waiting" /\ scan[s].attempts = 0 /\ ~scan[s].stalled

\* One of the BULLMQ_CONCURRENCY slots takes a job.
StartScan(s) ==
    /\ scan[s].pc = "waiting"
    /\ Fresh(s) => \A r \in 1..(s - 1) : ~Fresh(r)
    /\ Cardinality({r \in Scans : Running(r)}) < Concurrency
    /\ GoTo(s, "bot")
    /\ wasActive' = [wasActive EXCEPT ![s] = status[scan[s].bot] = "ACTIVE"]
    /\ UNCHANGED <<now, status, dispatchVars, outputVars, boundVars>>

\* Mutant: a redelivered job is not validated again.
RevalidateBotOnce(s) ==
    /\ scan[s].pc = "bot"
    /\ GoTo(s, IF status[scan[s].bot] = "ACTIVE" \/ scan[s].stalled
               THEN "broker" ELSE "done")
    /\ UNCHANGED <<now, status, dispatchVars, outputVars, boundVars, wasActive>>

\* Step 1: still there and ACTIVE.
RevalidateBot(s) ==
    /\ scan[s].pc = "bot"
    /\ GoTo(s, IF status[scan[s].bot] = "ACTIVE" THEN "broker" ELSE "done")
    /\ UNCHANGED <<now, status, dispatchVars, outputVars, boundVars, wasActive>>

\* Steps 2 and 3: an ACTIVE broker connection and a subscription.
CheckOwner(s) ==
    /\ \/ scan[s].pc = "broker" /\ \E pc \in {"tier", "done"} : GoTo(s, pc)
       \/ scan[s].pc = "tier" /\ \E pc \in {"config", "done"} : GoTo(s, pc)
    /\ UNCHANGED <<now, status, dispatchVars, outputVars, boundVars, wasActive>>

\* A guard's query throws: outside the try block, so the attempt fails.
GuardThrows(s) ==
    /\ scan[s].pc \in {"bot", "broker", "tier"}
    /\ Fault
    /\ Throw(s)
    /\ UNCHANGED <<now, status, dispatchVars, outputVars, pauses, wasActive>>

\* Steps 4 and 5: outside the preference the scan is over.
Narrow(s) ==
    /\ scan[s].pc = "config"
    /\ GoTo(s, IF now \in Preferred[scan[s].bot] THEN "gate" ELSE "done")
    /\ UNCHANGED <<now, status, dispatchVars, outputVars, boundVars, wasActive>>

\* Mutant: only a skip is written to the audit log.
GateAuditingSkips(s) ==
    /\ scan[s].pc = "gate"
    /\ \E outcome \in {"served", "SKIPPED"} :
          scan' = [scan EXCEPT ![s].pc = IF outcome = "SKIPPED" THEN "audit" ELSE "chain",
                               ![s].outcome = outcome]
    /\ UNCHANGED <<now, status, dispatchVars, outputVars, boundVars, wasActive>>

\* Step 6: the aggregate outcome of the staleness gate.
Gate(s) ==
    /\ scan[s].pc = "gate"
    /\ \E outcome \in {"served", "SKIPPED"} :
          scan' = [scan EXCEPT ![s].pc = "audit", ![s].outcome = outcome]
    /\ UNCHANGED <<now, status, dispatchVars, outputVars, boundVars, wasActive>>

\* Mutant: a skip is audited, but the scan goes on.
WriteAuditRowGoingOn(s) ==
    /\ scan[s].pc = "audit"
    /\ rows' = [rows EXCEPT ![s] = @ + 1]
    /\ GoTo(s, "chain")
    /\ UNCHANGED <<now, status, dispatchVars, handed, boundVars, wasActive>>

\* Step 7, and step 8: a skip is over.
WriteAuditRow(s) ==
    /\ scan[s].pc = "audit"
    /\ rows' = [rows EXCEPT ![s] = @ + 1]
    /\ GoTo(s, IF scan[s].outcome = "SKIPPED" THEN "done" ELSE "chain")
    /\ UNCHANGED <<now, status, dispatchVars, handed, boundVars, wasActive>>

\* Steps 9 and 10: the filter chain's candidates are handed on.
HandOff(s) ==
    /\ scan[s].pc = "chain"
    /\ handed' = [handed EXCEPT ![s] = @ + 1]
    /\ GoTo(s, "done")
    /\ UNCHANGED <<now, status, dispatchVars, rows, boundVars, wasActive>>

\* Mutant: the failure is rethrown, so BullMQ tries again.
PipelineRethrows(s) ==
    /\ scan[s].pc \in {"config", "gate", "audit", "chain"}
    /\ Fault
    /\ Throw(s)
    /\ UNCHANGED <<now, status, dispatchVars, outputVars, pauses, wasActive>>

\* Whatever throws in steps 4 to 10 ends the bot's cycle, and the job completes.
\* A throwing insert may have been committed.
PipelineThrows(s) ==
    /\ scan[s].pc \in {"config", "gate", "audit", "chain"}
    /\ Fault
    /\ GoTo(s, "done")
    /\ \/ UNCHANGED rows
       \/ scan[s].pc = "audit" /\ rows' = [rows EXCEPT ![s] = @ + 1]
    /\ UNCHANGED <<now, status, dispatchVars, handed, pauses, wasActive>>

\* The worker process dies.  BullMQ delivers a stalled job once more, from its
\* start, and fails it the second time.
Crash ==
    /\ Fault
    /\ dispatch.pc # "idle" \/ \E s \in Scans : Running(s)
    /\ scan' = [s \in Scans |->
                  IF ~Running(s) THEN scan[s]
                  ELSE IF scan[s].stalled THEN [scan[s] EXCEPT !.pc = "failed"]
                  ELSE [scan[s] EXCEPT !.pc = "waiting", !.stalled = TRUE]]
    /\ dispatch' = NoDispatch
    /\ ticks' = IF dispatch.pc = "idle" \/ dispatch.job.stalled THEN ticks
                ELSE ticks \cup {[dispatch.job EXCEPT !.stalled = TRUE]}
    /\ UNCHANGED <<now, status, outputVars, pauses, wasActive>>

Next ==
    \/ Tick
    \/ \E b \in Bots : Pause(b) \/ Resume(b)
    \/ \E d \in ticks : StartDispatch(d)
    \/ ReadActiveBots \/ AddBulk \/ CompleteDispatch \/ DispatchThrows
    \/ \E s \in Scans :
         \/ StartScan(s) \/ RevalidateBot(s) \/ CheckOwner(s) \/ GuardThrows(s)
         \/ Narrow(s) \/ Gate(s) \/ WriteAuditRow(s) \/ HandOff(s) \/ PipelineThrows(s)
    \/ Crash

Spec == Init /\ [][Next]_vars

\* The event loop goes on, and BullMQ hands out what waits.
FairSpec ==
    /\ Spec
    /\ \A s \in Scans :
         /\ WF_vars(StartScan(s))
         /\ WF_vars(\/ RevalidateBot(s) \/ CheckOwner(s) \/ GuardThrows(s) \/ Narrow(s)
                    \/ Gate(s) \/ WriteAuditRow(s) \/ HandOff(s) \/ PipelineThrows(s))

-----------------------------------------------------------------------------
(* Properties *)

PipelineTyped ==
    /\ now \in Time
    /\ status \in [Bots -> {"ACTIVE", "PAUSED"}]
    /\ ticks \subseteq DispatchJob
    /\ dispatch \in [pc : {"idle", "read", "add", "complete"}, bots : SUBSET Bots,
                    job : DispatchJob]
    /\ scan \in [Scans -> [bot : Bots, pc : {"none", "waiting"} \cup Awaits \cup Ended,
                           attempts : 0..3, stalled : BOOLEAN,
                           outcome : {"none", "served", "SKIPPED"}]]
    /\ rows \in [Scans -> Nat] /\ handed \in [Scans -> Nat]
    /\ pauses \in Nat /\ faults \in Nat
    /\ wasActive \in [Scans -> BOOLEAN]

\* Types of the jobs: in particular a scan job is always in a state BullMQ or a
\* step takes it out of, and one whose gate skipped never gets to the filter chain.
PipelineTypeOK ==
    /\ PipelineTyped
    /\ \A s \in Scans : scan[s].pc = "chain" => scan[s].outcome = "served"

\* No candidate list leaves a scan without its audit row, whatever crashed before.
HandOffsAudited == \A s \in Scans : handed[s] <= rows[s]

\* BullMQ's retries never repeat an audit row; only the redelivery of a job whose
\* process died can.
RetriesNeverRepeat ==
    \A s \in Scans : rows[s] <= IF scan[s].stalled THEN 2 ELSE 1

\* A hand-off is for a bot that was ACTIVE at some moment of the delivery that makes
\* it, and not only when the job was enqueued or first delivered.
ScansOnlyRevalidated ==
    [][\A s \in Scans : handed'[s] > handed[s] => wasActive[s]]_vars

\* Every scan that was enqueued is over some time.
ScansEnd == \A s \in Scans : (scan[s].pc = "waiting") ~> (scan[s].pc \in Ended)
=============================================================================

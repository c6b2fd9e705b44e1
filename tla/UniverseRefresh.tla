--------------------------- MODULE UniverseRefresh ---------------------------
(***************************************************************************)
(* The universe-refresh worker (src/src/workers/universe-refresh.worker.ts):*)
(* every worker instance runs one job at a time from the shared queue; a    *)
(* job is a full sweep of all buckets (cron) or a targeted refresh of one   *)
(* bucket (enqueued by a sweep that saw imminent earnings).  One action per *)
(* stretch of code between two awaits, so that the instances, the clock and *)
(* the lock TTLs interleave at every await.                                 *)
(***************************************************************************)
EXTENDS UniverseCache, FiniteSets

CONSTANTS
    Workers,        \* worker instances (processes); each has concurrency 1
    EnabledWorkers, \* those whose UNIVERSE_REFRESH_ENABLED is "true"
    SweepOrder,     \* the buckets in the order ALLOWED_SECTORS.flatMap lists them
    RefreshLockTTL, \* BUCKET_LOCK_TTL_SECONDS
    MaxSweeps,      \* bound: cron ticks
    MaxFaults       \* bound: process crashes and Valkey errors

ASSUME RefreshAssumption ==
    /\ Workers \subseteq Owners
    /\ EnabledWorkers \subseteq Workers
    /\ SweepOrder \in Seq(Buckets)
    /\ RefreshLockTTL \in Nat \ {0}
    /\ MaxSweeps \in Nat
    /\ MaxFaults \in Nat
    /\ None \notin Buckets

VARIABLES
    queue,      \* the BullMQ wait list of universe-refresh, oldest first
    pc,         \* where each instance is waiting
    job,        \* the job it runs
    todo,       \* the buckets its loop has not reached yet; Head(todo) is current
    tally,      \* attemptedBuckets > 0 and succeededBuckets > 0
    fetched,    \* asOf of the entry about to be written, or None
    seen,       \* the breaker as recordRefreshFailure read it
    sweeps,     \* cron ticks so far (bound)
    faults,     \* faults so far (bound)
    \* History, written by no code: what the breaker is meant to summarise.
    failedTicks,    \* jobs recorded since the last one that wrote a bucket
    raced,          \* one of them was written over a breaker it had not read
    owing,          \* instances that opened the current episode, alert not sent yet
    alerts,         \* outage alerts sent for the current episode
    early           \* instances past the gate when the last failure was recorded

workerVars == <<pc, job, todo, tally, fetched, seen>>
historyVars == <<failedTicks, raced, owing, alerts, early>>
boundVars == <<sweeps, faults>>
refreshVars == <<queue, workerVars, boundVars, historyVars>>
vars == <<cacheVars, refreshVars>>

Job == [target : Buckets \cup {None}, stalled : BOOLEAN]
FullSweep == [target |-> None, stalled |-> FALSE]
\* Mutant: the job names the bucket by its cache key.
TargetedByCacheKey(b) == [target |-> <<"universe:bucket", b>>, stalled |-> FALSE]

Targeted(b) == [target |-> b, stalled |-> FALSE]
NothingAttempted == [attempted |-> FALSE, succeeded |-> FALSE]

PCs == {"idle", "gate", "loop", "fetch", "write", "enqueue", "release",
        "failure", "alert"}
\* The control points at which an instance believes it holds a bucket lock.
Holding == {"fetch", "write", "enqueue", "release"}
\* Those behind the breaker check, at which it may still start a request.
Admitted == {"loop"} \cup Holding

Current(w) == Head(todo[w])
GoTo(w, p) == pc' = [pc EXCEPT ![w] = p]

\* The job is over: BullMQ marks it completed or failed, and the queue has no
\* attempts configured, so a failed job does not come back.
EndJob(w) ==
    /\ GoTo(w, "idle")
    /\ job' = [job EXCEPT ![w] = FullSweep]
    /\ todo' = [todo EXCEPT ![w] = <<>>]
    /\ tally' = [tally EXCEPT ![w] = NothingAttempted]
    /\ fetched' = [fetched EXCEPT ![w] = None]
    /\ seen' = [seen EXCEPT ![w] = ClosedBreaker]

Init ==
    /\ CacheInit
    /\ queue = <<>>
    /\ pc = [w \in Workers |-> "idle"]
    /\ job = [w \in Workers |-> FullSweep]
    /\ todo = [w \in Workers |-> <<>>]
    /\ tally = [w \in Workers |-> NothingAttempted]
    /\ fetched = [w \in Workers |-> None]
    /\ seen = [w \in Workers |-> ClosedBreaker]
    /\ sweeps = 0
    /\ faults = 0
    /\ failedTicks = 0
    /\ raced = FALSE
    /\ owing = {}
    /\ alerts = 0
    /\ early = {}

-----------------------------------------------------------------------------
(* The environment: the cron scheduler, the clock, BullMQ's delivery. *)

\* The job scheduler adds a full sweep, however far behind the workers are.
CronTick ==
    /\ sweeps < MaxSweeps
    /\ sweeps' = sweeps + 1
    /\ queue' = Append(queue, FullSweep)
    /\ UNCHANGED <<cacheVars, workerVars, faults, historyVars>>

\* Time passes, however long an instance has been waiting for EODHD: an instance may
\* outlive the TTL of the lock it took.
Tick == Elapse /\ UNCHANGED refreshVars

\* An instance takes the oldest job; a disabled one completes it at once.
TakeJob(w) ==
    /\ pc[w] = "idle"
    /\ queue # <<>>
    /\ queue' = Tail(queue)
    /\ IF w \in EnabledWorkers
       THEN /\ GoTo(w, "gate")
            /\ job' = [job EXCEPT ![w] = Head(queue)]
       ELSE UNCHANGED <<pc, job>>
    /\ UNCHANGED <<cacheVars, todo, tally, fetched, seen, boundVars, historyVars>>

\* The process dies.  Its locks stay until their TTL; BullMQ hands a stalled
\* job out again once (maxStalledCount 1).
Crash(w) ==
    /\ pc[w] # "idle"
    /\ faults < MaxFaults
    /\ faults' = faults + 1
    /\ queue' = IF job[w].stalled THEN queue
                ELSE Append(queue, [job[w] EXCEPT !.stalled = TRUE])
    /\ EndJob(w)
    /\ owing' = owing \ {w}
    /\ UNCHANGED <<cacheVars, sweeps, failedTicks, raced, alerts, early>>

\* Valkey fails a command issued outside refreshBucket (breaker read, lock,
\* DEL, breaker write, the read inside the alert): the job throws.
InfrastructureFault(w) ==
    /\ pc[w] \in {"gate", "loop", "release", "failure", "alert"}
    /\ faults < MaxFaults
    /\ faults' = faults + 1
    /\ EndJob(w)
    /\ owing' = owing \ {w}
    /\ UNCHANGED <<cacheVars, queue, sweeps, failedTicks, raced, alerts, early>>

-----------------------------------------------------------------------------
(* processUniverseRefresh *)

\* Mutant: the breaker stops full sweeps only.
CheckBreakerForSweeps(w) ==
    /\ pc[w] = "gate"
    /\ \/ /\ InBackoff /\ job[w].target = None
          /\ EndJob(w)
          /\ UNCHANGED early
       \/ /\ ~(InBackoff /\ job[w].target = None)
          /\ GoTo(w, "loop")
          /\ todo' = [todo EXCEPT ![w] =
                        IF job[w].target = None THEN SweepOrder
                        ELSE <<job[w].target>>]
          /\ early' = early \ {w}
          /\ UNCHANGED <<job, tally, fetched, seen>>
    /\ UNCHANGED <<cacheVars, queue, boundVars, failedTicks, raced, owing, alerts>>

\* Breaker gate, then the list of buckets of a targeted or a full run.
CheckBreaker(w) ==
    /\ pc[w] = "gate"
    /\ \/ /\ InBackoff
          /\ EndJob(w)
          /\ UNCHANGED early
       \/ /\ ~InBackoff
          /\ GoTo(w, "loop")
          /\ todo' = [todo EXCEPT ![w] =
                        IF job[w].target = None THEN SweepOrder
                        ELSE <<job[w].target>>]
          /\ early' = early \ {w}
          /\ UNCHANGED <<job, tally, fetched, seen>>
    /\ UNCHANGED <<cacheVars, queue, boundVars, failedTicks, raced, owing, alerts>>

\* acquireBucketLock on the next bucket: attempt it, or skip it this tick.
AcquireBucket(w) ==
    /\ pc[w] = "loop"
    /\ todo[w] # <<>>
    /\ \/ /\ LockFree(Current(w))
          /\ TakeLock(Current(w), w, RefreshLockTTL)
          /\ tally' = [tally EXCEPT ![w].attempted = TRUE]
          /\ GoTo(w, "fetch")
          /\ UNCHANGED todo
       \/ /\ ~LockFree(Current(w))
          /\ todo' = [todo EXCEPT ![w] = Tail(@)]
          /\ UNCHANGED <<lock, tally, pc>>
    /\ UNCHANGED <<now, bucket, unguarded, breaker, queue, job, fetched, seen, boundVars,
                   historyVars>>

\* fetchBucketSymbols answers; asOf is the time of the answer.
FetchSucceeds(w) ==
    /\ pc[w] = "fetch"
    /\ GoTo(w, "write")
    /\ fetched' = [fetched EXCEPT ![w] = now]
    /\ UNCHANGED <<cacheVars, queue, job, todo, tally, seen, boundVars, historyVars>>

\* EODHD fails, or writeBucket or the queue's add throws: the bucket has failed,
\* and the loop goes on to release its lock.
BucketFails(w) ==
    /\ pc[w] \in {"fetch", "write", "enqueue"}
    /\ pc[w] # "fetch" => faults < MaxFaults
    /\ faults' = IF pc[w] = "fetch" THEN faults ELSE faults + 1
    /\ fetched' = [fetched EXCEPT ![w] = None]
    /\ GoTo(w, "release")
    /\ UNCHANGED <<cacheVars, queue, job, todo, tally, seen, sweeps, historyVars>>

\* Mutant: a targeted run checks the out-of-band triggers too.
WriteBucketRechecking(w) ==
    /\ pc[w] = "write"
    /\ PutBucket(Current(w), w, fetched[w])
    /\ fetched' = [fetched EXCEPT ![w] = None]
    /\ \/ GoTo(w, "enqueue") /\ UNCHANGED tally
       \/ GoTo(w, "release") /\ tally' = [tally EXCEPT ![w].succeeded = TRUE]
    /\ UNCHANGED <<now, lock, breaker, queue, job, todo, seen, boundVars, historyVars>>

\* writeBucket, then isEarningsImminent on what was written: only a full sweep looks,
\* and goes on to enqueue when it is.
WriteBucket(w) ==
    /\ pc[w] = "write"
    /\ PutBucket(Current(w), w, fetched[w])
    /\ fetched' = [fetched EXCEPT ![w] = None]
    /\ \/ /\ job[w].target = None
          /\ GoTo(w, "enqueue")
          /\ UNCHANGED tally
       \/ /\ GoTo(w, "release")
          /\ tally' = [tally EXCEPT ![w].succeeded = TRUE]
    /\ UNCHANGED <<now, lock, breaker, queue, job, todo, seen, boundVars, historyVars>>

\* enqueueOutOfBandRefresh: one follow-up job for just this bucket.
EnqueueOutOfBand(w) ==
    /\ pc[w] = "enqueue"
    /\ queue' = Append(queue, Targeted(Current(w)))
    /\ tally' = [tally EXCEPT ![w].succeeded = TRUE]
    /\ GoTo(w, "release")
    /\ UNCHANGED <<cacheVars, job, todo, fetched, seen, boundVars, historyVars>>

\* releaseBucketLock in the finally block: no check of whose lock it is.
ReleaseBucket(w) ==
    /\ pc[w] = "release"
    /\ DeleteLock(Current(w))
    /\ todo' = [todo EXCEPT ![w] = Tail(@)]
    /\ GoTo(w, "loop")
    /\ UNCHANGED <<now, bucket, unguarded, breaker, queue, job, tally, fetched, seen, boundVars,
                   historyVars>>

\* A job fails when it tried a bucket and none of those it tried succeeded.
JobFailed(w) == tally[w].attempted /\ ~tally[w].succeeded
TicksFailed(w) == IF JobFailed(w) THEN failedTicks + 1 ELSE 0

\* The loop is over and nothing was attempted: the breaker is left alone.
FinishUntouched(w) ==
    /\ pc[w] = "loop"
    /\ todo[w] = <<>>
    /\ ~tally[w].attempted
    /\ EndJob(w)
    /\ UNCHANGED <<cacheVars, queue, boundVars, historyVars>>

\* recordRefreshSuccess: any bucket succeeded.  An alert still on its way belongs to
\* an episode that is over.
RecordSuccess(w) ==
    /\ pc[w] = "loop"
    /\ todo[w] = <<>>
    /\ tally[w].succeeded
    /\ breaker' = ClosedBreaker
    /\ failedTicks' = TicksFailed(w)
    /\ raced' = FALSE
    /\ owing' = {}
    /\ alerts' = 0
    /\ early' = {}
    /\ EndJob(w)
    /\ UNCHANGED <<now, bucket, unguarded, lock, queue, boundVars>>

\* recordRefreshFailure, its read: every attempted bucket failed.
ReadBreaker(w) ==
    /\ pc[w] = "loop"
    /\ todo[w] = <<>>
    /\ tally[w].attempted
    /\ ~tally[w].succeeded
    /\ seen' = [seen EXCEPT ![w] = breaker]
    /\ GoTo(w, "failure")
    /\ UNCHANGED <<cacheVars, queue, job, todo, tally, fetched, boundVars, historyVars>>

\* recordRefreshFailure, its write, computed from what the read returned.
RecordFailure(w) ==
    /\ pc[w] = "failure"
    /\ breaker' = AfterFailure(seen[w], now)
    /\ failedTicks' = TicksFailed(w)
    /\ raced' = (raced \/ seen[w] # breaker)
    /\ early' = {v \in Workers : pc[v] \in Admitted}
    /\ \/ /\ JustOpened(seen[w])
          /\ GoTo(w, "alert")
          /\ owing' = owing \cup {w}
          /\ seen' = [seen EXCEPT ![w] = ClosedBreaker]
          /\ UNCHANGED <<job, todo, tally, fetched>>
       \/ /\ ~JustOpened(seen[w])
          /\ EndJob(w)
          /\ UNCHANGED owing
    /\ UNCHANGED <<now, bucket, unguarded, lock, queue, boundVars, alerts>>

\* Sentry.captureMessage, after one more read of the breaker for its extra data.
SendAlert(w) ==
    /\ pc[w] = "alert"
    /\ alerts' = IF w \in owing THEN alerts + 1 ELSE alerts
    /\ owing' = owing \ {w}
    /\ EndJob(w)
    /\ UNCHANGED <<cacheVars, queue, boundVars, failedTicks, raced, early>>

WorkerStep(w) ==
    \/ TakeJob(w)
    \/ CheckBreaker(w)
    \/ AcquireBucket(w)
    \/ FetchSucceeds(w)
    \/ BucketFails(w)
    \/ WriteBucket(w)
    \/ EnqueueOutOfBand(w)
    \/ ReleaseBucket(w)
    \/ FinishUntouched(w)
    \/ RecordSuccess(w)
    \/ ReadBreaker(w)
    \/ RecordFailure(w)
    \/ SendAlert(w)

Next ==
    \/ CronTick
    \/ Tick
    \/ \E w \in Workers :
         WorkerStep(w) \/ Crash(w) \/ InfrastructureFault(w)

Spec == Init /\ [][Next]_vars

\* BullMQ keeps handing out jobs and the event loop keeps running a job's
\* continuations; an EODHD request ends by itself (undici's default timeouts).
Fairness == \A w \in Workers : WF_vars(WorkerStep(w))
FairSpec == Spec /\ Fairness

-----------------------------------------------------------------------------
(* Properties *)

\* Types of the queue, the instances and the history.
TypeOK ==
    /\ CacheTypeOK
    /\ queue \in Seq(Job)
    /\ pc \in [Workers -> PCs]
    /\ job \in [Workers -> Job]
    /\ todo \in [Workers -> Seq(Buckets)]
    /\ tally \in [Workers -> [attempted : BOOLEAN, succeeded : BOOLEAN]]
    /\ fetched \in [Workers -> Time]
    /\ seen \in [Workers -> Breaker]
    /\ sweeps \in 0..MaxSweeps
    /\ faults \in 0..MaxFaults
    /\ failedTicks \in Nat
    /\ raced \in BOOLEAN
    /\ owing \subseteq Workers
    /\ alerts \in Nat
    /\ early \subseteq Workers

\* What a breaker hash may look like at time t: OPEN exactly from the threshold
\* on, with both timestamps exactly when OPEN, and an episode that started in
\* the past and is retried no earlier than it started.
WellFormed(br, t) ==
    IF br.failures < FailureThreshold
    THEN /\ br.state = "CLOSED"
         /\ br.openedAt = None
         /\ br.nextRetryAt = None
    ELSE /\ br.state = "OPEN"
         /\ br.openedAt \in Nat
         /\ br.nextRetryAt \in Nat
         /\ br.openedAt <= t
         /\ br.openedAt <= br.nextRetryAt

\* However the instances' reads and writes of the breaker hash interleave (the
\* read-modify-write of recordRefreshFailure is not atomic), the hash stays
\* consistent with itself, and so does every copy that is yet to be written back.
BreakerInv ==
    /\ WellFormed(breaker, now)
    /\ \A w \in Workers : pc[w] = "failure" => WellFormed(seen[w], now)

\* The threshold counts CONSECUTIVE fully failed ticks: the counter is the number of
\* jobs, of whichever instance, that tried buckets and got none since the last job
\* that got one, as long as no failure was written over a value its writer had not
\* read (only then is one lost or an old count restored, and a success mends it).
CountsConsecutiveFailures == ~raced => breaker.failures = failedTicks

\* The instances between the read and the write of recordRefreshFailure, and those of
\* them whose reading still is what the hash says.
Recording == {w \in Workers : pc[w] = "failure"}
UpToDate == {w \in Recording : seen[w] = breaker}

AbstractBreaker ==
    INSTANCE CircuitBreaker WITH
        Threshold <- FailureThreshold, Never <- None, Recorders <- Workers,
        time <- now, failures <- breaker.failures, openedAt <- breaker.openedAt,
        looked <- Recording, fresh <- UpToDate,
        due <- owing, sent <- alerts, torn <- raced

\* The instances with their reads, writes and faults implement the breaker that
\* counts, dates and alarms in single steps: an episode is never dated anew and its
\* alarm falls due once, with the failure that opens it.  Only a failure that was
\* overtaken between its read and its write may leave another count, date or alarm,
\* and what it leaves is consistent.
BreakerSpec == AbstractBreaker!Spec

Refreshing(b) == {w \in Workers : pc[w] \in Holding /\ Current(w) = b}

\* No EODHD request starts inside the backoff window, except by a job that was past
\* the gate when the failure was recorded: its check at the start still holds at its
\* last bucket.
QuietInBackoff ==
    [][\A w \in Workers :
         pc[w] # "fetch" /\ pc'[w] = "fetch" => ~InBackoff \/ w \in early]_vars

\* Once the cron stops, the queue drains: sweeps make a bounded amount of
\* follow-up work, because a targeted run never enqueues another one.
QueueDrains == <>[](queue = <<>> /\ \A w \in Workers : pc[w] = "idle")
=============================================================================

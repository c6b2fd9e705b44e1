------------------------ MODULE UniverseRefreshProofs ------------------------
(***************************************************************************)
(* Theorems about UniverseRefresh, for every set of buckets and instances,   *)
(* every threshold, schedule and TTL; the last one says that the instances   *)
(* together implement CircuitBreaker.                                        *)
(***************************************************************************)
EXTENDS UniverseRefresh, TLAPS

\* The loop has a current bucket whenever it holds, or believes to hold, a lock, and a
\* dated answer whenever it is about to write one.
HasCurrent ==
    \A w \in Workers :
      /\ pc[w] \in Holding => todo[w] # <<>>
      /\ pc[w] = "write" => fetched[w] \in Nat

TypeInv == TypeOK /\ HasCurrent

\* The wait comes from the schedule, however long the outage.
LEMMA BackoffType ==
    ASSUME NEW n \in Nat
    PROVE  BackoffAfter(n) \in Nat
<1>1. 1 + Min2(Max2(n - FailureThreshold, 0), Len(Backoff) - 1) \in 1..Len(Backoff)
  BY CacheAssumption DEF Min2, Max2
<1> QED
  BY <1>1, CacheAssumption DEF BackoffAfter

\* A failure recorded on a breaker hash gives a breaker hash.
LEMMA AfterFailureType ==
    ASSUME NEW br \in Breaker, NEW t \in Nat
    PROVE  AfterFailure(br, t) \in Breaker
<1> DEFINE n == br.failures + 1
<1>1. n \in Nat
  BY DEF Breaker
<1>2. BackoffAfter(n) \in Nat
  BY <1>1, BackoffType
<1>3. t + BackoffAfter(n) \in Nat
  BY <1>2
<1> QED
  BY <1>1, <1>3 DEF AfterFailure, JustOpened, ClosedBreaker, Breaker, Time

\* The end of a job leaves every local of the instance well typed.
LEMMA EndJobType ==
    ASSUME TypeInv, NEW w \in Workers, EndJob(w)
    PROVE  /\ pc' \in [Workers -> PCs]
           /\ job' \in [Workers -> Job]
           /\ todo' \in [Workers -> Seq(Buckets)]
           /\ tally' \in [Workers -> [attempted : BOOLEAN, succeeded : BOOLEAN]]
           /\ fetched' \in [Workers -> Time]
           /\ seen' \in [Workers -> Breaker]
           /\ HasCurrent'
<1>1. /\ FullSweep \in Job
      /\ NothingAttempted \in [attempted : BOOLEAN, succeeded : BOOLEAN]
      /\ None \in Time
      /\ ClosedBreaker \in Breaker
      /\ <<>> \in Seq(Buckets)
      /\ "idle" \in PCs /\ "idle" \notin Holding
  BY DEF FullSweep, Job, NothingAttempted, ClosedBreaker, Breaker, Time, PCs, Holding
<1> QED
  BY <1>1 DEF TypeInv, TypeOK, HasCurrent, EndJob, GoTo

-----------------------------------------------------------------------------
(* Type correctness *)

\* What the steps make of a job, of a tally and of the list of buckets.
LEMMA StalledType ==
    ASSUME NEW j \in Job
    PROVE  [j EXCEPT !.stalled = TRUE] \in Job
  BY DEF Job

\* Counting an attempt or a success keeps the tallies well typed.
LEMMA TallyType ==
    ASSUME tally \in [Workers -> [attempted : BOOLEAN, succeeded : BOOLEAN]],
           NEW w \in Workers
    PROVE  /\ [tally EXCEPT ![w].attempted = TRUE]
                 \in [Workers -> [attempted : BOOLEAN, succeeded : BOOLEAN]]
           /\ [tally EXCEPT ![w].succeeded = TRUE]
                 \in [Workers -> [attempted : BOOLEAN, succeeded : BOOLEAN]]
  OBVIOUS

\* The head and the tail of a non-empty sequence over S.
LEMMA HeadTailType ==
    ASSUME NEW S, NEW s \in Seq(S), s # <<>>
    PROVE  /\ Head(s) \in S
           /\ Tail(s) \in Seq(S)
  OBVIOUS

\* Appending an element of S to a sequence over S.
LEMMA AppendType ==
    ASSUME NEW S, NEW s \in Seq(S), NEW e \in S
    PROVE  Append(s, e) \in Seq(S)
  OBVIOUS

\* The bucket a sweep is at, and those it has left, are buckets.
LEMMA CurrentType ==
    ASSUME todo \in [Workers -> Seq(Buckets)], NEW w \in Workers, todo[w] # <<>>
    PROVE  /\ Current(w) \in Buckets
           /\ Tail(todo[w]) \in Seq(Buckets)
  BY HeadTailType DEF Current

\* The types and HasCurrent are inductive.
LEMMA TypeStep == TypeInv /\ [Next]_vars => TypeInv'
<1> SUFFICES ASSUME TypeInv, [Next]_vars
             PROVE  TypeInv'
  OBVIOUS
<1> USE DEF TypeInv, TypeOK, CacheTypeOK, HasCurrent, cacheVars, workerVars,
            historyVars, boundVars
<1>1. CASE CronTick
  BY <1>1, RefreshAssumption DEF CronTick, FullSweep, Job
<1>2. CASE Tick
  <2>1. lock' \in [Buckets -> Lock \cup {None}]
    BY <1>2 DEF Tick, Elapse
  <2> QED
    BY <1>2, <2>1 DEF Tick, Elapse, refreshVars
<1>3. ASSUME NEW w \in Workers, TakeJob(w)
      PROVE  TypeInv'
  <2>1. /\ Head(queue) \in Job
        /\ Tail(queue) \in Seq(Job)
    BY <1>3 DEF TakeJob
  <2>2. "gate" \in PCs /\ "gate" \notin Holding
    BY DEF PCs, Holding
  <2> QED
    BY <1>3, <2>1, <2>2 DEF TakeJob, GoTo
<1>4. ASSUME NEW w \in Workers, Crash(w)
      PROVE  TypeInv'
  <2> DEFINE j == [job[w] EXCEPT !.stalled = TRUE]
  <2>1. j \in Job
    BY StalledType
  <2>2. queue' = queue \/ queue' = Append(queue, j)
    BY <1>4, Zenon DEF Crash
  <2>3. queue' \in Seq(Job)
    <3> HIDE DEF j
    <3>1. CASE queue' = queue
      BY <3>1
    <3>2. CASE queue' = Append(queue, j)
      <4>1. Append(queue, j) \in Seq(Job)
        BY <2>1, AppendType
      <4> QED
        BY <3>2, <4>1
    <3> QED
      BY <2>2, <3>1, <3>2
  <2>4. faults' \in 0..MaxFaults
    BY <1>4, RefreshAssumption DEF Crash
  <2> QED
    BY <1>4, <2>3, <2>4, EndJobType DEF Crash
<1>5. ASSUME NEW w \in Workers, InfrastructureFault(w)
      PROVE  TypeInv'
  <2>1. faults' \in 0..MaxFaults
    BY <1>5, RefreshAssumption DEF InfrastructureFault
  <2> QED
    BY <1>5, <2>1, EndJobType DEF InfrastructureFault
<1>6. ASSUME NEW w \in Workers, CheckBreaker(w)
      PROVE  TypeInv'
  <2>1. CASE EndJob(w)
    BY <1>6, <2>1, EndJobType DEF CheckBreaker
  <2>2. CASE ~EndJob(w)
    <3>1. (IF job[w].target = None THEN SweepOrder ELSE <<job[w].target>>) \in Seq(Buckets)
      BY RefreshAssumption DEF Job
    <3>2. "loop" \in PCs /\ "loop" \notin Holding
      BY DEF PCs, Holding
    <3>3. /\ pc' = [pc EXCEPT ![w] = "loop"]
          /\ todo' = [todo EXCEPT ![w] = IF job[w].target = None THEN SweepOrder
                                         ELSE <<job[w].target>>]
          /\ UNCHANGED <<cacheVars, queue, job, tally, fetched, seen,
                         boundVars, failedTicks, raced, owing, alerts>>
          /\ early' = early \ {w}
      BY <1>6, <2>2 DEF CheckBreaker, GoTo
    <3> QED
      BY <3>1, <3>2, <3>3
  <2> QED
    BY <2>1, <2>2
<1>7. ASSUME NEW w \in Workers, AcquireBucket(w)
      PROVE  TypeInv'
  <2>1. /\ Current(w) \in Buckets
        /\ Tail(todo[w]) \in Seq(Buckets)
    BY <1>7, CurrentType DEF AcquireBucket
  <2>2. CASE LockFree(Current(w)) /\ TakeLock(Current(w), w, RefreshLockTTL)
    <3>1. [owner |-> w, expiresAt |-> now + RefreshLockTTL] \in Lock
      BY RefreshAssumption DEF Lock
    <3>2. lock' \in [Buckets -> Lock \cup {None}]
      BY <2>2, <3>1 DEF TakeLock
    <3>3. "fetch" \in PCs
      BY DEF PCs
    <3>4. /\ pc' = [pc EXCEPT ![w] = "fetch"]
          /\ todo' = todo /\ todo[w] # <<>>
          /\ UNCHANGED <<now, bucket, unguarded, breaker, queue, job, fetched, seen,
                         boundVars, historyVars>>
      BY <1>7, <2>2 DEF AcquireBucket, GoTo, LockFree
    <3>5. tally' = [tally EXCEPT ![w].attempted = TRUE]
      BY <1>7, <2>2 DEF AcquireBucket, LockFree
    <3>6. tally' \in [Workers -> [attempted : BOOLEAN, succeeded : BOOLEAN]]
      BY <3>5, TallyType
    <3> QED
      BY <3>2, <3>3, <3>4, <3>6
  <2>3. CASE ~(LockFree(Current(w)) /\ TakeLock(Current(w), w, RefreshLockTTL))
    <3>1. /\ pc[w] = "loop" /\ pc' = pc
          /\ todo' = [todo EXCEPT ![w] = Tail(todo[w])]
          /\ UNCHANGED <<cacheVars, queue, job, tally, fetched, seen,
                         boundVars, historyVars>>
      BY <1>7, <2>3 DEF AcquireBucket
    <3> QED
      BY <2>1, <3>1 DEF Holding
  <2> QED
    BY <2>2, <2>3
<1>8. ASSUME NEW w \in Workers, FetchSucceeds(w)
      PROVE  TypeInv'
  BY <1>8 DEF FetchSucceeds, GoTo, PCs, Holding, Time
<1>9. ASSUME NEW w \in Workers, BucketFails(w)
      PROVE  TypeInv'
  <2>1. None \in Time
    BY DEF Time
  <2>2. faults' \in 0..MaxFaults
    BY <1>9, RefreshAssumption DEF BucketFails
  <2> QED
    BY <1>9, <2>1, <2>2 DEF BucketFails, GoTo, PCs, Holding
<1>10. ASSUME NEW w \in Workers, WriteBucket(w)
       PROVE  TypeInv'
  <2>0. /\ fetched[w] \in Nat /\ todo[w] # <<>>
        /\ Current(w) \in Buckets
    BY <1>10, CurrentType DEF WriteBucket, Holding
  <2>1. [asOf |-> fetched[w], tier |-> "FAST"] \in Entry
    BY <2>0 DEF Entry, Tiers
  <2>2. bucket' \in [Buckets -> Entry \cup {None}]
    BY <1>10, <2>1 DEF WriteBucket, PutBucket
  <2>3. unguarded' \subseteq Buckets
    BY <1>10, <2>0 DEF WriteBucket, PutBucket
  <2>4. fetched' \in [Workers -> Time]
    BY <1>10 DEF WriteBucket, Time
  <2>5. tally' \in [Workers -> [attempted : BOOLEAN, succeeded : BOOLEAN]]
    <3>1. CASE tally' = tally
      BY <3>1
    <3>2. CASE tally' = [tally EXCEPT ![w].succeeded = TRUE]
      BY <3>2, TallyType
    <3> QED
      BY <1>10, <3>1, <3>2, Zenon DEF WriteBucket
  <2>6. /\ pc[w] = "write"
        /\ \/ pc' = [pc EXCEPT ![w] = "enqueue"]
           \/ pc' = [pc EXCEPT ![w] = "release"]
        /\ UNCHANGED <<now, lock, breaker, queue, job, todo, seen, boundVars,
                       historyVars>>
    BY <1>10 DEF WriteBucket, GoTo
  <2>7. \A v \in Workers : pc'[v] = "write" => pc[v] = "write" /\ fetched'[v] = fetched[v]
    BY <1>10, <2>6 DEF WriteBucket
  <2> QED
    BY <2>2, <2>3, <2>4, <2>5, <2>6, <2>7 DEF PCs, Holding
<1>11. ASSUME NEW w \in Workers, EnqueueOutOfBand(w)
       PROVE  TypeInv'
  <2>1. Current(w) \in Buckets
    BY <1>11, CurrentType DEF EnqueueOutOfBand, Holding
  <2>2. Targeted(Current(w)) \in Job
    BY <2>1 DEF Targeted, Job
  <2>3. queue' \in Seq(Job)
    BY <1>11, <2>2 DEF EnqueueOutOfBand
  <2>4. tally' \in [Workers -> [attempted : BOOLEAN, succeeded : BOOLEAN]]
    BY <1>11, TallyType DEF EnqueueOutOfBand
  <2>5. /\ pc[w] = "enqueue"
        /\ pc' = [pc EXCEPT ![w] = "release"]
        /\ UNCHANGED <<cacheVars, job, todo, fetched, seen, boundVars, historyVars>>
    BY <1>11 DEF EnqueueOutOfBand, GoTo
  <2> QED
    BY <2>3, <2>4, <2>5 DEF PCs, Holding
<1>12. ASSUME NEW w \in Workers, ReleaseBucket(w)
       PROVE  TypeInv'
  <2>1. Tail(todo[w]) \in Seq(Buckets)
    BY <1>12, CurrentType DEF ReleaseBucket, Holding
  <2>3. lock' \in [Buckets -> Lock \cup {None}]
    BY <1>12 DEF ReleaseBucket, DeleteLock
  <2> QED
    BY <1>12, <2>1, <2>3 DEF ReleaseBucket, GoTo, PCs, Holding
<1>13. ASSUME NEW w \in Workers, FinishUntouched(w)
       PROVE  TypeInv'
  BY <1>13, EndJobType DEF FinishUntouched
<1>14. ASSUME NEW w \in Workers, RecordSuccess(w)
       PROVE  TypeInv'
  <2>1. ClosedBreaker \in Breaker
    BY DEF ClosedBreaker, Breaker, Time
  <2>2. failedTicks' \in Nat
    BY <1>14 DEF RecordSuccess, TicksFailed
  <2> QED
    BY <1>14, <2>1, <2>2, EndJobType DEF RecordSuccess
<1>15. ASSUME NEW w \in Workers, ReadBreaker(w)
       PROVE  TypeInv'
  BY <1>15 DEF ReadBreaker, GoTo, PCs, Holding
<1>16. ASSUME NEW w \in Workers, RecordFailure(w)
       PROVE  TypeInv'
  <2>1. breaker' \in Breaker
    BY <1>16, AfterFailureType DEF RecordFailure
  <2>2. failedTicks' \in Nat /\ raced' \in BOOLEAN /\ owing' \subseteq Workers
        /\ early' \subseteq Workers
    BY <1>16 DEF RecordFailure, TicksFailed
  <2>3. CASE EndJob(w)
    BY <1>16, <2>1, <2>2, <2>3, EndJobType DEF RecordFailure
  <2>4. CASE ~EndJob(w)
    <3>1. ClosedBreaker \in Breaker
      BY DEF ClosedBreaker, Breaker, Time
    <3>2. /\ pc[w] = "failure" /\ pc' = [pc EXCEPT ![w] = "alert"]
          /\ seen' = [seen EXCEPT ![w] = ClosedBreaker]
          /\ UNCHANGED <<now, bucket, unguarded, lock, queue, boundVars, alerts,
                         job, todo, tally, fetched>>
      BY <1>16, <2>4 DEF RecordFailure, GoTo
    <3>3. seen' \in [Workers -> Breaker]
      BY <3>1, <3>2
    <3> QED
      BY <2>1, <2>2, <3>2, <3>3 DEF PCs, Holding
  <2> QED
    BY <2>3, <2>4
<1>17. ASSUME NEW w \in Workers, SendAlert(w)
       PROVE  TypeInv'
  <2>1. alerts' \in Nat
    BY <1>17 DEF SendAlert
  <2> QED
    BY <1>17, <2>1, EndJobType DEF SendAlert
<1>18. CASE UNCHANGED vars
  BY <1>18 DEF vars, refreshVars
<1> QED
  BY <1>1, <1>2, <1>3, <1>4, <1>5, <1>6, <1>7, <1>8, <1>9, <1>10, <1>11, <1>12,
     <1>13, <1>14, <1>15, <1>16, <1>17, <1>18 DEF Next, WorkerStep

\* The initial state is well typed.
LEMMA InitType == Init => TypeInv
<1> SUFFICES ASSUME Init
             PROVE  TypeInv
  OBVIOUS
<1>1. /\ FullSweep \in Job
      /\ NothingAttempted \in [attempted : BOOLEAN, succeeded : BOOLEAN]
      /\ None \in Time
      /\ ClosedBreaker \in Breaker
  BY DEF FullSweep, Job, NothingAttempted, ClosedBreaker, Breaker, Time
<1>2. bucket \in [Buckets -> Entry \cup {None}]
  <2>1. SeededEntries \subseteq Entry \cup {None}
    BY SeedAssumption DEF Entry
  <2> QED
    BY <2>1 DEF Init, CacheInit
<1> QED
  <2>1. HasCurrent
    BY DEF Init, HasCurrent, Holding
  <2>2. CacheTypeOK
    BY <1>1, <1>2 DEF Init, CacheInit, CacheTypeOK
  <2>3. /\ pc \in [Workers -> PCs] /\ job \in [Workers -> Job]
        /\ todo \in [Workers -> Seq(Buckets)] /\ queue \in Seq(Job)
        /\ tally \in [Workers -> [attempted : BOOLEAN, succeeded : BOOLEAN]]
        /\ fetched \in [Workers -> Time] /\ seen \in [Workers -> Breaker]
    BY <1>1 DEF Init, PCs
  <2>4. /\ sweeps \in 0..MaxSweeps /\ faults \in 0..MaxFaults /\ failedTicks \in Nat
        /\ alerts \in Nat
    BY RefreshAssumption DEF Init
  <2>5. raced \in BOOLEAN /\ owing \subseteq Workers /\ early \subseteq Workers
    BY Zenon DEF Init
  <2> QED
    BY <2>1, <2>2, <2>3, <2>4, <2>5 DEF TypeInv, TypeOK

\* Every reachable state is well typed, whatever the constants.
THEOREM TypeCorrect == Spec => []TypeOK
  BY InitType, TypeStep, PTL DEF Spec, TypeInv

\* What the later proofs take from it.
LEMMA TypesHold == Spec => []TypeInv
  BY InitType, TypeStep, PTL DEF Spec

-----------------------------------------------------------------------------
(* The breaker hash *)

\* A well-formed breaker hash stays so while time passes.
LEMMA WellFormedLater ==
    ASSUME NEW br \in Breaker, NEW t \in Nat, NEW u \in Nat, t <= u,
           WellFormed(br, t)
    PROVE  WellFormed(br, u)
  BY DEF WellFormed, Breaker

\* The closed breaker is well formed at any time.
LEMMA ClosedWellFormed ==
    ASSUME NEW t \in Nat
    PROVE  WellFormed(ClosedBreaker, t)
  BY CacheAssumption DEF WellFormed, ClosedBreaker

\* A failure recorded on a well-formed hash leaves a well-formed hash: it is OPEN
\* exactly from the threshold on, whatever state it is computed from.
LEMMA FailureWellFormed ==
    ASSUME NEW br \in Breaker, NEW t \in Nat, WellFormed(br, t)
    PROVE  WellFormed(AfterFailure(br, t), t)
<1> DEFINE n == br.failures + 1
<1>1. n \in Nat /\ br.failures \in Nat /\ FailureThreshold \in Nat
  BY CacheAssumption DEF Breaker
<1>2. BackoffAfter(n) \in Nat
  BY <1>1, BackoffType
<1>3. CASE br.failures + 1 < FailureThreshold
  <2>1. br.state = "CLOSED" /\ ~JustOpened(br)
    BY <1>1, <1>3 DEF WellFormed, JustOpened
  <2>2. AfterFailure(br, t) =
          [state |-> "CLOSED", failures |-> n, openedAt |-> None, nextRetryAt |-> None]
    BY <2>1 DEF AfterFailure
  <2> QED
    BY <1>3, <2>2 DEF WellFormed
<1>4. CASE ~(br.failures + 1 < FailureThreshold)
  <2>1. br.state = "CLOSED" => JustOpened(br)
    BY <1>1, <1>4 DEF JustOpened
  <2>2. AfterFailure(br, t) =
          [state |-> "OPEN", failures |-> n,
           openedAt |-> IF br.state = "OPEN" THEN br.openedAt ELSE t,
           nextRetryAt |-> t + BackoffAfter(n)]
    BY <2>1 DEF AfterFailure
  <2>3. br.state = "OPEN" => br.openedAt \in Nat /\ br.openedAt <= t
    BY <1>1 DEF WellFormed
  <2> DEFINE o == IF br.state = "OPEN" THEN br.openedAt ELSE t
  <2>4. o \in Nat /\ o <= t
    BY <2>3
  <2> HIDE DEF n, o
  <2>5. o <= t + BackoffAfter(n) /\ t + BackoffAfter(n) \in Nat
    BY <1>2, <2>4
  <2>6. ~(n < FailureThreshold)
    BY <1>4 DEF n
  <2> QED
    BY <2>2, <2>4, <2>5, <2>6 DEF WellFormed, o
<1> QED
  BY <1>3, <1>4

\* An instance whose job ends has nothing read from the breaker left to write.
LEMMA EndJobBreaker ==
    ASSUME TypeInv, BreakerInv, NEW w \in Workers, EndJob(w),
           WellFormed(breaker', now), now' = now
    PROVE  BreakerInv'
  BY DEF TypeInv, TypeOK, BreakerInv, EndJob, GoTo

\* Every step keeps the breaker hash, and every copy read of it, well formed.
LEMMA BreakerStep == TypeInv /\ BreakerInv /\ [Next]_vars => BreakerInv'
<1> SUFFICES ASSUME TypeInv, BreakerInv, [Next]_vars
             PROVE  BreakerInv'
  OBVIOUS
<1>0. /\ now \in Nat
      /\ breaker \in Breaker
      /\ seen \in [Workers -> Breaker]
      /\ pc \in [Workers -> PCs]
      /\ WellFormed(breaker, now)
      /\ \A w \in Workers : pc[w] = "failure" => WellFormed(seen[w], now)
  BY DEF TypeInv, TypeOK, CacheTypeOK, BreakerInv
<1> SUFFICES /\ WellFormed(breaker', now')
             /\ \A w \in Workers : pc'[w] = "failure" => WellFormed(seen'[w], now')
  BY DEF BreakerInv
<1>1. CASE CronTick
  BY <1>0, <1>1 DEF CronTick, cacheVars, workerVars
<1>2. CASE Tick
  <2>1. now' \in Nat /\ now <= now' /\ UNCHANGED <<breaker, pc, seen>>
    BY <1>0, <1>2 DEF Tick, Elapse, refreshVars, workerVars
  <2> QED
    BY <1>0, <2>1, WellFormedLater
<1>3. ASSUME NEW w \in Workers, TakeJob(w)
      PROVE  BreakerInv'
  BY <1>0, <1>3 DEF TakeJob, GoTo, cacheVars, BreakerInv
<1>4. ASSUME NEW w \in Workers,
             Crash(w) \/ InfrastructureFault(w) \/ FinishUntouched(w) \/ SendAlert(w)
      PROVE  BreakerInv'
  BY <1>0, <1>4, EndJobBreaker
     DEF Crash, InfrastructureFault, FinishUntouched, SendAlert, cacheVars
<1>5. ASSUME NEW w \in Workers, CheckBreaker(w)
      PROVE  BreakerInv'
  <2>1. CASE EndJob(w)
    BY <1>0, <1>5, <2>1, EndJobBreaker DEF CheckBreaker, cacheVars
  <2>2. CASE ~EndJob(w)
    BY <1>0, <1>5, <2>2 DEF CheckBreaker, GoTo, cacheVars, BreakerInv
  <2> QED
    BY <2>1, <2>2
<1>6. ASSUME NEW w \in Workers, AcquireBucket(w)
      PROVE  BreakerInv'
  <2>1. /\ UNCHANGED <<now, breaker, seen>>
        /\ pc' = pc \/ pc' = [pc EXCEPT ![w] = "fetch"]
    BY <1>6 DEF AcquireBucket, GoTo
  <2> QED
    BY <1>0, <2>1 DEF BreakerInv
<1>7. ASSUME NEW w \in Workers,
             \/ FetchSucceeds(w) \/ BucketFails(w) \/ WriteBucket(w)
             \/ EnqueueOutOfBand(w) \/ ReleaseBucket(w)
      PROVE  BreakerInv'
  <2>1. /\ UNCHANGED <<now, breaker, seen>>
        /\ \E p \in PCs \ {"failure"} : pc' = [pc EXCEPT ![w] = p]
    BY <1>7 DEF FetchSucceeds, BucketFails, WriteBucket, EnqueueOutOfBand,
                ReleaseBucket, GoTo, cacheVars, PCs
  <2> QED
    BY <1>0, <2>1 DEF BreakerInv
<1>8. ASSUME NEW w \in Workers, RecordSuccess(w)
      PROVE  BreakerInv'
  <2>1. WellFormed(ClosedBreaker, now)
    BY <1>0, ClosedWellFormed
  <2> QED
    BY <1>8, <2>1, EndJobBreaker DEF RecordSuccess
<1>9. ASSUME NEW w \in Workers, ReadBreaker(w)
      PROVE  BreakerInv'
  BY <1>0, <1>9 DEF ReadBreaker, GoTo, cacheVars, BreakerInv
<1>10. ASSUME NEW w \in Workers, RecordFailure(w)
       PROVE  BreakerInv'
  <2>1. WellFormed(AfterFailure(seen[w], now), now)
    BY <1>0, <1>10, FailureWellFormed DEF RecordFailure
  <2>2. WellFormed(breaker', now) /\ now' = now
    BY <1>10, <2>1 DEF RecordFailure
  <2>3. CASE EndJob(w)
    BY <2>2, <2>3, EndJobBreaker
  <2>4. CASE ~EndJob(w)
    <3>1. pc' = [pc EXCEPT ![w] = "alert"] /\ \A v \in Workers \ {w} : seen'[v] = seen[v]
      BY <1>0, <1>10, <2>4 DEF RecordFailure, GoTo
    <3> QED
      BY <1>0, <2>2, <3>1 DEF BreakerInv
  <2> QED
    BY <2>3, <2>4
<1>11. CASE UNCHANGED vars
  BY <1>0, <1>11 DEF vars, cacheVars, refreshVars, workerVars
<1> QED
  BY <1>1, <1>2, <1>3, <1>4, <1>5, <1>6, <1>7, <1>8, <1>9, <1>10, <1>11
     DEF Next, WorkerStep, BreakerInv

\* However many instances read and write the breaker hash without atomicity, it is
\* always consistent with itself (universe-cache.ts, recordRefreshFailure).
THEOREM BreakerConsistent == Spec => []WellFormed(breaker, now)
<1>1. Init => BreakerInv
  BY ClosedWellFormed DEF Init, CacheInit, BreakerInv
<1> QED
  BY <1>1, TypesHold, BreakerStep, PTL DEF Spec, BreakerInv

-----------------------------------------------------------------------------
(* The failure counter *)

\* Inductive form of CountsConsecutiveFailures: who is about to record a failure has
\* a job that failed.
CountInv ==
    /\ CountsConsecutiveFailures
    /\ \A w \in Workers : pc[w] = "failure" => JobFailed(w)

\* Recording a failure adds exactly one to the count that was read.
LEMMA FailureCounts ==
    ASSUME NEW br \in Breaker, NEW t \in Nat
    PROVE  AfterFailure(br, t).failures = br.failures + 1
  BY DEF AfterFailure

\* A step of one instance that leaves the counts alone and takes it to no record.
LEMMA CountKept ==
    ASSUME TypeInv, CountInv, NEW w \in Workers, UNCHANGED <<breaker, failedTicks, raced>>,
           NEW p \in PCs \ {"failure"}, pc' = pc \/ pc' = [pc EXCEPT ![w] = p],
           tally' = tally
             \/ (pc[w] # "failure" /\ \A v \in Workers \ {w} : tally'[v] = tally[v])
    PROVE  CountInv'
<1>0. /\ pc \in [Workers -> PCs]
      /\ ~raced => breaker.failures = failedTicks
      /\ \A v \in Workers : pc[v] = "failure" => tally[v].attempted /\ ~tally[v].succeeded
  BY DEF TypeInv, TypeOK, CountInv, CountsConsecutiveFailures, JobFailed
<1>1. ~raced' => breaker'.failures = failedTicks'
  BY <1>0
<1>2. ASSUME NEW v \in Workers, pc'[v] = "failure"
      PROVE  tally'[v].attempted /\ ~tally'[v].succeeded
  <2>1. pc[v] = "failure"
    BY <1>0, <1>2
  <2>2. tally'[v] = tally[v]
    BY <1>0, <1>2, <2>1
  <2> QED
    BY <1>0, <2>1, <2>2
<1> QED
  BY <1>1, <1>2 DEF CountInv, CountsConsecutiveFailures, JobFailed

\* Every step keeps the stored count equal to the failed jobs, unless it races.
LEMMA CountStep == TypeInv /\ CountInv /\ [Next]_vars => CountInv'
<1> SUFFICES ASSUME TypeInv, CountInv, [Next]_vars
             PROVE  CountInv'
  OBVIOUS
<1>0. /\ now \in Nat /\ breaker \in Breaker /\ failedTicks \in Nat
      /\ pc \in [Workers -> PCs] /\ seen \in [Workers -> Breaker]
      /\ tally \in [Workers -> [attempted : BOOLEAN, succeeded : BOOLEAN]]
      /\ ~raced => breaker.failures = failedTicks
  BY DEF TypeInv, TypeOK, CacheTypeOK, CountInv, CountsConsecutiveFailures
<1>1. CASE CronTick \/ Tick \/ UNCHANGED vars
  <2>1. UNCHANGED <<breaker, failedTicks, raced, pc, tally>>
    BY <1>1 DEF CronTick, Tick, Elapse, vars, cacheVars, refreshVars, workerVars, historyVars
  <2> QED
    BY <2>1 DEF CountInv, CountsConsecutiveFailures, JobFailed
<1>2. ASSUME NEW w \in Workers,
             \/ TakeJob(w) \/ CheckBreaker(w) \/ FetchSucceeds(w) \/ BucketFails(w)
             \/ ReleaseBucket(w) \/ AcquireBucket(w)
      PROVE  CountInv'
  <2>1. /\ UNCHANGED <<breaker, failedTicks, raced>>
        /\ pc[w] # "failure"
    BY <1>2 DEF TakeJob, CheckBreaker, AcquireBucket, FetchSucceeds, BucketFails,
                ReleaseBucket, cacheVars, historyVars
  <2>2. \A v \in Workers \ {w} : tally'[v] = tally[v]
    BY <1>0, <1>2 DEF TakeJob, CheckBreaker, AcquireBucket, FetchSucceeds, BucketFails,
                ReleaseBucket, EndJob
  <2>3. \E p \in PCs \ {"failure"} : pc' = pc \/ pc' = [pc EXCEPT ![w] = p]
    BY <1>2 DEF TakeJob, CheckBreaker, AcquireBucket, FetchSucceeds, BucketFails,
                ReleaseBucket, EndJob, GoTo, PCs
  <2> QED
    BY <2>1, <2>2, <2>3, CountKept
<1>3. ASSUME NEW w \in Workers, WriteBucket(w) \/ EnqueueOutOfBand(w)
      PROVE  CountInv'
  <2>1. /\ UNCHANGED <<breaker, failedTicks, raced>>
        /\ pc[w] # "failure"
    BY <1>3 DEF WriteBucket, EnqueueOutOfBand, cacheVars, historyVars
  <2>2. \A v \in Workers \ {w} : tally'[v] = tally[v]
    BY <1>0, <1>3 DEF WriteBucket, EnqueueOutOfBand
  <2>3. \E p \in PCs \ {"failure"} : pc' = pc \/ pc' = [pc EXCEPT ![w] = p]
    BY <1>3 DEF WriteBucket, EnqueueOutOfBand, GoTo, PCs
  <2> QED
    BY <2>1, <2>2, <2>3, CountKept
<1>4. ASSUME NEW w \in Workers,
             Crash(w) \/ InfrastructureFault(w) \/ FinishUntouched(w) \/ SendAlert(w)
      PROVE  CountInv'
  <2>1. /\ UNCHANGED <<breaker, failedTicks, raced>>
        /\ EndJob(w)
    BY <1>4 DEF Crash, InfrastructureFault, FinishUntouched, SendAlert, cacheVars, historyVars
  <2>2. /\ pc' = [pc EXCEPT ![w] = "idle"] /\ pc'[w] = "idle"
        /\ \A v \in Workers \ {w} : tally'[v] = tally[v]
    BY <1>0, <2>1 DEF EndJob, GoTo
  <2>3. \A v \in Workers : pc'[v] = "failure" => pc[v] = "failure" /\ tally'[v] = tally[v]
    BY <1>0, <2>2
  <2>4. \A v \in Workers : pc'[v] = "failure" => JobFailed(v)'
    BY <2>3 DEF CountInv, JobFailed
  <2>5. CountsConsecutiveFailures'
    BY <2>1, Zenon DEF CountInv, CountsConsecutiveFailures
  <2> QED
    BY <2>4, <2>5 DEF CountInv
<1>5. ASSUME NEW w \in Workers, RecordSuccess(w)
      PROVE  CountInv'
  <2>1. /\ breaker' = ClosedBreaker /\ failedTicks' = 0
        /\ pc' = [pc EXCEPT ![w] = "idle"]
        /\ \A v \in Workers \ {w} : tally'[v] = tally[v]
    BY <1>0, <1>5 DEF RecordSuccess, TicksFailed, JobFailed, EndJob, GoTo
  <2>2. breaker'.failures = failedTicks'
    BY <2>1 DEF ClosedBreaker
  <2>3. \A v \in Workers : pc'[v] = "failure" => pc[v] = "failure" /\ tally'[v] = tally[v]
    BY <1>0, <2>1
  <2> QED
    BY <2>2, <2>3 DEF CountInv, CountsConsecutiveFailures, JobFailed
<1>6. ASSUME NEW w \in Workers, ReadBreaker(w)
      PROVE  CountInv'
  <2>1. /\ UNCHANGED <<breaker, failedTicks, raced, tally>>
        /\ pc' = [pc EXCEPT ![w] = "failure"] /\ JobFailed(w)
    BY <1>6 DEF ReadBreaker, JobFailed, GoTo, cacheVars, historyVars
  <2> QED
    BY <1>0, <2>1 DEF CountInv, CountsConsecutiveFailures, JobFailed
<1>7. ASSUME NEW w \in Workers, RecordFailure(w)
      PROVE  CountInv'
  <2>1. /\ pc[w] = "failure" /\ JobFailed(w)
        /\ breaker' = AfterFailure(seen[w], now)
        /\ failedTicks' = failedTicks + 1
        /\ raced' = (raced \/ seen[w] # breaker)
        /\ pc' = [pc EXCEPT ![w] = "alert"] \/ pc' = [pc EXCEPT ![w] = "idle"]
        /\ \A v \in Workers \ {w} : tally'[v] = tally[v]
    BY <1>0, <1>7 DEF RecordFailure, CountInv, TicksFailed, EndJob, GoTo
  <2>2. breaker'.failures = seen[w].failures + 1
    BY <1>0, <2>1, FailureCounts
  <2>3. ~raced' => breaker'.failures = failedTicks'
    <3> SUFFICES ASSUME ~raced'
                 PROVE  breaker'.failures = failedTicks'
      OBVIOUS
    <3>1. ~raced /\ seen[w] = breaker
      BY <2>1
    <3>2. breaker.failures = failedTicks
      BY <1>0, <3>1
    <3> QED
      BY <2>1, <2>2, <3>1, <3>2
  <2>4. \A v \in Workers : pc'[v] = "failure" => pc[v] = "failure" /\ tally'[v] = tally[v]
    BY <1>0, <2>1
  <2> QED
    BY <2>3, <2>4 DEF CountInv, CountsConsecutiveFailures, JobFailed
<1> QED
  BY <1>1, <1>2, <1>3, <1>4, <1>5, <1>6, <1>7, Zenon DEF Next, WorkerStep

\* Nothing is counted and nobody records anything at the start.
LEMMA CountStart == Init => CountInv
  BY DEF Init, CacheInit, CountInv, CountsConsecutiveFailures, ClosedBreaker

\* For any number of instances the breaker counts exactly the failed jobs since the last
\* success, although recordRefreshFailure reads and writes the hash in two commands,
\* as long as no failure is written over a value its writer has not read.
THEOREM CountIsExact == Spec => []CountsConsecutiveFailures
<1>1. TypeInv /\ CountInv /\ [Next]_vars => CountInv'
  BY CountStep
<1> QED
  BY <1>1, CountStart, TypesHold, PTL DEF Spec, CountInv

-----------------------------------------------------------------------------
(* The backoff *)

\* A job that has passed the gate is outside the backoff, or was past it when the last
\* failure was recorded: time only leads out of the backoff, and only a failure into it.
QuietInv == \A w \in Workers : pc[w] \in Admitted => ~InBackoff \/ w \in early

\* Every step keeps it.
LEMMA QuietStep == TypeInv /\ QuietInv /\ [Next]_vars => QuietInv'
<1> SUFFICES ASSUME TypeInv, QuietInv, [Next]_vars
             PROVE  QuietInv'
  OBVIOUS
<1>0. /\ now \in Nat /\ pc \in [Workers -> PCs]
      /\ breaker.nextRetryAt \in Nat \cup {None}
      /\ \A w \in Workers : pc[w] \in Admitted => ~InBackoff \/ w \in early
  BY DEF TypeInv, TypeOK, CacheTypeOK, Breaker, Time, QuietInv
<1>1. CASE CronTick \/ Tick \/ UNCHANGED vars
  <2>1. UNCHANGED <<breaker, pc, early>> /\ now' \in {now, now + 1}
    BY <1>1 DEF CronTick, Tick, Elapse, vars, cacheVars, refreshVars, workerVars, historyVars
  <2>2. ~InBackoff => ~InBackoff'
    BY <1>0, <2>1, CacheAssumption DEF InBackoff
  <2> QED
    BY <1>0, <2>1, <2>2 DEF QuietInv
\* A step that neither admits an instance nor writes the breaker.
<1>2. ASSUME NEW w \in Workers,
             \/ TakeJob(w) \/ Crash(w) \/ InfrastructureFault(w) \/ FinishUntouched(w)
             \/ ReadBreaker(w) \/ SendAlert(w) \/ AcquireBucket(w) \/ FetchSucceeds(w)
             \/ BucketFails(w) \/ WriteBucket(w) \/ EnqueueOutOfBand(w) \/ ReleaseBucket(w)
      PROVE  QuietInv'
  <2>1. UNCHANGED <<breaker, now, early>>
    BY <1>2 DEF TakeJob, Crash, InfrastructureFault, FinishUntouched, ReadBreaker, SendAlert,
       AcquireBucket, FetchSucceeds, BucketFails, WriteBucket, EnqueueOutOfBand,
       ReleaseBucket, cacheVars, historyVars
  <2>2. CASE pc[w] \in Admitted
    <3>1. \E p \in PCs : pc' = pc \/ pc' = [pc EXCEPT ![w] = p]
      BY <1>2 DEF TakeJob, Crash, InfrastructureFault, FinishUntouched, ReadBreaker, SendAlert,
         AcquireBucket, FetchSucceeds, BucketFails, WriteBucket, EnqueueOutOfBand,
         ReleaseBucket, EndJob, GoTo, PCs
    <3>2. \A v \in Workers : pc'[v] \in Admitted => pc[v] \in Admitted
      BY <1>0, <2>2, <3>1
    <3> QED
      BY <1>0, <2>1, <3>2 DEF QuietInv, InBackoff
  <2>3. CASE pc[w] \notin Admitted
    <3>1. \E p \in PCs \ Admitted : pc' = pc \/ pc' = [pc EXCEPT ![w] = p]
      BY <1>2, <2>3 DEF TakeJob, Crash, InfrastructureFault, FinishUntouched, ReadBreaker,
         SendAlert, AcquireBucket, FetchSucceeds, BucketFails, WriteBucket,
         EnqueueOutOfBand, ReleaseBucket, EndJob, GoTo, PCs, Admitted, Holding
    <3>2. \A v \in Workers : pc'[v] \in Admitted => pc[v] \in Admitted
      BY <1>0, <3>1
    <3> QED
      BY <1>0, <2>1, <3>2 DEF QuietInv, InBackoff
  <2> QED
    BY <2>2, <2>3
<1>3. ASSUME NEW w \in Workers, CheckBreaker(w)
      PROVE  QuietInv'
  <2>1. UNCHANGED <<breaker, now>>
    BY <1>3 DEF CheckBreaker, cacheVars
  <2>2. InBackoff' <=> InBackoff
    BY <2>1 DEF InBackoff
  <2>3. \/ pc' = [pc EXCEPT ![w] = "idle"] /\ early' = early
        \/ ~InBackoff
    BY <1>3 DEF CheckBreaker, EndJob, GoTo
  <2>4. "idle" \notin Admitted
    BY DEF Admitted, Holding
  <2> QED
    BY <1>0, <2>2, <2>3, <2>4 DEF QuietInv
<1>4. ASSUME NEW w \in Workers, RecordSuccess(w)
      PROVE  QuietInv'
  <2>1. ~InBackoff'
    BY <1>4 DEF RecordSuccess, ClosedBreaker, InBackoff
  <2> QED
    BY <2>1 DEF QuietInv
<1>5. ASSUME NEW w \in Workers, RecordFailure(w)
      PROVE  QuietInv'
  <2>1. /\ early' = {v \in Workers : pc[v] \in Admitted}
        /\ pc' = [pc EXCEPT ![w] = "alert"] \/ pc' = [pc EXCEPT ![w] = "idle"]
    BY <1>5 DEF RecordFailure, EndJob, GoTo
  <2>2. "idle" \notin Admitted /\ "alert" \notin Admitted
    BY DEF Admitted, Holding
  <2>3. \A v \in Workers : pc'[v] \in Admitted => v \in early'
    BY <1>0, <2>1, <2>2
  <2> QED
    BY <2>3 DEF QuietInv
<1> QED
  BY <1>1, <1>2, <1>3, <1>4, <1>5, Zenon DEF Next, WorkerStep

\* For any number of instances no EODHD request starts inside the backoff but by a job
\* that was past the gate when the failure was recorded, although the breaker is looked
\* at once per job and its buckets may be reached much later.
THEOREM QuietWhileOpen == Spec => QuietInBackoff
<1>1. Init => QuietInv
  BY DEF Init, QuietInv, Admitted, Holding
<1>2. TypeInv /\ QuietInv /\ [Next]_vars
      => [\A w \in Workers :
            pc[w] # "fetch" /\ pc'[w] = "fetch" => ~InBackoff \/ w \in early]_vars
  <2> SUFFICES ASSUME TypeInv, QuietInv, [Next]_vars, NEW w \in Workers,
                      pc[w] # "fetch", pc'[w] = "fetch"
               PROVE  ~InBackoff \/ w \in early
    OBVIOUS
  <2>1. pc \in [Workers -> PCs]
    BY DEF TypeInv, TypeOK
  <2>2. pc[w] = "loop"
    <3>1. ASSUME NEW v \in Workers, WorkerStep(v) \/ Crash(v) \/ InfrastructureFault(v)
          PROVE  pc[w] = "loop"
      BY <2>1, <3>1 DEF WorkerStep, TakeJob, CheckBreaker, AcquireBucket, FetchSucceeds,
         BucketFails, WriteBucket, EnqueueOutOfBand, ReleaseBucket, FinishUntouched,
         RecordSuccess, ReadBreaker, RecordFailure, SendAlert, Crash, InfrastructureFault,
         EndJob, GoTo
    <3>2. CASE CronTick \/ Tick \/ UNCHANGED vars
      BY <3>2 DEF CronTick, Tick, vars, refreshVars, workerVars
    <3> QED
      BY <3>1, <3>2, Zenon DEF Next
  <2> QED
    BY <2>2 DEF QuietInv, Admitted
<1> QED
  BY <1>1, <1>2, QuietStep, TypesHold, PTL DEF Spec, QuietInBackoff

-----------------------------------------------------------------------------
(* The abstract circuit breaker *)

\* An alert is owed by an instance that is about to send it.
OwingInv == \A w \in owing : pc[w] = "alert"

RefinementInv == TypeInv /\ BreakerInv /\ OwingInv

AbstractStep == [AbstractBreaker!Next]_(AbstractBreaker!breakerVars)

\* A step that leaves the hash, the alarm and the recorders alone is a stutter.
LEMMA Stutters ==
    ASSUME UNCHANGED <<now, breaker, owing, alerts, raced>>,
           \A w \in Workers : pc[w] = "failure" <=> pc'[w] = "failure",
           \A w \in Workers : pc[w] = "failure" => seen'[w] = seen[w]
    PROVE  AbstractStep
<1>1. Recording' = Recording /\ UpToDate' = UpToDate
  BY DEF Recording, UpToDate
<1> QED
  BY <1>1 DEF AbstractStep, AbstractBreaker!breakerVars

\* A recorded failure is counted, dates the episode it opens, and owes the alarm; one
\* that was overtaken tears the breaker.
LEMMA FailureRefines ==
    ASSUME RefinementInv, NEW w \in Workers, RecordFailure(w)
    PROVE  AbstractStep /\ OwingInv'
<1>0. /\ now \in Nat /\ breaker \in Breaker /\ seen \in [Workers -> Breaker]
      /\ WellFormed(breaker, now) /\ WellFormed(seen[w], now)
      /\ pc \in [Workers -> PCs] /\ FailureThreshold \in Nat \ {0}
      /\ pc[w] = "failure"
      /\ \A v \in owing : pc[v] = "alert"
      /\ owing \subseteq Workers
  BY CacheAssumption
     DEF RefinementInv, TypeInv, TypeOK, CacheTypeOK, BreakerInv, OwingInv, RecordFailure
<1>1. /\ breaker' = AfterFailure(seen[w], now)
      /\ UNCHANGED <<now, alerts>>
      /\ raced' = (raced \/ seen[w] # breaker)
      /\ pc' = [pc EXCEPT ![w] = IF JustOpened(seen[w]) THEN "alert" ELSE "idle"]
      /\ owing' = IF JustOpened(seen[w]) THEN owing \cup {w} ELSE owing
      /\ \A v \in Workers \ {w} : seen'[v] = seen[v]
  BY <1>0 DEF RecordFailure, EndJob, GoTo
<1>2. /\ breaker' \in Breaker /\ breaker'.failures = seen[w].failures + 1
      /\ WellFormed(breaker', now)
  BY <1>0, <1>1, AfterFailureType, FailureCounts, FailureWellFormed
<1>3. /\ seen[w].failures \in Nat /\ seen[w].state \in {"CLOSED", "OPEN"}
      /\ breaker'.failures \in Nat
  BY <1>0, <1>2 DEF Breaker
<1>4. AbstractBreaker!Written(w)
  <2>1. Recording' = Recording \ {w}
    BY <1>0, <1>1 DEF Recording
  <2>2. UpToDate' \subseteq Recording'
    BY DEF UpToDate
  <2> QED
    BY <1>1, <2>1, <2>2 DEF AbstractBreaker!Written
<1>5. OwingInv'
  BY <1>0, <1>1 DEF OwingInv
<1>6. w \in Recording
  BY <1>0 DEF Recording
<1>7. CASE seen[w] = breaker
  <2>a. w \in UpToDate
    BY <1>6, <1>7 DEF UpToDate
  <2>b. raced \in BOOLEAN
    BY DEF RefinementInv, TypeInv, TypeOK
  <2>c. raced' = (raced \/ FALSE)
    BY <1>1, <1>7, Zenon
  <2>d. raced' = raced
    BY <2>b, <2>c, Zenon
  <2>0. w \in UpToDate /\ raced' = raced
    BY <2>a, <2>d
  <2>1. breaker.state = "CLOSED" <=> breaker.failures < FailureThreshold
    BY <1>0 DEF WellFormed
  \* The failure reaches the threshold.
  <2>2. CASE JustOpened(breaker)
    <3>1. breaker.state = "CLOSED" /\ breaker.failures + 1 = FailureThreshold
      BY <1>0, <1>3, <1>7, <2>1, <2>2 DEF JustOpened
    <3>2. breaker'.openedAt = now
      BY <1>1, <1>7, <2>2, <3>1 DEF AfterFailure
    <3>3. owing' = owing \cup {w}
      BY <1>1, <1>7, <2>2
    <3>4. AbstractBreaker!Open(w)
      BY <1>2, <1>4, <1>7, <2>0, <3>1, <3>2, <3>3 DEF AbstractBreaker!Open
    <3> QED
      BY <1>5, <3>4 DEF AbstractStep, AbstractBreaker!Next
  \* It stays below the threshold, or the breaker is open already.
  <2>3. CASE ~JustOpened(breaker)
    <3>1. breaker.failures + 1 # FailureThreshold
      BY <1>0, <1>3, <1>7, <2>1, <2>3 DEF JustOpened
    <3>2. breaker'.openedAt = breaker.openedAt
      <4>1. breaker.state = "CLOSED" => breaker.openedAt = None
        BY <1>0, <2>1 DEF WellFormed
      <4> QED
        BY <1>1, <1>3, <1>7, <2>3, <4>1 DEF AfterFailure
    <3>3. owing' = owing
      BY <1>1, <1>7, <2>3
    <3>4. AbstractBreaker!Fail(w)
      BY <1>2, <1>4, <1>7, <2>0, <3>1, <3>2, <3>3 DEF AbstractBreaker!Fail
    <3> QED
      BY <1>5, <3>4 DEF AbstractStep, AbstractBreaker!Next
  <2> QED
    BY <2>2, <2>3
\* Somebody else has written the hash since.
<1>8. CASE seen[w] # breaker
  <2>1. w \in Recording \ UpToDate /\ raced' = TRUE
    BY <1>1, <1>6, <1>8, Zenon DEF UpToDate
  <2>2. breaker'.openedAt = None <=> breaker'.failures < FailureThreshold
    BY <1>2, CacheAssumption DEF WellFormed
  <2>3. owing' \in {owing, owing \cup {w}}
    BY <1>1
  <2>4. AbstractBreaker!Race(w)
    BY <1>3, <1>4, <2>1, <2>2, <2>3 DEF AbstractBreaker!Race
  <2> QED
    BY <1>5, <2>4 DEF AbstractStep, AbstractBreaker!Next
<1> QED
  BY <1>7, <1>8

\* The end of the job that owes the alarm settles it; the end of one that was about to
\* record a failure abandons that.
LEMMA EndsRefine ==
    ASSUME RefinementInv, NEW w \in Workers, pc[w] # "alert" => alerts' = alerts,
           EndJob(w), UNCHANGED <<now, breaker, raced>>, owing' = owing \ {w},
           alerts' \in {alerts, IF w \in owing THEN alerts + 1 ELSE alerts}
    PROVE  AbstractStep /\ OwingInv'
<1>0. /\ pc \in [Workers -> PCs] /\ owing \subseteq Workers
      /\ \A v \in owing : pc[v] = "alert"
      /\ pc' = [pc EXCEPT ![w] = "idle"]
      /\ \A v \in Workers \ {w} : seen'[v] = seen[v]
  BY DEF RefinementInv, TypeInv, TypeOK, OwingInv, EndJob, GoTo
<1>1. OwingInv'
  BY <1>0 DEF OwingInv
<1>2. CASE pc[w] = "failure"
  <2>1. owing' = owing /\ alerts' = alerts
    BY <1>0, <1>2
  <2>2. /\ w \in Recording
        /\ Recording' = Recording \ {w} /\ UpToDate' = UpToDate \ {w}
    BY <1>0, <1>2 DEF Recording, UpToDate
  <2>3. AbstractBreaker!Abandon(w)
    BY <2>1, <2>2 DEF AbstractBreaker!Abandon
  <2> QED
    BY <1>1, <2>3 DEF AbstractStep, AbstractBreaker!Next
<1>3. CASE pc[w] # "failure"
  <2>1. Recording' = Recording /\ UpToDate' = UpToDate
    BY <1>0, <1>3 DEF Recording, UpToDate
  <2>2. CASE w \in owing
    <3>1. AbstractBreaker!Settle(w)
      BY <2>1, <2>2 DEF AbstractBreaker!Settle
    <3> QED
      BY <1>1, <3>1 DEF AbstractStep, AbstractBreaker!Next
  <2>3. CASE w \notin owing
    <3>1. owing' = owing /\ alerts' = alerts
      BY <2>3
    <3> QED
      BY <1>1, <2>1, <3>1 DEF AbstractStep, AbstractBreaker!breakerVars
  <2> QED
    BY <2>2, <2>3
<1> QED
  BY <1>2, <1>3

\* Every step of the worker is a step of the abstract breaker or a stutter, and an alert
\* stays with the instance that is about to send it.
LEMMA RefineStep == RefinementInv /\ [Next]_vars => AbstractStep /\ OwingInv'
<1> SUFFICES ASSUME RefinementInv, [Next]_vars
             PROVE  AbstractStep /\ OwingInv'
  OBVIOUS
<1>0. /\ now \in Nat /\ breaker \in Breaker /\ alerts \in Nat
      /\ pc \in [Workers -> PCs] /\ seen \in [Workers -> Breaker]
      /\ owing \subseteq Workers
      /\ \A v \in owing : pc[v] = "alert"
      /\ RefinementInv
  BY DEF RefinementInv, TypeInv, TypeOK, CacheTypeOK, OwingInv
<1>1. CASE CronTick \/ UNCHANGED vars
  <2>1. UNCHANGED <<now, breaker, pc, seen, owing, alerts, raced>>
    BY <1>1 DEF CronTick, vars, cacheVars, refreshVars, workerVars, historyVars
  <2> QED
    BY <1>0, <2>1, Stutters DEF OwingInv
<1>2. CASE Tick
  <2>1. now' = now + 1 /\ UNCHANGED <<breaker, pc, seen, owing, alerts, raced>>
    BY <1>2 DEF Tick, Elapse, refreshVars, workerVars, historyVars
  <2>2. Recording' = Recording /\ UpToDate' = UpToDate
    BY <2>1 DEF Recording, UpToDate
  <2>3. AbstractBreaker!Pass
    BY <2>1, <2>2 DEF AbstractBreaker!Pass
  <2> QED
    BY <1>0, <2>1, <2>3 DEF AbstractStep, AbstractBreaker!Next, OwingInv
<1>3. ASSUME NEW w \in Workers,
             \/ TakeJob(w) \/ CheckBreaker(w) \/ AcquireBucket(w) \/ FetchSucceeds(w)
             \/ BucketFails(w) \/ WriteBucket(w) \/ EnqueueOutOfBand(w)
             \/ ReleaseBucket(w) \/ FinishUntouched(w)
      PROVE  AbstractStep /\ OwingInv'
  <2>1. UNCHANGED <<now, breaker, owing, alerts, raced>>
    BY <1>3 DEF TakeJob, CheckBreaker, AcquireBucket, FetchSucceeds, BucketFails,
                WriteBucket, EnqueueOutOfBand, ReleaseBucket, FinishUntouched,
                cacheVars, historyVars
  <2>2. pc[w] \notin {"failure", "alert"}
    BY <1>3 DEF TakeJob, CheckBreaker, AcquireBucket, FetchSucceeds, BucketFails,
                WriteBucket, EnqueueOutOfBand, ReleaseBucket, FinishUntouched
  <2>3. \E p \in PCs \ {"failure"} : pc' = pc \/ pc' = [pc EXCEPT ![w] = p]
    BY <1>3 DEF TakeJob, CheckBreaker, AcquireBucket, FetchSucceeds, BucketFails,
                WriteBucket, EnqueueOutOfBand, ReleaseBucket, FinishUntouched,
                EndJob, GoTo, PCs
  <2>4. \A v \in Workers \ {w} : seen'[v] = seen[v]
    BY <1>0, <1>3 DEF TakeJob, CheckBreaker, AcquireBucket, FetchSucceeds, BucketFails,
                WriteBucket, EnqueueOutOfBand, ReleaseBucket, FinishUntouched, EndJob
  <2>5. /\ \A v \in Workers : pc[v] = "failure" <=> pc'[v] = "failure"
        /\ \A v \in Workers : pc[v] = "failure" => seen'[v] = seen[v]
        /\ \A v \in owing : pc'[v] = "alert"
    BY <1>0, <2>2, <2>3, <2>4
  <2> QED
    BY <2>1, <2>5, Stutters DEF OwingInv
<1>4. ASSUME NEW w \in Workers, Crash(w) \/ InfrastructureFault(w) \/ SendAlert(w)
      PROVE  AbstractStep /\ OwingInv'
  <2>1. /\ EndJob(w) /\ UNCHANGED <<now, breaker, raced>>
        /\ owing' = owing \ {w}
        /\ alerts' \in {alerts, IF w \in owing THEN alerts + 1 ELSE alerts}
        /\ pc[w] # "alert" => alerts' = alerts
    BY <1>4 DEF Crash, InfrastructureFault, SendAlert, cacheVars
  <2> QED
    BY <1>0, <2>1, EndsRefine
<1>5. ASSUME NEW w \in Workers, RecordSuccess(w)
      PROVE  AbstractStep /\ OwingInv'
  <2>1. /\ pc[w] = "loop" /\ pc' = [pc EXCEPT ![w] = "idle"]
        /\ breaker' = ClosedBreaker /\ alerts' = 0 /\ now' = now
        /\ owing' = {} /\ raced' = FALSE
    BY <1>5 DEF RecordSuccess, EndJob, GoTo
  <2>2. Recording' = Recording /\ UpToDate' \subseteq Recording'
    BY <1>0, <2>1 DEF Recording, UpToDate
  <2>3. AbstractBreaker!Succeed
    BY <2>1, <2>2 DEF AbstractBreaker!Succeed, ClosedBreaker
  <2> QED
    BY <2>1, <2>3 DEF AbstractStep, AbstractBreaker!Next, OwingInv
<1>6. ASSUME NEW w \in Workers, ReadBreaker(w)
      PROVE  AbstractStep /\ OwingInv'
  <2>1. /\ pc[w] = "loop" /\ pc' = [pc EXCEPT ![w] = "failure"]
        /\ seen' = [seen EXCEPT ![w] = breaker]
        /\ UNCHANGED <<now, breaker, owing, alerts, raced>>
    BY <1>6 DEF ReadBreaker, GoTo, cacheVars, historyVars
  <2>2. /\ w \notin Recording
        /\ Recording' = Recording \cup {w} /\ UpToDate' = UpToDate \cup {w}
    BY <1>0, <2>1 DEF Recording, UpToDate
  <2>3. AbstractBreaker!Look(w)
    BY <2>1, <2>2 DEF AbstractBreaker!Look
  <2> QED
    BY <1>0, <2>1, <2>3 DEF AbstractStep, AbstractBreaker!Next, OwingInv
<1>7. ASSUME NEW w \in Workers, RecordFailure(w)
      PROVE  AbstractStep /\ OwingInv'
  BY <1>0, <1>7, FailureRefines
<1> QED
  BY <1>1, <1>2, <1>3, <1>4, <1>5, <1>6, <1>7, Zenon DEF Next, WorkerStep

\* The instances, however many and with every interleaving of their commands with the
\* clock, the cron, crashes and Valkey errors, implement the circuit breaker that counts,
\* dates and alarms in single steps, and is torn only by a failure that was overtaken
\* (universe-refresh.worker.ts, universe-cache.ts).
THEOREM ImplementsBreaker == Spec => BreakerSpec
<1>1. Init => AbstractBreaker!Init /\ BreakerInv /\ OwingInv
  <2> SUFFICES ASSUME Init
               PROVE  AbstractBreaker!Init /\ BreakerInv /\ OwingInv
    OBVIOUS
  <2>1. /\ now = 0 /\ breaker = ClosedBreaker /\ alerts = 0 /\ owing = {}
        /\ raced = FALSE /\ \A w \in Workers : pc[w] = "idle"
    BY DEF Init, CacheInit
  <2>2. Recording = {} /\ UpToDate = {}
    BY <2>1 DEF Recording, UpToDate
  <2>3. AbstractBreaker!Init
    BY <2>1, <2>2 DEF AbstractBreaker!Init, ClosedBreaker
  <2>4. BreakerInv
    BY <2>1, ClosedWellFormed DEF BreakerInv
  <2> QED
    BY <2>1, <2>3, <2>4 DEF OwingInv
<1>2. RefinementInv /\ [Next]_vars => AbstractStep /\ OwingInv'
  BY RefineStep
<1>3. TypeInv /\ BreakerInv /\ [Next]_vars => BreakerInv'
  BY BreakerStep
<1> QED
  BY <1>1, <1>2, <1>3, TypesHold, PTL
     DEF Spec, RefinementInv, AbstractStep, BreakerSpec, AbstractBreaker!Spec
=============================================================================

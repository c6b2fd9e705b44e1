---------------------------- MODULE StalenessGate ----------------------------
(***************************************************************************)
(* The staleness gate (src/src/lib/staleness-gate.ts): a scan evaluates     *)
(* every relevant bucket concurrently (Promise.all), each evaluation reads  *)
(* the cache, tries at most one bounded refresh under the bucket lock, and  *)
(* decides; the gate returns the worst outcome.                             *)
(*                                                                          *)
(* withTimeout rejects when its timer fires but does not cancel the refresh *)
(* it wraps, so an evaluation and its refresh (`promise`) are two threads:  *)
(* the refresh may answer, and write the bucket, long after the evaluation  *)
(* has released the lock and decided.                                       *)
(***************************************************************************)
EXTENDS UniverseCache, FiniteSets

CONSTANTS
    Scans,          \* gate evaluations, one per scan-bot job that reaches it
    FastThreshold,  \* SCAN_STALENESS_MAX_AGE_FAST_SECONDS
    SlowThreshold,  \* SCAN_STALENESS_MAX_AGE_SLOW_SECONDS
    SustainedAfter, \* SLOW_TIER_DEGRADED_SERVE_SUSTAINED_THRESHOLD_SECONDS
    OuterCap,       \* SLOW_TIER_DEGRADED_SERVE_OUTER_CAP_SECONDS
    Timeout,        \* SCAN_BOUNDED_REFRESH_TIMEOUT_MS
    GateLockSlack,  \* what the lock's TTL adds to the timeout (5 s)
    Latency,        \* assumption: the time a gate call's own Valkey commands add up
                    \* to (its EODHD wait is limited by Timeout, not by this)
    MaxGateFaults   \* bound: crashes and Valkey errors hitting an evaluation

ASSUME GateAssumption ==
    /\ Scans \subseteq Owners
    /\ FastThreshold \in Nat
    /\ SlowThreshold \in Nat
    /\ SustainedAfter \in Nat
    /\ OuterCap \in Nat
    /\ Timeout \in Nat
    /\ GateLockSlack \in Nat \ {0}
    /\ Latency \in Nat
    /\ MaxGateFaults \in Nat

VARIABLES
    gate,       \* where each scan's call of evaluateStalenessGate is
    enteredAt,  \* when it started (for Latency)
    ev,         \* per scan and bucket: the evaluation and its refresh
    result,     \* what the gate returned: the outcome, the buckets served
    gateFaults  \* faults so far (bound)

gateVars == <<gate, enteredAt, ev, result, gateFaults>>

Outcomes == {"PASS", "BOUNDED_REFRESH_SUCCESS", "SLOW_TIER_DEGRADED_SERVE", "SKIPPED"}
ASSUME UndecidedAssumption == None \notin Outcomes

Severity == [o \in Outcomes |->
    CASE o = "PASS" -> 0
      [] o = "BOUNDED_REFRESH_SUCCESS" -> 1
      [] o = "SLOW_TIER_DEGRADED_SERVE" -> 2
      [] o = "SKIPPED" -> 3]

\* at: off (not relevant), read, lock, wait, unlock, breaker, done, dead.
\* promise: the refresh behind withTimeout, running whatever `at` is.
Evaluation ==
    [at : {"off", "read", "lock", "wait", "unlock", "breaker", "done", "dead"},
     cached : Entry \cup {None}, readAt : Nat, deadline : Nat,
     promise : {"none", "fetching", "writing"}, asOf : Nat,
     outcome : Outcomes \cup {None}, served : Entry \cup {None}]

NotStarted ==
    [at |-> "off", cached |-> None, readAt |-> 0, deadline |-> 0,
     promise |-> "none", asOf |-> 0, outcome |-> None, served |-> None]

GateLockTTL == Timeout + GateLockSlack
EvalBound == Latency + Timeout

Relevant(s) == {b \in Buckets : ev[s][b].at # "off"}

\* The tier of a missing entry defaults to the stricter FAST.
TierOf(entry) == IF entry = None THEN "FAST" ELSE entry.tier
ThresholdOf(tier) == IF tier = "FAST" THEN FastThreshold ELSE SlowThreshold
\* Mutant: every entry held to the SLOW threshold.
FreshAtSlow(entry, t) == entry # None /\ t - entry.asOf <= SlowThreshold
FreshAt(entry, t) ==
    entry # None /\ t - entry.asOf <= ThresholdOf(entry.tier)

\* Mutant: a refreshed entry without its tier.
FreshUntiered(asOf) == [asOf |-> asOf, tier |-> None]
Fresh(asOf) == [asOf |-> asOf, tier |-> "FAST"]

Decided(e, outcome, served) ==
    [e EXCEPT !.at = "done", !.outcome = outcome, !.served = served,
              !.cached = None, !.readAt = 0, !.deadline = 0]

\* No refreshed bucket: FAST is skipped outright, SLOW looks at the breaker.
WithoutRefresh(e) ==
    IF TierOf(e.cached) = "FAST" THEN Decided(e, "SKIPPED", None)
    ELSE [e EXCEPT !.at = "breaker"]

GateInit ==
    /\ gate = [s \in Scans |-> "idle"]
    /\ enteredAt = [s \in Scans |-> 0]
    /\ ev = [s \in Scans |-> [b \in Buckets |-> NotStarted]]
    /\ result = [s \in Scans |-> [outcome |-> None, candidates |-> {}]]
    /\ gateFaults = 0

-----------------------------------------------------------------------------
(* evaluateStalenessGate *)

\* The call: every relevant bucket's evaluation starts.
EnterGate(s) ==
    /\ gate[s] = "idle"
    /\ \E relevant \in SUBSET Buckets \ {{}} :
         ev' = [ev EXCEPT ![s] = [b \in Buckets |->
                  IF b \in relevant THEN [NotStarted EXCEPT !.at = "read"]
                  ELSE NotStarted]]
    /\ gate' = [gate EXCEPT ![s] = "running"]
    /\ enteredAt' = [enteredAt EXCEPT ![s] = now]
    /\ UNCHANGED <<cacheVars, result, gateFaults>>

\* Mutant: the candidates of the other buckets survive a skip.
ReturnFromGatePartly(s) ==
    /\ gate[s] = "running"
    /\ \A b \in Relevant(s) : ev[s][b].at = "done"
    /\ \E worst \in Relevant(s) :
         /\ \A b \in Relevant(s) :
              Severity[ev[s][b].outcome] <= Severity[ev[s][worst].outcome]
         /\ result' = [result EXCEPT ![s] =
              [outcome |-> ev[s][worst].outcome,
               candidates |-> {b \in Relevant(s) : ev[s][b].served # None}]]
    /\ gate' = [gate EXCEPT ![s] = "returned"]
    /\ UNCHANGED <<cacheVars, enteredAt, ev, gateFaults>>

\* Promise.all has every result: the worst one is the outcome, and a skip of
\* any bucket discards the candidates of all.
ReturnFromGate(s) ==
    /\ gate[s] = "running"
    /\ \A b \in Relevant(s) : ev[s][b].at = "done"
    /\ \E worst \in Relevant(s) :
         /\ \A b \in Relevant(s) :
              Severity[ev[s][b].outcome] <= Severity[ev[s][worst].outcome]
         /\ result' = [result EXCEPT ![s] =
              [outcome |-> ev[s][worst].outcome,
               candidates |-> IF ev[s][worst].outcome = "SKIPPED" THEN {}
                              ELSE Relevant(s)]]
    /\ gate' = [gate EXCEPT ![s] = "returned"]
    /\ UNCHANGED <<cacheVars, enteredAt, ev, gateFaults>>

-----------------------------------------------------------------------------
(* evaluateSingleBucket *)

\* readBucket, and the age check right after it.
ReadCached(s, b) ==
    /\ ev[s][b].at = "read"
    /\ ev' = [ev EXCEPT ![s][b] =
                IF FreshAt(bucket[b], now) THEN Decided(@, "PASS", bucket[b])
                ELSE [@ EXCEPT !.at = "lock", !.cached = bucket[b], !.readAt = now]]
    /\ UNCHANGED <<cacheVars, gate, enteredAt, result, gateFaults>>

\* acquireBucketLock: start the bounded refresh and its timer, or treat a busy
\* lock as a failed attempt.
TryLock(s, b) ==
    /\ ev[s][b].at = "lock"
    /\ \/ /\ LockFree(b)
          /\ TakeLock(b, s, GateLockTTL)
          /\ ev' = [ev EXCEPT ![s][b].at = "wait",
                              ![s][b].deadline = now + Timeout,
                              ![s][b].promise = "fetching"]
       \/ /\ ~LockFree(b)
          /\ ev' = [ev EXCEPT ![s][b] = WithoutRefresh(@)]
          /\ UNCHANGED lock
    /\ UNCHANGED <<now, bucket, unguarded, breaker, gate, enteredAt, result, gateFaults>>

\* Mutant: the refreshed entry keeps the date of the one it replaces.
RefreshAnswersUndated(s, b) ==
    /\ ev[s][b].promise = "fetching"
    /\ ev' = [ev EXCEPT ![s][b].promise = "writing",
                        ![s][b].asOf = IF ev[s][b].cached = None THEN now
                                       ELSE ev[s][b].cached.asOf]
    /\ UNCHANGED <<cacheVars, gate, enteredAt, result, gateFaults>>

\* performBoundedRefresh: EODHD answers.
RefreshAnswers(s, b) ==
    /\ ev[s][b].promise = "fetching"
    /\ ev' = [ev EXCEPT ![s][b].promise = "writing", ![s][b].asOf = now]
    /\ UNCHANGED <<cacheVars, gate, enteredAt, result, gateFaults>>

\* Mutant: the refresh reports its success to an evaluation that waits no more.
RefreshWritesLate(s, b) ==
    /\ ev[s][b].promise = "writing"
    /\ PutBucket(b, s, ev[s][b].asOf)
    /\ ev' = [ev EXCEPT ![s][b].at = IF @ = "wait" THEN "unlock" ELSE @,
                        ![s][b].promise = "none", ![s][b].asOf = 0,
                        ![s][b].outcome = "BOUNDED_REFRESH_SUCCESS",
                        ![s][b].served = Fresh(ev[s][b].asOf)]
    /\ UNCHANGED <<now, lock, breaker, gate, enteredAt, result, gateFaults>>

\* performBoundedRefresh: writeBucket; the evaluation gets the entry only if it
\* is still waiting for it.
RefreshWrites(s, b) ==
    /\ ev[s][b].promise = "writing"
    /\ PutBucket(b, s, ev[s][b].asOf)
    /\ ev' = [ev EXCEPT ![s][b] =
                IF @.at = "wait"
                THEN [@ EXCEPT !.at = "unlock", !.promise = "none", !.asOf = 0,
                               !.outcome = "BOUNDED_REFRESH_SUCCESS",
                               !.served = Fresh(ev[s][b].asOf)]
                ELSE [@ EXCEPT !.promise = "none", !.asOf = 0]]
    /\ UNCHANGED <<now, lock, breaker, gate, enteredAt, result, gateFaults>>

\* The refresh rejects: EODHD fails, or Valkey fails its write.
RefreshFails(s, b) ==
    /\ \/ /\ ev[s][b].promise = "fetching"
          /\ UNCHANGED gateFaults
       \/ /\ ev[s][b].promise = "writing"
          /\ gateFaults < MaxGateFaults
          /\ gateFaults' = gateFaults + 1
    /\ ev' = [ev EXCEPT ![s][b].promise = "none", ![s][b].asOf = 0,
                        ![s][b].at = IF @ = "wait" THEN "unlock" ELSE @]
    /\ UNCHANGED <<cacheVars, gate, enteredAt, result>>

\* Mutants: the decision skips the finally block; the timer waits for the refresh.
TimesOutUnreleased(s, b) ==
    /\ ev[s][b].at = "wait"
    /\ now >= ev[s][b].deadline
    /\ ev' = [ev EXCEPT ![s][b] = WithoutRefresh(@)]
    /\ UNCHANGED <<cacheVars, gate, enteredAt, result, gateFaults>>
TimesOutOnceAnswered(s, b) ==
    /\ ev[s][b].at = "wait"
    /\ ev[s][b].promise # "fetching"
    /\ now >= ev[s][b].deadline
    /\ ev' = [ev EXCEPT ![s][b].at = "unlock"]
    /\ UNCHANGED <<cacheVars, gate, enteredAt, result, gateFaults>>

\* withTimeout's timer: the evaluation gives up, the refresh goes on.
TimesOut(s, b) ==
    /\ ev[s][b].at = "wait"
    /\ now >= ev[s][b].deadline
    /\ ev' = [ev EXCEPT ![s][b].at = "unlock"]
    /\ UNCHANGED <<cacheVars, gate, enteredAt, result, gateFaults>>

\* releaseBucketLock in the finally block, then the decision.
Unlock(s, b) ==
    /\ ev[s][b].at = "unlock"
    /\ DeleteLock(b)
    /\ ev' = [ev EXCEPT ![s][b] =
                IF @.outcome = "BOUNDED_REFRESH_SUCCESS"
                THEN Decided(@, @.outcome, @.served)
                ELSE WithoutRefresh(@)]
    /\ UNCHANGED <<now, bucket, unguarded, breaker, gate, enteredAt, result, gateFaults>>

\* Mutant: any open breaker is a sustained outage.
ConsultBreakerOpen(s, b) ==
    LET e == ev[s][b] IN
    /\ e.at = "breaker"
    /\ ev' = [ev EXCEPT ![s][b] =
                IF breaker.state = "OPEN" /\ e.readAt - e.cached.asOf <= OuterCap
                THEN Decided(@, "SLOW_TIER_DEGRADED_SERVE", @.cached)
                ELSE Decided(@, "SKIPPED", None)]
    /\ UNCHANGED <<cacheVars, gate, enteredAt, result, gateFaults>>

\* SLOW tier: readBreakerState, and the degraded-serve exception.  The age is
\* the one computed when the entry was read.
ConsultBreaker(s, b) ==
    LET e == ev[s][b]
        sustainedOutage == /\ breaker.state = "OPEN"
                           /\ now - breaker.openedAt >= SustainedAfter
        withinOuterCap == e.readAt - e.cached.asOf <= OuterCap
    IN
    /\ e.at = "breaker"
    /\ ev' = [ev EXCEPT ![s][b] =
                IF sustainedOutage /\ withinOuterCap
                THEN Decided(@, "SLOW_TIER_DEGRADED_SERVE", @.cached)
                ELSE Decided(@, "SKIPPED", None)]
    /\ UNCHANGED <<cacheVars, gate, enteredAt, result, gateFaults>>

-----------------------------------------------------------------------------
(* Faults *)

\* Valkey fails a command of an evaluation: Promise.all rejects and the gate
\* throws, while the evaluations of the other buckets run on.
EvaluationFault(s, b) ==
    /\ ev[s][b].at \in {"read", "lock", "unlock", "breaker"}
    /\ gateFaults < MaxGateFaults
    /\ gateFaults' = gateFaults + 1
    /\ ev' = [ev EXCEPT ![s][b].at = "dead", ![s][b].cached = None,
                        ![s][b].readAt = 0, ![s][b].deadline = 0]
    /\ gate' = [gate EXCEPT ![s] = IF @ = "running" THEN "threw" ELSE @]
    /\ UNCHANGED <<cacheVars, enteredAt, result>>

\* The process dies with the scan: no step of it happens any more, and its
\* locks stay until their TTL.
CrashScan(s) ==
    /\ gate[s] = "running"
    /\ gateFaults < MaxGateFaults
    /\ gateFaults' = gateFaults + 1
    /\ gate' = [gate EXCEPT ![s] = "crashed"]
    /\ ev' = [ev EXCEPT ![s] = [b \in Buckets |->
                IF b \in Relevant(s) THEN [NotStarted EXCEPT !.at = "dead"]
                ELSE NotStarted]]
    /\ UNCHANGED <<cacheVars, enteredAt, result>>

BucketStep(s, b) ==
    \/ ReadCached(s, b)
    \/ TryLock(s, b)
    \/ RefreshWrites(s, b)
    \/ TimesOut(s, b)
    \/ Unlock(s, b)
    \/ ConsultBreaker(s, b)

\* What EODHD does with a request: it may never answer it.
VendorStep(s, b) == RefreshAnswers(s, b) \/ RefreshFails(s, b)

\* The evaluation has an await ahead of it; it has also when the gate has thrown.
Evaluating(s, b) == ev[s][b].at \in {"read", "lock", "wait", "unlock", "breaker"}

\* The clock waits for no one but these assumptions: a gate and its evaluations
\* issue their first commands within Latency, a timer fires when due, and the rest
\* adds no more than what is left of Latency.
GatesKeepPace ==
    /\ \A s \in Scans : gate[s] = "running" => now < enteredAt[s] + EvalBound
    /\ \A s \in Scans, b \in Buckets : Evaluating(s, b) =>
         /\ now < enteredAt[s] + EvalBound
         /\ ev[s][b].at \in {"read", "lock"} => now < enteredAt[s] + Latency
         /\ ev[s][b].at = "wait" => now < ev[s][b].deadline

\* Types of the gate calls and their evaluations.
GateTypeOK ==
    /\ gate \in [Scans -> {"idle", "running", "returned", "threw", "crashed"}]
    /\ enteredAt \in [Scans -> Nat]
    /\ ev \in [Scans -> [Buckets -> Evaluation]]
    /\ result \in [Scans -> [outcome : Outcomes \cup {None},
                             candidates : SUBSET Buckets]]
    /\ gateFaults \in 0..MaxGateFaults
=============================================================================

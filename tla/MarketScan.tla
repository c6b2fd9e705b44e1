----------------------------- MODULE MarketScan ------------------------------
(***************************************************************************)
(* Market Scanning as deployed: the universe-refresh instances and the      *)
(* staleness gates of the scan-bot jobs, sharing one Valkey (bucket hashes, *)
(* bucket locks, breaker) and one wall clock.                               *)
(***************************************************************************)
EXTENDS UniverseRefresh, StalenessGate

marketVars == <<vars, gateVars>>

MarketInit == Init /\ GateInit

\* Bound: a gate is entered only when the clock can still reach its deadline.
Enter(s) == now + EvalBound <= MaxTime /\ EnterGate(s)

MarketTick == GatesKeepPace /\ Tick /\ UNCHANGED gateVars

RefreshStep ==
    /\ \/ CronTick
       \/ \E w \in Workers : WorkerStep(w) \/ Crash(w) \/ InfrastructureFault(w)
    /\ UNCHANGED gateVars

GateStep(s) ==
    /\ \/ Enter(s)
       \/ ReturnFromGate(s)
       \/ CrashScan(s)
       \/ \E b \in Buckets :
            BucketStep(s, b) \/ VendorStep(s, b) \/ EvaluationFault(s, b)
    /\ UNCHANGED refreshVars

MarketNext ==
    \/ MarketTick
    \/ RefreshStep
    \/ \E s \in Scans : GateStep(s)

MarketSpec == MarketInit /\ [][MarketNext]_marketVars

\* The event loop runs continuations and timers; EODHD owes a gate no answer.
\* (A sweep has no timer of its own: it relies on the HTTP client's.)
MarketFairness ==
    /\ WF_marketVars(MarketTick)
    /\ \A w \in Workers : WF_marketVars(WorkerStep(w) /\ UNCHANGED gateVars)
    /\ \A s \in Scans :
         /\ WF_marketVars(ReturnFromGate(s) /\ UNCHANGED refreshVars)
         /\ \A b \in Buckets :
              WF_marketVars(BucketStep(s, b) /\ UNCHANGED refreshVars)

FairMarketSpec == MarketSpec /\ MarketFairness

-----------------------------------------------------------------------------
(* Properties *)

\* Types of the sweeps and the gates together: in particular a bucket hash always
\* holds a dated entry of a known tier.
MarketTypeOK == TypeOK /\ GateTypeOK

\* An evaluation and an instance are in the lock's critical section from taking
\* it until the DEL.
Inside(b) ==
    Refreshing(b) \cup {s \in Scans : ev[s][b].at \in {"wait", "unlock"}}

HolderSets == [b \in Buckets |-> Inside(b)]

\* Those of them whose key has expired or been deleted, and may be another's by now.
Overrun(b) == {p \in Inside(b) : lock[b] = None \/ lock[b].owner # p}

OverrunSets == [b \in Buckets |-> Overrun(b)]
Leases == [b \in Buckets |-> IF lock[b] = None THEN None ELSE lock[b].expiresAt]
TermOf == [p \in Owners |-> IF p \in Scans THEN GateLockTTL ELSE RefreshLockTTL]

AbstractLock ==
    INSTANCE BucketLock WITH
        Locks <- Buckets, Actors <- Owners, Term <- TermOf, Punctual <- Scans,
        Never <- None, time <- now, holders <- HolderSets, overrun <- OverrunSets,
        lease <- Leases, mishaps <- faults + gateFaults

\* The keys, their TTLs and the DELs that check no owner implement a lease: nobody
\* enters while the lease of somebody inside runs, no path out of the critical section
\* forgets to end it but a fault, and a gate is never still inside when its own lease
\* runs out, as a sweep may be, whose requests have no time limit.
LockSpec == AbstractLock!Spec

\* A write under the bucket's lock never replaces what was written under it by an
\* older entry, although asOf is fixed before the write is issued: whoever still
\* owns the key when it writes has owned it since before it asked EODHD.
LockKeepsOrder ==
    [][\A b \in Buckets :
         bucket[b] # None /\ b \notin unguarded /\ b \notin unguarded'
         => bucket'[b] # None /\ bucket'[b].asOf >= bucket[b].asOf]_marketVars

\* What an evaluation has come to so far: a judgement once it has an outcome, before that
\* what it has read.
ViewOf(e) ==
    IF e.outcome # None
    THEN [outcome |-> e.outcome, entry |-> e.served, seenAt |-> None]
    ELSE IF e.at \in {"lock", "wait", "unlock", "breaker"}
    THEN [outcome |-> None, entry |-> e.cached, seenAt |-> e.readAt]
    ELSE [outcome |-> None, entry |-> None, seenAt |-> None]

\* Nobody reads what the evaluations of a call that has failed come to.
Views ==
    [s \in Scans |-> [b \in Buckets |->
        ViewOf(IF gate[s] \in {"running", "returned"} THEN ev[s][b] ELSE NotStarted)]]

CallStates ==
    [s \in Scans |-> IF gate[s] \in {"threw", "crashed"} THEN "failed" ELSE gate[s]]

Asked == [s \in Scans |-> Relevant(s)]

AbstractGate ==
    INSTANCE GateDecision WITH
        Calls <- Scans, call <- CallStates, asked <- Asked, view <- Views, answer <- result

\* Locks, timers, refreshes that nobody waits for any more and the writes of sweeps
\* between any two awaits implement a gate that looks once at each bucket, judges it
\* once and for a reason that holds at that moment, and answers with the worst.
DecisionSpec == AbstractGate!Spec

\* EODHD requests in flight for a bucket, abandoned ones included.
InFlight(b) ==
    {w \in Workers : pc[w] = "fetch" /\ Current(w) = b}
        \cup {s \in Scans : ev[s][b].promise = "fetching"}

\* The single-flight claim of the README: two bots hitting the same stale bucket
\* do not produce two concurrent EODHD calls.
OneCallPerBucket == \A b \in Buckets : \A p, q \in InFlight(b) : p = q

Returning(s) == gate[s] = "running" /\ gate'[s] = "returned"

\* What the outcome of a bucket allows its entry's age to be when it is decided.
AgeLimit(e) ==
    IF e.outcome = "SLOW_TIER_DEGRADED_SERVE" THEN OuterCap
    ELSE ThresholdOf(e.served.tier)

\* Data the gate lets through is within its limit when its bucket is decided,
\* and so exceeds it by no more than the time the other buckets keep the gate.
ServedAgeBounded ==
    [][\A s \in Scans : Returning(s) =>
         \A b \in result'[s].candidates :
            now - ev[s][b].served.asOf <= AgeLimit(ev[s][b]) + EvalBound]_marketVars

\* One bucket that cannot be refreshed discards the candidates of every bucket;
\* otherwise every relevant bucket contributes an entry.
OneSkipDiscardsAll ==
    \A s \in Scans : gate[s] = "returned" =>
        IF \E b \in Relevant(s) : ev[s][b].outcome = "SKIPPED"
        THEN result[s] = [outcome |-> "SKIPPED", candidates |-> {}]
        ELSE /\ result[s].candidates = Relevant(s)
             /\ \A b \in Relevant(s) :
                  /\ ev[s][b].served # None
                  /\ Severity[ev[s][b].outcome] <= Severity[result[s].outcome]

\* Past-threshold data is served only in a sustained outage: when the exception
\* is decided, enough consecutive ticks have failed, none has succeeded since,
\* and the episode is old enough.  (A failure that another instance overtook between
\* its read and its write can reopen a breaker that a success has closed: then the
\* count is not what the history says, until the next success.)
DegradedServeMeansOutage ==
    [][\A s \in Scans, b \in Buckets :
         /\ ev[s][b].at # "done"
         /\ ev'[s][b].at = "done"
         /\ ev'[s][b].outcome = "SLOW_TIER_DEGRADED_SERVE"
         => /\ raced \/ failedTicks >= FailureThreshold
            /\ now - breaker.openedAt >= SustainedAfter
            /\ ev'[s][b].served.tier = "SLOW"]_marketVars

\* A gate call always comes to a decision, whether or not EODHD ever answers.
EveryGateDecides == \A s \in Scans : gate[s] = "running" ~> gate[s] # "running"
=============================================================================

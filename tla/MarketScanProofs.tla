--------------------------- MODULE MarketScanProofs ---------------------------
(***************************************************************************)
(* Theorems about MarketScan, for every number of refresh instances, scans   *)
(* and buckets: the sweeps and the gates together implement BucketLock.      *)
(***************************************************************************)
EXTENDS UniverseRefreshProofs, MarketScan

-----------------------------------------------------------------------------
(* The gates: types *)

\* A gate that has not been called has no evaluation.
NotCalled == \A s \in Scans : gate[s] = "idle" => \A b \in Buckets : ev[s][b] = NotStarted

GateInv == GateTypeOK /\ NotCalled

\* What writing one evaluation does to all of them.
LEMMA EvWrite ==
    ASSUME ev \in [Scans -> [Buckets -> Evaluation]],
           NEW s \in Scans, NEW b \in Buckets, NEW e \in Evaluation,
           ev' = [ev EXCEPT ![s][b] = e]
    PROVE  /\ ev' \in [Scans -> [Buckets -> Evaluation]]
           /\ ev'[s][b] = e
           /\ \A t \in Scans, c \in Buckets : t # s \/ c # b => ev'[t][c] = ev[t][c]
  OBVIOUS

\* A decision is an evaluation that is over.
LEMMA DecidedType ==
    ASSUME NEW e \in Evaluation, NEW o \in Outcomes, NEW v \in Entry \cup {None}
    PROVE  Decided(e, o, v) \in Evaluation /\ Decided(e, o, v).at = "done"
  BY DEF Decided, Evaluation

\* Without a refreshed bucket the evaluation is over or asks the breaker.
LEMMA WithoutRefreshType ==
    ASSUME NEW e \in Evaluation
    PROVE  /\ WithoutRefresh(e) \in Evaluation
           /\ WithoutRefresh(e).at \in {"done", "breaker"}
<1>1. "SKIPPED" \in Outcomes
  BY DEF Outcomes
<1>2. Decided(e, "SKIPPED", None) \in Evaluation /\ Decided(e, "SKIPPED", None).at = "done"
  BY <1>1, DecidedType
<1>3. [e EXCEPT !.at = "breaker"] \in Evaluation /\ [e EXCEPT !.at = "breaker"].at = "breaker"
  BY DEF Evaluation
<1> QED
  BY <1>2, <1>3 DEF WithoutRefresh

\* An evaluation that starts to wait for its refresh.
LEMMA WaitType ==
    ASSUME NEW e \in Evaluation, NEW d \in Nat
    PROVE  /\ [e EXCEPT !.at = "wait", !.deadline = d, !.promise = "fetching"] \in Evaluation
           /\ [e EXCEPT !.at = "wait", !.deadline = d, !.promise = "fetching"].at = "wait"
  BY DEF Evaluation

\* An evaluation that gets the entry it waited for.
LEMMA RefreshedType ==
    ASSUME NEW e \in Evaluation, NEW v \in Entry
    PROVE  /\ [e EXCEPT !.at = "unlock", !.promise = "none", !.asOf = 0,
                        !.outcome = "BOUNDED_REFRESH_SUCCESS", !.served = v] \in Evaluation
           /\ [e EXCEPT !.at = "unlock", !.promise = "none", !.asOf = 0,
                        !.outcome = "BOUNDED_REFRESH_SUCCESS", !.served = v].at = "unlock"
<1>1. "BOUNDED_REFRESH_SUCCESS" \in Outcomes
  BY DEF Outcomes
<1> QED
  BY <1>1 DEF Evaluation

\* Between taking and releasing a lock, and before that.
Held == {"wait", "unlock"}
Early == {"read", "lock"}

\* How an evaluation may move: what it takes or gives back, and whether a fault did it.
Keeps(e, f) == /\ e.at \in Held <=> f.at \in Held
               /\ f.at \in Early => e.at \in Early
               /\ f.at \in Held \cup Early \cup {"breaker"}
                    => e.at \in Held \cup Early \cup {"breaker"}

EvalMove(s, b, e) ==
    LET old == ev[s][b] IN
    \/ UNCHANGED <<lock, gateFaults>> /\ Keeps(old, e)
    \/ /\ old.at = "lock" /\ e.at = "wait"
       /\ LockFree(b) /\ TakeLock(b, s, GateLockTTL) /\ UNCHANGED gateFaults
    \/ /\ old.at = "unlock" /\ e.at \in {"done", "breaker"}
       /\ DeleteLock(b) /\ UNCHANGED gateFaults
    \/ /\ gateFaults < MaxGateFaults /\ gateFaults' = gateFaults + 1 /\ UNCHANGED lock
       /\ Keeps(old, e) \/ e.at = "dead"

EvalStep(s, b) == BucketStep(s, b) \/ VendorStep(s, b) \/ EvaluationFault(s, b)

\* Every step of an evaluation is one of these moves.
LEMMA EvalMoves ==
    ASSUME GateInv, CacheTypeOK, NEW s \in Scans, NEW b \in Buckets, EvalStep(s, b)
    PROVE  /\ ev[s][b] # NotStarted
           /\ UNCHANGED <<now, breaker, enteredAt, result>>
           /\ bucket' \in [Buckets -> Entry \cup {None}]
           /\ \E e \in Evaluation : ev' = [ev EXCEPT ![s][b] = e] /\ EvalMove(s, b, e)
<1> DEFINE old == ev[s][b]
<1>0. /\ old \in Evaluation /\ now \in Nat /\ Timeout \in Nat
      /\ bucket \in [Buckets -> Entry \cup {None}] /\ bucket[b] \in Entry \cup {None}
      /\ ev \in [Scans -> [Buckets -> Evaluation]]
  BY GateAssumption DEF GateInv, GateTypeOK, CacheTypeOK
<1>a. /\ "PASS" \in Outcomes /\ "BOUNDED_REFRESH_SUCCESS" \in Outcomes
      /\ "SLOW_TIER_DEGRADED_SERVE" \in Outcomes /\ "SKIPPED" \in Outcomes
  BY DEF Outcomes
<1>b. NotStarted.at = "off" /\ NotStarted.promise = "none"
  BY DEF NotStarted
<1>1. CASE ReadCached(s, b)
  <2> DEFINE e == IF FreshAt(bucket[b], now) THEN Decided(old, "PASS", bucket[b])
                  ELSE [old EXCEPT !.at = "lock", !.cached = bucket[b], !.readAt = now]
  <2>1. old.at = "read" /\ ev' = [ev EXCEPT ![s][b] = e]
    BY <1>0, <1>1 DEF ReadCached
  <2>2. [old EXCEPT !.at = "lock", !.cached = bucket[b], !.readAt = now] \in Evaluation
    BY <1>0 DEF Evaluation
  <2>3. [old EXCEPT !.at = "lock", !.cached = bucket[b], !.readAt = now].at = "lock"
    BY <1>0 DEF Evaluation
  <2>4. e \in Evaluation /\ e.at \in {"done", "lock"}
    BY <1>0, <1>a, <2>2, <2>3, DecidedType
  <2> HIDE DEF e
  <2>5. EvalMove(s, b, e)
    BY <1>1, <2>1, <2>4 DEF EvalMove, Keeps, Held, Early, ReadCached, cacheVars
  <2> QED
    BY <1>0, <1>1, <1>b, <2>1, <2>4, <2>5 DEF ReadCached, cacheVars
<1>2. CASE TryLock(s, b)
  <2>1. CASE LockFree(b) /\ TakeLock(b, s, GateLockTTL)
               /\ ev' = [ev EXCEPT ![s][b].at = "wait", ![s][b].deadline = now + Timeout,
                                   ![s][b].promise = "fetching"]
    <3> DEFINE e == [old EXCEPT !.at = "wait", !.deadline = now + Timeout,
                                !.promise = "fetching"]
    <3>1. ev' = [ev EXCEPT ![s][b] = e]
      BY <1>0, <2>1
    <3>2. e \in Evaluation /\ e.at = "wait"
      <4>1. now + Timeout \in Nat
        BY <1>0
      <4> QED
        BY <1>0, <4>1, WaitType, Zenon
    <3> HIDE DEF e
    <3>3. EvalMove(s, b, e)
      BY <1>2, <2>1, <3>2 DEF EvalMove, TryLock
    <3> QED
      BY <1>0, <1>2, <1>b, <3>1, <3>2, <3>3 DEF TryLock
  <2>2. CASE ev' = [ev EXCEPT ![s][b] = WithoutRefresh(old)] /\ UNCHANGED lock
    <3>1. EvalMove(s, b, WithoutRefresh(old))
      BY <1>0, <1>2, <2>2, WithoutRefreshType DEF EvalMove, TryLock, Keeps, Held, Early
    <3> QED
      BY <1>0, <1>2, <1>b, <2>2, <3>1, WithoutRefreshType DEF TryLock
  <2> QED
    BY <1>0, <1>2, <2>1, <2>2 DEF TryLock
<1>3. CASE RefreshAnswers(s, b)
  <2> DEFINE e == [old EXCEPT !.promise = "writing", !.asOf = now]
  <2>1. ev' = [ev EXCEPT ![s][b] = e]
    BY <1>0, <1>3 DEF RefreshAnswers
  <2>2. e \in Evaluation /\ e.at = old.at
    BY <1>0 DEF Evaluation
  <2> HIDE DEF e
  <2>3. EvalMove(s, b, e)
    BY <1>3, <2>2 DEF EvalMove, Keeps, RefreshAnswers, cacheVars
  <2> QED
    BY <1>0, <1>3, <1>b, <2>1, <2>2, <2>3 DEF RefreshAnswers, cacheVars
<1>4. CASE RefreshWrites(s, b)
  <2> DEFINE e == IF old.at = "wait"
                  THEN [old EXCEPT !.at = "unlock", !.promise = "none", !.asOf = 0,
                                   !.outcome = "BOUNDED_REFRESH_SUCCESS",
                                   !.served = Fresh(old.asOf)]
                  ELSE [old EXCEPT !.promise = "none", !.asOf = 0]
  <2>1. ev' = [ev EXCEPT ![s][b] = e]
    BY <1>0, <1>4 DEF RefreshWrites
  <2>2. Fresh(old.asOf) \in Entry
    BY <1>0 DEF Fresh, Entry, Tiers, Evaluation
  <2>3. [old EXCEPT !.promise = "none", !.asOf = 0] \in Evaluation
        /\ [old EXCEPT !.promise = "none", !.asOf = 0].at = old.at
    BY <1>0 DEF Evaluation
  <2>4. e \in Evaluation /\ e.at = IF old.at = "wait" THEN "unlock" ELSE old.at
    <3> DEFINE got == [old EXCEPT !.at = "unlock", !.promise = "none", !.asOf = 0,
                                  !.outcome = "BOUNDED_REFRESH_SUCCESS",
                                  !.served = Fresh(old.asOf)]
               rest == [old EXCEPT !.promise = "none", !.asOf = 0]
    <3>1. got \in Evaluation /\ got.at = "unlock"
      BY <1>0, <2>2, RefreshedType, Zenon
    <3>2. e = IF old.at = "wait" THEN got ELSE rest
      OBVIOUS
    <3>3. rest \in Evaluation /\ rest.at = old.at
      BY <2>3
    <3> HIDE DEF e, got, rest
    <3> QED
      BY <3>1, <3>2, <3>3
  <2>5. bucket' \in [Buckets -> Entry \cup {None}]
    <3>1. [asOf |-> old.asOf, tier |-> "FAST"] \in Entry
      BY <1>0 DEF Entry, Tiers, Evaluation
    <3> QED
      BY <1>0, <1>4, <3>1 DEF RefreshWrites, PutBucket
  <2> HIDE DEF e
  <2>6. EvalMove(s, b, e)
    BY <1>4, <2>4 DEF EvalMove, Keeps, Held, Early, RefreshWrites
  <2> QED
    BY <1>0, <1>4, <1>b, <2>1, <2>4, <2>5, <2>6 DEF RefreshWrites
<1>5. CASE RefreshFails(s, b)
  <2> DEFINE e == [old EXCEPT !.promise = "none", !.asOf = 0,
                              !.at = IF old.at = "wait" THEN "unlock" ELSE old.at]
  <2>1. ev' = [ev EXCEPT ![s][b] = e]
    BY <1>0, <1>5 DEF RefreshFails
  <2>2. e \in Evaluation /\ e.at = IF old.at = "wait" THEN "unlock" ELSE old.at
    BY <1>0 DEF Evaluation
  <2> HIDE DEF e
  <2>3. EvalMove(s, b, e)
    BY <1>5, <2>2 DEF EvalMove, Keeps, Held, Early, RefreshFails, cacheVars
  <2> QED
    BY <1>0, <1>5, <1>b, <2>1, <2>2, <2>3 DEF RefreshFails, cacheVars
<1>6. CASE TimesOut(s, b)
  <2> DEFINE e == [old EXCEPT !.at = "unlock"]
  <2>1. ev' = [ev EXCEPT ![s][b] = e]
    BY <1>0, <1>6 DEF TimesOut
  <2>2. e \in Evaluation /\ e.at = "unlock"
    BY <1>0 DEF Evaluation
  <2> HIDE DEF e
  <2>3. EvalMove(s, b, e)
    BY <1>6, <2>2 DEF EvalMove, Keeps, Held, Early, TimesOut, cacheVars
  <2> QED
    BY <1>0, <1>6, <1>b, <2>1, <2>2, <2>3 DEF TimesOut, cacheVars
<1>7. CASE Unlock(s, b)
  <2> DEFINE e == IF old.outcome = "BOUNDED_REFRESH_SUCCESS"
                  THEN Decided(old, old.outcome, old.served) ELSE WithoutRefresh(old)
  <2>1. ev' = [ev EXCEPT ![s][b] = e]
    BY <1>0, <1>7 DEF Unlock
  <2>2. old.served \in Entry \cup {None}
    BY <1>0 DEF Evaluation
  <2>3. e \in Evaluation /\ e.at \in {"done", "breaker"}
    <3>1. CASE old.outcome = "BOUNDED_REFRESH_SUCCESS"
      <4>1. Decided(old, old.outcome, old.served) \in Evaluation
            /\ Decided(old, old.outcome, old.served).at = "done"
        <5>1. old.outcome \in Outcomes
          BY <1>a, <3>1
        <5> QED
          BY <1>0, <2>2, <5>1, DecidedType, Zenon
      <4> QED
        BY <3>1, <4>1
    <3>2. CASE old.outcome # "BOUNDED_REFRESH_SUCCESS"
      <4>1. WithoutRefresh(old) \in Evaluation
            /\ WithoutRefresh(old).at \in {"done", "breaker"}
        BY <1>0, WithoutRefreshType
      <4> QED
        BY <3>2, <4>1
    <3> QED
      BY <3>1, <3>2
  <2> HIDE DEF e
  <2>4. EvalMove(s, b, e)
    BY <1>7, <2>3 DEF EvalMove, Unlock
  <2> QED
    BY <1>0, <1>7, <1>b, <2>1, <2>3, <2>4 DEF Unlock
<1>8. CASE ConsultBreaker(s, b)
  <2>1. old.cached \in Entry \cup {None} /\ None \in Entry \cup {None}
    BY <1>0 DEF Evaluation
  <2>2. PICK o \in Outcomes, v \in Entry \cup {None} :
          ev' = [ev EXCEPT ![s][b] = Decided(old, o, v)]
    <3>1. \/ ev' = [ev EXCEPT ![s][b] = Decided(old, "SLOW_TIER_DEGRADED_SERVE", old.cached)]
          \/ ev' = [ev EXCEPT ![s][b] = Decided(old, "SKIPPED", None)]
      BY <1>0, <1>8 DEF ConsultBreaker
    <3> QED
      BY <1>a, <2>1, <3>1
  <2>3. Decided(old, o, v) \in Evaluation /\ Decided(old, o, v).at = "done"
    BY <1>0, DecidedType
  <2>4. EvalMove(s, b, Decided(old, o, v))
    BY <1>8, <2>3 DEF EvalMove, Keeps, Held, Early, ConsultBreaker, cacheVars
  <2> QED
    BY <1>0, <1>8, <1>b, <2>2, <2>3, <2>4 DEF ConsultBreaker, cacheVars
<1>9. CASE EvaluationFault(s, b)
  <2> DEFINE e == [old EXCEPT !.at = "dead", !.cached = None, !.readAt = 0, !.deadline = 0]
  <2>1. ev' = [ev EXCEPT ![s][b] = e]
    BY <1>0, <1>9 DEF EvaluationFault
  <2>2. e \in Evaluation /\ e.at = "dead"
    BY <1>0 DEF Evaluation
  <2> HIDE DEF e
  <2>3. EvalMove(s, b, e)
    BY <1>9, <2>2 DEF EvalMove, EvaluationFault, cacheVars
  <2> QED
    BY <1>0, <1>9, <1>b, <2>1, <2>2, <2>3 DEF EvaluationFault, cacheVars
<1> QED
  BY <1>1, <1>2, <1>3, <1>4, <1>5, <1>6, <1>7, <1>8, <1>9
     DEF EvalStep, BucketStep, VendorStep

-----------------------------------------------------------------------------
(* What the steps of gates and sweeps do to the locks *)

GateHeld(s, b) == ev[s][b].at \in Held
SweepHeld(w, b) == pc[w] \in Holding /\ Current(w) = b

\* What a step of gate s does: nothing to the locks, take one, give one back, or fail.
GateMove(s) ==
    /\ UNCHANGED now
    /\ \A t \in Scans \ {s}, c \in Buckets : GateHeld(t, c)' <=> GateHeld(t, c)
    /\ \A t \in Scans, c \in Buckets : GateHeld(t, c)' => enteredAt'[t] = enteredAt[t]
    /\ \/ /\ UNCHANGED <<lock, gateFaults>>
          /\ \A c \in Buckets : GateHeld(s, c)' <=> GateHeld(s, c)
       \/ \E b \in Buckets :
            /\ ev[s][b].at = "lock"
            /\ LockFree(b) /\ TakeLock(b, s, GateLockTTL) /\ UNCHANGED gateFaults
            /\ \A c \in Buckets : GateHeld(s, c)' <=> GateHeld(s, c) \/ c = b
       \/ \E b \in Buckets :
            /\ GateHeld(s, b) /\ DeleteLock(b) /\ UNCHANGED gateFaults
            /\ \A c \in Buckets : GateHeld(s, c)' <=> GateHeld(s, c) /\ c # b
       \/ /\ gateFaults' = gateFaults + 1 /\ UNCHANGED lock
          /\ \A c \in Buckets : GateHeld(s, c)' => GateHeld(s, c)

\* The clock has not run past what the gate may take.
Busy == Held \cup Early \cup {"breaker"}
OnTime(s, b) ==
    ev[s][b].at \in Busy =>
        /\ enteredAt[s] <= now /\ now <= enteredAt[s] + EvalBound
        /\ ev[s][b].at \in Early => now <= enteredAt[s] + Latency
PaceInv == \A s \in Scans, b \in Buckets : OnTime(s, b)

\* The steps of an evaluation, with the rest of its gate.
LEMMA EvalGateMove ==
    ASSUME GateInv, CacheTypeOK, PaceInv, NEW s \in Scans, NEW b \in Buckets, EvalStep(s, b)
    PROVE  /\ GateMove(s) /\ PaceInv' /\ NotCalled'
           /\ ev' \in [Scans -> [Buckets -> Evaluation]]
           /\ UNCHANGED <<breaker, enteredAt, result>>
           /\ bucket' \in [Buckets -> Entry \cup {None}]
           /\ gateFaults' \in 0..MaxGateFaults
           /\ gate' \in [Scans -> {"idle", "running", "returned", "threw", "crashed"}]
<1>0. /\ ev \in [Scans -> [Buckets -> Evaluation]] /\ now \in Nat
      /\ gate \in [Scans -> {"idle", "running", "returned", "threw", "crashed"}]
      /\ gateFaults \in 0..MaxGateFaults /\ MaxGateFaults \in Nat
      /\ enteredAt \in [Scans -> Nat]
  BY GateAssumption DEF GateInv, GateTypeOK, CacheTypeOK
<1>1. /\ ev[s][b] # NotStarted
      /\ UNCHANGED <<now, breaker, enteredAt, result>>
      /\ bucket' \in [Buckets -> Entry \cup {None}]
  BY EvalMoves
<1>2. PICK e \in Evaluation : ev' = [ev EXCEPT ![s][b] = e] /\ EvalMove(s, b, e)
  BY EvalMoves
<1>3. /\ ev' \in [Scans -> [Buckets -> Evaluation]]
      /\ ev'[s][b] = e
      /\ \A t \in Scans, c \in Buckets : t # s \/ c # b => ev'[t][c] = ev[t][c]
  BY <1>0, <1>2, EvWrite
<1>4. GateMove(s)
  <2>1. \A t \in Scans \ {s}, c \in Buckets : GateHeld(t, c)' <=> GateHeld(t, c)
    BY <1>3 DEF GateHeld
  <2>2. \A c \in Buckets \ {b} : GateHeld(s, c)' <=> GateHeld(s, c)
    BY <1>3 DEF GateHeld
  <2>3. CASE UNCHANGED <<lock, gateFaults>> /\ Keeps(ev[s][b], e)
    <3>1. GateHeld(s, b)' <=> GateHeld(s, b)
      BY <1>3, <2>3 DEF GateHeld, Keeps
    <3> QED
      BY <1>1, <2>1, <2>2, <2>3, <3>1 DEF GateMove
  <2>4. CASE /\ ev[s][b].at = "lock" /\ e.at = "wait"
             /\ LockFree(b) /\ TakeLock(b, s, GateLockTTL) /\ UNCHANGED gateFaults
    <3>1. GateHeld(s, b)'
      BY <1>3, <2>4 DEF GateHeld, Held
    <3> QED
      BY <1>1, <2>1, <2>2, <2>4, <3>1 DEF GateMove
  <2>5. CASE /\ ev[s][b].at = "unlock" /\ e.at \in {"done", "breaker"}
             /\ DeleteLock(b) /\ UNCHANGED gateFaults
    <3>1. GateHeld(s, b) /\ ~GateHeld(s, b)'
      BY <1>3, <2>5 DEF GateHeld, Held
    <3> QED
      BY <1>1, <2>1, <2>2, <2>5, <3>1 DEF GateMove
  <2>6. CASE /\ gateFaults < MaxGateFaults /\ gateFaults' = gateFaults + 1 /\ UNCHANGED lock
             /\ Keeps(ev[s][b], e) \/ e.at = "dead"
    <3>1. GateHeld(s, b)' => GateHeld(s, b)
      BY <1>3, <2>6 DEF GateHeld, Keeps, Held
    <3> QED
      BY <1>1, <2>1, <2>2, <2>6, <3>1 DEF GateMove
  <2> QED
    BY <1>2, <2>3, <2>4, <2>5, <2>6 DEF EvalMove
<1>5. PaceInv'
  <2>1. /\ e.at \in Busy => ev[s][b].at \in Busy
        /\ e.at \in Early => ev[s][b].at \in Early
    BY <1>2 DEF EvalMove, Keeps, Busy, Held, Early
  <2>2. OnTime(s, b)'
    BY <1>1, <1>3, <2>1 DEF PaceInv, OnTime
  <2>3. ASSUME NEW t \in Scans, NEW c \in Buckets, t # s \/ c # b
        PROVE  OnTime(t, c)'
    BY <1>1, <1>3, <2>3 DEF PaceInv, OnTime
  <2> QED
    BY <2>2, <2>3 DEF PaceInv
<1>6. gateFaults' \in 0..MaxGateFaults
  BY <1>0, <1>2 DEF EvalMove
<1>7. gate' = gate \/ gate' = [gate EXCEPT ![s] = IF @ = "running" THEN "threw" ELSE @]
  BY Zenon DEF EvalStep, BucketStep, VendorStep, ReadCached, TryLock, RefreshWrites, TimesOut,
     Unlock, ConsultBreaker, RefreshAnswers, RefreshFails, EvaluationFault
<1>8. /\ gate' \in [Scans -> {"idle", "running", "returned", "threw", "crashed"}]
      /\ \A t \in Scans : gate'[t] = "idle" => gate[t] = "idle"
  BY <1>0, <1>7
<1>9. NotCalled'
  BY <1>1, <1>3, <1>8 DEF GateInv, NotCalled
<1> QED
  BY <1>1, <1>3, <1>4, <1>5, <1>6, <1>8, <1>9

\* The call of the gate, its return and the death of its process.
LEMMA CallGateMove ==
    ASSUME GateInv, CacheTypeOK, PaceInv, NEW s \in Scans,
           Enter(s) \/ ReturnFromGate(s) \/ CrashScan(s)
    PROVE  GateMove(s) /\ PaceInv' /\ GateInv' /\ UNCHANGED cacheVars
<1>0. /\ ev \in [Scans -> [Buckets -> Evaluation]] /\ now \in Nat
      /\ gate \in [Scans -> {"idle", "running", "returned", "threw", "crashed"}]
      /\ gateFaults \in 0..MaxGateFaults /\ MaxGateFaults \in Nat
      /\ enteredAt \in [Scans -> Nat] /\ EvalBound \in Nat /\ Latency \in Nat
      /\ result \in [Scans -> [outcome : Outcomes \cup {None}, candidates : SUBSET Buckets]]
  BY GateAssumption DEF GateInv, GateTypeOK, CacheTypeOK, EvalBound
<1>a. /\ NotStarted \in Evaluation /\ NotStarted.at = "off"
      /\ \A a \in {"read", "dead"} : /\ [NotStarted EXCEPT !.at = a] \in Evaluation
                                     /\ [NotStarted EXCEPT !.at = a].at = a
  BY DEF NotStarted, Evaluation
<1>1. ASSUME NEW a \in {"read", "dead"},
             NEW relevant, ev' = [ev EXCEPT ![s] = [b \in Buckets |->
                IF b \in relevant THEN [NotStarted EXCEPT !.at = a] ELSE NotStarted]]
      PROVE  /\ ev' \in [Scans -> [Buckets -> Evaluation]]
             /\ \A t \in Scans \ {s}, c \in Buckets : ev'[t][c] = ev[t][c]
             /\ \A c \in Buckets : ev'[s][c].at \in {"off", a}
  <2> DEFINE new == [b \in Buckets |->
                IF b \in relevant THEN [NotStarted EXCEPT !.at = a] ELSE NotStarted]
  <2>1. new \in [Buckets -> Evaluation] /\ \A c \in Buckets : new[c].at \in {"off", a}
    BY <1>a
  <2>2. ev' = [ev EXCEPT ![s] = new]
    BY <1>1
  <2> HIDE DEF new
  <2> QED
    BY <1>0, <2>1, <2>2
<1>2. CASE Enter(s)
  <2>1. /\ gate[s] = "idle" /\ gate' = [gate EXCEPT ![s] = "running"]
        /\ enteredAt' = [enteredAt EXCEPT ![s] = now]
        /\ UNCHANGED <<cacheVars, result, gateFaults>>
    BY <1>2 DEF Enter, EnterGate
  <2>2. PICK relevant \in SUBSET Buckets :
          ev' = [ev EXCEPT ![s] = [b \in Buckets |->
                   IF b \in relevant THEN [NotStarted EXCEPT !.at = "read"] ELSE NotStarted]]
    BY <1>2, Zenon DEF Enter, EnterGate
  <2>3. /\ ev' \in [Scans -> [Buckets -> Evaluation]]
        /\ \A t \in Scans \ {s}, c \in Buckets : ev'[t][c] = ev[t][c]
        /\ \A c \in Buckets : ev'[s][c].at \in {"off", "read"}
    BY <1>1, <2>2
  <2>4. \A c \in Buckets : ev[s][c].at = "off"
    BY <1>a, <2>1 DEF GateInv, NotCalled
  <2>5. enteredAt' \in [Scans -> Nat] /\ enteredAt'[s] = now
        /\ \A t \in Scans \ {s} : enteredAt'[t] = enteredAt[t]
    BY <1>0, <2>1
  <2>6. GateMove(s)
    BY <2>1, <2>3, <2>4, <2>5 DEF GateMove, GateHeld, Held, cacheVars
  <2>7. PaceInv'
    <3>1. ASSUME NEW c \in Buckets
          PROVE  OnTime(s, c)'
      BY <1>0, <2>1, <2>5 DEF OnTime, cacheVars
    <3>2. ASSUME NEW t \in Scans \ {s}, NEW c \in Buckets
          PROVE  OnTime(t, c)'
      BY <2>1, <2>3, <2>5 DEF PaceInv, OnTime, cacheVars
    <3> QED
      BY <3>1, <3>2 DEF PaceInv
  <2>8. GateTypeOK'
    BY <1>0, <2>1, <2>3, <2>5 DEF GateTypeOK
  <2>9. NotCalled'
    BY <1>0, <2>1, <2>2 DEF GateInv, NotCalled
  <2> QED
    BY <2>1, <2>6, <2>7, <2>8, <2>9 DEF GateInv
<1>3. CASE ReturnFromGate(s)
  <2>1. /\ gate[s] = "running" /\ gate' = [gate EXCEPT ![s] = "returned"]
        /\ UNCHANGED <<cacheVars, enteredAt, ev, gateFaults>>
    BY <1>3 DEF ReturnFromGate
  <2>2. result' \in [Scans -> [outcome : Outcomes \cup {None}, candidates : SUBSET Buckets]]
    <3>1. PICK worst \in Relevant(s) :
            result' = [result EXCEPT ![s] =
              [outcome |-> ev[s][worst].outcome,
               candidates |-> IF ev[s][worst].outcome = "SKIPPED" THEN {}
                              ELSE Relevant(s)]]
      BY <1>3, Zenon DEF ReturnFromGate
    <3>2. worst \in Buckets /\ Relevant(s) \subseteq Buckets
      BY DEF Relevant
    <3>3. ev[s][worst].outcome \in Outcomes \cup {None}
      BY <1>0, <3>2 DEF Evaluation
    <3> QED
      BY <1>0, <3>1, <3>2, <3>3
  <2>3. GateTypeOK'
    BY <1>0, <2>1, <2>2 DEF GateTypeOK
  <2>4. NotCalled'
    BY <1>0, <2>1 DEF GateInv, NotCalled
  <2>5. GateMove(s) /\ PaceInv'
    BY <2>1 DEF GateMove, GateHeld, PaceInv, OnTime, cacheVars
  <2> QED
    BY <2>1, <2>3, <2>4, <2>5 DEF GateInv
<1>4. CASE CrashScan(s)
  <2>1. /\ gate[s] = "running" /\ gate' = [gate EXCEPT ![s] = "crashed"]
        /\ gateFaults < MaxGateFaults /\ gateFaults' = gateFaults + 1
        /\ UNCHANGED <<cacheVars, enteredAt, result>>
    BY <1>4 DEF CrashScan
  <2>2. ev' = [ev EXCEPT ![s] = [b \in Buckets |->
                 IF b \in Relevant(s) THEN [NotStarted EXCEPT !.at = "dead"]
                 ELSE NotStarted]]
    BY <1>4 DEF CrashScan
  <2>3. /\ ev' \in [Scans -> [Buckets -> Evaluation]]
        /\ \A t \in Scans \ {s}, c \in Buckets : ev'[t][c] = ev[t][c]
        /\ \A c \in Buckets : ev'[s][c].at \in {"off", "dead"}
    BY <1>1, <2>2
  <2>4. GateMove(s)
    BY <2>1, <2>3 DEF GateMove, GateHeld, Held, cacheVars
  <2>5. PaceInv'
    BY <2>1, <2>3 DEF PaceInv, OnTime, Busy, Held, Early, cacheVars
  <2>6. GateTypeOK'
    <3>1. gateFaults' \in 0..MaxGateFaults
      BY <1>0, <2>1
    <3>2. gate' \in [Scans -> {"idle", "running", "returned", "threw", "crashed"}]
      BY <1>0, <2>1
    <3> QED
      BY <1>0, <2>1, <2>3, <3>1, <3>2 DEF GateTypeOK
  <2>7. NotCalled'
    BY <1>0, <2>1, <2>3 DEF GateInv, NotCalled
  <2> QED
    BY <2>1, <2>4, <2>5, <2>6, <2>7 DEF GateInv
<1> QED
  BY <1>2, <1>3, <1>4

\* Every step of a gate is one of these.
LEMMA GateMoves ==
    ASSUME GateInv, CacheTypeOK, PaceInv, NEW s \in Scans, GateStep(s)
    PROVE  /\ GateMove(s) /\ PaceInv' /\ GateInv'
           /\ UNCHANGED breaker /\ bucket' \in [Buckets -> Entry \cup {None}]
           /\ UNCHANGED now
<1>1. CASE Enter(s) \/ ReturnFromGate(s) \/ CrashScan(s)
  BY <1>1, CallGateMove DEF cacheVars, CacheTypeOK
<1>2. ASSUME NEW b \in Buckets, EvalStep(s, b)
      PROVE  /\ GateMove(s) /\ PaceInv' /\ GateInv'
             /\ UNCHANGED <<now, breaker>> /\ bucket' \in [Buckets -> Entry \cup {None}]
  BY <1>2, EvalGateMove DEF GateMove, GateInv, GateTypeOK
<1> QED
  BY <1>1, <1>2 DEF GateStep, EvalStep

\* What a step of instance w does to the locks.
SweepMove(w) ==
    /\ UNCHANGED now
    /\ \A v \in Workers \ {w}, c \in Buckets : SweepHeld(v, c)' <=> SweepHeld(v, c)
    /\ \/ /\ UNCHANGED <<lock, faults>>
          /\ \A c \in Buckets : SweepHeld(w, c)' <=> SweepHeld(w, c)
       \/ \E b \in Buckets :
            /\ LockFree(b) /\ TakeLock(b, w, RefreshLockTTL) /\ UNCHANGED faults
            /\ \A c \in Buckets : ~SweepHeld(w, c) /\ (SweepHeld(w, c)' <=> c = b)
       \/ \E b \in Buckets :
            /\ SweepHeld(w, b) /\ DeleteLock(b) /\ UNCHANGED faults
            /\ \A c \in Buckets : SweepHeld(w, c)' <=> SweepHeld(w, c) /\ c # b
       \/ /\ faults' = faults + 1 /\ UNCHANGED lock
          /\ \A c \in Buckets : SweepHeld(w, c)' => SweepHeld(w, c)

\* Every step of an instance is one of these.
LEMMA SweepMoves ==
    ASSUME TypeInv, NEW w \in Workers, WorkerStep(w) \/ Crash(w) \/ InfrastructureFault(w)
    PROVE  SweepMove(w)
<1>0. pc \in [Workers -> PCs] /\ todo \in [Workers -> Seq(Buckets)]
  BY DEF TypeInv, TypeOK
<1>1. UNCHANGED now
  BY DEF WorkerStep, TakeJob, CheckBreaker, AcquireBucket, FetchSucceeds, BucketFails,
     WriteBucket, EnqueueOutOfBand, ReleaseBucket, FinishUntouched, RecordSuccess,
     ReadBreaker, RecordFailure, SendAlert, Crash, InfrastructureFault, cacheVars
<1>2. /\ \A v \in Workers \ {w} : pc'[v] = pc[v] /\ todo'[v] = todo[v]
  BY <1>0 DEF WorkerStep, TakeJob, CheckBreaker, AcquireBucket, FetchSucceeds, BucketFails,
     WriteBucket, EnqueueOutOfBand, ReleaseBucket, FinishUntouched, RecordSuccess,
     ReadBreaker, RecordFailure, SendAlert, Crash, InfrastructureFault, EndJob, GoTo
<1>3. \A v \in Workers \ {w}, c \in Buckets : SweepHeld(v, c)' <=> SweepHeld(v, c)
  BY <1>2 DEF SweepHeld, Current
<1>4. CASE \/ TakeJob(w) \/ CheckBreaker(w) \/ FinishUntouched(w) \/ RecordSuccess(w)
           \/ ReadBreaker(w) \/ RecordFailure(w) \/ SendAlert(w)
  <2>1. UNCHANGED <<lock, faults>>
    BY <1>4 DEF TakeJob, CheckBreaker, FinishUntouched, RecordSuccess, ReadBreaker,
       RecordFailure, SendAlert, cacheVars, boundVars
  <2>2. pc[w] \notin Holding /\ pc'[w] \notin Holding
    BY <1>0, <1>4 DEF TakeJob, CheckBreaker, FinishUntouched, RecordSuccess, ReadBreaker,
       RecordFailure, SendAlert, EndJob, GoTo, Holding
  <2> QED
    BY <1>1, <1>3, <2>1, <2>2 DEF SweepMove, SweepHeld
<1>5. CASE AcquireBucket(w)
  <2>1. pc[w] \notin Holding /\ todo[w] # <<>> /\ Current(w) \in Buckets
    BY <1>0, <1>5, CurrentType DEF AcquireBucket, Holding
  <2>2. CASE LockFree(Current(w)) /\ TakeLock(Current(w), w, RefreshLockTTL)
               /\ GoTo(w, "fetch") /\ UNCHANGED todo
    <3>1. pc'[w] \in Holding /\ Current(w)' = Current(w)
      BY <1>0, <2>2 DEF GoTo, Holding, Current
    <3>2. \A c \in Buckets : ~SweepHeld(w, c) /\ (SweepHeld(w, c)' <=> c = Current(w))
      BY <2>1, <3>1 DEF SweepHeld
    <3>3. UNCHANGED faults
      BY <1>5 DEF AcquireBucket, boundVars
    <3> QED
      BY <1>1, <1>3, <2>1, <2>2, <3>2, <3>3 DEF SweepMove
  <2>3. CASE UNCHANGED <<lock, pc>>
    BY <1>1, <1>3, <1>5, <2>1, <2>3 DEF SweepMove, SweepHeld, AcquireBucket, boundVars
  <2> QED
    BY <1>5, <2>2, <2>3 DEF AcquireBucket
<1>6. CASE FetchSucceeds(w) \/ BucketFails(w) \/ WriteBucket(w) \/ EnqueueOutOfBand(w)
  <2>1. UNCHANGED <<lock, todo>> /\ pc[w] \in Holding /\ pc'[w] \in Holding
    BY <1>0, <1>6 DEF FetchSucceeds, BucketFails, WriteBucket, EnqueueOutOfBand, GoTo,
       cacheVars, Holding
  <2>2. \A c \in Buckets : SweepHeld(w, c)' <=> SweepHeld(w, c)
    BY <2>1 DEF SweepHeld, Current
  <2>3. faults' = faults \/ faults' = faults + 1
    BY <1>6 DEF FetchSucceeds, BucketFails, WriteBucket, EnqueueOutOfBand, boundVars
  <2> QED
    BY <1>1, <1>3, <2>1, <2>2, <2>3 DEF SweepMove
<1>7. CASE ReleaseBucket(w)
  <2>1. /\ pc[w] \in Holding /\ pc'[w] \notin Holding
        /\ DeleteLock(Current(w)) /\ UNCHANGED faults
    BY <1>0, <1>7 DEF ReleaseBucket, GoTo, Holding, boundVars
  <2>2. Current(w) \in Buckets
    BY <1>0, <2>1, CurrentType DEF TypeInv, HasCurrent
  <2>3. SweepHeld(w, Current(w))
        /\ \A c \in Buckets : SweepHeld(w, c)' <=> SweepHeld(w, c) /\ c # Current(w)
    BY <2>1 DEF SweepHeld
  <2> QED
    BY <1>1, <1>3, <2>1, <2>2, <2>3 DEF SweepMove
<1>8. CASE Crash(w) \/ InfrastructureFault(w)
  <2>1. UNCHANGED lock /\ faults' = faults + 1
    BY <1>8 DEF Crash, InfrastructureFault, cacheVars
  <2>2. pc'[w] \notin Holding
    BY <1>0, <1>8 DEF Crash, InfrastructureFault, EndJob, GoTo, Holding
  <2> QED
    BY <1>1, <1>3, <2>1, <2>2 DEF SweepMove, SweepHeld
<1> QED
  BY <1>4, <1>5, <1>6, <1>7, <1>8 DEF WorkerStep

-----------------------------------------------------------------------------
(* The invariant *)

\* Sweeps and gates run in jobs of different queues.
ActorsDiffer == Workers \cap Scans = {}

\* The slack of a gate's TTL covers the commands around its bounded wait.
GateTTLSuffices == Latency < GateLockSlack

\* The actor that the key of a bucket belongs to.
Owns(a, b) == lock[b] # None /\ lock[b].owner = a

\* A gate inside that owns its key owns it for longer than it may stay.
LeaseInv ==
    \A s \in Scans, b \in Buckets :
        GateHeld(s, b) /\ Owns(s, b) => lock[b].expiresAt >= enteredAt[s] + GateLockTTL

MarketTypeInv == TypeInv /\ GateInv /\ PaceInv

\* Time passes only while no evaluation runs past what its gate may take.
LEMMA TickPace ==
    ASSUME MarketTypeInv, MarketTick
    PROVE  /\ GateInv' /\ PaceInv'
           /\ \A s \in Scans, b \in Buckets :
                GateHeld(s, b) => now + 1 <= enteredAt[s] + EvalBound
<1>0. /\ now \in Nat /\ enteredAt \in [Scans -> Nat]
      /\ Timeout \in Nat /\ Latency \in Nat /\ EvalBound = Latency + Timeout
  BY GateAssumption DEF MarketTypeInv, TypeInv, TypeOK, CacheTypeOK, GateInv, GateTypeOK,
     EvalBound
<1>1. UNCHANGED <<gate, enteredAt, ev, result, gateFaults>> /\ now' = now + 1 /\ GatesKeepPace
  BY DEF MarketTick, gateVars, Tick, Elapse
<1>2. GateInv'
  BY <1>1 DEF MarketTypeInv, GateInv, GateTypeOK, NotCalled
<1>3. ASSUME NEW s \in Scans, NEW b \in Buckets, ev[s][b].at \in Busy
      PROVE  /\ enteredAt[s] <= now /\ now + 1 <= enteredAt[s] + EvalBound
             /\ ev[s][b].at \in Early => now + 1 <= enteredAt[s] + Latency
  <2>1. Evaluating(s, b) /\ enteredAt[s] <= now
    BY <1>3 DEF Evaluating, Busy, Held, Early, MarketTypeInv, PaceInv, OnTime
  <2>2. now < enteredAt[s] + EvalBound
        /\ (ev[s][b].at \in Early => now < enteredAt[s] + Latency)
    BY <1>1, <2>1 DEF GatesKeepPace, Early
  <2>3. enteredAt[s] \in Nat
    BY <1>0
  <2> QED
    BY <1>0, <2>1, <2>2, <2>3
<1>4. PaceInv'
  <2> SUFFICES ASSUME NEW s \in Scans, NEW b \in Buckets
               PROVE  OnTime(s, b)'
    BY DEF PaceInv
  <2>1. enteredAt[s] \in Nat
    BY <1>0
  <2> QED
    BY <1>0, <1>1, <1>3, <2>1 DEF OnTime
<1>5. \A s \in Scans, b \in Buckets : GateHeld(s, b) => now + 1 <= enteredAt[s] + EvalBound
  BY <1>3 DEF GateHeld, Busy
<1> QED
  BY <1>2, <1>4, <1>5

\* What a gate writes into a lock is a lock.
LEMMA GateLockType ==
    ASSUME MarketTypeInv, NEW s \in Scans, GateMove(s)
    PROVE  /\ lock' \in [Buckets -> Lock \cup {None}]
           /\ [owner |-> s, expiresAt |-> now + GateLockTTL] \in Lock
<1>0. /\ lock \in [Buckets -> Lock \cup {None}] /\ now \in Nat
      /\ GateLockTTL \in Nat /\ s \in Owners
  BY GateAssumption DEF MarketTypeInv, TypeInv, TypeOK, CacheTypeOK, GateLockTTL
<1>1. [owner |-> s, expiresAt |-> now + GateLockTTL] \in Lock
  BY <1>0 DEF Lock
<1> QED
  BY <1>0, <1>1 DEF GateMove, TakeLock, DeleteLock

\* A gate writes no bucket but with its refresh.
LEMMA GateWrites ==
    ASSUME NEW s \in Scans, GateStep(s)
    PROVE  UNCHANGED <<bucket, unguarded>> \/ \E b \in Buckets : RefreshWrites(s, b)
  BY DEF GateStep, Enter, EnterGate, ReturnFromGate, CrashScan, BucketStep, VendorStep,
     EvaluationFault, ReadCached, TryLock, RefreshAnswers, RefreshFails, TimesOut, Unlock,
     ConsultBreaker, cacheVars

\* The types and the pace of the gates are inductive, whatever the TTLs.
LEMMA MarketTypeStep == MarketTypeInv /\ [MarketNext]_marketVars => MarketTypeInv'
<1> SUFFICES ASSUME MarketTypeInv, [MarketNext]_marketVars
             PROVE  MarketTypeInv'
  OBVIOUS
<1>0. TypeInv /\ GateInv /\ PaceInv /\ CacheTypeOK
  BY DEF MarketTypeInv, TypeInv, TypeOK
<1>1. CASE MarketTick
  <2>1. Next
    BY <1>1 DEF MarketTick, Next
  <2> QED
    BY <1>0, <1>1, <2>1, TypeStep, TickPace DEF MarketTypeInv
<1>2. CASE RefreshStep
  <2>1. Next /\ UNCHANGED gateVars
    BY <1>2 DEF RefreshStep, Next
  <2>2. UNCHANGED now
    <3>1. ASSUME NEW w \in Workers, WorkerStep(w) \/ Crash(w) \/ InfrastructureFault(w)
          PROVE  UNCHANGED now
      BY <1>0, <3>1, SweepMoves DEF SweepMove
    <3> QED
      BY <1>2, <3>1 DEF RefreshStep, CronTick, cacheVars
  <2>3. GateInv' /\ PaceInv'
    BY <1>0, <2>1, <2>2 DEF gateVars, GateInv, GateTypeOK, NotCalled, PaceInv, OnTime
  <2> QED
    BY <1>0, <2>1, <2>3, TypeStep DEF MarketTypeInv
<1>3. ASSUME NEW s \in Scans, GateStep(s)
      PROVE  MarketTypeInv'
  <2>1. UNCHANGED refreshVars
    BY <1>3 DEF GateStep
  <2>2. /\ GateMove(s) /\ PaceInv' /\ GateInv'
        /\ UNCHANGED <<now, breaker>> /\ bucket' \in [Buckets -> Entry \cup {None}]
    BY <1>0, <1>3, GateMoves DEF CacheTypeOK
  <2>3. CacheTypeOK'
    <3>1. unguarded' \subseteq Buckets
      <4>1. unguarded \subseteq Buckets
        BY <1>0 DEF CacheTypeOK
      <4>2. ASSUME NEW b \in Buckets, RefreshWrites(s, b)
            PROVE  unguarded' \subseteq Buckets
        <5>1. unguarded' = unguarded \ {b} \/ unguarded' = unguarded \cup {b}
          BY <4>2 DEF RefreshWrites, PutBucket
        <5> QED
          BY <4>1, <5>1
      <4> QED
        BY <1>3, <4>1, <4>2, GateWrites
    <3> QED
      BY <1>0, <2>2, <3>1, GateLockType DEF CacheTypeOK
  <2>4. TypeInv'
    BY <1>0, <2>1, <2>3 DEF TypeInv, TypeOK, HasCurrent, refreshVars, workerVars,
       boundVars, historyVars
  <2> QED
    BY <2>2, <2>4 DEF MarketTypeInv
<1>4. CASE UNCHANGED marketVars
  <2>1. UNCHANGED vars /\ UNCHANGED now /\ UNCHANGED gateVars
    BY <1>4 DEF marketVars, vars, cacheVars
  <2>2. GateInv' /\ PaceInv'
    BY <1>0, <2>1 DEF gateVars, GateInv, GateTypeOK, NotCalled, PaceInv, OnTime
  <2> QED
    BY <1>0, <2>1, <2>2, TypeStep DEF MarketTypeInv
<1> QED
  BY <1>1, <1>2, <1>3, <1>4 DEF MarketNext

\* Nobody runs and nothing is locked at the start.
LEMMA MarketStart == MarketInit => MarketTypeInv /\ LeaseInv
<1> SUFFICES ASSUME MarketInit
             PROVE  MarketTypeInv /\ LeaseInv
  OBVIOUS
<1>1. TypeInv
  BY InitType DEF MarketInit
<1>2. NotStarted \in Evaluation /\ NotStarted.at = "off"
  BY DEF NotStarted, Evaluation
<1>3. \A s \in Scans, b \in Buckets : ev[s][b] = NotStarted
  BY DEF MarketInit, GateInit
<1>4. GateInv
  BY <1>2, <1>3, GateAssumption DEF MarketInit, GateInit, GateInv, GateTypeOK, NotCalled
<1>5. PaceInv /\ LeaseInv
  BY <1>2, <1>3 DEF PaceInv, OnTime, Busy, LeaseInv, GateHeld, Held, Early
<1> QED
  BY <1>1, <1>4, <1>5 DEF MarketTypeInv

\* Sweeps, gates and the Valkey state stay well typed together, whatever the numbers
\* of instances, scans and buckets.
THEOREM MarketTypeCorrect == MarketSpec => []MarketTypeOK
<1>1. MarketInit => MarketTypeInv
  BY MarketStart
<1>2. MarketTypeInv => MarketTypeOK
  BY DEF MarketTypeInv, TypeInv, GateInv, MarketTypeOK
<1> QED
  BY <1>1, <1>2, MarketTypeStep, PTL DEF MarketSpec

-----------------------------------------------------------------------------
(* The abstract lock *)

AbstractLockStep == [AbstractLock!Next]_(AbstractLock!lockVars)

\* The actors, and which of them is inside.
Actors == Workers \cup Scans
Holds(a, b) == (a \in Workers /\ SweepHeld(a, b)) \/ (a \in Scans /\ GateHeld(a, b))

\* What a step does to keys and actors: the clock lets keys expire, an actor takes a free
\* key and is inside, an actor inside deletes the key and is not, a fault takes some of
\* those inside away, or nothing happens to either.
Expires ==
    /\ now' = now + 1 /\ UNCHANGED <<faults, gateFaults>>
    /\ \A a \in Actors, c \in Buckets : Holds(a, c)' <=> Holds(a, c)
    /\ lock' = [c \in Buckets |-> IF lock[c] # None /\ lock[c].expiresAt <= now + 1
                                  THEN None ELSE lock[c]]
    /\ \A s \in Scans, c \in Buckets : GateHeld(s, c) => now + 1 <= enteredAt[s] + EvalBound

Enters(a, b) ==
    /\ UNCHANGED <<now, faults, gateFaults>>
    /\ LockFree(b) /\ TakeLock(b, a, TermOf[a]) /\ ~Holds(a, b)
    /\ \A q \in Actors, c \in Buckets : Holds(q, c)' <=> Holds(q, c) \/ (q = a /\ c = b)

Leaves(a, b) ==
    /\ UNCHANGED <<now, faults, gateFaults>>
    /\ Holds(a, b) /\ DeleteLock(b)
    /\ \A q \in Actors, c \in Buckets : Holds(q, c)' <=> Holds(q, c) /\ ~(q = a /\ c = b)

Fails ==
    /\ UNCHANGED <<now, lock>>
    /\ \A q \in Actors, c \in Buckets : Holds(q, c)' => Holds(q, c)
    /\ \/ faults' = faults + 1 /\ UNCHANGED gateFaults
       \/ gateFaults' = gateFaults + 1 /\ UNCHANGED faults

Stays ==
    /\ UNCHANGED <<now, lock, faults, gateFaults>>
    /\ \A q \in Actors, c \in Buckets : Holds(q, c)' <=> Holds(q, c)

LockMove ==
    \/ Expires
    \/ \E a \in Actors, b \in Buckets : Enters(a, b) \/ Leaves(a, b)
    \/ Fails
    \/ Stays

\* Every step of the composition is one of these.
LEMMA MarketMoves ==
    ASSUME ActorsDiffer, MarketTypeInv, [MarketNext]_marketVars
    PROVE  LockMove
<1>0. /\ TypeInv /\ GateInv /\ PaceInv /\ CacheTypeOK
      /\ Workers \subseteq Owners /\ Scans \subseteq Owners
  BY RefreshAssumption, GateAssumption DEF MarketTypeInv, TypeInv, TypeOK
<1>1. CASE MarketTick
  <2>1. /\ UNCHANGED <<pc, todo, faults, ev, gateFaults>> /\ now' = now + 1
        /\ lock' = [c \in Buckets |-> IF lock[c] # None /\ lock[c].expiresAt <= now + 1
                                      THEN None ELSE lock[c]]
    BY <1>1 DEF MarketTick, gateVars, Tick, Elapse, refreshVars, workerVars, boundVars
  <2>2. \A a \in Actors, c \in Buckets : Holds(a, c)' <=> Holds(a, c)
    BY <2>1 DEF Holds, SweepHeld, GateHeld, Current
  <2> QED
    BY <1>1, <2>1, <2>2, TickPace DEF LockMove, Expires
<1>2. CASE RefreshStep
  <2>1. UNCHANGED <<ev, gateFaults>>
    BY <1>2 DEF RefreshStep, gateVars
  <2>2. \A s \in Scans, b \in Buckets : GateHeld(s, b)' <=> GateHeld(s, b)
    BY <2>1 DEF GateHeld
  <2>3. CASE CronTick
    BY <2>1, <2>3 DEF CronTick, cacheVars, workerVars, LockMove, Stays, Holds, SweepHeld,
       GateHeld, Current
  <2>4. ASSUME NEW w \in Workers, WorkerStep(w) \/ Crash(w) \/ InfrastructureFault(w)
        PROVE  LockMove
    <3>1. SweepMove(w)
      BY <1>0, <2>4, SweepMoves
    <3>2. /\ \A v \in Workers \ {w}, c \in Buckets : SweepHeld(v, c)' <=> SweepHeld(v, c)
          /\ w \notin Scans /\ w \in Owners /\ w \in Actors /\ UNCHANGED now
          /\ TermOf[w] = RefreshLockTTL
      BY <1>0, <3>1 DEF SweepMove, ActorsDiffer, Actors, TermOf
    <3>3. CASE /\ UNCHANGED <<lock, faults>>
               /\ \A c \in Buckets : SweepHeld(w, c)' <=> SweepHeld(w, c)
      BY <2>1, <2>2, <3>2, <3>3 DEF LockMove, Stays, Holds
    <3>4. ASSUME NEW b \in Buckets,
                 LockFree(b), TakeLock(b, w, RefreshLockTTL), UNCHANGED faults,
                 \A c \in Buckets : ~SweepHeld(w, c) /\ (SweepHeld(w, c)' <=> c = b)
          PROVE  LockMove
      <4>1. Enters(w, b)
        BY <2>1, <2>2, <3>2, <3>4 DEF Enters, Holds
      <4> QED
        BY <3>2, <4>1 DEF LockMove
    <3>5. ASSUME NEW b \in Buckets,
                 SweepHeld(w, b), DeleteLock(b), UNCHANGED faults,
                 \A c \in Buckets : SweepHeld(w, c)' <=> SweepHeld(w, c) /\ c # b
          PROVE  LockMove
      <4>1. Leaves(w, b)
        BY <2>1, <2>2, <3>2, <3>5 DEF Leaves, Holds
      <4> QED
        BY <3>2, <4>1 DEF LockMove
    <3>6. CASE /\ faults' = faults + 1 /\ UNCHANGED lock
               /\ \A c \in Buckets : SweepHeld(w, c)' => SweepHeld(w, c)
      BY <2>1, <2>2, <3>2, <3>6 DEF LockMove, Fails, Holds
    <3> QED
      BY <3>1, <3>3, <3>4, <3>5, <3>6 DEF SweepMove
  <2> QED
    BY <1>2, <2>3, <2>4 DEF RefreshStep
<1>3. ASSUME NEW s \in Scans, GateStep(s)
      PROVE  LockMove
  <2>1. UNCHANGED <<pc, todo, faults>>
    BY <1>3 DEF GateStep, refreshVars, workerVars, boundVars
  <2>2. \A w \in Workers, b \in Buckets : SweepHeld(w, b)' <=> SweepHeld(w, b)
    BY <2>1 DEF SweepHeld, Current
  <2>3. GateMove(s)
    BY <1>0, <1>3, GateMoves
  <2>4. /\ \A t \in Scans \ {s}, c \in Buckets : GateHeld(t, c)' <=> GateHeld(t, c)
        /\ s \notin Workers /\ s \in Owners /\ s \in Actors /\ UNCHANGED now
        /\ TermOf[s] = GateLockTTL
    BY <1>0, <2>3 DEF GateMove, ActorsDiffer, Actors, TermOf
  <2>5. CASE /\ UNCHANGED <<lock, gateFaults>>
             /\ \A c \in Buckets : GateHeld(s, c)' <=> GateHeld(s, c)
    BY <2>1, <2>2, <2>4, <2>5 DEF LockMove, Stays, Holds
  <2>6. ASSUME NEW b \in Buckets, ev[s][b].at = "lock",
               LockFree(b), TakeLock(b, s, GateLockTTL), UNCHANGED gateFaults,
               \A c \in Buckets : GateHeld(s, c)' <=> GateHeld(s, c) \/ c = b
        PROVE  LockMove
    <3>1. ~GateHeld(s, b)
      BY <2>6 DEF GateHeld, Held
    <3>2. Enters(s, b)
      BY <2>1, <2>2, <2>4, <2>6, <3>1 DEF Enters, Holds
    <3> QED
      BY <2>4, <3>2 DEF LockMove
  <2>7. ASSUME NEW b \in Buckets,
               GateHeld(s, b), DeleteLock(b), UNCHANGED gateFaults,
               \A c \in Buckets : GateHeld(s, c)' <=> GateHeld(s, c) /\ c # b
        PROVE  LockMove
    <3>1. Leaves(s, b)
      BY <2>1, <2>2, <2>4, <2>7 DEF Leaves, Holds
    <3> QED
      BY <2>4, <3>1 DEF LockMove
  <2>8. CASE /\ gateFaults' = gateFaults + 1 /\ UNCHANGED lock
             /\ \A c \in Buckets : GateHeld(s, c)' => GateHeld(s, c)
    BY <2>1, <2>2, <2>4, <2>8 DEF LockMove, Fails, Holds
  <2> QED
    BY <2>3, <2>5, <2>6, <2>7, <2>8 DEF GateMove
<1>4. CASE UNCHANGED marketVars
  <2>1. UNCHANGED <<now, lock, pc, todo, faults, ev, gateFaults>>
    BY <1>4 DEF marketVars, vars, cacheVars, refreshVars, workerVars, boundVars, gateVars
  <2> QED
    BY <2>1 DEF LockMove, Stays, Holds, SweepHeld, GateHeld, Current
<1> QED
  BY <1>1, <1>2, <1>3, <1>4 DEF MarketNext

\* A call's time of entry does not change while an evaluation of it is inside.
LEMMA EntryKept ==
    ASSUME MarketTypeInv, [MarketNext]_marketVars,
           NEW s \in Scans, NEW b \in Buckets, GateHeld(s, b)'
    PROVE  enteredAt'[s] = enteredAt[s]
<1>1. ASSUME NEW t \in Scans, GateStep(t)
      PROVE  enteredAt'[s] = enteredAt[s]
  BY <1>1, GateMoves DEF MarketTypeInv, TypeInv, TypeOK, GateMove
<1> QED
  BY <1>1 DEF MarketNext, MarketTick, RefreshStep, gateVars, marketVars

\* The lease a gate takes outlives the time it may stay inside.
LEMMA LeaseStep ==
    ASSUME ActorsDiffer
    PROVE  MarketTypeInv /\ LeaseInv /\ [MarketNext]_marketVars => LeaseInv'
<1> SUFFICES ASSUME MarketTypeInv, LeaseInv, [MarketNext]_marketVars,
                    NEW s \in Scans, NEW b \in Buckets, GateHeld(s, b)', Owns(s, b)'
             PROVE  lock'[b].expiresAt >= enteredAt'[s] + GateLockTTL
  BY DEF LeaseInv
<1>0. /\ lock \in [Buckets -> Lock \cup {None}] /\ now \in Nat
      /\ enteredAt \in [Scans -> Nat] /\ GateLockTTL \in Nat
      /\ s \in Actors /\ Holds(s, b)' /\ enteredAt'[s] = enteredAt[s]
      /\ Scans \subseteq Owners /\ Workers \subseteq Owners
  BY GateAssumption, RefreshAssumption, EntryKept
     DEF MarketTypeInv, TypeInv, TypeOK, CacheTypeOK, GateInv, GateTypeOK, GateLockTTL,
         Actors, Holds
<1>1. LockMove
  BY MarketMoves
<1>2. ASSUME Holds(s, b), lock'[b] = lock[b]
      PROVE  lock'[b].expiresAt >= enteredAt'[s] + GateLockTTL
  BY <1>0, <1>2 DEF LeaseInv, Owns, Holds, ActorsDiffer
<1>3. CASE Expires
  BY <1>0, <1>2, <1>3 DEF Expires, Owns
<1>4. ASSUME NEW a \in Actors, NEW c \in Buckets, Enters(a, c)
      PROVE  lock'[b].expiresAt >= enteredAt'[s] + GateLockTTL
  <2>1. CASE c # b
    BY <1>0, <1>2, <1>4, <2>1 DEF Enters, TakeLock
  <2>2. CASE c = b
    <3>1. lock'[b] = [owner |-> a, expiresAt |-> now + TermOf[a]]
      BY <1>0, <1>4, <2>2 DEF Enters, TakeLock
    <3>2. a = s /\ TermOf[s] = GateLockTTL
      BY <1>0, <3>1 DEF Owns, TermOf
    <3>3. enteredAt[s] <= now
      <4>1. UNCHANGED now /\ MarketTypeInv'
        BY <1>4, MarketTypeStep DEF Enters
      <4> QED
        BY <1>0, <4>1 DEF MarketTypeInv, PaceInv, OnTime, Busy, GateHeld
    <3> QED
      BY <1>0, <3>1, <3>2, <3>3
  <2> QED
    BY <2>1, <2>2
<1>5. ASSUME NEW a \in Actors, NEW c \in Buckets, Leaves(a, c)
      PROVE  lock'[b].expiresAt >= enteredAt'[s] + GateLockTTL
  BY <1>0, <1>2, <1>5 DEF Leaves, DeleteLock, Owns
<1>6. CASE Fails \/ Stays
  BY <1>0, <1>2, <1>6 DEF Fails, Stays
<1> QED
  BY <1>1, <1>3, <1>4, <1>5, <1>6 DEF LockMove

\* The abstract lock's variables, by who holds and owns what.
LEMMA LockVariables ==
    /\ HolderSets = [b \in Buckets |-> {a \in Actors : Holds(a, b)}]
    /\ OverrunSets = [b \in Buckets |-> {a \in Actors : Holds(a, b) /\ ~Owns(a, b)}]
<1>1. \A b \in Buckets : Inside(b) = {a \in Actors : Holds(a, b)}
  BY DEF Inside, Refreshing, Current, Holds, SweepHeld, GateHeld, Held, Actors
<1>2. \A b \in Buckets : Overrun(b) = {a \in Actors : Holds(a, b) /\ ~Owns(a, b)}
  BY <1>1 DEF Overrun, Owns
<1> QED
  BY <1>1, <1>2 DEF HolderSets, OverrunSets

\* The same after a step.
LEMMA LockVariablesNext ==
    /\ HolderSets' = [b \in Buckets |-> {a \in Actors : Holds(a, b)'}]
    /\ OverrunSets' = [b \in Buckets |-> {a \in Actors : Holds(a, b)' /\ ~Owns(a, b)'}]
<1>1. \A b \in Buckets : Inside(b)' = {a \in Actors : Holds(a, b)'}
  BY DEF Inside, Refreshing, Current, Holds, SweepHeld, GateHeld, Held, Actors
<1>2. \A b \in Buckets : Overrun(b)' = {a \in Actors : Holds(a, b)' /\ ~Owns(a, b)'}
  BY <1>1 DEF Overrun, Owns
<1> QED
  BY <1>1, <1>2 DEF HolderSets, OverrunSets

\* A lease ends when its key expires, and is absent when there is no key.
LEMMA LeasesAre ==
    ASSUME lock \in [Buckets -> Lock \cup {None}], NEW b \in Buckets
    PROVE  /\ Leases[b] = None <=> lock[b] = None
           /\ lock[b] # None => Leases[b] = lock[b].expiresAt /\ Leases[b] \in Nat
<1>1. lock[b] # None => lock[b].expiresAt \in Nat
  BY DEF Lock
<1> QED
  BY <1>1, CacheAssumption DEF Leases

\* Each of those steps is one of the abstract lock, or a stutter.
LEMMA LockRefines ==
    ASSUME GateTTLSuffices, ActorsDiffer, MarketTypeInv, LeaseInv, LockMove
    PROVE  AbstractLockStep
<1>0. /\ lock \in [Buckets -> Lock \cup {None}] /\ now \in Nat
      /\ faults \in Nat /\ gateFaults \in Nat /\ enteredAt \in [Scans -> Nat]
      /\ Actors \subseteq Owners
      /\ \A a \in Owners : TermOf[a] \in Nat
  BY RefreshAssumption, GateAssumption
     DEF MarketTypeInv, TypeInv, TypeOK, CacheTypeOK, GateInv, GateTypeOK, Actors, TermOf,
         GateLockTTL
<1>1. CASE Expires
  <2> DEFINE E == {l \in Buckets : Leases[l] # None /\ Leases[l] <= now + 1}
  <2>1. \A c \in Buckets : c \in E <=> lock[c] # None /\ lock[c].expiresAt <= now + 1
    BY <1>0, LeasesAre
  <2>2. \A c \in Buckets : lock'[c] = IF c \in E THEN None ELSE lock[c]
    BY <1>1, <2>1 DEF Expires
  <2>3. Leases' = [l \in Buckets |-> IF l \in E THEN None ELSE Leases[l]]
    BY <2>2 DEF Leases
  <2>4. OverrunSets' = [l \in Buckets |-> IF l \in E THEN HolderSets[l] ELSE OverrunSets[l]]
    <3>1. ASSUME NEW l \in Buckets
          PROVE  {a \in Actors : Holds(a, l)' /\ ~Owns(a, l)'}
                   = IF l \in E THEN HolderSets[l] ELSE OverrunSets[l]
      BY <1>1, <2>2, LockVariables DEF Expires, Owns
    <3> QED
      BY <3>1, LockVariablesNext
  <2>5. HolderSets' = HolderSets
    BY <1>1, LockVariables, LockVariablesNext DEF Expires
  <2>6. ASSUME NEW l \in E
        PROVE  (HolderSets[l] \ OverrunSets[l]) \cap Scans = {}
    <3>1. ASSUME NEW s \in Scans, s \in HolderSets[l], s \notin OverrunSets[l]
          PROVE  FALSE
      <4>1. Holds(s, l) /\ Owns(s, l)
        BY <3>1, LockVariables
      <4>2. GateHeld(s, l)
        BY <4>1 DEF Holds, ActorsDiffer
      <4>3. /\ lock[l].expiresAt >= enteredAt[s] + GateLockTTL
            /\ now + 1 <= enteredAt[s] + EvalBound
            /\ lock[l] \in Lock
        BY <1>0, <1>1, <4>1, <4>2 DEF LeaseInv, Expires, Owns
      <4>4. /\ lock[l].expiresAt \in Nat /\ enteredAt[s] \in Nat
            /\ lock[l].expiresAt <= now + 1
        BY <1>0, <2>1, <4>3 DEF Lock
      <4> QED
        BY <1>0, <4>3, <4>4, GateAssumption DEF GateTTLSuffices, EvalBound, GateLockTTL
    <3> QED
      BY <3>1
  <2>7. faults' + gateFaults' = faults + gateFaults
    BY <1>1 DEF Expires
  <2>8. AbstractLock!Pass
    BY <1>1, <2>3, <2>4, <2>5, <2>6, <2>7
       DEF AbstractLock!Pass, AbstractLock!Ending, Expires
  <2> QED
    BY <2>8 DEF AbstractLockStep, AbstractLock!Next
<1>2. ASSUME NEW a \in Actors, NEW b \in Buckets, Enters(a, b)
      PROVE  AbstractLockStep
  <2>1. lock'[b] = [owner |-> a, expiresAt |-> now + TermOf[a]] /\ lock[b] = None
        /\ \A c \in Buckets \ {b} : lock'[c] = lock[c]
    BY <1>0, <1>2 DEF Enters, TakeLock, LockFree
  <2>2. lock'[b] # None
    <3>1. lock'[b] \in Lock
      BY <1>0, <2>1 DEF Lock
    <3> QED
      BY <3>1, NoneAssumption
  <2>3. /\ Leases[b] = None /\ a \notin HolderSets[b] /\ HolderSets[b] = OverrunSets[b]
    BY <1>0, <1>2, <2>1, LockVariables, LeasesAre DEF Enters, Owns
  <2>4. HolderSets' = [HolderSets EXCEPT ![b] = @ \cup {a}]
    <3>1. ASSUME NEW c \in Buckets
          PROVE  {q \in Actors : Holds(q, c)'}
                   = IF c = b THEN HolderSets[c] \cup {a} ELSE HolderSets[c]
      BY <1>2, LockVariables DEF Enters
    <3> QED
      BY <3>1, LockVariables, LockVariablesNext
  <2>5. OverrunSets' = OverrunSets
    <3>1. ASSUME NEW c \in Buckets
          PROVE  {q \in Actors : Holds(q, c)' /\ ~Owns(q, c)'} = OverrunSets[c]
      BY <1>2, <2>1, <2>2, LockVariables DEF Enters, Owns
    <3> QED
      BY <3>1, LockVariables, LockVariablesNext
  <2>6. Leases' = [Leases EXCEPT ![b] = now + TermOf[a]]
    <3>1. lock'[b].expiresAt = now + TermOf[a]
      BY <2>1
    <3>2. ASSUME NEW c \in Buckets
          PROVE  (IF lock'[c] = None THEN None ELSE lock'[c].expiresAt)
                   = IF c = b THEN now + TermOf[a]
                     ELSE IF lock[c] = None THEN None ELSE lock[c].expiresAt
      BY <2>1, <2>2, <3>1
    <3> QED
      BY <3>2, Zenon DEF Leases
  <2>7. AbstractLock!Acquire(b, a)
    BY <1>2, <2>3, <2>4, <2>5, <2>6 DEF AbstractLock!Acquire, Enters
  <2> QED
    BY <1>0, <2>7 DEF AbstractLockStep, AbstractLock!Next
<1>3. ASSUME NEW a \in Actors, NEW b \in Buckets, Leaves(a, b)
      PROVE  AbstractLockStep
  <2>1. lock'[b] = None /\ \A c \in Buckets \ {b} : lock'[c] = lock[c]
    BY <1>0, <1>3 DEF Leaves, DeleteLock
  <2>2. a \in HolderSets[b]
    BY <1>3, LockVariables DEF Leaves
  <2>3. HolderSets' = [HolderSets EXCEPT ![b] = @ \ {a}]
    <3>1. ASSUME NEW c \in Buckets
          PROVE  {q \in Actors : Holds(q, c)'}
                   = IF c = b THEN HolderSets[c] \ {a} ELSE HolderSets[c]
      BY <1>3, LockVariables DEF Leaves
    <3> QED
      BY <3>1, LockVariables, LockVariablesNext
  <2>4. OverrunSets' = [OverrunSets EXCEPT ![b] = HolderSets[b] \ {a}]
    <3>1. ASSUME NEW c \in Buckets
          PROVE  {q \in Actors : Holds(q, c)' /\ ~Owns(q, c)'}
                   = IF c = b THEN HolderSets[b] \ {a} ELSE OverrunSets[c]
      BY <1>3, <2>1, LockVariables DEF Leaves, Owns
    <3> QED
      BY <3>1, LockVariables, LockVariablesNext
  <2>5. Leases' = [Leases EXCEPT ![b] = None]
    BY <2>1 DEF Leases
  <2>6. AbstractLock!Release(b, a)
    BY <1>3, <2>2, <2>3, <2>4, <2>5 DEF AbstractLock!Release, Leaves
  <2> QED
    BY <1>0, <2>6 DEF AbstractLockStep, AbstractLock!Next
<1>4. CASE Fails
  <2>1. Leases' = Leases
    BY <1>4 DEF Fails, Leases
  <2>2. /\ HolderSets' \in [Buckets -> SUBSET Owners]
        /\ \A c \in Buckets : HolderSets'[c] \subseteq HolderSets[c]
    BY <1>0, <1>4, LockVariables, LockVariablesNext DEF Fails
  <2>3. OverrunSets' = [c \in Buckets |-> OverrunSets[c] \cap HolderSets'[c]]
    <3>1. ASSUME NEW c \in Buckets
          PROVE  {q \in Actors : Holds(q, c)' /\ ~Owns(q, c)'}
                   = OverrunSets[c] \cap HolderSets'[c]
      BY <1>4, LockVariables, LockVariablesNext DEF Fails, Owns
    <3> QED
      BY <3>1, LockVariables, LockVariablesNext
  <2>4. faults' + gateFaults' = faults + gateFaults + 1
    BY <1>0, <1>4 DEF Fails
  <2>5. AbstractLock!Fault
    BY <1>4, <2>1, <2>2, <2>3, <2>4 DEF AbstractLock!Fault, Fails
  <2> QED
    BY <2>5 DEF AbstractLockStep, AbstractLock!Next
<1>5. CASE Stays
  <2>1. HolderSets' = HolderSets /\ OverrunSets' = OverrunSets /\ Leases' = Leases
    BY <1>5, LockVariables, LockVariablesNext DEF Stays, Leases, Owns
  <2> QED
    BY <1>5, <2>1 DEF AbstractLockStep, AbstractLock!lockVars, Stays
<1> QED
  BY <1>1, <1>2, <1>3, <1>4, <1>5 DEF LockMove

\* Keys with TTLs, DELs that check no owner, sweeps that outlive their keys, crashes and
\* failed commands: together the sweeps and the gates implement the lease
\* (universe-cache.ts, staleness-gate.ts, universe-refresh.worker.ts), for any number of
\* actors and buckets, and however long a sweep holds on; a gate leaves in time because
\* its TTL exceeds its timeout by more than its own commands take.
THEOREM ImplementsLock ==
    ASSUME GateTTLSuffices, ActorsDiffer
    PROVE  MarketSpec => LockSpec
<1>1. MarketInit => AbstractLock!Init
  <2> SUFFICES ASSUME MarketInit
               PROVE  AbstractLock!Init
    OBVIOUS
  <2>1. /\ \A w \in Workers : pc[w] = "idle"
        /\ \A s \in Scans, b \in Buckets : ev[s][b].at = "off"
        /\ \A b \in Buckets : lock[b] = None
        /\ now = 0 /\ faults = 0 /\ gateFaults = 0
    BY DEF MarketInit, Init, CacheInit, GateInit, NotStarted
  <2>2. \A a \in Actors, b \in Buckets : ~Holds(a, b)
    <3>1. \A w \in Workers : pc[w] \notin Holding
      BY <2>1 DEF Holding
    <3>2. \A s \in Scans, b \in Buckets : ev[s][b].at \notin Held
      BY <2>1 DEF Held
    <3> QED
      BY <3>1, <3>2 DEF Holds, SweepHeld, GateHeld
  <2>3. HolderSets = [b \in Buckets |-> {}] /\ OverrunSets = [b \in Buckets |-> {}]
    BY <2>2, LockVariables
  <2>4. Leases = [b \in Buckets |-> None]
    BY <2>1 DEF Leases
  <2> QED
    BY <2>1, <2>3, <2>4 DEF AbstractLock!Init
<1>2. MarketTypeInv /\ LeaseInv /\ [MarketNext]_marketVars => AbstractLockStep
  BY MarketMoves, LockRefines
<1> QED
  BY <1>1, <1>2, MarketStart, MarketTypeStep, LeaseStep, PTL
     DEF MarketSpec, LockSpec, AbstractLock!Spec, AbstractLockStep

-----------------------------------------------------------------------------
(* The order of the writes *)

\* Actor a has an entry of date t that it is about to write to b.
Pending(a, b, t) ==
    \/ a \in Workers /\ pc[a] = "write" /\ Current(a) = b /\ fetched[a] = t
    \/ a \in Scans /\ ev[a][b].promise = "writing" /\ ev[a][b].asOf = t

\* Nothing is dated in the future; and whoever is about to write a bucket whose key it
\* owns brings an entry no older than the last one that was written under the key.
OrderInv ==
    /\ \A b \in Buckets : bucket[b] # None => bucket[b].asOf <= now
    /\ \A a \in Actors, b \in Buckets, t \in Time : Pending(a, b, t) =>
         /\ t \in Nat /\ t <= now
         /\ Owns(a, b) /\ b \notin unguarded /\ bucket[b] # None => bucket[b].asOf <= t

\* A step that writes no bucket: whoever is about to write was so before, with the same
\* key, or has its date from this moment.
Quiet ==
    /\ UNCHANGED <<bucket, unguarded>> /\ now' \in Nat /\ now <= now'
    /\ \A a \in Actors, b \in Buckets, t \in Time : Pending(a, b, t)' =>
         t = now \/ (Pending(a, b, t) /\ (Owns(a, b)' => Owns(a, b)))

\* A step that writes one: the writer has written what it had.
Writes(a, b, t) ==
    /\ Pending(a, b, t) /\ PutBucket(b, a, t) /\ UNCHANGED <<now, lock>>
    /\ \A q \in Actors, c \in Buckets, u \in Time : Pending(q, c, u)' =>
         Pending(q, c, u) /\ ~(q = a /\ c = b)

OrderMove ==
    Quiet \/ \E a \in Actors, b \in Buckets, t \in Time : Writes(a, b, t)

KeepsOrder ==
    \A b \in Buckets :
       bucket[b] # None /\ b \notin unguarded /\ b \notin unguarded'
       => bucket'[b] # None /\ bucket'[b].asOf >= bucket[b].asOf

\* Such steps keep the order.
LEMMA OrderStep ==
    ASSUME MarketTypeInv, OrderInv, OrderMove
    PROVE  OrderInv' /\ KeepsOrder
<1>0. /\ now \in Nat /\ bucket \in [Buckets -> Entry \cup {None}]
      /\ \A b \in Buckets : bucket[b] # None => bucket[b].asOf \in Nat
  BY DEF MarketTypeInv, TypeInv, TypeOK, CacheTypeOK, Entry
<1>1. CASE Quiet
  <2>1. /\ now' \in Nat /\ now <= now' /\ bucket' = bucket /\ unguarded' = unguarded
    BY <1>1 DEF Quiet
  <2>2. \A b \in Buckets : bucket[b] # None => bucket[b].asOf <= now
    BY DEF OrderInv
  <2>3. ASSUME NEW a \in Actors, NEW b \in Buckets, NEW t \in Time, Pending(a, b, t)'
        PROVE  /\ t \in Nat /\ t <= now
               /\ Owns(a, b)' /\ b \notin unguarded /\ bucket[b] # None => bucket[b].asOf <= t
    <3>1. CASE t = now
      BY <1>0, <2>2, <3>1
    <3>2. CASE Pending(a, b, t) /\ (Owns(a, b)' => Owns(a, b))
      BY <3>2 DEF OrderInv
    <3> QED
      BY <1>1, <2>3, <3>1, <3>2 DEF Quiet
  <2>4. \A b \in Buckets : bucket'[b] # None => bucket'[b].asOf <= now'
    BY <1>0, <2>1, <2>2
  <2>5. ASSUME NEW a \in Actors, NEW b \in Buckets, NEW t \in Time, Pending(a, b, t)'
        PROVE  /\ t \in Nat /\ t <= now'
               /\ Owns(a, b)' /\ b \notin unguarded' /\ bucket'[b] # None
                    => bucket'[b].asOf <= t
    BY <1>0, <2>1, <2>3, <2>5
  <2>6. KeepsOrder
    BY <1>0, <2>1 DEF KeepsOrder
  <2> QED
    BY <2>4, <2>5, <2>6 DEF OrderInv
<1>2. ASSUME NEW a \in Actors, NEW b \in Buckets, NEW t \in Time, Writes(a, b, t)
      PROVE  OrderInv' /\ KeepsOrder
  <2>1. /\ Pending(a, b, t) /\ t \in Nat /\ t <= now
        /\ Owns(a, b) /\ b \notin unguarded /\ bucket[b] # None => bucket[b].asOf <= t
    BY <1>2 DEF OrderInv, Writes
  <2>2. /\ bucket'[b] = [asOf |-> t, tier |-> "FAST"]
        /\ \A c \in Buckets \ {b} : bucket'[c] = bucket[c]
        /\ UNCHANGED <<now, lock>>
    BY <1>0, <1>2 DEF Writes, PutBucket
  <2>3. bucket'[b] # None /\ bucket'[b].asOf = t
    <3>1. bucket'[b] \in Entry
      BY <2>1, <2>2 DEF Entry, Tiers
    <3> QED
      BY <2>2, <3>1, NoneAssumption
  <2>4. /\ Owns(a, b) => unguarded' = unguarded \ {b}
        /\ ~Owns(a, b) => unguarded' = unguarded \cup {b}
    BY <1>2 DEF Writes, PutBucket, Owns
  <2>5. \A c \in Buckets \ {b} : c \in unguarded' <=> c \in unguarded
    BY <2>4
  <2>6. \A c \in Buckets : bucket'[c] # None => bucket'[c].asOf <= now'
    BY <2>1, <2>2, <2>3 DEF OrderInv
  <2>7. ASSUME NEW q \in Actors, NEW c \in Buckets, NEW u \in Time, Pending(q, c, u)'
        PROVE  /\ u \in Nat /\ u <= now'
               /\ Owns(q, c)' /\ c \notin unguarded' /\ bucket'[c] # None
                    => bucket'[c].asOf <= u
    <3>1. Pending(q, c, u) /\ ~(q = a /\ c = b)
      BY <1>2, <2>7 DEF Writes
    <3>2. u \in Nat /\ u <= now'
      BY <2>2, <3>1 DEF OrderInv
    <3>3. Owns(q, c)' <=> Owns(q, c)
      BY <2>2 DEF Owns
    <3>4. CASE c # b
      BY <2>2, <2>5, <3>1, <3>2, <3>3, <3>4 DEF OrderInv
    <3>5. CASE c = b /\ Owns(q, c)
      <4>1. ~Owns(a, b)
        BY <3>1, <3>5 DEF Owns
      <4> QED
        BY <2>4, <3>2, <3>5, <4>1
    <3> QED
      BY <3>2, <3>3, <3>4, <3>5
  <2>8. KeepsOrder
    <3>1. ASSUME NEW c \in Buckets, bucket[c] # None, c \notin unguarded, c \notin unguarded'
          PROVE  bucket'[c] # None /\ bucket'[c].asOf >= bucket[c].asOf
      <4>1. CASE c # b
        BY <1>0, <2>2, <3>1, <4>1
      <4>2. CASE c = b
        <5>1. Owns(a, b)
          BY <2>4, <3>1, <4>2
        <5> QED
          BY <1>0, <2>1, <2>3, <3>1, <4>2, <5>1
      <4> QED
        BY <4>1, <4>2
    <3> QED
      BY <3>1 DEF KeepsOrder
  <2> QED
    BY <2>6, <2>7, <2>8 DEF OrderInv
<1> QED
  BY <1>1, <1>2 DEF OrderMove

\* A sweep asks EODHD, then writes; what else it does concerns no entry.
LEMMA SweepInOrder ==
    ASSUME ActorsDiffer, MarketTypeInv, UNCHANGED gateVars,
           NEW w \in Workers, WorkerStep(w) \/ Crash(w) \/ InfrastructureFault(w)
    PROVE  OrderMove
<1>0. /\ pc \in [Workers -> PCs] /\ todo \in [Workers -> Seq(Buckets)] /\ now \in Nat
      /\ fetched \in [Workers -> Time] /\ lock \in [Buckets -> Lock \cup {None}]
      /\ TypeInv /\ w \in Actors /\ w \notin Scans /\ UNCHANGED ev
  BY DEF MarketTypeInv, TypeInv, TypeOK, CacheTypeOK, Actors, ActorsDiffer, gateVars
<1>1. /\ UNCHANGED now
      /\ \A v \in Workers \ {w} :
            pc'[v] = pc[v] /\ todo'[v] = todo[v] /\ fetched'[v] = fetched[v]
  <2>1. UNCHANGED now
    BY <1>0, SweepMoves DEF SweepMove
  <2>2. \A v \in Workers \ {w} : pc'[v] = pc[v] /\ todo'[v] = todo[v]
    BY <1>0 DEF WorkerStep, TakeJob, CheckBreaker, AcquireBucket, FetchSucceeds, BucketFails,
       WriteBucket, EnqueueOutOfBand, ReleaseBucket, FinishUntouched, RecordSuccess,
       ReadBreaker, RecordFailure, SendAlert, Crash, InfrastructureFault, EndJob, GoTo
  <2>3. \A v \in Workers \ {w} : fetched'[v] = fetched[v]
    BY <1>0 DEF WorkerStep, TakeJob, CheckBreaker, AcquireBucket, FetchSucceeds, BucketFails,
       WriteBucket, EnqueueOutOfBand, ReleaseBucket, FinishUntouched, RecordSuccess,
       ReadBreaker, RecordFailure, SendAlert, Crash, InfrastructureFault, EndJob, GoTo
  <2> QED
    BY <2>1, <2>2, <2>3
<1>2. \A q \in Actors \ {w}, c \in Buckets, u \in Time :
         Pending(q, c, u)' <=> Pending(q, c, u)
  BY <1>0, <1>1 DEF Pending, Current, Actors
<1>3. \A c \in Buckets, u \in Time :
         Pending(w, c, u) <=> pc[w] = "write" /\ Current(w) = c /\ fetched[w] = u
  BY <1>0 DEF Pending
<1>4. \A c \in Buckets, u \in Time :
         Pending(w, c, u)' <=> pc'[w] = "write" /\ Current(w)' = c /\ fetched'[w] = u
  BY <1>0 DEF Pending
<1>5. \A q \in Actors \ {w}, c \in Buckets : Owns(q, c)' => Owns(q, c)
  <2>1. SweepMove(w)
    BY <1>0, SweepMoves
  <2>2. \A c \in Buckets : lock'[c] = lock[c] \/ lock'[c] = None
           \/ lock'[c] = [owner |-> w, expiresAt |-> now + RefreshLockTTL]
    BY <1>0, <2>1 DEF SweepMove, TakeLock, DeleteLock
  <2> QED
    BY <2>2 DEF Owns
<1>6. CASE pc'[w] # "write" /\ UNCHANGED <<bucket, unguarded>>
  BY <1>0, <1>1, <1>2, <1>4, <1>5, <1>6 DEF OrderMove, Quiet
<1>7. CASE FetchSucceeds(w)
  <2>1. UNCHANGED <<bucket, unguarded>> /\ fetched'[w] = now
    BY <1>0, <1>7 DEF FetchSucceeds, cacheVars
  <2> QED
    BY <1>0, <1>1, <1>2, <1>4, <1>5, <2>1 DEF OrderMove, Quiet
<1>8. CASE WriteBucket(w)
  <2>1. /\ pc[w] = "write" /\ PutBucket(Current(w), w, fetched[w])
        /\ UNCHANGED <<now, lock>> /\ pc'[w] # "write"
    BY <1>0, <1>8 DEF WriteBucket, GoTo
  <2>2. Current(w) \in Buckets /\ fetched[w] \in Time
    BY <1>0, <2>1, CurrentType DEF TypeInv, HasCurrent, Holding
  <2>3. Writes(w, Current(w), fetched[w])
    BY <1>2, <1>3, <1>4, <2>1, <2>2 DEF Writes
  <2> QED
    BY <1>0, <2>2, <2>3 DEF OrderMove
<1>9. CASE \/ TakeJob(w) \/ CheckBreaker(w) \/ FinishUntouched(w) \/ RecordSuccess(w)
           \/ ReadBreaker(w) \/ RecordFailure(w) \/ SendAlert(w)
  <2>1. UNCHANGED <<bucket, unguarded>>
    BY <1>9 DEF TakeJob, CheckBreaker, FinishUntouched, RecordSuccess, ReadBreaker,
       RecordFailure, SendAlert, cacheVars
  <2>2. pc'[w] # "write"
    BY <1>0, <1>9 DEF TakeJob, CheckBreaker, FinishUntouched, RecordSuccess, ReadBreaker,
       RecordFailure, SendAlert, EndJob, GoTo
  <2> QED
    BY <1>6, <2>1, <2>2
<1>10. CASE \/ AcquireBucket(w) \/ BucketFails(w) \/ EnqueueOutOfBand(w) \/ ReleaseBucket(w)
            \/ Crash(w) \/ InfrastructureFault(w)
  <2>1. UNCHANGED <<bucket, unguarded>>
    BY <1>10 DEF AcquireBucket, BucketFails, EnqueueOutOfBand, ReleaseBucket, Crash,
       InfrastructureFault, cacheVars
  <2>2. pc'[w] # "write"
    BY <1>0, <1>10 DEF AcquireBucket, BucketFails, EnqueueOutOfBand, ReleaseBucket, Crash,
       InfrastructureFault, EndJob, GoTo
  <2> QED
    BY <1>6, <2>1, <2>2
<1> QED
  BY <1>7, <1>8, <1>9, <1>10 DEF WorkerStep

\* Deciding leaves the refresh alone.
LEMMA DecidedKeeps ==
    ASSUME NEW e \in Evaluation, NEW o, NEW v
    PROVE  Decided(e, o, v).promise = e.promise /\ Decided(e, o, v).asOf = e.asOf
  BY DEF Decided, Evaluation

\* Going without a refresh touches nothing of the refresh itself.
LEMMA WithoutRefreshKeeps ==
    ASSUME NEW e \in Evaluation
    PROVE  WithoutRefresh(e).promise = e.promise /\ WithoutRefresh(e).asOf = e.asOf
<1>1. [e EXCEPT !.at = "breaker"].promise = e.promise
      /\ [e EXCEPT !.at = "breaker"].asOf = e.asOf
  BY DEF Evaluation
<1>2. Decided(e, "SKIPPED", None).promise = e.promise
      /\ Decided(e, "SKIPPED", None).asOf = e.asOf
  BY DecidedKeeps
<1> QED
  BY <1>1, <1>2 DEF WithoutRefresh

\* A call that starts or crashes has no refresh running.
LEMMA CallPromises ==
    ASSUME GateInv, NEW s \in Scans, Enter(s) \/ ReturnFromGate(s) \/ CrashScan(s)
    PROVE  \A t \in Scans, c \in Buckets :
              ev'[t][c] = ev[t][c] \/ ev'[t][c].promise = "none"
<1>0. ev \in [Scans -> [Buckets -> Evaluation]]
  BY DEF GateInv, GateTypeOK
<1>1. /\ NotStarted.promise = "none"
      /\ [NotStarted EXCEPT !.at = "read"].promise = "none"
      /\ [NotStarted EXCEPT !.at = "dead"].promise = "none"
  BY DEF NotStarted
<1>2. CASE Enter(s)
  <2>1. PICK relevant \in SUBSET Buckets :
          ev' = [ev EXCEPT ![s] = [c \in Buckets |->
             IF c \in relevant THEN [NotStarted EXCEPT !.at = "read"] ELSE NotStarted]]
    BY <1>2, Zenon DEF Enter, EnterGate
  <2> QED
    BY <1>0, <1>1, <2>1
<1>3. CASE ReturnFromGate(s)
  BY <1>3 DEF ReturnFromGate
<1>4. CASE CrashScan(s)
  <2>1. ev' = [ev EXCEPT ![s] = [c \in Buckets |->
          IF c \in Relevant(s) THEN [NotStarted EXCEPT !.at = "dead"] ELSE NotStarted]]
    BY <1>4 DEF CrashScan
  <2> QED
    BY <1>0, <1>1, <2>1
<1> QED
  BY <1>2, <1>3, <1>4

\* An evaluation's refresh does the same, whether or not it is still waited for.
LEMMA EvalInOrder ==
    ASSUME ActorsDiffer, MarketTypeInv, UNCHANGED refreshVars,
           NEW s \in Scans, NEW b \in Buckets, EvalStep(s, b)
    PROVE  OrderMove
<1> DEFINE old == ev[s][b]
<1>0. /\ ev \in [Scans -> [Buckets -> Evaluation]] /\ old \in Evaluation /\ now \in Nat
      /\ lock \in [Buckets -> Lock \cup {None}]
      /\ GateInv /\ CacheTypeOK /\ s \in Actors /\ s \notin Workers
      /\ UNCHANGED <<pc, todo, fetched, now>>
  BY EvalMoves DEF MarketTypeInv, TypeInv, TypeOK, CacheTypeOK, GateInv, GateTypeOK, Actors,
     ActorsDiffer, refreshVars, workerVars
<1>1. PICK e \in Evaluation : ev' = [ev EXCEPT ![s][b] = e] /\ EvalMove(s, b, e)
  BY <1>0, EvalMoves
<1>2. /\ ev'[s][b] = e
      /\ \A t \in Scans, c \in Buckets : t # s \/ c # b => ev'[t][c] = ev[t][c]
  BY <1>0, <1>1, EvWrite
<1>3. \A q \in Actors, c \in Buckets, u \in Time :
         ~(q = s /\ c = b) => (Pending(q, c, u)' <=> Pending(q, c, u))
  BY <1>0, <1>2 DEF Pending, Current, Actors
<1>4. \A u \in Time : /\ Pending(s, b, u) <=> old.promise = "writing" /\ old.asOf = u
                      /\ Pending(s, b, u)' <=> e.promise = "writing" /\ e.asOf = u
  BY <1>0, <1>2 DEF Pending
<1>5. \A q \in Actors, c \in Buckets : ~(q = s /\ c = b) => (Owns(q, c)' => Owns(q, c))
  <2>1. \A c \in Buckets : lock'[c] = lock[c] \/ lock'[c] = None
           \/ (c = b /\ lock'[c] = [owner |-> s, expiresAt |-> now + GateLockTTL])
    BY <1>0, <1>1 DEF EvalMove, TakeLock, DeleteLock
  <2> QED
    BY <2>1 DEF Owns
<1>6. CASE e.promise # "writing" /\ UNCHANGED <<bucket, unguarded>>
  BY <1>0, <1>3, <1>4, <1>5, <1>6 DEF OrderMove, Quiet
<1>7. CASE /\ e.promise = old.promise /\ e.asOf = old.asOf
           /\ UNCHANGED <<bucket, unguarded>> /\ (Owns(s, b)' => Owns(s, b))
  BY <1>0, <1>3, <1>4, <1>5, <1>7 DEF OrderMove, Quiet
<1>8. CASE RefreshAnswers(s, b)
  <2>1. UNCHANGED <<bucket, unguarded>> /\ e.asOf = now
    BY <1>0, <1>2, <1>8 DEF RefreshAnswers, cacheVars, Evaluation
  <2> QED
    BY <1>0, <1>3, <1>4, <1>5, <2>1 DEF OrderMove, Quiet
<1>9. CASE RefreshWrites(s, b)
  <2>1. old.promise = "writing" /\ PutBucket(b, s, old.asOf) /\ UNCHANGED <<now, lock>>
    BY <1>9 DEF RefreshWrites
  <2>2. e.promise = "none" /\ old.asOf \in Time
    BY <1>0, <1>2, <1>9 DEF RefreshWrites, Evaluation, Time
  <2>3. Writes(s, b, old.asOf)
    BY <1>3, <1>4, <2>1, <2>2 DEF Writes
  <2> QED
    BY <1>0, <2>2, <2>3 DEF OrderMove
<1>10. CASE RefreshFails(s, b)
  <2>1. e.promise = "none" /\ UNCHANGED <<bucket, unguarded>>
    BY <1>0, <1>2, <1>10 DEF RefreshFails, cacheVars, Evaluation
  <2> QED
    BY <1>6, <2>1
<1>11. CASE TryLock(s, b)
  <2>1. UNCHANGED <<bucket, unguarded>>
    BY <1>11 DEF TryLock
  <2>2. CASE ev' = [ev EXCEPT ![s][b].at = "wait", ![s][b].deadline = now + Timeout,
                              ![s][b].promise = "fetching"]
    <3>1. e.promise = "fetching"
      BY <1>0, <1>2, <2>2 DEF Evaluation
    <3> QED
      BY <1>6, <2>1, <3>1
  <2>3. CASE ev' = [ev EXCEPT ![s][b] = WithoutRefresh(old)] /\ UNCHANGED lock
    <3>1. e = WithoutRefresh(old)
      BY <1>0, <1>2, <2>3
    <3>2. e.promise = old.promise /\ e.asOf = old.asOf
      BY <1>0, <3>1, WithoutRefreshKeeps
    <3> QED
      BY <1>7, <2>1, <2>3, <3>2 DEF Owns
  <2> QED
    BY <1>11, <2>2, <2>3 DEF TryLock
<1>12. CASE \/ ReadCached(s, b) \/ TimesOut(s, b) \/ Unlock(s, b) \/ ConsultBreaker(s, b)
            \/ EvaluationFault(s, b)
  <2>1. UNCHANGED <<bucket, unguarded>>
    BY <1>12 DEF ReadCached, TimesOut, Unlock, ConsultBreaker, EvaluationFault, cacheVars
  <2>2. Owns(s, b)' => Owns(s, b)
    <3>1. lock'[b] = lock[b] \/ lock'[b] = None
      BY <1>0, <1>12 DEF ReadCached, TimesOut, Unlock, ConsultBreaker, EvaluationFault,
         DeleteLock, cacheVars
    <3> QED
      BY <3>1 DEF Owns
  <2>3. e.promise = old.promise /\ e.asOf = old.asOf
    <3>1. CASE ReadCached(s, b)
      <4>1. \/ e = Decided(old, "PASS", bucket[b])
            \/ e = [old EXCEPT !.at = "lock", !.cached = bucket[b], !.readAt = now]
        BY <1>0, <1>2, <3>1 DEF ReadCached
      <4>2. [old EXCEPT !.at = "lock", !.cached = bucket[b], !.readAt = now].promise = old.promise
            /\ [old EXCEPT !.at = "lock", !.cached = bucket[b], !.readAt = now].asOf = old.asOf
        BY <1>0 DEF Evaluation
      <4>3. Decided(old, "PASS", bucket[b]).promise = old.promise
            /\ Decided(old, "PASS", bucket[b]).asOf = old.asOf
        BY <1>0, DecidedKeeps
      <4> QED
        BY <4>1, <4>2, <4>3
    <3>2. CASE TimesOut(s, b)
      BY <1>0, <1>2, <3>2 DEF TimesOut, Evaluation
    <3>3. CASE Unlock(s, b)
      <4>1. \/ e = Decided(old, old.outcome, old.served)
            \/ e = WithoutRefresh(old)
        BY <1>0, <1>2, <3>3 DEF Unlock
      <4> QED
        BY <1>0, <4>1, DecidedKeeps, WithoutRefreshKeeps
    <3>4. CASE ConsultBreaker(s, b)
      <4>1. \/ e = Decided(old, "SLOW_TIER_DEGRADED_SERVE", old.cached)
            \/ e = Decided(old, "SKIPPED", None)
        BY <1>0, <1>2, <3>4 DEF ConsultBreaker
      <4> QED
        BY <1>0, <4>1, DecidedKeeps
    <3>5. CASE EvaluationFault(s, b)
      <4>1. e = [old EXCEPT !.at = "dead", !.cached = None, !.readAt = 0, !.deadline = 0]
        BY <1>0, <1>2, <3>5 DEF EvaluationFault
      <4> QED
        BY <1>0, <4>1 DEF Evaluation
    <3> QED
      BY <1>12, <3>1, <3>2, <3>3, <3>4, <3>5
  <2> QED
    BY <1>7, <2>1, <2>2, <2>3
<1> QED
  BY <1>8, <1>9, <1>10, <1>11, <1>12 DEF EvalStep, BucketStep, VendorStep

\* Every step of the composition writes nothing, or what its writer had.
LEMMA OrderMoves ==
    ASSUME ActorsDiffer, MarketTypeInv, [MarketNext]_marketVars
    PROVE  OrderMove
<1>0. now \in Nat /\ lock \in [Buckets -> Lock \cup {None}]
  BY DEF MarketTypeInv, TypeInv, TypeOK, CacheTypeOK
<1>1. ASSUME UNCHANGED <<bucket, unguarded, pc, todo, fetched, ev>>,
             now' \in Nat, now <= now',
             \A b \in Buckets : lock'[b] = lock[b] \/ lock'[b] = None
      PROVE  OrderMove
  BY <1>1 DEF OrderMove, Quiet, Pending, Current, Owns
<1>2. CASE MarketTick
  <2>1. /\ UNCHANGED <<bucket, unguarded, pc, todo, fetched, ev>> /\ now' = now + 1
        /\ \A b \in Buckets : lock'[b] = lock[b] \/ lock'[b] = None
    BY <1>2 DEF MarketTick, gateVars, Tick, Elapse, refreshVars, workerVars
  <2> QED
    BY <1>0, <1>1, <2>1
<1>3. CASE RefreshStep
  <2>1. CASE CronTick
    <3>1. UNCHANGED <<bucket, unguarded, pc, todo, fetched, ev, now, lock>>
      BY <1>3, <2>1 DEF RefreshStep, CronTick, cacheVars, workerVars, gateVars
    <3> QED
      BY <1>0, <1>1, <3>1
  <2> QED
    BY <1>3, <2>1, SweepInOrder DEF RefreshStep
<1>4. ASSUME NEW s \in Scans, GateStep(s)
      PROVE  OrderMove
  <2>1. ASSUME NEW b \in Buckets, EvalStep(s, b)
        PROVE  OrderMove
    BY <1>4, <2>1, EvalInOrder DEF GateStep
  <2>2. CASE Enter(s) \/ ReturnFromGate(s) \/ CrashScan(s)
    <3>1. UNCHANGED <<bucket, unguarded, pc, todo, fetched, now, lock>>
      BY <1>4, <2>2 DEF GateStep, Enter, EnterGate, ReturnFromGate, CrashScan, cacheVars,
         refreshVars, workerVars
    <3>2. \A t \in Scans, c \in Buckets :
             ev'[t][c] = ev[t][c] \/ ev'[t][c].promise = "none"
      BY <2>2, CallPromises DEF MarketTypeInv
    <3>3. ASSUME NEW a \in Actors, NEW c \in Buckets, NEW u \in Time, Pending(a, c, u)'
          PROVE  Pending(a, c, u) /\ (Owns(a, c)' => Owns(a, c))
      BY <3>1, <3>2, <3>3 DEF Pending, Current, Owns
    <3> QED
      BY <1>0, <3>1, <3>3 DEF OrderMove, Quiet
  <2> QED
    BY <1>4, <2>1, <2>2 DEF GateStep, EvalStep
<1>5. CASE UNCHANGED marketVars
  <2>1. UNCHANGED <<bucket, unguarded, pc, todo, fetched, ev, now, lock>>
    BY <1>5 DEF marketVars, vars, cacheVars, refreshVars, workerVars, gateVars
  <2> QED
    BY <1>0, <1>1, <2>1
<1> QED
  BY <1>2, <1>3, <1>4, <1>5 DEF MarketNext

\* The lock keeps the order of the writes made under it (universe-cache.ts:
\* writeBucket; universe-refresh.worker.ts; staleness-gate.ts: performBoundedRefresh),
\* whatever overruns it: for any number of actors and buckets and any TTL, an entry that
\* its writer wrote as the owner of the key is replaced by an older one only by somebody
\* who has lost the key.
THEOREM WritesInOrder ==
    ASSUME ActorsDiffer
    PROVE  MarketSpec => LockKeepsOrder
<1>1. MarketInit => OrderInv
  <2> SUFFICES ASSUME MarketInit
               PROVE  OrderInv
    OBVIOUS
  <2>1. /\ now = 0 /\ bucket \in [Buckets -> SeededEntries]
        /\ \A w \in Workers : pc[w] = "idle"
        /\ \A s \in Scans, b \in Buckets : ev[s][b].promise = "none"
    BY DEF MarketInit, Init, CacheInit, GateInit, NotStarted
  <2>2. \A b \in Buckets : bucket[b] # None => bucket[b].asOf = 0
    BY <2>1, SeedAssumption
  <2>3. \A a \in Actors, b \in Buckets, t \in Time : ~Pending(a, b, t)
    BY <2>1 DEF Pending
  <2> QED
    BY <2>1, <2>2, <2>3 DEF OrderInv
<1>2. MarketTypeInv /\ OrderInv /\ [MarketNext]_marketVars => OrderInv' /\ KeepsOrder
  BY OrderMoves, OrderStep
<1> QED
  BY <1>1, <1>2, MarketStart, MarketTypeStep, PTL
     DEF MarketSpec, LockKeepsOrder, KeepsOrder

-----------------------------------------------------------------------------
(* What a gate serves *)

\* An evaluation e of a gate entered at t: its reading and its refresh are no older than
\* the gate, it asks the breaker for a SLOW entry only, and once it is over it is skipped
\* or serves an entry that was within its limit.
Sound(e, t) ==
    /\ e.at = "off" => e.promise = "none"
    /\ e.at \in {"lock", "wait", "unlock", "breaker"} => t <= e.readAt
    /\ e.promise = "writing" => t <= e.asOf
    /\ e.at = "breaker" => e.cached # None /\ e.cached.tier = "SLOW"
    /\ e.at \in {"read", "lock", "wait"} => e.outcome # "BOUNDED_REFRESH_SUCCESS"
    /\ e.at = "unlock" =>
         \/ e.outcome # "BOUNDED_REFRESH_SUCCESS"
         \/ e.served # None /\ t <= e.served.asOf
    /\ e.at = "done" =>
         /\ e.outcome \in Outcomes
         /\ e.outcome = "SKIPPED" <=> e.served = None
         /\ e.served # None => t - e.served.asOf <= AgeLimit(e)

SoundInv == \A s \in Scans, b \in Buckets : Sound(ev[s][b], enteredAt[s])

\* Nobody has entered in the future, and a running gate is within its bound.
EnteredInv ==
    \A s \in Scans :
        /\ enteredAt[s] <= now
        /\ gate[s] = "running" => now <= enteredAt[s] + EvalBound

\* A decision that is a skip, or that serves what is within its limit, is sound.
LEMMA DecidedSound ==
    ASSUME NEW e \in Evaluation, NEW t \in Nat, NEW o \in Outcomes,
           NEW v \in Entry \cup {None}, o = "SKIPPED" <=> v = None,
           v # None => t - v.asOf <= IF o = "SLOW_TIER_DEGRADED_SERVE" THEN OuterCap
                                     ELSE ThresholdOf(v.tier),
           e.promise = "writing" => t <= e.asOf
    PROVE  Sound(Decided(e, o, v), t)
<1> DEFINE d == Decided(e, o, v)
<1>1. /\ d.at = "done" /\ d.outcome = o /\ d.served = v
      /\ d.promise = e.promise /\ d.asOf = e.asOf
  BY DEF Decided, Evaluation
<1> HIDE DEF d
<1>2. Sound(d, t)
  BY <1>1 DEF Sound, AgeLimit
<1> QED
  BY <1>2 DEF d

\* A skip is sound.
LEMMA SkipSound ==
    ASSUME NEW e \in Evaluation, NEW t \in Nat, e.promise = "writing" => t <= e.asOf
    PROVE  Sound(Decided(e, "SKIPPED", None), t)
<1>1. "SKIPPED" \in Outcomes /\ None \in Entry \cup {None}
  BY DEF Outcomes
<1> QED
  BY <1>1, DecidedSound

\* Without a refreshed bucket an evaluation stays sound.
LEMMA WithoutRefreshSound ==
    ASSUME NEW e \in Evaluation, NEW t \in Nat,
           t <= e.readAt, e.promise = "writing" => t <= e.asOf
    PROVE  Sound(WithoutRefresh(e), t)
<1>1. CASE TierOf(e.cached) = "FAST"
  BY <1>1, SkipSound DEF WithoutRefresh
<1>2. CASE TierOf(e.cached) # "FAST"
  <2> DEFINE d == [e EXCEPT !.at = "breaker"]
  <2>1. /\ d.at = "breaker" /\ d.readAt = e.readAt /\ d.cached = e.cached
        /\ d.promise = e.promise /\ d.asOf = e.asOf
    BY DEF Evaluation
  <2>2. e.cached # None /\ e.cached.tier = "SLOW"
    BY <1>2 DEF TierOf, Evaluation, Entry, Tiers
  <2> HIDE DEF d
  <2>3. Sound(d, t)
    BY <2>1, <2>2 DEF Sound
  <2> QED
    BY <1>2, <2>3 DEF WithoutRefresh, d
<1> QED
  BY <1>1, <1>2

\* What a step leaves of an evaluation that is over.
Settled(e, f) == e.at = "done" => f.at = "done" /\ f.outcome = e.outcome /\ f.served = e.served

\* Every step of an evaluation keeps it sound, and its decision.
LEMMA EvalSound ==
    ASSUME GateInv, CacheTypeOK, EnteredInv, NEW s \in Scans, NEW b \in Buckets,
           Sound(ev[s][b], enteredAt[s]), EvalStep(s, b)
    PROVE  Sound(ev'[s][b], enteredAt[s]) /\ Settled(ev[s][b], ev'[s][b])
<1> DEFINE old == ev[s][b]
           new == ev'[s][b]
           t == enteredAt[s]
<1>0. /\ old \in Evaluation /\ now \in Nat /\ t \in Nat /\ t <= now
      /\ bucket[b] \in Entry \cup {None}
      /\ ev \in [Scans -> [Buckets -> Evaluation]]
      /\ Sound(old, t)
  BY DEF GateInv, GateTypeOK, CacheTypeOK, EnteredInv
<1>a. old.readAt \in Nat /\ old.asOf \in Nat /\ old.cached \in Entry \cup {None}
      /\ old.served \in Entry \cup {None}
  BY <1>0 DEF Evaluation
<1>b. (old.promise = "writing" => t <= old.asOf)
      /\ (old.at \in {"lock", "wait", "unlock", "breaker"} => t <= old.readAt)
  BY <1>0 DEF Sound
<1> HIDE DEF old, new, t
<1>1. CASE ReadCached(s, b)
  <2>1. old.at = "read"
        /\ new = IF FreshAt(bucket[b], now) THEN Decided(old, "PASS", bucket[b])
                 ELSE [old EXCEPT !.at = "lock", !.cached = bucket[b], !.readAt = now]
    BY <1>0, <1>1 DEF ReadCached, old, new
  <2>2. CASE FreshAt(bucket[b], now)
    <3>1. bucket[b] # None /\ bucket[b].asOf \in Nat
          /\ now - bucket[b].asOf <= ThresholdOf(bucket[b].tier)
          /\ ThresholdOf(bucket[b].tier) \in Nat
      BY <1>0, <2>2, GateAssumption DEF FreshAt, Entry, ThresholdOf
    <3>2. t - bucket[b].asOf <= ThresholdOf(bucket[b].tier)
      BY <1>0, <3>1
    <3>3. "PASS" \in Outcomes
      BY DEF Outcomes
    <3>4. Sound(Decided(old, "PASS", bucket[b]), t)
      BY <1>0, <1>b, <3>1, <3>2, <3>3, DecidedSound
    <3> QED
      BY <2>1, <2>2, <3>4 DEF Settled, old, new, t
  <2>3. CASE ~FreshAt(bucket[b], now)
    <3>1. new.at = "lock" /\ new.readAt = now /\ new.promise = old.promise
          /\ new.asOf = old.asOf /\ new.outcome = old.outcome
      BY <1>0, <2>1, <2>3 DEF Evaluation
    <3>2. Sound(new, t)
      BY <1>0, <1>b, <2>1, <3>1 DEF Sound
    <3> QED
      BY <2>1, <3>2 DEF Settled, old, new, t
  <2> QED
    BY <2>2, <2>3
<1>2. CASE TryLock(s, b)
  <2>0. old.at = "lock" /\ t <= old.readAt
    BY <1>2, <1>b DEF TryLock, old
  <2>1. CASE ev' = [ev EXCEPT ![s][b].at = "wait", ![s][b].deadline = now + Timeout,
                              ![s][b].promise = "fetching"]
    <3>1. /\ new.at = "wait" /\ new.readAt = old.readAt /\ new.promise = "fetching"
          /\ new.outcome = old.outcome
      BY <1>0, <2>1 DEF Evaluation, old, new
    <3>2. Sound(new, t)
      BY <1>0, <2>0, <3>1 DEF Sound
    <3> QED
      BY <2>0, <3>2 DEF Settled, old, new, t
  <2>2. CASE ev' = [ev EXCEPT ![s][b] = WithoutRefresh(old)]
    <3>1. new = WithoutRefresh(old)
      BY <1>0, <2>2 DEF new
    <3>2. Sound(WithoutRefresh(old), t)
      BY <1>0, <1>b, <2>0, WithoutRefreshSound
    <3> QED
      BY <2>0, <3>1, <3>2 DEF Settled, old, new, t
  <2> QED
    BY <1>2, <2>1, <2>2 DEF TryLock, old
<1>3. CASE RefreshAnswers(s, b)
  <2>1. /\ new.promise = "writing" /\ new.asOf = now
        /\ new.at = old.at /\ new.readAt = old.readAt /\ new.cached = old.cached
        /\ new.outcome = old.outcome /\ new.served = old.served
    BY <1>0, <1>3 DEF RefreshAnswers, Evaluation, old, new
  <2>2. old.promise = "fetching"
    BY <1>3 DEF RefreshAnswers, old
  <2>3. Sound(new, t)
    BY <1>0, <2>1, <2>2 DEF Sound, AgeLimit
  <2> QED
    BY <2>1, <2>3 DEF Settled, old, new, t
<1>4. CASE RefreshWrites(s, b)
  <2>0. old.promise = "writing" /\ t <= old.asOf
    BY <1>4, <1>b DEF RefreshWrites, old
  <2>1. CASE old.at = "wait"
    <3>1. /\ new.promise = "none" /\ new.at = "unlock" /\ new.readAt = old.readAt
          /\ new.served = Fresh(old.asOf)
      BY <1>0, <1>4, <2>1 DEF RefreshWrites, Evaluation, old, new
    <3>2. new.served # None /\ new.served.asOf = old.asOf
      <4>1. Fresh(old.asOf) \in Entry
        BY <1>a DEF Fresh, Entry, Tiers
      <4> QED
        BY <3>1, <4>1, NoneAssumption DEF Fresh
    <3>3. Sound(new, t)
      BY <1>b, <2>0, <2>1, <3>1, <3>2 DEF Sound
    <3> QED
      BY <2>1, <3>3 DEF Settled, old, new, t
  <2>2. CASE old.at # "wait"
    <3>1. /\ new.promise = "none"
          /\ new.at = old.at /\ new.readAt = old.readAt /\ new.cached = old.cached
          /\ new.outcome = old.outcome /\ new.served = old.served
      BY <1>0, <1>4, <2>2 DEF RefreshWrites, Evaluation, old, new
    <3>2. Sound(new, t)
      BY <1>0, <3>1 DEF Sound, AgeLimit
    <3> QED
      BY <3>1, <3>2 DEF Settled, old, new, t
  <2> QED
    BY <2>1, <2>2
<1>5. CASE RefreshFails(s, b)
  <2>1. /\ new.promise = "none"
        /\ new.at = IF old.at = "wait" THEN "unlock" ELSE old.at
        /\ new.readAt = old.readAt /\ new.cached = old.cached
        /\ new.outcome = old.outcome /\ new.served = old.served
    BY <1>0, <1>5 DEF RefreshFails, Evaluation, old, new
  <2>2. CASE old.at = "wait"
    <3>1. old.outcome # "BOUNDED_REFRESH_SUCCESS"
      BY <1>0, <2>2 DEF Sound
    <3>2. Sound(new, t)
      BY <1>b, <2>1, <2>2, <3>1 DEF Sound
    <3> QED
      BY <2>1, <2>2, <3>2 DEF Settled, old, new, t
  <2>3. CASE old.at # "wait"
    <3>1. Sound(new, t)
      BY <1>0, <2>1, <2>3 DEF Sound, AgeLimit
    <3> QED
      BY <2>1, <2>3, <3>1 DEF Settled, old, new, t
  <2> QED
    BY <2>2, <2>3
<1>6. CASE TimesOut(s, b)
  <2>0. old.at = "wait" /\ t <= old.readAt /\ old.outcome # "BOUNDED_REFRESH_SUCCESS"
    BY <1>0, <1>6 DEF TimesOut, Sound, old
  <2>1. /\ new.promise = old.promise /\ new.asOf = old.asOf
        /\ new.at = "unlock" /\ new.readAt = old.readAt /\ new.outcome = old.outcome
    BY <1>0, <1>6 DEF TimesOut, Evaluation, old, new
  <2>2. Sound(new, t)
    BY <1>b, <2>0, <2>1 DEF Sound
  <2> QED
    BY <2>0, <2>2 DEF Settled, old, new, t
<1>7. CASE Unlock(s, b)
  <2>0. old.at = "unlock" /\ t <= old.readAt
    BY <1>7, <1>b DEF Unlock, old
  <2>1. CASE old.outcome = "BOUNDED_REFRESH_SUCCESS"
    <3>1. new = Decided(old, old.outcome, old.served)
      BY <1>0, <1>7, <2>1 DEF Unlock, old, new
    <3>2. old.served # None /\ t <= old.served.asOf /\ old.served.asOf \in Nat
      BY <1>0, <1>a, <2>0, <2>1 DEF Sound, Entry
    <3>3. old.outcome \in Outcomes /\ old.outcome # "SKIPPED"
          /\ old.outcome # "SLOW_TIER_DEGRADED_SERVE"
      BY <2>1 DEF Outcomes
    <3>4. ThresholdOf(old.served.tier) \in Nat
      BY GateAssumption DEF ThresholdOf
    <3>5. t - old.served.asOf <= ThresholdOf(old.served.tier)
      BY <1>0, <3>2, <3>4
    <3>6. Sound(Decided(old, old.outcome, old.served), t)
      BY <1>0, <1>a, <1>b, <3>2, <3>3, <3>5, DecidedSound
    <3> QED
      BY <2>0, <3>1, <3>6 DEF Settled, old, new, t
  <2>2. CASE old.outcome # "BOUNDED_REFRESH_SUCCESS"
    <3>1. new = WithoutRefresh(old)
      BY <1>0, <1>7, <2>2 DEF Unlock, old, new
    <3>2. Sound(WithoutRefresh(old), t)
      BY <1>0, <1>b, <2>0, WithoutRefreshSound
    <3> QED
      BY <2>0, <3>1, <3>2 DEF Settled, old, new, t
  <2> QED
    BY <2>1, <2>2
<1>8. CASE ConsultBreaker(s, b)
  <2>0. old.at = "breaker" /\ t <= old.readAt /\ old.cached # None
    BY <1>0, <1>8, <1>b DEF ConsultBreaker, Sound, old
  <2>1. CASE new = Decided(old, "SKIPPED", None)
    <3>1. Sound(Decided(old, "SKIPPED", None), t)
      BY <1>0, <1>b, SkipSound
    <3> QED
      BY <2>0, <2>1, <3>1 DEF Settled, old, new, t
  <2>2. CASE /\ new = Decided(old, "SLOW_TIER_DEGRADED_SERVE", old.cached)
             /\ old.readAt - old.cached.asOf <= OuterCap
    <3>1. old.cached.asOf \in Nat /\ OuterCap \in Nat
      BY <1>a, <2>0, GateAssumption DEF Entry
    <3>2. t - old.cached.asOf <= OuterCap
      BY <1>0, <1>a, <2>0, <2>2, <3>1
    <3>3. "SLOW_TIER_DEGRADED_SERVE" \in Outcomes
      BY DEF Outcomes
    <3>4. Sound(Decided(old, "SLOW_TIER_DEGRADED_SERVE", old.cached), t)
      BY <1>0, <1>a, <1>b, <2>0, <3>2, <3>3, DecidedSound
    <3> QED
      BY <2>0, <2>2, <3>4 DEF Settled, old, new, t
  <2> QED
    BY <1>0, <1>8, <2>1, <2>2 DEF ConsultBreaker, old, new
<1>9. CASE EvaluationFault(s, b)
  <2>0. old.at # "done"
    BY <1>9 DEF EvaluationFault, old
  <2>1. new.at = "dead" /\ new.promise = old.promise /\ new.asOf = old.asOf
    BY <1>0, <1>9 DEF EvaluationFault, Evaluation, old, new
  <2>2. Sound(new, t)
    BY <1>b, <2>1 DEF Sound
  <2> QED
    BY <2>0, <2>2 DEF Settled, old, new, t
<1> QED
  BY <1>1, <1>2, <1>3, <1>4, <1>5, <1>6, <1>7, <1>8, <1>9
     DEF EvalStep, BucketStep, VendorStep

\* What a gate that has returned made of its buckets.
Returned(s) ==
    /\ \A b \in Relevant(s) : ev[s][b].at = "done"
    /\ IF \E b \in Relevant(s) : ev[s][b].outcome = "SKIPPED"
       THEN result[s] = [outcome |-> "SKIPPED", candidates |-> {}]
       ELSE /\ result[s].candidates = Relevant(s)
            /\ \A b \in Relevant(s) :
                 /\ ev[s][b].served # None
                 /\ Severity[ev[s][b].outcome] <= Severity[result[s].outcome]

ReturnedInv == \A s \in Scans : gate[s] = "returned" => Returned(s)

ServeInv == MarketTypeInv /\ EnteredInv /\ SoundInv /\ ReturnedInv

\* A skip is worse than every other outcome, and nothing else is as bad.
LEMMA SeverityOfSkip ==
    /\ \A o \in Outcomes : Severity[o] \in Nat /\ Severity[o] <= Severity["SKIPPED"]
    /\ \A o \in Outcomes : Severity["SKIPPED"] <= Severity[o] => o = "SKIPPED"
    /\ "SKIPPED" \in Outcomes
<1>1. /\ Severity["PASS"] = 0
      /\ Severity["BOUNDED_REFRESH_SUCCESS"] = 1
      /\ Severity["SLOW_TIER_DEGRADED_SERVE"] = 2
      /\ Severity["SKIPPED"] = 3
  BY DEF Severity, Outcomes
<1> QED
  BY <1>1 DEF Outcomes

\* The return of a gate takes the worst outcome: a skip if there is one.
LEMMA ReturnSound ==
    ASSUME ServeInv, NEW s \in Scans, ReturnFromGate(s)
    PROVE  Returned(s)'
<1>0. /\ ev \in [Scans -> [Buckets -> Evaluation]]
      /\ result \in [Scans -> [outcome : Outcomes \cup {None}, candidates : SUBSET Buckets]]
      /\ Relevant(s) \subseteq Buckets
  BY DEF ServeInv, MarketTypeInv, GateInv, GateTypeOK, Relevant
<1>1. UNCHANGED ev /\ \A b \in Relevant(s) : ev[s][b].at = "done"
  BY DEF ReturnFromGate
<1>2. \A b \in Relevant(s) : /\ ev[s][b].outcome \in Outcomes
                             /\ ev[s][b].outcome = "SKIPPED" <=> ev[s][b].served = None
  BY <1>0, <1>1 DEF ServeInv, SoundInv, Sound
<1>3. PICK worst \in Relevant(s) :
        /\ \A b \in Relevant(s) : Severity[ev[s][b].outcome] <= Severity[ev[s][worst].outcome]
        /\ result' = [result EXCEPT ![s] =
              [outcome |-> ev[s][worst].outcome,
               candidates |-> IF ev[s][worst].outcome = "SKIPPED" THEN {} ELSE Relevant(s)]]
  BY Zenon DEF ReturnFromGate
<1>4. result'[s] = [outcome |-> ev[s][worst].outcome,
                    candidates |-> IF ev[s][worst].outcome = "SKIPPED" THEN {} ELSE Relevant(s)]
  BY <1>0, <1>3
<1>5. Relevant(s)' = Relevant(s)
  BY <1>1 DEF Relevant
<1>6. CASE \E b \in Relevant(s) : ev[s][b].outcome = "SKIPPED"
  <2>1. ev[s][worst].outcome = "SKIPPED"
    BY <1>2, <1>3, <1>6, SeverityOfSkip
  <2> QED
    BY <1>1, <1>4, <1>5, <1>6, <2>1 DEF Returned
<1>7. CASE ~\E b \in Relevant(s) : ev[s][b].outcome = "SKIPPED"
  <2>1. result'[s].candidates = Relevant(s) /\ result'[s].outcome = ev[s][worst].outcome
    BY <1>4, <1>7
  <2>2. \A b \in Relevant(s) : ev[s][b].served # None
    BY <1>2, <1>7
  <2> QED
    BY <1>1, <1>3, <1>5, <1>7, <2>1, <2>2 DEF Returned
<1> QED
  BY <1>6, <1>7

\* Decisions that stand keep what their gate made of them.
LEMMA ReturnedStays ==
    ASSUME NEW s \in Scans, Returned(s), result'[s] = result[s],
           \A b \in Buckets : \/ ev'[s][b] = ev[s][b]
                              \/ Settled(ev[s][b], ev'[s][b]) /\ ev[s][b].at # "off"
    PROVE  Returned(s)'
<1>1. Relevant(s)' = Relevant(s)
      /\ \A b \in Relevant(s) : /\ ev'[s][b].at = "done"
                                /\ ev'[s][b].outcome = ev[s][b].outcome
                                /\ ev'[s][b].served = ev[s][b].served
  <2>1. ASSUME NEW b \in Buckets
        PROVE  /\ ev'[s][b].at # "off" <=> ev[s][b].at # "off"
               /\ ev[s][b].at # "off" => /\ ev'[s][b].at = "done"
                                         /\ ev'[s][b].outcome = ev[s][b].outcome
                                         /\ ev'[s][b].served = ev[s][b].served
    BY DEF Returned, Relevant, Settled
  <2> QED
    BY <2>1 DEF Relevant
<1> QED
  BY <1>1 DEF Returned

\* A step of an evaluation begins at one of its awaits.
LEMMA EvalRuns ==
    ASSUME NEW s \in Scans, NEW b \in Buckets, EvalStep(s, b), Sound(ev[s][b], enteredAt[s])
    PROVE  ev[s][b].at # "off"
<1>1. CASE \/ ReadCached(s, b) \/ TryLock(s, b) \/ TimesOut(s, b) \/ Unlock(s, b)
           \/ ConsultBreaker(s, b) \/ EvaluationFault(s, b)
  <2>1. \/ ev[s][b].at = "read" \/ ev[s][b].at = "lock" \/ ev[s][b].at = "wait"
        \/ ev[s][b].at = "unlock" \/ ev[s][b].at = "breaker"
        \/ ev[s][b].at \in {"read", "lock", "unlock", "breaker"}
    BY <1>1, Zenon DEF ReadCached, TryLock, TimesOut, Unlock, ConsultBreaker, EvaluationFault
  <2> QED
    BY <2>1
<1>2. CASE RefreshAnswers(s, b) \/ RefreshWrites(s, b) \/ RefreshFails(s, b)
  <2>1. ev[s][b].promise = "fetching" \/ ev[s][b].promise = "writing"
    BY <1>2, Zenon DEF RefreshAnswers, RefreshWrites, RefreshFails
  <2> QED
    BY <2>1 DEF Sound
<1> QED
  BY <1>1, <1>2 DEF EvalStep, BucketStep, VendorStep

\* The steps of an evaluation keep what its gate serves.
LEMMA EvalServes ==
    ASSUME ServeInv, NEW s \in Scans, NEW b \in Buckets, EvalStep(s, b)
    PROVE  EnteredInv' /\ SoundInv' /\ ReturnedInv'
<1>0. /\ ev \in [Scans -> [Buckets -> Evaluation]]
      /\ gate \in [Scans -> {"idle", "running", "returned", "threw", "crashed"}]
      /\ GateInv /\ CacheTypeOK /\ PaceInv /\ EnteredInv
      /\ Sound(ev[s][b], enteredAt[s])
  BY DEF ServeInv, MarketTypeInv, TypeInv, TypeOK, GateInv, GateTypeOK, SoundInv
<1>1. UNCHANGED <<now, enteredAt, result>>
  BY <1>0, EvalMoves
<1>2. PICK e \in Evaluation : ev' = [ev EXCEPT ![s][b] = e]
  BY <1>0, EvalMoves
<1>3. \A t \in Scans, c \in Buckets : t # s \/ c # b => ev'[t][c] = ev[t][c]
  BY <1>0, <1>2, EvWrite
<1>4. /\ Sound(ev'[s][b], enteredAt[s]) /\ Settled(ev[s][b], ev'[s][b])
      /\ ev[s][b].at # "off"
  BY <1>0, EvalSound, EvalRuns
<1>5. gate' = gate \/ gate' = [gate EXCEPT ![s] = IF @ = "running" THEN "threw" ELSE @]
  BY Zenon DEF EvalStep, BucketStep, VendorStep, ReadCached, TryLock, RefreshWrites, TimesOut,
     Unlock, ConsultBreaker, RefreshAnswers, RefreshFails, EvaluationFault
<1>6. \A t \in Scans, g \in {"running", "returned"} : gate'[t] = g => gate[t] = g
  BY <1>0, <1>5
<1>7. EnteredInv'
  BY <1>0, <1>1, <1>6 DEF EnteredInv
<1>8. SoundInv'
  <2>1. ASSUME NEW t \in Scans, NEW c \in Buckets
        PROVE  Sound(ev'[t][c], enteredAt[t])
    BY <1>3, <1>4 DEF ServeInv, SoundInv
  <2> QED
    BY <1>1, <2>1 DEF SoundInv
<1>9. ReturnedInv'
  <2> SUFFICES ASSUME NEW t \in Scans, gate'[t] = "returned"
               PROVE  Returned(t)'
    BY DEF ReturnedInv
  <2>1. Returned(t)
    BY <1>6 DEF ServeInv, ReturnedInv
  <2>2. \A c \in Buckets : \/ ev'[t][c] = ev[t][c]
                           \/ Settled(ev[t][c], ev'[t][c]) /\ ev[t][c].at # "off"
    BY <1>3, <1>4
  <2> QED
    BY <1>1, <2>1, <2>2, ReturnedStays
<1> QED
  BY <1>7, <1>8, <1>9

\* So do the call of the gate, its return and the death of its process.
LEMMA CallServes ==
    ASSUME ServeInv, NEW s \in Scans, Enter(s) \/ ReturnFromGate(s) \/ CrashScan(s)
    PROVE  EnteredInv' /\ SoundInv' /\ ReturnedInv'
<1>0. /\ ev \in [Scans -> [Buckets -> Evaluation]] /\ now \in Nat
      /\ gate \in [Scans -> {"idle", "running", "returned", "threw", "crashed"}]
      /\ enteredAt \in [Scans -> Nat] /\ EvalBound \in Nat
      /\ EnteredInv /\ SoundInv /\ ReturnedInv
  BY GateAssumption DEF ServeInv, MarketTypeInv, TypeInv, TypeOK, CacheTypeOK, GateInv,
     GateTypeOK, EvalBound
<1>1. ASSUME NEW t \in Scans, Returned(t), result'[t] = result[t], ev'[t] = ev[t]
      PROVE  Returned(t)'
  BY <1>1, ReturnedStays
<1>2. ASSUME NEW a \in {"read", "dead"}, NEW relevant,
             ev' = [ev EXCEPT ![s] = [b \in Buckets |->
                IF b \in relevant THEN [NotStarted EXCEPT !.at = a] ELSE NotStarted]]
      PROVE  /\ \A b \in Buckets, t \in Nat : Sound(ev'[s][b], t)
             /\ \A t \in Scans \ {s} : ev'[t] = ev[t]
  <2>1. Sound(NotStarted, 0) /\ \A t \in Nat : Sound(NotStarted, t)
    BY DEF Sound, NotStarted
  <2>2. \A t \in Nat : Sound([NotStarted EXCEPT !.at = a], t)
    <3> DEFINE e == [NotStarted EXCEPT !.at = a]
    <3>1. e.at = a /\ e.promise = "none" /\ e.outcome = None
      BY DEF NotStarted
    <3>2. None # "BOUNDED_REFRESH_SUCCESS"
      BY UndecidedAssumption DEF Outcomes
    <3> HIDE DEF e
    <3>3. \A t \in Nat : Sound(e, t)
      BY <3>1, <3>2 DEF Sound
    <3> QED
      BY <3>3 DEF e
  <2>3. \A b \in Buckets : \/ ev'[s][b] = [NotStarted EXCEPT !.at = a]
                           \/ ev'[s][b] = NotStarted
    BY <1>0, <1>2
  <2> QED
    BY <1>0, <1>2, <2>1, <2>2, <2>3
<1>3. CASE Enter(s)
  <2>1. /\ gate' = [gate EXCEPT ![s] = "running"]
        /\ enteredAt' = [enteredAt EXCEPT ![s] = now]
        /\ UNCHANGED <<now, result>>
    BY <1>3 DEF Enter, EnterGate, cacheVars
  <2>2. PICK relevant \in SUBSET Buckets :
          ev' = [ev EXCEPT ![s] = [b \in Buckets |->
                   IF b \in relevant THEN [NotStarted EXCEPT !.at = "read"] ELSE NotStarted]]
    BY <1>3, Zenon DEF Enter, EnterGate
  <2>3. /\ \A b \in Buckets, t \in Nat : Sound(ev'[s][b], t)
        /\ \A t \in Scans \ {s} : ev'[t] = ev[t]
    BY <1>2, <2>2
  <2>4. EnteredInv'
    BY <1>0, <2>1 DEF EnteredInv
  <2>5. SoundInv'
    BY <1>0, <2>1, <2>3 DEF SoundInv
  <2>6. ReturnedInv'
    BY <1>0, <1>1, <2>1, <2>3 DEF ReturnedInv
  <2> QED
    BY <2>4, <2>5, <2>6
<1>4. CASE ReturnFromGate(s)
  <2>1. /\ gate' = [gate EXCEPT ![s] = "returned"]
        /\ UNCHANGED <<now, enteredAt, ev>>
        /\ \A t \in Scans \ {s} : result'[t] = result[t]
    BY <1>4 DEF ReturnFromGate, cacheVars, ServeInv, MarketTypeInv, GateInv, GateTypeOK
  <2>2. EnteredInv' /\ SoundInv'
    BY <1>0, <2>1 DEF EnteredInv, SoundInv
  <2>3. ReturnedInv'
    BY <1>0, <1>1, <1>4, <2>1, ReturnSound DEF ReturnedInv
  <2> QED
    BY <2>2, <2>3
<1>5. CASE CrashScan(s)
  <2>1. /\ gate' = [gate EXCEPT ![s] = "crashed"]
        /\ UNCHANGED <<now, enteredAt, result>>
    BY <1>5 DEF CrashScan, cacheVars
  <2>2. ev' = [ev EXCEPT ![s] = [b \in Buckets |->
                 IF b \in Relevant(s) THEN [NotStarted EXCEPT !.at = "dead"] ELSE NotStarted]]
    BY <1>5 DEF CrashScan
  <2>3. /\ \A b \in Buckets, t \in Nat : Sound(ev'[s][b], t)
        /\ \A t \in Scans \ {s} : ev'[t] = ev[t]
    BY <1>2, <2>2
  <2>4. EnteredInv'
    BY <1>0, <2>1 DEF EnteredInv
  <2>5. SoundInv'
    BY <1>0, <2>1, <2>3 DEF SoundInv
  <2>6. ReturnedInv'
    BY <1>0, <1>1, <2>1, <2>3 DEF ReturnedInv
  <2> QED
    BY <2>4, <2>5, <2>6
<1> QED
  BY <1>3, <1>4, <1>5

\* What gates serve is an invariant, whatever the TTLs and however many instances.
LEMMA ServeStep == ServeInv /\ [MarketNext]_marketVars => ServeInv'
<1> SUFFICES ASSUME ServeInv, [MarketNext]_marketVars
             PROVE  EnteredInv' /\ SoundInv' /\ ReturnedInv'
  BY MarketTypeStep DEF ServeInv
<1>0. MarketTypeInv /\ TypeInv /\ EnteredInv /\ SoundInv /\ ReturnedInv
      /\ now \in Nat /\ enteredAt \in [Scans -> Nat] /\ EvalBound \in Nat
  BY GateAssumption DEF ServeInv, MarketTypeInv, TypeInv, TypeOK, CacheTypeOK, GateInv,
     GateTypeOK, EvalBound
<1>1. CASE MarketTick
  <2>1. UNCHANGED gateVars /\ now' = now + 1 /\ GatesKeepPace
    BY <1>1 DEF MarketTick, Tick, Elapse
  <2>2. EnteredInv'
    <3> SUFFICES ASSUME NEW s \in Scans
                 PROVE  /\ enteredAt[s] <= now + 1
                        /\ gate[s] = "running" => now + 1 <= enteredAt[s] + EvalBound
      BY <2>1 DEF EnteredInv, gateVars
    <3>1. enteredAt[s] \in Nat
      BY <1>0
    <3> QED
      BY <1>0, <2>1, <3>1 DEF EnteredInv, GatesKeepPace
  <2> QED
    BY <1>0, <2>1, <2>2 DEF gateVars, SoundInv, ReturnedInv, Returned, Relevant
<1>2. CASE RefreshStep
  <2>1. UNCHANGED gateVars
    BY <1>2 DEF RefreshStep
  <2>2. UNCHANGED now
    <3>1. ASSUME NEW w \in Workers, WorkerStep(w) \/ Crash(w) \/ InfrastructureFault(w)
          PROVE  UNCHANGED now
      BY <1>0, <3>1, SweepMoves DEF SweepMove
    <3> QED
      BY <1>2, <3>1 DEF RefreshStep, CronTick, cacheVars
  <2> QED
    BY <1>0, <2>1, <2>2 DEF gateVars, EnteredInv, SoundInv, ReturnedInv, Returned, Relevant
<1>3. ASSUME NEW s \in Scans, GateStep(s)
      PROVE  EnteredInv' /\ SoundInv' /\ ReturnedInv'
  BY <1>3, CallServes, EvalServes DEF GateStep, EvalStep
<1>4. CASE UNCHANGED marketVars
  <2>1. UNCHANGED gateVars /\ UNCHANGED now
    BY <1>4 DEF marketVars, vars, cacheVars
  <2> QED
    BY <1>0, <2>1 DEF gateVars, EnteredInv, SoundInv, ReturnedInv, Returned, Relevant
<1> QED
  BY <1>1, <1>2, <1>3, <1>4 DEF MarketNext

\* Nobody has been served at the start.
LEMMA ServeStart == MarketInit => ServeInv
<1> SUFFICES ASSUME MarketInit
             PROVE  ServeInv
  OBVIOUS
<1>1. MarketTypeInv
  BY MarketStart
<1>2. /\ now = 0 /\ \A s \in Scans : enteredAt[s] = 0 /\ gate[s] = "idle"
      /\ \A s \in Scans, b \in Buckets : ev[s][b] = NotStarted
  BY DEF MarketInit, Init, CacheInit, GateInit
<1>3. Sound(NotStarted, 0)
  BY DEF Sound, NotStarted
<1>4. EnteredInv
  BY <1>2 DEF EnteredInv
<1>5. SoundInv
  BY <1>2, <1>3 DEF SoundInv
<1>6. ReturnedInv
  BY <1>2 DEF ReturnedInv
<1> QED
  BY <1>1, <1>4, <1>5, <1>6 DEF ServeInv

\* evaluateStalenessGate returns the worst outcome of its buckets: one that cannot be
\* refreshed discards the candidates of all, whatever times out, fails or is refreshed by
\* others meanwhile; otherwise every relevant bucket contributes an entry.
THEOREM SkipDiscards == MarketSpec => []OneSkipDiscardsAll
<1>1. ServeInv => OneSkipDiscardsAll
  BY DEF ServeInv, ReturnedInv, Returned, OneSkipDiscardsAll
<1> QED
  BY <1>1, ServeStart, ServeStep, PTL DEF MarketSpec

\* A gate returns by the end of Promise.all only.
LEMMA OnlyReturnReturns ==
    ASSUME ServeInv, [MarketNext]_marketVars, NEW s \in Scans, Returning(s)
    PROVE  ReturnFromGate(s)
<1>0. /\ gate \in [Scans -> {"idle", "running", "returned", "threw", "crashed"}]
      /\ gate[s] = "running" /\ gate'[s] = "returned"
      /\ GateInv /\ CacheTypeOK
  BY DEF ServeInv, MarketTypeInv, TypeInv, TypeOK, GateInv, GateTypeOK, Returning
<1>1. gate' # gate
  BY <1>0
<1>2. PICK t \in Scans : GateStep(t)
  BY <1>1 DEF MarketNext, MarketTick, RefreshStep, marketVars, gateVars
<1>3. CASE Enter(t)
  BY <1>0, <1>3 DEF Enter, EnterGate
<1>4. CASE CrashScan(t)
  BY <1>0, <1>4 DEF CrashScan
<1>5. CASE ReturnFromGate(t)
  <2>1. gate' = [gate EXCEPT ![t] = "returned"]
    BY <1>5 DEF ReturnFromGate
  <2>2. t = s
    BY <1>0, <2>1
  <2> QED
    BY <1>5, <2>2
<1>6. ASSUME NEW b \in Buckets, EvalStep(t, b)
      PROVE  FALSE
  <2>1. gate' = gate \/ gate' = [gate EXCEPT ![t] = IF @ = "running" THEN "threw" ELSE @]
    BY <1>6, Zenon DEF EvalStep, BucketStep, VendorStep, ReadCached, TryLock, RefreshWrites,
       TimesOut, Unlock, ConsultBreaker, RefreshAnswers, RefreshFails, EvaluationFault
  <2> QED
    BY <1>0, <1>1, <2>1
<1> QED
  BY <1>2, <1>3, <1>4, <1>5, <1>6 DEF GateStep, EvalStep

\* What evaluateStalenessGate returns exceeds the limit of its tier, or of the degraded
\* serve, by no more than the time the gate has run: the ages are compared when
\* each bucket is read, and Promise.all waits for the slowest.
THEOREM AgesBounded == MarketSpec => ServedAgeBounded
<1> DEFINE Bounded == \A s \in Scans : Returning(s) =>
              \A b \in result'[s].candidates :
                 now - ev[s][b].served.asOf <= AgeLimit(ev[s][b]) + EvalBound
<1>1. ServeInv /\ [MarketNext]_marketVars => Bounded
  <2> SUFFICES ASSUME ServeInv, [MarketNext]_marketVars, NEW s \in Scans, Returning(s),
                      NEW b \in result'[s].candidates
               PROVE  now - ev[s][b].served.asOf <= AgeLimit(ev[s][b]) + EvalBound
    OBVIOUS
  <2>0. /\ ev \in [Scans -> [Buckets -> Evaluation]]
        /\ now \in Nat /\ enteredAt[s] \in Nat /\ EvalBound \in Nat
        /\ gate'[s] = "returned" /\ now <= enteredAt[s] + EvalBound
    BY GateAssumption DEF ServeInv, MarketTypeInv, TypeInv, TypeOK, CacheTypeOK, GateInv,
       GateTypeOK, EvalBound, Returning, EnteredInv
  <2>1. UNCHANGED ev /\ \A c \in Relevant(s) : ev[s][c].at = "done"
    BY OnlyReturnReturns DEF ReturnFromGate
  <2>2. Returned(s)'
    BY <2>0, ServeStep DEF ServeInv, ReturnedInv
  <2>3. b \in Relevant(s) /\ b \in Buckets /\ ev[s][b].served # None
    <3>1. Relevant(s)' = Relevant(s) /\ Relevant(s) \subseteq Buckets
      BY <2>1 DEF Relevant
    <3>2. result'[s].candidates # {}
      OBVIOUS
    <3>3. ~\E c \in Relevant(s) : ev[s][c].outcome = "SKIPPED"
      BY <2>1, <2>2, <3>1, <3>2 DEF Returned
    <3> QED
      BY <2>1, <2>2, <3>1, <3>3 DEF Returned
  <2>4. enteredAt[s] - ev[s][b].served.asOf <= AgeLimit(ev[s][b])
    BY <2>1, <2>3 DEF ServeInv, SoundInv, Sound
  <2>5. ev[s][b] \in Evaluation
    BY <2>0, <2>3
  <2>6. ev[s][b].served \in Entry
    BY <2>3, <2>5 DEF Evaluation
  <2>7. ev[s][b].served.asOf \in Nat
    BY <2>6 DEF Entry
  <2>8. AgeLimit(ev[s][b]) \in Nat
    BY GateAssumption DEF AgeLimit, ThresholdOf
  <2> QED
    BY <2>0, <2>4, <2>7, <2>8
<1> QED
  BY <1>1, ServeStart, ServeStep, PTL DEF MarketSpec, ServedAgeBounded

\* Who decides for the degraded serve has just asked the breaker.
LEMMA DegradedAsks ==
    ASSUME GateInv, CacheTypeOK, NEW s \in Scans, NEW b \in Buckets, EvalStep(s, b),
           Sound(ev[s][b], enteredAt[s]), ev[s][b].at # "done",
           ev'[s][b].at = "done", ev'[s][b].outcome = "SLOW_TIER_DEGRADED_SERVE"
    PROVE  /\ breaker.state = "OPEN" /\ now - breaker.openedAt >= SustainedAfter
           /\ ev'[s][b].served.tier = "SLOW"
<1> DEFINE old == ev[s][b]
           new == ev'[s][b]
<1>0. /\ old \in Evaluation /\ ev \in [Scans -> [Buckets -> Evaluation]]
      /\ old.at # "done" /\ new.at = "done" /\ new.outcome = "SLOW_TIER_DEGRADED_SERVE"
  BY DEF GateInv, GateTypeOK
<1>d. ASSUME NEW o \in Outcomes, NEW v \in Entry \cup {None}
      PROVE  Decided(old, o, v).outcome = o /\ Decided(old, o, v).served = v
  BY <1>0 DEF Decided, Evaluation
<1>a. /\ "PASS" \in Outcomes /\ "BOUNDED_REFRESH_SUCCESS" \in Outcomes
      /\ "SLOW_TIER_DEGRADED_SERVE" \in Outcomes /\ "SKIPPED" \in Outcomes
      /\ None \in Entry \cup {None} /\ old.served \in Entry \cup {None}
      /\ old.cached \in Entry \cup {None} /\ bucket[b] \in Entry \cup {None}
  BY <1>0 DEF Outcomes, Evaluation, CacheTypeOK
<1>w. new # WithoutRefresh(old)
  <2>1. [old EXCEPT !.at = "breaker"].at = "breaker"
    BY <1>0 DEF Evaluation
  <2>2. Decided(old, "SKIPPED", None).outcome = "SKIPPED"
    BY <1>a, <1>d
  <2> QED
    BY <1>0, <2>1, <2>2 DEF WithoutRefresh
<1> HIDE DEF old, new
<1>1. CASE ReadCached(s, b)
  <2>1. \/ new = Decided(old, "PASS", bucket[b])
        \/ new = [old EXCEPT !.at = "lock", !.cached = bucket[b], !.readAt = now]
    BY <1>0, <1>1 DEF ReadCached, old, new
  <2>2. [old EXCEPT !.at = "lock", !.cached = bucket[b], !.readAt = now].at = "lock"
    BY <1>0 DEF Evaluation
  <2>3. Decided(old, "PASS", bucket[b]).outcome = "PASS"
    BY <1>a, <1>d
  <2> QED
    BY <1>0, <2>1, <2>2, <2>3
<1>2. CASE TryLock(s, b)
  <2>1. \/ new.at = "wait"
        \/ new = WithoutRefresh(old)
    BY <1>0, <1>2 DEF TryLock, Evaluation, old, new
  <2> QED
    BY <1>0, <1>w, <2>1
<1>3. CASE RefreshAnswers(s, b) \/ RefreshFails(s, b) \/ TimesOut(s, b) \/ EvaluationFault(s, b)
  <2>1. new.at \in {old.at, "unlock", "dead"}
    BY <1>0, <1>3 DEF RefreshAnswers, RefreshFails, TimesOut, EvaluationFault, Evaluation,
       old, new
  <2> QED
    BY <1>0, <2>1
<1>4. CASE RefreshWrites(s, b)
  <2>1. new.at \in {old.at, "unlock"}
    BY <1>0, <1>4 DEF RefreshWrites, Evaluation, old, new
  <2> QED
    BY <1>0, <2>1
<1>5. CASE Unlock(s, b)
  <2>1. \/ old.outcome = "BOUNDED_REFRESH_SUCCESS"
           /\ new = Decided(old, "BOUNDED_REFRESH_SUCCESS", old.served)
        \/ new = WithoutRefresh(old)
    BY <1>0, <1>5 DEF Unlock, old, new
  <2>2. Decided(old, "BOUNDED_REFRESH_SUCCESS", old.served).outcome = "BOUNDED_REFRESH_SUCCESS"
    BY <1>a, <1>d
  <2> QED
    BY <1>0, <1>w, <2>1, <2>2
<1>6. CASE ConsultBreaker(s, b)
  <2>1. \/ /\ breaker.state = "OPEN" /\ now - breaker.openedAt >= SustainedAfter
           /\ new = Decided(old, "SLOW_TIER_DEGRADED_SERVE", old.cached)
        \/ new = Decided(old, "SKIPPED", None)
    BY <1>0, <1>6 DEF ConsultBreaker, old, new
  <2>2. Decided(old, "SKIPPED", None).outcome = "SKIPPED"
        /\ Decided(old, "SLOW_TIER_DEGRADED_SERVE", old.cached).served = old.cached
    BY <1>a, <1>d
  <2>3. old.cached.tier = "SLOW"
    BY <1>6 DEF ConsultBreaker, Sound, old
  <2> QED
    BY <1>0, <2>1, <2>2, <2>3 DEF new
<1> QED
  BY <1>1, <1>2, <1>3, <1>4, <1>5, <1>6 DEF EvalStep, BucketStep, VendorStep

OutageInv == ServeInv /\ BreakerInv /\ CountInv

\* Gates only read the breaker.
LEMMA OutageStep == OutageInv /\ [MarketNext]_marketVars => OutageInv'
<1> SUFFICES ASSUME OutageInv, [MarketNext]_marketVars
             PROVE  BreakerInv' /\ CountInv'
  BY ServeStep DEF OutageInv
<1>0. TypeInv /\ BreakerInv /\ CountInv /\ GateInv /\ PaceInv /\ CacheTypeOK
  BY DEF OutageInv, ServeInv, MarketTypeInv, TypeInv, TypeOK
<1>1. CASE [Next]_vars
  BY <1>0, <1>1, BreakerStep, CountStep
<1>2. ASSUME NEW s \in Scans, GateStep(s)
      PROVE  BreakerInv' /\ CountInv'
  <2>1. UNCHANGED <<now, breaker>> /\ UNCHANGED refreshVars
    BY <1>0, <1>2, GateMoves DEF GateStep
  <2> QED
    BY <1>0, <2>1 DEF BreakerInv, CountInv, CountsConsecutiveFailures, JobFailed,
       refreshVars, workerVars, historyVars
<1> QED
  BY <1>1, <1>2 DEF MarketNext, MarketTick, RefreshStep, Next, marketVars

\* Past-threshold data is served in a sustained outage only (staleness-gate.ts): whatever
\* instances and gates interleave, the breaker a gate reads dates an episode, and counts
\* the failed ticks in a row unless a failure was overtaken on its way to the breaker.
THEOREM DegradedOnlyInOutage == MarketSpec => DegradedServeMeansOutage
<1> DEFINE Degrades(s, b) == /\ ev[s][b].at # "done"
                             /\ ev'[s][b].at = "done"
                             /\ ev'[s][b].outcome = "SLOW_TIER_DEGRADED_SERVE"
           Outage == \A s \in Scans, b \in Buckets :
              Degrades(s, b) => /\ raced \/ failedTicks >= FailureThreshold
                                /\ now - breaker.openedAt >= SustainedAfter
                                /\ ev'[s][b].served.tier = "SLOW"
<1>1. OutageInv /\ [MarketNext]_marketVars => Outage
  <2> SUFFICES ASSUME OutageInv, [MarketNext]_marketVars, NEW s \in Scans, NEW b \in Buckets,
                      Degrades(s, b)
               PROVE  /\ raced \/ failedTicks >= FailureThreshold
                      /\ now - breaker.openedAt >= SustainedAfter
                      /\ ev'[s][b].served.tier = "SLOW"
    OBVIOUS
  <2>0. /\ GateInv /\ CacheTypeOK /\ ev \in [Scans -> [Buckets -> Evaluation]]
        /\ Sound(ev[s][b], enteredAt[s])
        /\ breaker \in Breaker
        /\ WellFormed(breaker, now) /\ FailureThreshold \in Nat
    BY CacheAssumption DEF OutageInv, ServeInv, MarketTypeInv, TypeInv, TypeOK, CacheTypeOK,
       GateInv, GateTypeOK, SoundInv, BreakerInv
  <2>1. PICK t \in Scans : GateStep(t)
    BY DEF MarketNext, MarketTick, RefreshStep, marketVars, gateVars
  <2>2. EvalStep(s, b)
    <3>1. CASE Enter(t) \/ CrashScan(t)
      <4>1. PICK a \in {"read", "dead"}, relevant \in SUBSET Buckets :
              ev' = [ev EXCEPT ![t] = [c \in Buckets |->
                 IF c \in relevant THEN [NotStarted EXCEPT !.at = a] ELSE NotStarted]]
        <5>1. CASE Enter(t)
          <6>1. PICK relevant \in SUBSET Buckets :
                  ev' = [ev EXCEPT ![t] = [c \in Buckets |->
                     IF c \in relevant THEN [NotStarted EXCEPT !.at = "read"] ELSE NotStarted]]
            BY <5>1, Zenon DEF Enter, EnterGate
          <6> QED
            BY <6>1
        <5>2. CASE CrashScan(t)
          <6>1. ev' = [ev EXCEPT ![t] = [c \in Buckets |->
                  IF c \in Relevant(t) THEN [NotStarted EXCEPT !.at = "dead"] ELSE NotStarted]]
            BY <5>2 DEF CrashScan
          <6>2. Relevant(t) \in SUBSET Buckets
            BY DEF Relevant
          <6> QED
            BY <6>1, <6>2
        <5> QED
          BY <3>1, <5>1, <5>2
      <4>2. NotStarted.at = "off" /\ [NotStarted EXCEPT !.at = a].at = a
        BY DEF NotStarted
      <4>3. ev'[s][b] = ev[s][b] \/ ev'[s][b].at \in {"off", a}
        BY <2>0, <4>1, <4>2
      <4> QED
        BY <4>3
    <3>2. CASE ReturnFromGate(t)
      BY <3>2 DEF ReturnFromGate
    <3>3. ASSUME NEW c \in Buckets, EvalStep(t, c)
          PROVE  EvalStep(s, b)
      <4>1. PICK e \in Evaluation : ev' = [ev EXCEPT ![t][c] = e]
        BY <2>0, <3>3, EvalMoves
      <4>2. s # t \/ b # c => ev'[s][b] = ev[s][b]
        BY <2>0, <4>1, EvWrite
      <4> QED
        BY <3>3, <4>2
    <3> QED
      BY <2>1, <3>1, <3>2, <3>3 DEF GateStep, EvalStep
  <2>3. /\ breaker.state = "OPEN" /\ now - breaker.openedAt >= SustainedAfter
        /\ ev'[s][b].served.tier = "SLOW"
    BY <2>0, <2>2, DegradedAsks
  <2>4. breaker.failures >= FailureThreshold
    BY <2>0, <2>3 DEF WellFormed, Breaker
  <2>5. ASSUME ~raced
        PROVE  failedTicks >= FailureThreshold
    <3>1. breaker.failures = failedTicks
      BY <2>5, Zenon DEF OutageInv, CountInv, CountsConsecutiveFailures
    <3> QED
      BY <2>4, <3>1
  <2> QED
    BY <2>3, <2>5
<1>2. MarketInit => OutageInv
  <2> SUFFICES ASSUME MarketInit
               PROVE  BreakerInv /\ CountInv
    BY ServeStart DEF OutageInv
  <2>1. /\ now = 0 /\ breaker = ClosedBreaker /\ failedTicks = 0
        /\ \A w \in Workers : pc[w] = "idle"
    BY DEF MarketInit, Init, CacheInit
  <2>2. BreakerInv
    BY <2>1, ClosedWellFormed DEF BreakerInv
  <2>3. CountInv
    BY CountStart DEF MarketInit
  <2> QED
    BY <2>2, <2>3
<1> QED
  BY <1>1, <1>2, OutageStep, PTL DEF MarketSpec, DegradedServeMeansOutage

-----------------------------------------------------------------------------
(* The abstract gate *)

AbstractGateStep == [AbstractGate!Next]_(AbstractGate!decisionVars)

\* An evaluation e at time t reads before it refreshes and not in the future, and has an
\* outcome from the moment it has refreshed or decided, not earlier.
Timely(e, t) ==
    /\ e.at \in {"lock", "wait", "unlock", "breaker"} => e.readAt <= t
    /\ e.promise = "writing" => e.asOf <= t
    /\ e.at = "wait" /\ e.promise = "writing" => e.readAt <= e.asOf
    /\ e.at \in {"off", "read", "lock", "wait", "breaker"} => e.outcome = None
    /\ e.at = "unlock" => e.outcome \in {None, "BOUNDED_REFRESH_SUCCESS"}

\* A gate none of whose evaluations has failed is running, or has returned.
Live(s) == gate[s] \in {"running", "returned"}

TimelyInv ==
    \A s \in Scans, b \in Buckets :
        Timely(ev[s][b], now) /\ (Live(s) => ev[s][b].at # "dead")

DecisionInv == ServeInv /\ TimelyInv

\* What a step makes an evaluation think: nothing new; what it reads, which may settle it;
\* what it has refreshed; or what it may do without having refreshed.
Looks(s, b) ==
    /\ ev[s][b].at = "read" /\ UNCHANGED bucket
    /\ ViewOf(ev'[s][b]) = IF FreshAt(bucket[b], now) THEN AbstractGate!Judged("PASS", bucket[b])
                           ELSE AbstractGate!Seen(bucket[b])

Stale(s, b) ==
    /\ ev[s][b].at \in {"lock", "wait", "unlock", "breaker"} /\ ev[s][b].outcome = None
    /\ ViewOf(ev[s][b]) = [outcome |-> None, entry |-> ev[s][b].cached,
                           seenAt |-> ev[s][b].readAt]

Refreshes(s, b) ==
    /\ Stale(s, b)
    /\ \E t \in ev[s][b].readAt..now :
         /\ bucket' = [bucket EXCEPT ![b] = [asOf |-> t, tier |-> "FAST"]]
         /\ ViewOf(ev'[s][b]) = AbstractGate!Judged("BOUNDED_REFRESH_SUCCESS",
                                                    [asOf |-> t, tier |-> "FAST"])

Concludes(s, b) ==
    /\ Stale(s, b) /\ UNCHANGED bucket
    /\ ViewOf(ev'[s][b]) =
         IF AbstractGate!MayDegrade(ViewOf(ev[s][b]))
         THEN AbstractGate!Judged("SLOW_TIER_DEGRADED_SERVE", ViewOf(ev[s][b]).entry)
         ELSE AbstractGate!Judged("SKIPPED", None)

Thinks(s, b) ==
    \/ ViewOf(ev'[s][b]) = ViewOf(ev[s][b])
    \/ Looks(s, b)
    \/ Refreshes(s, b)
    \/ Concludes(s, b)

\* An evaluation without an outcome that is past its read shows what it has read.
LEMMA StaleShows ==
    ASSUME ev \in [Scans -> [Buckets -> Evaluation]], NEW s \in Scans, NEW b \in Buckets,
           ev[s][b].at \in {"lock", "wait", "unlock", "breaker"}, ev[s][b].outcome = None
    PROVE  Stale(s, b)
  BY DEF Stale, ViewOf

\* A decision is shown, and is no earlier than what led to it.
LEMMA DecidedShows ==
    ASSUME NEW e \in Evaluation, NEW t \in Nat, NEW o \in Outcomes,
           NEW v \in Entry \cup {None}, e.promise = "writing" => e.asOf <= t
    PROVE  /\ ViewOf(Decided(e, o, v)) = AbstractGate!Judged(o, v)
           /\ Timely(Decided(e, o, v), t)
<1> DEFINE d == Decided(e, o, v)
<1>1. /\ d.at = "done" /\ d.outcome = o /\ d.served = v
      /\ d.promise = e.promise /\ d.asOf = e.asOf
  BY DEF Decided, Evaluation
<1>2. o # None
  BY UndecidedAssumption
<1> HIDE DEF d
<1>3. ViewOf(d) = AbstractGate!Judged(o, v)
  BY <1>1, <1>2 DEF ViewOf, AbstractGate!Judged
<1>4. Timely(d, t)
  BY <1>1 DEF Timely
<1> QED
  BY <1>3, <1>4 DEF d

\* Without a refreshed bucket nothing new is thought until the breaker has been asked, or it
\* is a skip: a missing or FAST entry is never served beyond its threshold.
LEMMA WithoutRefreshShows ==
    ASSUME NEW e \in Evaluation, NEW t \in Nat, e.at \in {"lock", "wait", "unlock", "breaker"},
           e.outcome = None, Timely(e, t)
    PROVE  /\ Timely(WithoutRefresh(e), t)
           /\ \/ ViewOf(WithoutRefresh(e)) = ViewOf(e)
              \/ /\ ~AbstractGate!MayDegrade(ViewOf(e))
                 /\ ViewOf(WithoutRefresh(e)) = AbstractGate!Judged("SKIPPED", None)
<1>0. /\ ViewOf(e) = [outcome |-> None, entry |-> e.cached, seenAt |-> e.readAt]
      /\ e.promise = "writing" => e.asOf <= t
      /\ e.readAt <= t
      /\ "SKIPPED" \in Outcomes /\ None \in Entry \cup {None}
  BY DEF ViewOf, Timely, Outcomes
<1>1. CASE TierOf(e.cached) = "FAST"
  <2>1. ~AbstractGate!MayDegrade(ViewOf(e))
    BY <1>0, <1>1 DEF AbstractGate!MayDegrade, TierOf
  <2> QED
    BY <1>0, <1>1, <2>1, DecidedShows DEF WithoutRefresh
<1>2. CASE TierOf(e.cached) # "FAST"
  <2> DEFINE d == [e EXCEPT !.at = "breaker"]
  <2>1. /\ d.at = "breaker" /\ d.readAt = e.readAt /\ d.cached = e.cached
        /\ d.promise = e.promise /\ d.asOf = e.asOf /\ d.outcome = e.outcome
    BY DEF Evaluation
  <2> HIDE DEF d
  <2>2. Timely(d, t) /\ ViewOf(d) = ViewOf(e)
    BY <1>0, <2>1 DEF Timely, ViewOf
  <2> QED
    BY <1>2, <2>2 DEF WithoutRefresh, d
<1> QED
  BY <1>1, <1>2

\* Every step of an evaluation but a fault makes it think one of these, at its time.
LEMMA EvalThinks ==
    ASSUME GateInv, CacheTypeOK, NEW s \in Scans, NEW b \in Buckets,
           Sound(ev[s][b], enteredAt[s]), Timely(ev[s][b], now),
           EvalStep(s, b), ~EvaluationFault(s, b)
    PROVE  /\ Timely(ev'[s][b], now) /\ Thinks(s, b)
           /\ ev'[s][b].at \notin {"off", "dead"} \/ ev'[s][b].at = ev[s][b].at
<1> DEFINE old == ev[s][b]
           new == ev'[s][b]
<1>0. /\ old \in Evaluation /\ now \in Nat
      /\ bucket[b] \in Entry \cup {None}
      /\ ev \in [Scans -> [Buckets -> Evaluation]]
      /\ Timely(old, now)
  BY DEF GateInv, GateTypeOK, CacheTypeOK
<1>a. old.readAt \in Nat /\ old.asOf \in Nat /\ old.cached \in Entry \cup {None}
      /\ old.served \in Entry \cup {None}
  BY <1>0 DEF Evaluation
<1>b. /\ "PASS" \in Outcomes /\ "BOUNDED_REFRESH_SUCCESS" \in Outcomes
      /\ "SLOW_TIER_DEGRADED_SERVE" \in Outcomes /\ "SKIPPED" \in Outcomes
      /\ None \in Entry \cup {None}
  BY DEF Outcomes
<1>c. old.promise = "writing" => old.asOf <= now
  BY <1>0 DEF Timely
<1>s. ASSUME old.at \in {"lock", "wait", "unlock", "breaker"}, old.outcome = None
      PROVE  Stale(s, b)
  BY <1>0, <1>s, StaleShows
<1>k. ASSUME ViewOf(new) = ViewOf(old)
      PROVE  Thinks(s, b)
  BY <1>k DEF Thinks, old, new
<1>w. ASSUME old.at \in {"lock", "unlock"}, old.outcome = None, UNCHANGED bucket,
             new = WithoutRefresh(old)
      PROVE  Timely(new, now) /\ Thinks(s, b) /\ new.at \notin {"off", "dead"}
  <2>1. /\ Timely(new, now)
        /\ \/ ViewOf(new) = ViewOf(old)
           \/ /\ ~AbstractGate!MayDegrade(ViewOf(old))
              /\ ViewOf(new) = AbstractGate!Judged("SKIPPED", None)
    BY <1>0, <1>w, WithoutRefreshShows
  <2>2. Stale(s, b)
    BY <1>s, <1>w
  <2>3. new.at \notin {"off", "dead"}
    BY <1>0, <1>w, WithoutRefreshType
  <2> QED
    BY <1>w, <2>1, <2>2, <2>3 DEF Thinks, Concludes, old, new
<1> HIDE DEF old, new
<1>1. CASE ReadCached(s, b)
  <2>1. /\ old.at = "read" /\ UNCHANGED bucket
        /\ new = IF FreshAt(bucket[b], now) THEN Decided(old, "PASS", bucket[b])
                 ELSE [old EXCEPT !.at = "lock", !.cached = bucket[b], !.readAt = now]
    BY <1>0, <1>1 DEF ReadCached, cacheVars, old, new
  <2>2. CASE FreshAt(bucket[b], now)
    <3>1. new = Decided(old, "PASS", bucket[b])
      BY <2>1, <2>2
    <3>2. Timely(new, now) /\ ViewOf(new) = AbstractGate!Judged("PASS", bucket[b])
      BY <1>0, <1>b, <1>c, <3>1, DecidedShows
    <3>3. new.at \notin {"off", "dead"}
      BY <1>0, <1>b, <3>1, DecidedType
    <3> QED
      BY <2>1, <2>2, <3>2, <3>3 DEF Thinks, Looks, old, new
  <2>3. CASE ~FreshAt(bucket[b], now)
    <3>1. new.at = "lock" /\ new.readAt = now /\ new.cached = bucket[b]
          /\ new.promise = old.promise /\ new.asOf = old.asOf /\ new.outcome = old.outcome
      BY <1>0, <2>1, <2>3 DEF Evaluation
    <3>2. Timely(new, now) /\ ViewOf(new) = AbstractGate!Seen(bucket[b])
      BY <1>0, <2>1, <3>1 DEF Timely, ViewOf, AbstractGate!Seen
    <3> QED
      BY <2>1, <2>3, <3>1, <3>2 DEF Thinks, Looks, old, new
  <2> QED
    BY <2>2, <2>3 DEF old, new
<1>2. CASE TryLock(s, b)
  <2>0. old.at = "lock" /\ old.outcome = None /\ UNCHANGED bucket
    BY <1>0, <1>2 DEF TryLock, Timely, old
  <2>1. CASE ev' = [ev EXCEPT ![s][b].at = "wait", ![s][b].deadline = now + Timeout,
                              ![s][b].promise = "fetching"]
    <3>1. /\ new.at = "wait" /\ new.readAt = old.readAt /\ new.promise = "fetching"
          /\ new.outcome = old.outcome /\ new.cached = old.cached
      BY <1>0, <2>1 DEF Evaluation, old, new
    <3>2. Timely(new, now) /\ ViewOf(new) = ViewOf(old)
      BY <1>0, <2>0, <3>1 DEF Timely, ViewOf
    <3> QED
      BY <1>k, <3>1, <3>2 DEF old, new
  <2>2. CASE ev' = [ev EXCEPT ![s][b] = WithoutRefresh(old)]
    <3>1. new = WithoutRefresh(old)
      BY <1>0, <2>2 DEF new
    <3> QED
      BY <1>w, <2>0, <3>1 DEF old, new
  <2> QED
    BY <1>2, <2>1, <2>2 DEF TryLock, old
<1>3. CASE RefreshAnswers(s, b)
  <2>1. /\ new.promise = "writing" /\ new.asOf = now
        /\ new.at = old.at /\ new.readAt = old.readAt /\ new.cached = old.cached
        /\ new.outcome = old.outcome /\ new.served = old.served
    BY <1>0, <1>3 DEF RefreshAnswers, Evaluation, old, new
  <2>2. Timely(new, now) /\ ViewOf(new) = ViewOf(old)
    BY <1>0, <2>1 DEF Timely, ViewOf
  <2> QED
    BY <1>k, <2>1, <2>2 DEF old, new
<1>4. CASE RefreshWrites(s, b)
  <2>0. /\ old.promise = "writing" /\ old.asOf <= now
        /\ bucket' = [bucket EXCEPT ![b] = Fresh(old.asOf)]
    BY <1>4, <1>c DEF RefreshWrites, PutBucket, Fresh, old
  <2>1. CASE old.at = "wait"
    <3>1. /\ new.promise = "none" /\ new.at = "unlock" /\ new.readAt = old.readAt
          /\ new.served = Fresh(old.asOf) /\ new.outcome = "BOUNDED_REFRESH_SUCCESS"
      BY <1>0, <1>4, <2>1 DEF RefreshWrites, Evaluation, old, new
    <3>2. old.readAt <= old.asOf /\ old.outcome = None /\ old.readAt <= now
      BY <1>0, <2>0, <2>1 DEF Timely
    <3>3. Timely(new, now)
      BY <3>1, <3>2 DEF Timely
    <3>4. ViewOf(new) = AbstractGate!Judged("BOUNDED_REFRESH_SUCCESS", Fresh(old.asOf))
      BY <1>b, <3>1, UndecidedAssumption DEF ViewOf, AbstractGate!Judged
    <3>5. Stale(s, b) /\ old.asOf \in old.readAt..now
      BY <1>0, <1>a, <1>s, <2>0, <2>1, <3>2
    <3>6. Refreshes(s, b)
      BY <2>0, <3>4, <3>5 DEF Refreshes, Fresh, old, new
    <3> QED
      BY <3>1, <3>3, <3>6 DEF Thinks, old, new
  <2>2. CASE old.at # "wait"
    <3>1. /\ new.promise = "none"
          /\ new.at = old.at /\ new.readAt = old.readAt /\ new.cached = old.cached
          /\ new.outcome = old.outcome /\ new.served = old.served
      BY <1>0, <1>4, <2>2 DEF RefreshWrites, Evaluation, old, new
    <3>2. Timely(new, now) /\ ViewOf(new) = ViewOf(old)
      BY <1>0, <3>1 DEF Timely, ViewOf
    <3> QED
      BY <1>k, <3>1, <3>2 DEF old, new
  <2> QED
    BY <2>1, <2>2
<1>5. CASE RefreshFails(s, b)
  <2>1. /\ new.promise = "none"
        /\ new.at = IF old.at = "wait" THEN "unlock" ELSE old.at
        /\ new.readAt = old.readAt /\ new.cached = old.cached
        /\ new.outcome = old.outcome /\ new.served = old.served
    BY <1>0, <1>5 DEF RefreshFails, Evaluation, old, new
  <2>2. Timely(new, now) /\ ViewOf(new) = ViewOf(old)
    BY <1>0, <2>1 DEF Timely, ViewOf
  <2> QED
    BY <1>k, <2>1, <2>2 DEF old, new
<1>6. CASE TimesOut(s, b)
  <2>0. old.at = "wait" /\ old.outcome = None
    BY <1>0, <1>6 DEF TimesOut, Timely, old
  <2>1. /\ new.promise = old.promise /\ new.asOf = old.asOf /\ new.cached = old.cached
        /\ new.at = "unlock" /\ new.readAt = old.readAt /\ new.outcome = old.outcome
    BY <1>0, <1>6 DEF TimesOut, Evaluation, old, new
  <2>2. Timely(new, now) /\ ViewOf(new) = ViewOf(old)
    BY <1>0, <2>0, <2>1 DEF Timely, ViewOf
  <2> QED
    BY <1>k, <2>1, <2>2 DEF old, new
<1>7. CASE Unlock(s, b)
  <2>0. old.at = "unlock" /\ UNCHANGED bucket
        /\ old.outcome \in {None, "BOUNDED_REFRESH_SUCCESS"}
    BY <1>0, <1>7 DEF Unlock, Timely, old
  <2>1. CASE old.outcome = "BOUNDED_REFRESH_SUCCESS"
    <3>1. new = Decided(old, old.outcome, old.served)
      BY <1>0, <1>7, <2>1 DEF Unlock, old, new
    <3>2. Timely(new, now) /\ ViewOf(new) = AbstractGate!Judged(old.outcome, old.served)
      BY <1>0, <1>a, <1>b, <1>c, <2>1, <3>1, DecidedShows
    <3>3. ViewOf(old) = AbstractGate!Judged(old.outcome, old.served)
      BY <1>b, <2>1, UndecidedAssumption DEF ViewOf, AbstractGate!Judged
    <3>4. new.at \notin {"off", "dead"}
      BY <1>0, <1>a, <1>b, <2>1, <3>1, DecidedType
    <3> QED
      BY <1>k, <3>2, <3>3, <3>4 DEF old, new
  <2>2. CASE old.outcome # "BOUNDED_REFRESH_SUCCESS"
    <3>1. new = WithoutRefresh(old)
      BY <1>0, <1>7, <2>2 DEF Unlock, old, new
    <3> QED
      BY <1>w, <2>0, <2>2, <3>1 DEF old, new
  <2> QED
    BY <2>1, <2>2
<1>8. CASE ConsultBreaker(s, b)
  <2>0. /\ old.at = "breaker" /\ UNCHANGED bucket /\ old.outcome = None
        /\ old.cached # None /\ old.cached.tier = "SLOW"
    BY <1>0, <1>8 DEF ConsultBreaker, cacheVars, Sound, Timely, old
  <2>1. Stale(s, b) /\ ViewOf(old).entry = old.cached
    BY <1>s, <2>0 DEF Stale, old
  <2>2. new = IF AbstractGate!MayDegrade(ViewOf(old))
              THEN Decided(old, "SLOW_TIER_DEGRADED_SERVE", old.cached)
              ELSE Decided(old, "SKIPPED", None)
    <3>1. AbstractGate!MayDegrade(ViewOf(old)) <=>
            /\ breaker.state = "OPEN" /\ now - breaker.openedAt >= SustainedAfter
            /\ old.readAt - old.cached.asOf <= OuterCap
      BY <2>0, <2>1 DEF AbstractGate!MayDegrade, Stale, old
    <3> QED
      BY <1>0, <1>8, <3>1 DEF ConsultBreaker, old, new
  <2>3. CASE AbstractGate!MayDegrade(ViewOf(old))
    <3>1. /\ Timely(new, now)
          /\ ViewOf(new) = AbstractGate!Judged("SLOW_TIER_DEGRADED_SERVE", old.cached)
      BY <1>0, <1>a, <1>b, <1>c, <2>2, <2>3, DecidedShows
    <3>2. new.at \notin {"off", "dead"}
      BY <1>0, <1>a, <1>b, <2>2, <2>3, DecidedType
    <3> QED
      BY <2>0, <2>1, <2>3, <3>1, <3>2 DEF Thinks, Concludes, old, new
  <2>4. CASE ~AbstractGate!MayDegrade(ViewOf(old))
    <3>1. Timely(new, now) /\ ViewOf(new) = AbstractGate!Judged("SKIPPED", None)
      BY <1>0, <1>b, <1>c, <2>2, <2>4, DecidedShows
    <3>2. new.at \notin {"off", "dead"}
      BY <1>0, <1>b, <2>2, <2>4, DecidedType
    <3> QED
      BY <2>0, <2>1, <2>4, <3>1, <3>2 DEF Thinks, Concludes, old, new
  <2> QED
    BY <2>3, <2>4
<1> QED
  BY <1>1, <1>2, <1>3, <1>4, <1>5, <1>6, <1>7, <1>8
     DEF EvalStep, BucketStep, VendorStep, old, new

\* The invariant of the steps of an evaluation, faults included.
LEMMA EvalTimely ==
    ASSUME DecisionInv, NEW s \in Scans, NEW b \in Buckets, EvalStep(s, b)
    PROVE  TimelyInv'
<1>0. /\ ev \in [Scans -> [Buckets -> Evaluation]]
      /\ gate \in [Scans -> {"idle", "running", "returned", "threw", "crashed"}]
      /\ GateInv /\ CacheTypeOK /\ Sound(ev[s][b], enteredAt[s])
      /\ Timely(ev[s][b], now) /\ (Live(s) => ev[s][b].at # "dead")
      /\ SoundInv /\ ReturnedInv
  BY DEF DecisionInv, ServeInv, MarketTypeInv, TypeInv, TypeOK, GateInv, GateTypeOK,
     SoundInv, TimelyInv
<1>1. UNCHANGED now
  BY <1>0, EvalMoves
<1>2. PICK e \in Evaluation : ev' = [ev EXCEPT ![s][b] = e]
  BY <1>0, EvalMoves
<1>3. \A t \in Scans, c \in Buckets : t # s \/ c # b => ev'[t][c] = ev[t][c]
  BY <1>0, <1>2, EvWrite
<1>4. CASE ~EvaluationFault(s, b)
  <2>1. gate' = gate
    BY <1>4, Zenon DEF EvalStep, BucketStep, VendorStep, ReadCached, TryLock, RefreshWrites,
       TimesOut, Unlock, ConsultBreaker, RefreshAnswers, RefreshFails
  <2>2. Timely(ev'[s][b], now) /\ (Live(s) => ev'[s][b].at # "dead")
    BY <1>0, <1>4, EvalThinks
  <2>3. ASSUME NEW t \in Scans, NEW c \in Buckets
        PROVE  Timely(ev'[t][c], now) /\ (Live(t) => ev'[t][c].at # "dead")
    BY <1>3, <2>2 DEF DecisionInv, TimelyInv
  <2> QED
    BY <1>1, <2>1, <2>3 DEF TimelyInv, Live
<1>5. CASE EvaluationFault(s, b)
  <2>1. /\ ev[s][b].at \in {"read", "lock", "unlock", "breaker"}
        /\ gate' = [gate EXCEPT ![s] = IF @ = "running" THEN "threw" ELSE @]
        /\ ev' = [ev EXCEPT ![s][b].at = "dead", ![s][b].cached = None,
                            ![s][b].readAt = 0, ![s][b].deadline = 0]
    BY <1>5 DEF EvaluationFault
  <2>2. ev'[s][b].at = "dead" /\ ev'[s][b].promise = ev[s][b].promise
        /\ ev'[s][b].asOf = ev[s][b].asOf
    BY <1>0, <2>1 DEF Evaluation
  <2>3. Timely(ev'[s][b], now)
    BY <1>0, <2>2 DEF Timely
  <2>4. gate[s] # "returned"
    BY <1>0, <2>1 DEF ReturnedInv, Returned, Relevant
  <2>5. ~Live(s)' /\ \A t \in Scans : Live(t)' => Live(t)
    BY <1>0, <2>1, <2>4 DEF Live
  <2>6. ASSUME NEW t \in Scans, NEW c \in Buckets
        PROVE  Timely(ev'[t][c], now) /\ (Live(t)' => ev'[t][c].at # "dead")
    BY <1>3, <2>3, <2>5 DEF DecisionInv, TimelyInv
  <2> QED
    BY <1>1, <2>6 DEF TimelyInv
<1> QED
  BY <1>4, <1>5

\* Evaluations of a gate just called or just dead are timely.
LEMMA BlankTimely ==
    ASSUME NEW a \in {"off", "read", "dead"}, NEW t \in Nat
    PROVE  Timely([NotStarted EXCEPT !.at = a], t) /\ Timely(NotStarted, t)
<1> DEFINE e == [NotStarted EXCEPT !.at = a]
<1>1. e.at = a /\ e.promise = "none" /\ e.outcome = None
  BY DEF NotStarted
<1> HIDE DEF e
<1>2. Timely(e, t)
  BY <1>1 DEF Timely
<1>3. Timely(NotStarted, t)
  BY DEF Timely, NotStarted
<1> QED
  BY <1>2, <1>3 DEF e

\* So is the call of the gate, its return and the death of its process.
LEMMA CallTimely ==
    ASSUME DecisionInv, NEW s \in Scans, Enter(s) \/ ReturnFromGate(s) \/ CrashScan(s)
    PROVE  TimelyInv'
<1>0. /\ ev \in [Scans -> [Buckets -> Evaluation]] /\ now \in Nat
      /\ gate \in [Scans -> {"idle", "running", "returned", "threw", "crashed"}]
      /\ TimelyInv
  BY DEF DecisionInv, ServeInv, MarketTypeInv, TypeInv, TypeOK, CacheTypeOK, GateInv, GateTypeOK
<1>1. ASSUME NEW a \in {"read", "dead"}, NEW relevant, UNCHANGED now,
             ev' = [ev EXCEPT ![s] = [b \in Buckets |->
                IF b \in relevant THEN [NotStarted EXCEPT !.at = a] ELSE NotStarted]],
             \A t \in Scans \ {s} : gate'[t] = gate[t],
             Live(s)' => a # "dead"
      PROVE  TimelyInv'
  <2> SUFFICES ASSUME NEW t \in Scans, NEW c \in Buckets
               PROVE  Timely(ev'[t][c], now) /\ (Live(t)' => ev'[t][c].at # "dead")
    BY <1>1 DEF TimelyInv
  <2>1. CASE t # s
    <3>1. ev'[t] = ev[t] /\ gate'[t] = gate[t]
      BY <1>0, <1>1, <2>1
    <3> QED
      BY <1>0, <3>1 DEF TimelyInv, Live
  <2>2. CASE t = s
    <3>1. ev'[s][c] = [NotStarted EXCEPT !.at = a] \/ ev'[s][c] = NotStarted
      BY <1>0, <1>1
    <3>2. [NotStarted EXCEPT !.at = a].at = a /\ NotStarted.at # "dead"
      BY DEF NotStarted
    <3>3. Timely(ev'[s][c], now)
      BY <1>0, <3>1, BlankTimely
    <3> QED
      BY <1>1, <2>2, <3>1, <3>2, <3>3
  <2> QED
    BY <2>1, <2>2
<1>2. CASE Enter(s)
  <2>1. gate' = [gate EXCEPT ![s] = "running"] /\ UNCHANGED now
    BY <1>2 DEF Enter, EnterGate, cacheVars
  <2>2. PICK relevant \in SUBSET Buckets :
          ev' = [ev EXCEPT ![s] = [b \in Buckets |->
                   IF b \in relevant THEN [NotStarted EXCEPT !.at = "read"] ELSE NotStarted]]
    BY <1>2, Zenon DEF Enter, EnterGate
  <2> QED
    BY <1>0, <1>1, <2>1, <2>2
<1>3. CASE ReturnFromGate(s)
  <2>1. /\ gate' = [gate EXCEPT ![s] = "returned"] /\ gate[s] = "running"
        /\ UNCHANGED <<now, ev>>
    BY <1>3 DEF ReturnFromGate, cacheVars
  <2>2. \A t \in Scans : Live(t)' => Live(t)
    BY <1>0, <2>1 DEF Live
  <2> QED
    BY <1>0, <2>1, <2>2 DEF TimelyInv
<1>4. CASE CrashScan(s)
  <2>1. gate' = [gate EXCEPT ![s] = "crashed"] /\ UNCHANGED now
    BY <1>4 DEF CrashScan, cacheVars
  <2>2. ev' = [ev EXCEPT ![s] = [b \in Buckets |->
                 IF b \in Relevant(s) THEN [NotStarted EXCEPT !.at = "dead"] ELSE NotStarted]]
    BY <1>4 DEF CrashScan
  <2>3. ~Live(s)' /\ \A t \in Scans \ {s} : gate'[t] = gate[t]
    BY <1>0, <2>1 DEF Live
  <2> QED
    BY <1>1, <2>1, <2>2, <2>3
<1> QED
  BY <1>2, <1>3, <1>4

\* What a step that leaves the gates alone does to the shared state.
LEMMA OthersMove ==
    ASSUME ServeInv, MarketTick \/ RefreshStep \/ UNCHANGED marketVars
    PROVE  UNCHANGED gateVars /\ now' \in {now, now + 1} /\ now \in Nat
<1>0. now \in Nat /\ MarketTypeInv /\ TypeInv
  BY DEF ServeInv, MarketTypeInv, TypeInv, TypeOK, CacheTypeOK
<1>1. CASE MarketTick
  BY <1>0, <1>1 DEF MarketTick, Tick, Elapse
<1>2. CASE RefreshStep
  <2>1. ASSUME NEW w \in Workers, WorkerStep(w) \/ Crash(w) \/ InfrastructureFault(w)
        PROVE  UNCHANGED now
    BY <1>0, <2>1, SweepMoves DEF SweepMove
  <2> QED
    BY <1>0, <1>2, <2>1 DEF RefreshStep, CronTick, cacheVars
<1>3. CASE UNCHANGED marketVars
  BY <1>0, <1>3 DEF marketVars, vars, cacheVars
<1> QED
  BY <1>1, <1>2, <1>3

\* The invariant of the refinement.
LEMMA DecisionStep == DecisionInv /\ [MarketNext]_marketVars => DecisionInv'
<1> SUFFICES ASSUME DecisionInv, [MarketNext]_marketVars
             PROVE  TimelyInv'
  BY ServeStep DEF DecisionInv
<1>1. CASE MarketTick \/ RefreshStep \/ UNCHANGED marketVars
  <2>1. UNCHANGED gateVars /\ now' \in {now, now + 1} /\ now \in Nat
    BY <1>1, OthersMove DEF DecisionInv
  <2>2. /\ ev \in [Scans -> [Buckets -> Evaluation]] /\ TimelyInv
        /\ UNCHANGED <<ev, gate>>
    BY <2>1 DEF DecisionInv, ServeInv, MarketTypeInv, GateInv, GateTypeOK, gateVars
  <2>3. ASSUME NEW s \in Scans, NEW b \in Buckets
        PROVE  Timely(ev[s][b], now') /\ (Live(s)' => ev[s][b].at # "dead")
    <3>1. ev[s][b].readAt \in Nat /\ ev[s][b].asOf \in Nat
      BY <2>2 DEF Evaluation
    <3>2. Timely(ev[s][b], now) /\ (Live(s) => ev[s][b].at # "dead")
      BY <2>2 DEF TimelyInv
    <3>3. Timely(ev[s][b], now')
      BY <2>1, <3>1, <3>2 DEF Timely
    <3> QED
      BY <2>2, <3>2, <3>3 DEF Live
  <2> QED
    BY <2>2, <2>3 DEF TimelyInv
<1>2. ASSUME NEW s \in Scans, GateStep(s)
      PROVE  TimelyInv'
  BY <1>2, CallTimely, EvalTimely DEF GateStep, EvalStep
<1> QED
  BY <1>1, <1>2 DEF MarketNext

\* At the start nobody thinks anything.
LEMMA DecisionStart == MarketInit => DecisionInv
<1> SUFFICES ASSUME MarketInit
             PROVE  TimelyInv
  BY ServeStart DEF DecisionInv
<1>1. /\ now = 0 /\ \A s \in Scans, b \in Buckets : ev[s][b] = NotStarted
  BY DEF MarketInit, Init, CacheInit, GateInit
<1>2. Timely(NotStarted, 0) /\ NotStarted.at # "dead"
  BY DEF Timely, NotStarted
<1> QED
  BY <1>1, <1>2 DEF TimelyInv

\* The variables of the abstract gate, call by call and bucket by bucket.
LEMMA ViewsAre ==
    /\ Views = [s \in Scans |-> [b \in Buckets |-> Views[s][b]]]
    /\ Views' = [s \in Scans |-> [b \in Buckets |-> Views'[s][b]]]
    /\ \A s \in Scans, b \in Buckets :
         /\ Views[s][b] = ViewOf(IF Live(s) THEN ev[s][b] ELSE NotStarted)
         /\ Views'[s][b] = ViewOf(IF Live(s)' THEN ev'[s][b] ELSE NotStarted)
  BY DEF Views, Live

\* The progress of the calls and what they are about.
LEMMA CallsAre ==
    /\ CallStates = [s \in Scans |-> CallStates[s]] /\ Asked = [s \in Scans |-> Asked[s]]
    /\ CallStates' = [s \in Scans |-> CallStates'[s]] /\ Asked' = [s \in Scans |-> Asked'[s]]
    /\ \A s \in Scans :
         /\ CallStates[s] = IF gate[s] \in {"threw", "crashed"} THEN "failed" ELSE gate[s]
         /\ CallStates'[s] = IF gate'[s] \in {"threw", "crashed"} THEN "failed" ELSE gate'[s]
         /\ Asked[s] = Relevant(s)
         /\ Asked'[s] = Relevant(s)'
  BY DEF CallStates, Asked

\* Who has not read thinks nothing.
LEMMA BlankView ==
    /\ ViewOf(NotStarted) = AbstractGate!Unseen
    /\ \A e : e.outcome = None /\ e.at \in {"off", "read", "dead"}
                => ViewOf(e) = AbstractGate!Unseen
  BY DEF ViewOf, NotStarted, AbstractGate!Unseen

\* Only the view of one bucket changes.
LEMMA OneView ==
    ASSUME NEW s \in Scans, NEW b \in Buckets, NEW v, Views'[s][b] = v,
           \A t \in Scans, c \in Buckets : t # s \/ c # b => Views'[t][c] = Views[t][c]
    PROVE  Views' = [Views EXCEPT ![s][b] = v]
<1>1. /\ Views = [t \in Scans |-> Views[t]] /\ Views' = [t \in Scans |-> Views'[t]]
      /\ \A t \in Scans : /\ Views[t] = [c \in Buckets |-> Views[t][c]]
                          /\ Views'[t] = [c \in Buckets |-> Views'[t][c]]
  BY DEF Views
<1>2. \A t \in Scans \ {s} : Views'[t] = Views[t]
  BY <1>1
<1>3. Views'[s] = [Views[s] EXCEPT ![b] = v]
  BY <1>1
<1> QED
  BY <1>1, <1>2, <1>3

\* A call forgets its views.
LEMMA RowOfViews ==
    ASSUME NEW s \in Scans, \A c \in Buckets : Views'[s][c] = AbstractGate!Unseen,
           \A t \in Scans \ {s}, c \in Buckets : Views'[t][c] = Views[t][c]
    PROVE  Views' = [Views EXCEPT ![s] = [c \in Buckets |-> AbstractGate!Unseen]]
<1>1. /\ Views = [t \in Scans |-> Views[t]] /\ Views' = [t \in Scans |-> Views'[t]]
      /\ \A t \in Scans : /\ Views[t] = [c \in Buckets |-> Views[t][c]]
                          /\ Views'[t] = [c \in Buckets |-> Views'[t][c]]
  BY DEF Views
<1>2. \A t \in Scans \ {s} : Views'[t] = Views[t]
  BY <1>1
<1>3. Views'[s] = [c \in Buckets |-> AbstractGate!Unseen]
  BY <1>1
<1> QED
  BY <1>1, <1>2, <1>3

\* No view changes.
LEMMA SameViews ==
    ASSUME \A t \in Scans, c \in Buckets : Views'[t][c] = Views[t][c]
    PROVE  Views' = Views
<1>1. /\ Views = [t \in Scans |-> Views[t]] /\ Views' = [t \in Scans |-> Views'[t]]
      /\ \A t \in Scans : /\ Views[t] = [c \in Buckets |-> Views[t][c]]
                          /\ Views'[t] = [c \in Buckets |-> Views'[t][c]]
  BY DEF Views
<1>2. \A t \in Scans : Views'[t] = Views[t]
  BY <1>1
<1> QED
  BY <1>1, <1>2

\* The steps of an evaluation are steps of the abstract gate, or go unnoticed.
LEMMA EvalDecides ==
    ASSUME DecisionInv, NEW s \in Scans, NEW b \in Buckets, EvalStep(s, b)
    PROVE  AbstractGateStep
<1>0. /\ ev \in [Scans -> [Buckets -> Evaluation]]
      /\ gate \in [Scans -> {"idle", "running", "returned", "threw", "crashed"}]
      /\ bucket \in [Buckets -> Entry \cup {None}]
      /\ GateInv /\ CacheTypeOK /\ Sound(ev[s][b], enteredAt[s])
      /\ Timely(ev[s][b], now) /\ (Live(s) => ev[s][b].at # "dead")
      /\ ReturnedInv /\ now \in Nat
  BY DEF DecisionInv, ServeInv, MarketTypeInv, TypeInv, TypeOK, CacheTypeOK, GateInv,
     GateTypeOK, SoundInv, TimelyInv
<1>1. UNCHANGED <<now, breaker, result>>
  BY <1>0, EvalMoves
<1>2. PICK e \in Evaluation : ev' = [ev EXCEPT ![s][b] = e]
  BY <1>0, EvalMoves
<1>3. \A t \in Scans, c \in Buckets : t # s \/ c # b => ev'[t][c] = ev[t][c]
  BY <1>0, <1>2, EvWrite
<1>4. ev[s][b].at # "off"
  BY <1>0, EvalRuns
<1>o. ASSUME UNCHANGED <<CallStates, Asked, Views>>
      PROVE  AbstractGateStep
  BY <1>1, <1>o DEF AbstractGateStep, AbstractGate!Next, AbstractGate!Others
<1>5. CASE ~EvaluationFault(s, b)
  <2>1. gate' = gate
    BY <1>5, Zenon DEF EvalStep, BucketStep, VendorStep, ReadCached, TryLock, RefreshWrites,
       TimesOut, Unlock, ConsultBreaker, RefreshAnswers, RefreshFails
  <2>2. /\ Thinks(s, b)
        /\ ev'[s][b].at \notin {"off", "dead"} \/ ev'[s][b].at = ev[s][b].at
    BY <1>0, <1>5, EvalThinks
  <2>3. UNCHANGED CallStates
    BY <2>1 DEF CallStates
  <2>4. UNCHANGED Asked
    <3>1. \A t \in Scans : Relevant(t)' = Relevant(t)
      BY <1>3, <1>4, <2>2 DEF Relevant
    <3> QED
      BY <3>1, CallsAre
  <2>5. \A t \in Scans : Live(t)' <=> Live(t)
    BY <2>1 DEF Live
  <2>6. ASSUME NEW t \in Scans, NEW c \in Buckets, t # s \/ c # b
        PROVE  Views'[t][c] = Views[t][c]
    BY <1>3, <2>5, <2>6, ViewsAre
  <2>7. CASE ~Live(s) \/ ViewOf(ev'[s][b]) = ViewOf(ev[s][b])
    <3>1. Views'[s][b] = Views[s][b]
      BY <2>5, <2>7, ViewsAre
    <3>2. UNCHANGED Views
      BY <2>6, <3>1, SameViews
    <3> QED
      BY <1>o, <2>3, <2>4, <3>2
  <2>8. CASE Live(s) /\ (Looks(s, b) \/ Refreshes(s, b) \/ Concludes(s, b))
    <3> DEFINE v == ViewOf(ev[s][b])
               w == ViewOf(ev'[s][b])
    <3>1. Views[s][b] = v /\ Views' = [Views EXCEPT ![s][b] = w]
      <4>1. Views[s][b] = v /\ Views'[s][b] = w
        BY <2>5, <2>8, ViewsAre
      <4> QED
        BY <2>6, <4>1, OneView
    <3>2. ev[s][b].at # "done"
      BY <2>8 DEF Looks, Refreshes, Concludes, Stale
    <3>3. gate[s] = "running" /\ CallStates[s] = "running" /\ b \in Asked[s]
      <4>1. b \in Relevant(s)
        BY <1>4 DEF Relevant
      <4>2. gate[s] # "returned"
        BY <1>0, <3>2, <4>1 DEF ReturnedInv, Returned
      <4> QED
        BY <2>8, <4>1, <4>2, CallsAre DEF Live
    <3> HIDE DEF v, w
    <3>4. UNCHANGED <<CallStates, Asked, result, now, breaker>>
      BY <1>1, <2>3, <2>4
    <3>5. CASE Looks(s, b)
      <4>1. v = AbstractGate!Unseen
        BY <1>0, <3>5, BlankView DEF Looks, Timely, v
      <4>2. w = IF AbstractGate!FreshNow(bucket[b]) THEN AbstractGate!Judged("PASS", bucket[b])
                ELSE AbstractGate!Seen(bucket[b])
        BY <3>5 DEF Looks, FreshAt, ThresholdOf, AbstractGate!FreshNow, w
      <4>3. UNCHANGED bucket
        BY <3>5 DEF Looks
      <4>4. AbstractGate!Look(s, b)
        BY <3>1, <3>3, <3>4, <4>1, <4>2, <4>3
           DEF AbstractGate!Look, AbstractGate!Think, AbstractGate!worldVars
      <4> QED
        BY <4>4 DEF AbstractGateStep, AbstractGate!Next
    <3>6. ASSUME Stale(s, b)
          PROVE  AbstractGate!NotFresh(s, b) /\ v.seenAt = ev[s][b].readAt
      <4>1. ev[s][b].readAt # None
        BY <1>0, CacheAssumption DEF Evaluation
      <4> QED
        BY <3>1, <3>3, <3>6, <4>1 DEF AbstractGate!NotFresh, Stale, v
    <3>7. CASE Refreshes(s, b)
      <4>1. PICK t \in ev[s][b].readAt..now :
              /\ bucket' = [bucket EXCEPT ![b] = [asOf |-> t, tier |-> "FAST"]]
              /\ w = AbstractGate!Judged("BOUNDED_REFRESH_SUCCESS", [asOf |-> t, tier |-> "FAST"])
        BY <3>7 DEF Refreshes, w
      <4>2. AbstractGate!NotFresh(s, b) /\ v.seenAt = ev[s][b].readAt
        BY <3>6, <3>7 DEF Refreshes
      <4>3. AbstractGate!Refresh(s, b)
        BY <3>1, <3>4, <4>1, <4>2 DEF AbstractGate!Refresh, AbstractGate!Think
      <4> QED
        BY <4>3 DEF AbstractGateStep, AbstractGate!Next
    <3>8. CASE Concludes(s, b)
      <4>1. AbstractGate!NotFresh(s, b) /\ UNCHANGED bucket
        BY <3>6, <3>8 DEF Concludes
      <4>2. w = IF AbstractGate!MayDegrade(v)
                THEN AbstractGate!Judged("SLOW_TIER_DEGRADED_SERVE", v.entry)
                ELSE AbstractGate!Judged("SKIPPED", None)
        BY <3>8 DEF Concludes, v, w
      <4>3. CASE AbstractGate!MayDegrade(v)
        <5>1. AbstractGate!Degrade(s, b)
          BY <3>1, <3>4, <4>1, <4>2, <4>3
             DEF AbstractGate!Degrade, AbstractGate!Think, AbstractGate!worldVars
        <5> QED
          BY <5>1 DEF AbstractGateStep, AbstractGate!Next
      <4>4. CASE ~AbstractGate!MayDegrade(v)
        <5>1. AbstractGate!Skip(s, b)
          BY <3>1, <3>4, <4>1, <4>2, <4>4
             DEF AbstractGate!Skip, AbstractGate!Think, AbstractGate!worldVars
        <5> QED
          BY <5>1 DEF AbstractGateStep, AbstractGate!Next
      <4> QED
        BY <4>3, <4>4
    <3> QED
      BY <2>8, <3>5, <3>7, <3>8
  <2> QED
    BY <2>2, <2>7, <2>8 DEF Thinks
<1>6. CASE EvaluationFault(s, b)
  <2>1. /\ ev[s][b].at \in {"read", "lock", "unlock", "breaker"}
        /\ gate' = [gate EXCEPT ![s] = IF @ = "running" THEN "threw" ELSE @]
        /\ ev'[s][b].at = "dead" /\ UNCHANGED bucket
    BY <1>0, <1>6 DEF EvaluationFault, cacheVars
  <2>2. gate[s] # "returned"
    BY <1>0, <2>1 DEF ReturnedInv, Returned, Relevant
  <2>3. UNCHANGED Asked
    <3>1. \A t \in Scans : Relevant(t)' = Relevant(t)
      BY <1>3, <1>4, <2>1 DEF Relevant
    <3> QED
      BY <3>1, CallsAre
  <2>4. /\ \A t \in Scans \ {s} : Live(t)' <=> Live(t)
        /\ ~Live(s)'
        /\ Live(s) => gate[s] = "running"
    BY <1>0, <2>1, <2>2 DEF Live
  <2>5. \A t \in Scans \ {s}, c \in Buckets : Views'[t][c] = Views[t][c]
    BY <1>3, <2>4, ViewsAre
  <2>6. \A c \in Buckets : Views'[s][c] = AbstractGate!Unseen
    BY <2>4, ViewsAre, BlankView
  <2>7. CASE gate[s] = "running"
    <3>0. gate'[s] = "threw" /\ \A t \in Scans \ {s} : gate'[t] = gate[t]
      BY <1>0, <2>1, <2>7
    <3>1. CallStates[s] = "running" /\ CallStates' = [CallStates EXCEPT ![s] = "failed"]
      BY <2>7, <3>0, CallsAre
    <3>2. Views' = [Views EXCEPT ![s] = [c \in Buckets |-> AbstractGate!Unseen]]
      BY <2>5, <2>6, RowOfViews
    <3>3. AbstractGate!GiveUp(s)
      BY <1>1, <2>1, <2>3, <3>1, <3>2 DEF AbstractGate!GiveUp, AbstractGate!worldVars
    <3> QED
      BY <3>3 DEF AbstractGateStep, AbstractGate!Next
  <2>8. CASE gate[s] # "running"
    <3>1. gate' = gate
      BY <1>0, <2>1, <2>8
    <3>2. \A c \in Buckets : Views[s][c] = AbstractGate!Unseen
      BY <2>4, <2>8, ViewsAre, BlankView
    <3>3. UNCHANGED Views
      BY <2>5, <2>6, <3>2, SameViews
    <3>4. UNCHANGED CallStates
      BY <3>1 DEF CallStates
    <3> QED
      BY <1>o, <2>3, <3>3, <3>4
  <2> QED
    BY <2>7, <2>8
<1> QED
  BY <1>5, <1>6

\* One outcome of several is the worst.
LEMMA WorstIs ==
    ASSUME NEW O \in SUBSET Outcomes, NEW o \in O,
           \A p \in O : Severity[p] <= Severity[o]
    PROVE  AbstractGate!Worst(O) = o
<1>1. /\ \A p \in Outcomes : AbstractGate!Severity[p] = Severity[p] /\ Severity[p] \in Nat
      /\ \A p, q \in Outcomes : Severity[p] = Severity[q] => p = q
  <2>1. /\ Severity["PASS"] = 0
        /\ Severity["BOUNDED_REFRESH_SUCCESS"] = 1
        /\ Severity["SLOW_TIER_DEGRADED_SERVE"] = 2
        /\ Severity["SKIPPED"] = 3
    BY DEF Severity, Outcomes
  <2>2. /\ AbstractGate!Severity["PASS"] = 0
        /\ AbstractGate!Severity["BOUNDED_REFRESH_SUCCESS"] = 1
        /\ AbstractGate!Severity["SLOW_TIER_DEGRADED_SERVE"] = 2
        /\ AbstractGate!Severity["SKIPPED"] = 3
    BY DEF AbstractGate!Severity
  <2> QED
    BY <2>1, <2>2 DEF Outcomes
<1> DEFINE worst == AbstractGate!Worst(O)
<1>2. worst \in O /\ \A p \in O : AbstractGate!Severity[p] <= AbstractGate!Severity[worst]
  <2>1. \E x \in O : \A p \in O : AbstractGate!Severity[p] <= AbstractGate!Severity[x]
    BY <1>1
  <2> QED
    BY <2>1 DEF AbstractGate!Worst
<1> HIDE DEF worst
<1>3. Severity[worst] <= Severity[o] /\ Severity[o] <= Severity[worst]
  BY <1>1, <1>2
<1>4. worst = o
  BY <1>1, <1>2, <1>3
<1> QED
  BY <1>4 DEF worst

\* The call, its return and its end are steps of the abstract gate.
LEMMA CallDecides ==
    ASSUME DecisionInv, NEW s \in Scans, Enter(s) \/ ReturnFromGate(s) \/ CrashScan(s)
    PROVE  AbstractGateStep
<1>0. /\ ev \in [Scans -> [Buckets -> Evaluation]] /\ now \in Nat
      /\ gate \in [Scans -> {"idle", "running", "returned", "threw", "crashed"}]
      /\ result \in [Scans -> [outcome : Outcomes \cup {None}, candidates : SUBSET Buckets]]
      /\ SoundInv /\ Relevant(s) \subseteq Buckets
  BY DEF DecisionInv, ServeInv, MarketTypeInv, TypeInv, TypeOK, CacheTypeOK, GateInv, GateTypeOK,
     Relevant
<1> DEFINE Reading == [NotStarted EXCEPT !.at = "read"]
           Dead == [NotStarted EXCEPT !.at = "dead"]
<1>1. /\ NotStarted.at = "off"
      /\ Reading.at = "read" /\ Reading.outcome = None
      /\ Dead.at = "dead" /\ Dead.outcome = None
  BY DEF NotStarted
<1> HIDE DEF Reading, Dead
<1>2. CASE Enter(s)
  <2>1. /\ gate[s] = "idle" /\ gate' = [gate EXCEPT ![s] = "running"]
        /\ UNCHANGED <<now, bucket, breaker, result>>
    BY <1>2 DEF Enter, EnterGate, cacheVars
  <2>2. PICK relevant \in SUBSET Buckets \ {{}} :
          ev' = [ev EXCEPT ![s] = [b \in Buckets |->
                   IF b \in relevant THEN Reading ELSE NotStarted]]
    BY <1>2, Zenon DEF Enter, EnterGate, Reading
  <2>3. /\ \A t \in Scans \ {s} : ev'[t] = ev[t] /\ gate'[t] = gate[t]
        /\ \A b \in Buckets : ev'[s][b] = IF b \in relevant THEN Reading ELSE NotStarted
        /\ gate'[s] = "running"
    BY <1>0, <2>1, <2>2
  <2>4. Relevant(s)' = relevant /\ \A t \in Scans \ {s} : Relevant(t)' = Relevant(t)
    BY <1>1, <2>3 DEF Relevant
  <2>5. Asked' = [Asked EXCEPT ![s] = relevant]
    BY <2>4, CallsAre
  <2>6. CallStates[s] = "idle" /\ CallStates' = [CallStates EXCEPT ![s] = "running"]
    BY <2>1, <2>3, CallsAre
  <2>7. UNCHANGED Views
    <3>1. \A t \in Scans \ {s} : Live(t)' <=> Live(t)
      BY <2>3 DEF Live
    <3>2. ~Live(s)
      BY <2>1 DEF Live
    <3>3. \A t \in Scans \ {s}, c \in Buckets : Views'[t][c] = Views[t][c]
      BY <2>3, <3>1, ViewsAre
    <3>4. \A c \in Buckets : Views[s][c] = AbstractGate!Unseen
      BY <3>2, ViewsAre, BlankView
    <3>5. \A c \in Buckets : ViewOf(ev'[s][c]) = AbstractGate!Unseen
      BY <1>1, <2>3, BlankView
    <3>6. \A c \in Buckets : Views'[s][c] = AbstractGate!Unseen
      BY <3>5, ViewsAre, BlankView
    <3> QED
      BY <3>3, <3>4, <3>6, SameViews
  <2>8. AbstractGate!Ask(s)
    BY <2>1, <2>5, <2>6, <2>7 DEF AbstractGate!Ask, AbstractGate!worldVars
  <2> QED
    BY <2>8 DEF AbstractGateStep, AbstractGate!Next
<1>3. CASE ReturnFromGate(s)
  <2>1. /\ gate[s] = "running" /\ gate' = [gate EXCEPT ![s] = "returned"]
        /\ UNCHANGED <<now, bucket, breaker, ev>>
        /\ \A b \in Relevant(s) : ev[s][b].at = "done"
    BY <1>3 DEF ReturnFromGate, cacheVars
  <2>2. PICK worst \in Relevant(s) :
          /\ \A b \in Relevant(s) : Severity[ev[s][b].outcome] <= Severity[ev[s][worst].outcome]
          /\ result' = [result EXCEPT ![s] =
                [outcome |-> ev[s][worst].outcome,
                 candidates |-> IF ev[s][worst].outcome = "SKIPPED" THEN {} ELSE Relevant(s)]]
    BY <1>3, Zenon DEF ReturnFromGate
  <2>3. UNCHANGED Asked
    BY <2>1 DEF Asked, Relevant
  <2>4. CallStates[s] = "running" /\ CallStates' = [CallStates EXCEPT ![s] = "returned"]
    <3>1. gate'[s] = "returned" /\ \A t \in Scans \ {s} : gate'[t] = gate[t]
      BY <1>0, <2>1
    <3> QED
      BY <2>1, <3>1, CallsAre
  <2>5. Live(s) /\ \A t \in Scans : Live(t)' <=> Live(t)
    BY <1>0, <2>1 DEF Live
  <2>6. UNCHANGED Views
    BY <2>1, <2>5, ViewsAre, SameViews
  <2>7. ASSUME NEW b \in Relevant(s)
        PROVE  ev[s][b].outcome \in Outcomes /\ Views[s][b].outcome = ev[s][b].outcome
    <3>1. ev[s][b].outcome \in Outcomes
      BY <1>0, <2>1 DEF SoundInv, Sound
    <3>2. Views[s][b] = ViewOf(ev[s][b])
      BY <1>0, <2>5, ViewsAre
    <3> QED
      BY <3>1, <3>2, UndecidedAssumption DEF ViewOf
  <2> DEFINE O == {Views[s][b].outcome : b \in Asked[s]}
  <2>8. Asked[s] = Relevant(s)
    BY CallsAre
  <2>9. /\ O \in SUBSET Outcomes /\ ev[s][worst].outcome \in O
        /\ \A p \in O : Severity[p] <= Severity[ev[s][worst].outcome]
    BY <2>2, <2>7, <2>8
  <2> HIDE DEF O
  <2>10. AbstractGate!Worst(O) = ev[s][worst].outcome /\ None \notin O
    BY <2>9, WorstIs, UndecidedAssumption
  <2>11. "SKIPPED" \in O <=> ev[s][worst].outcome = "SKIPPED"
    BY <2>9, SeverityOfSkip
  <2>12. result' = [result EXCEPT ![s] =
           [outcome |-> AbstractGate!Worst(O),
            candidates |-> IF "SKIPPED" \in O THEN {} ELSE Asked[s]]]
    BY <2>2, <2>8, <2>10, <2>11
  <2>13. AbstractGate!Answer(s)
    BY <2>1, <2>3, <2>4, <2>6, <2>10, <2>12
       DEF AbstractGate!Answer, AbstractGate!worldVars, O
  <2> QED
    BY <2>13 DEF AbstractGateStep, AbstractGate!Next
<1>4. CASE CrashScan(s)
  <2>1. /\ gate[s] = "running" /\ gate' = [gate EXCEPT ![s] = "crashed"]
        /\ UNCHANGED <<now, bucket, breaker, result>>
    BY <1>4 DEF CrashScan, cacheVars
  <2>2. ev' = [ev EXCEPT ![s] = [b \in Buckets |->
                 IF b \in Relevant(s) THEN Dead ELSE NotStarted]]
    BY <1>4 DEF CrashScan, Dead
  <2>3. /\ \A t \in Scans \ {s} : ev'[t] = ev[t] /\ gate'[t] = gate[t]
        /\ \A b \in Buckets : ev'[s][b] = IF b \in Relevant(s) THEN Dead ELSE NotStarted
        /\ gate'[s] = "crashed"
    BY <1>0, <2>1, <2>2
  <2>4. \A t \in Scans : Relevant(t)' = Relevant(t)
    BY <1>1, <2>3 DEF Relevant
  <2>5. UNCHANGED Asked
    BY <2>4, CallsAre
  <2>6. CallStates[s] = "running" /\ CallStates' = [CallStates EXCEPT ![s] = "failed"]
    BY <2>1, <2>3, CallsAre
  <2>7. Views' = [Views EXCEPT ![s] = [c \in Buckets |-> AbstractGate!Unseen]]
    <3>1. ~Live(s)' /\ \A t \in Scans \ {s} : Live(t)' <=> Live(t)
      BY <2>3 DEF Live
    <3>2. \A t \in Scans \ {s}, c \in Buckets : Views'[t][c] = Views[t][c]
      BY <2>3, <3>1, ViewsAre
    <3>3. \A c \in Buckets : Views'[s][c] = AbstractGate!Unseen
      BY <3>1, ViewsAre, BlankView
    <3> QED
      BY <3>2, <3>3, RowOfViews
  <2>8. AbstractGate!GiveUp(s)
    BY <2>1, <2>5, <2>6, <2>7 DEF AbstractGate!GiveUp, AbstractGate!worldVars
  <2> QED
    BY <2>8 DEF AbstractGateStep, AbstractGate!Next
<1> QED
  BY <1>2, <1>3, <1>4

\* Whatever locks are busy, timers fire, refreshes come too late or sweeps write between
\* any two awaits of evaluateStalenessGate, it behaves as a gate that looks once at each
\* bucket, judges it once, for a reason that holds at that moment, and answers with the worst
\* (staleness-gate.ts): any number of gates, buckets and instances, any thresholds and TTLs.
THEOREM ImplementsDecision == MarketSpec => DecisionSpec
<1>1. MarketInit => AbstractGate!Init
  <2> SUFFICES ASSUME MarketInit
               PROVE  AbstractGate!Init
    OBVIOUS
  <2>1. /\ gate = [s \in Scans |-> "idle"]
        /\ \A s \in Scans, b \in Buckets : ev[s][b] = NotStarted
        /\ result = [s \in Scans |-> [outcome |-> None, candidates |-> {}]]
    BY DEF MarketInit, GateInit
  <2>2. CallStates = [s \in Scans |-> "idle"]
    BY <2>1 DEF CallStates
  <2>3. Asked = [s \in Scans |-> {}]
    <3>1. \A s \in Scans : Relevant(s) = {}
      BY <2>1 DEF Relevant, NotStarted
    <3> QED
      BY <3>1, CallsAre
  <2>4. Views = [s \in Scans |-> [b \in Buckets |-> AbstractGate!Unseen]]
    <3>1. \A s \in Scans, b \in Buckets : Views[s][b] = AbstractGate!Unseen
      BY <2>1, ViewsAre, BlankView
    <3>2. /\ Views = [s \in Scans |-> Views[s]]
          /\ \A s \in Scans : Views[s] = [b \in Buckets |-> Views[s][b]]
      BY DEF Views
    <3>3. \A s \in Scans : Views[s] = [b \in Buckets |-> AbstractGate!Unseen]
      BY <3>1, <3>2
    <3> QED
      BY <3>2, <3>3
  <2> QED
    BY <2>1, <2>2, <2>3, <2>4 DEF AbstractGate!Init
<1>2. DecisionInv /\ [MarketNext]_marketVars => AbstractGateStep
  <2> SUFFICES ASSUME DecisionInv, [MarketNext]_marketVars
               PROVE  AbstractGateStep
    OBVIOUS
  <2>1. CASE MarketTick \/ RefreshStep \/ UNCHANGED marketVars
    <3>1. UNCHANGED gateVars /\ now' \in {now, now + 1}
      BY <2>1, OthersMove DEF DecisionInv
    <3>2. UNCHANGED <<CallStates, Asked, Views, result>>
      BY <3>1 DEF gateVars, CallStates, Asked, Views, Relevant
    <3> QED
      BY <3>1, <3>2 DEF AbstractGateStep, AbstractGate!Next, AbstractGate!Others
  <2>2. ASSUME NEW s \in Scans, GateStep(s)
        PROVE  AbstractGateStep
    BY <2>2, CallDecides, EvalDecides DEF GateStep, EvalStep
  <2> QED
    BY <2>1, <2>2 DEF MarketNext
<1> QED
  BY <1>1, <1>2, DecisionStart, DecisionStep, PTL
     DEF MarketSpec, DecisionSpec, AbstractGate!Spec, AbstractGateStep
=============================================================================

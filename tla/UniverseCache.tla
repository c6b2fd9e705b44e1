---------------------------- MODULE UniverseCache ----------------------------
(***************************************************************************)
(* The Valkey state of Market Scanning (src/src/lib/universe-cache.ts): the *)
(* bucket hashes, the circuit-breaker hash and the per-bucket lock keys,    *)
(* with the wall clock they are compared with.  Every operator below is ONE *)
(* Valkey command, or a pure function applied between two of them; the      *)
(* modules that extend this one decide how commands interleave.             *)
(*                                                                          *)
(* Abstractions: time is counted in whole units; `expiresAt` and            *)
(* `lastSuccessAt` are left out because no code reads them; a payload is    *)
(* left out because only its presence and its `asOf` decide anything here.  *)
(***************************************************************************)
EXTENDS Integers, Sequences

CONSTANTS
    Buckets,            \* the (parentSector, marketCapTier) pairs
    Owners,             \* everything that may take a bucket lock
    None,               \* an absent hash, lock or timestamp
    FailureThreshold,   \* EODHD_BREAKER_FAILURE_THRESHOLD
    Backoff,            \* EODHD_BREAKER_BACKOFF_SECONDS, a sequence
    SeededEntries,      \* what a bucket hash may hold at the start: the hashes
                        \* have no TTL and outlive the processes
    MaxTime             \* bound: the clock stops here

ASSUME CacheAssumption ==
    /\ FailureThreshold \in Nat \ {0}
    /\ Backoff \in Seq(Nat)
    /\ Len(Backoff) > 0
    /\ MaxTime \in Nat
    /\ None \notin Nat

VARIABLES
    now,        \* the wall clock, read with new Date() or Date.now()
    bucket,     \* universe:bucket:*  -- an Entry, or None when there is no hash
    lock,       \* universe:lock:*    -- a Lock, or None when there is no key
    breaker,    \* universe:breaker
    unguarded   \* history: the buckets whose entry was last written by somebody
                \* who did not own the bucket's lock key

cacheVars == <<now, bucket, unguarded, lock, breaker>>

Tiers == {"FAST", "SLOW"}
Time == Nat \cup {None}
Entry == [asOf : Nat, tier : Tiers]
\* The key holds a process id nobody reads back; `owner` is kept to state properties.
Lock == [owner : Owners, expiresAt : Nat]
Breaker == [state : {"CLOSED", "OPEN"}, failures : Nat,
            openedAt : Time, nextRetryAt : Time]

ASSUME SeedAssumption ==
    SeededEntries \subseteq [asOf : {0}, tier : Tiers] \cup {None}

ASSUME NoneAssumption == None \notin Lock /\ None \notin Entry

Min2(a, b) == IF a < b THEN a ELSE b
Max2(a, b) == IF a < b THEN b ELSE a

-----------------------------------------------------------------------------
(* Circuit breaker *)

\* What an absent hash parses to, and what recordRefreshSuccess writes.
ClosedBreaker ==
    [state |-> "CLOSED", failures |-> 0, openedAt |-> None, nextRetryAt |-> None]

\* Mutant: an alert on every failure from the threshold on.
JustOpenedAgain(seen) == seen.failures + 1 >= FailureThreshold

\* The failure is the one that takes the breaker from CLOSED to OPEN.
JustOpened(seen) ==
    seen.state = "CLOSED" /\ seen.failures + 1 >= FailureThreshold

\* The n-th consecutive failure waits for this entry of the schedule.
BackoffAfter(n) ==
    Backoff[1 + Min2(Max2(n - FailureThreshold, 0), Len(Backoff) - 1)]

\* Mutant: the count stops once OPEN.
AfterFailureStopsCounting(seen, t) ==
    IF seen.state = "CLOSED" /\ ~JustOpened(seen)
    THEN [ClosedBreaker EXCEPT !.failures = seen.failures + 1]
    ELSE [state |-> "OPEN",
          failures |-> IF seen.state = "OPEN" THEN seen.failures ELSE seen.failures + 1,
          openedAt |-> IF seen.state = "OPEN" THEN seen.openedAt ELSE t,
          nextRetryAt |-> t + BackoffAfter(seen.failures + 1)]

\* The hash recordRefreshFailure writes at time t after having read `seen`.
AfterFailure(seen, t) ==
    LET n == seen.failures + 1 IN
    IF seen.state = "CLOSED" /\ ~JustOpened(seen)
    THEN [state |-> "CLOSED", failures |-> n, openedAt |-> None, nextRetryAt |-> None]
    ELSE [state |-> "OPEN",
          failures |-> n,
          openedAt |-> IF seen.state = "OPEN" THEN seen.openedAt ELSE t,
          nextRetryAt |-> t + BackoffAfter(n)]

InBackoff ==
    /\ breaker.state = "OPEN"
    /\ breaker.nextRetryAt # None
    /\ now < breaker.nextRetryAt

-----------------------------------------------------------------------------
(* Single-flight lock *)

LockFree(b) == lock[b] = None

\* SET key pid EX ttl NX, when it answers OK.
TakeLock(b, p, ttl) ==
    lock' = [lock EXCEPT ![b] = [owner |-> p, expiresAt |-> now + ttl]]

\* DEL key: whoever the key belongs to by now.
DeleteLock(b) == lock' = [lock EXCEPT ![b] = None]

\* The clock moves and Valkey drops the lock keys whose TTL has run out.
Elapse ==
    /\ now < MaxTime
    /\ now' = now + 1
    /\ lock' = [b \in Buckets |->
                  IF lock[b] # None /\ lock[b].expiresAt <= now + 1
                  THEN None ELSE lock[b]]
    /\ UNCHANGED <<bucket, unguarded, breaker>>

-----------------------------------------------------------------------------
(* Bucket cache *)

\* HSET of a freshly fetched entry, which looks at no lock; every live writer writes
\* tier FAST.
PutBucket(b, p, asOf) ==
    /\ bucket' = [bucket EXCEPT ![b] = [asOf |-> asOf, tier |-> "FAST"]]
    /\ unguarded' = IF lock[b] # None /\ lock[b].owner = p THEN unguarded \ {b}
                    ELSE unguarded \cup {b}

\* Types of the Valkey state.
CacheTypeOK ==
    /\ now \in Nat
    /\ bucket \in [Buckets -> Entry \cup {None}]
    /\ unguarded \subseteq Buckets
    /\ lock \in [Buckets -> Lock \cup {None}]
    /\ breaker \in Breaker

CacheInit ==
    /\ now = 0
    /\ bucket \in [Buckets -> SeededEntries]
    /\ unguarded = {}
    /\ lock = [b \in Buckets |-> None]
    /\ breaker = ClosedBreaker
=============================================================================

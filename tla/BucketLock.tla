------------------------------ MODULE BucketLock ------------------------------
(***************************************************************************)
(* What the bucket locks promise to the sweeps and the gates (the comments  *)
(* of src/src/lib/universe-cache.ts), without keys and owners: a lease.     *)
(* Nobody enters while somebody is inside whose lease runs.  A holder whose *)
(* lease runs out, or is ended by another's release, overruns it: it stays  *)
(* inside without excluding anybody.  Some actors are punctual: they are    *)
(* never inside when their own lease runs out.  Leaving ends the lease,     *)
(* except by a fault, whose lease runs on and excludes everybody meanwhile. *)
(***************************************************************************)
EXTENDS Integers

CONSTANTS
    Locks, Actors,
    Term,       \* how long the lease of each actor is
    Punctual,   \* the actors that leave before their lease runs out
    Never       \* no lease

VARIABLES
    time,
    holders,    \* lock -> the actors between taking and releasing it
    overrun,    \* lock -> those of them that have lost their lease
    lease,      \* lock -> when the lease on it ends, or Never
    mishaps     \* faults so far

lockVars == <<time, holders, overrun, lease, mishaps>>

Init ==
    /\ time = 0
    /\ holders = [l \in Locks |-> {}]
    /\ overrun = [l \in Locks |-> {}]
    /\ lease = [l \in Locks |-> Never]
    /\ mishaps = 0

Acquire(l, a) ==
    /\ lease[l] = Never
    /\ a \notin holders[l]
    /\ holders[l] = overrun[l]
    /\ holders' = [holders EXCEPT ![l] = @ \cup {a}]
    /\ lease' = [lease EXCEPT ![l] = time + Term[a]]
    /\ UNCHANGED <<time, overrun, mishaps>>

\* A release ends the lease that there is, be it another's.
Release(l, a) ==
    /\ a \in holders[l]
    /\ holders' = [holders EXCEPT ![l] = @ \ {a}]
    /\ overrun' = [overrun EXCEPT ![l] = holders[l] \ {a}]
    /\ lease' = [lease EXCEPT ![l] = Never]
    /\ UNCHANGED <<time, mishaps>>

\* A fault takes holders (often none) away and no lease.
Fault ==
    /\ holders' \in [Locks -> SUBSET Actors]
    /\ \A l \in Locks : holders'[l] \subseteq holders[l]
    /\ overrun' = [l \in Locks |-> overrun[l] \cap holders'[l]]
    /\ mishaps' = mishaps + 1
    /\ UNCHANGED <<time, lease>>

\* The leases that end now: whoever is inside goes on without one.
Ending == {l \in Locks : lease[l] # Never /\ lease[l] <= time + 1}

Pass ==
    /\ time' = time + 1
    /\ \A l \in Ending : (holders[l] \ overrun[l]) \cap Punctual = {}
    /\ overrun' = [l \in Locks |-> IF l \in Ending THEN holders[l] ELSE overrun[l]]
    /\ lease' = [l \in Locks |-> IF l \in Ending THEN Never ELSE lease[l]]
    /\ UNCHANGED <<holders, mishaps>>

Next ==
    \/ Pass
    \/ Fault
    \/ \E l \in Locks, a \in Actors : Acquire(l, a) \/ Release(l, a)

Spec == Init /\ [][Next]_lockVars
=============================================================================

-------------------------- MODULE MCUniverseRefresh --------------------------
(* Instances of UniverseRefresh for TLC. *)
EXTENDS UniverseRefresh

CONSTANTS b1, b2, w1, w2

MCBuckets == {b1, b2}
MCSweepOrder == <<b1, b2>>
MCBackoff == <<1, 2>>

\* States that differ only in what the buckets hold, or in whose process id a lock key
\* carries, behave alike: no guard looks at either, and of the properties of the run only
\* the types, which every write of a bucket and of a key keeps.
Expiries == [b \in Buckets |-> IF lock[b] = None THEN None ELSE lock[b].expiresAt]
Relevant == <<now, breaker, Expiries, queue, pc, job, todo, tally, seen, boundVars, historyVars>>
=============================================================================

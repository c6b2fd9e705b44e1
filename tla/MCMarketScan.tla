---------------------------- MODULE MCMarketScan -----------------------------
(* Instances of MarketScan for TLC. *)
EXTENDS MarketScan

CONSTANTS b1, b2, w1, s1, s2

OneBucket == {b1}
OneBucketOrder == <<b1>>
TwoBuckets == {b1, b2}
TwoBucketsOrder == <<b1, b2>>
ShortBackoff == <<1, 2>>

\* A cold cache or one left by an earlier deployment.
FastSeeds == {None, [asOf |-> 0, tier |-> "FAST"]}
\* The SLOW entries that only fixtures write today.
SlowSeeds == {[asOf |-> 0, tier |-> "SLOW"]}

\* The outage alert and its history decide nothing a lock or a gate depends on, and no
\* property of the run looks at them but for their types.
WithoutAlerts ==
    <<cacheVars, queue, workerVars, boundVars, failedTicks, raced, gateVars>>
=============================================================================

SPECIFICATION MarketSpec
CONSTANTS
    b1 = b1  b2 = b2  w1 = w1  s1 = s1  s2 = s2
    None = None
    SeededEntries <- SlowSeeds
    Buckets <- OneBucket
    SweepOrder <- OneBucketOrder
    Workers = {w1}
    EnabledWorkers = {w1}
    Scans = {s1}
    Owners = {w1, s1}
    FailureThreshold = 2
    Backoff <- ShortBackoff
    MaxTime = 3
    RefreshLockTTL = 2
    MaxSweeps = 2
    MaxFaults = 1
    FastThreshold = 1
    SlowThreshold = 1
    SustainedAfter = 1
    OuterCap = 2
    Timeout = 1
    GateLockSlack = 1
    Latency = 0
    MaxGateFaults = 1
INVARIANT
    MarketTypeOK
PROPERTIES
    LockSpec
    LockKeepsOrder
    DecisionSpec
    DegradedServeMeansOutage
VIEW WithoutAlerts
CHECK_DEADLOCK FALSE

SPECIFICATION MarketSpec
CONSTANTS
    b1 = b1  b2 = b2  w1 = w1  s1 = s1  s2 = s2
    None = None
    SeededEntries <- FastSeeds
    Buckets <- OneBucket
    SweepOrder <- OneBucketOrder
    Workers = {}
    EnabledWorkers = {}
    Scans = {s1, s2}
    Owners = {s1, s2}
    FailureThreshold = 2
    Backoff <- ShortBackoff
    MaxTime = 4
    RefreshLockTTL = 2
    MaxSweeps = 0
    MaxFaults = 0
    FastThreshold = 1
    SlowThreshold = 2
    SustainedAfter = 1
    OuterCap = 3
    Timeout = 1
    GateLockSlack = 1
    Latency = 1
    MaxGateFaults = 0
INVARIANT
    OneCallPerBucket
CHECK_DEADLOCK FALSE

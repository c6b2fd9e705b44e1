SPECIFICATION FairMarketSpec
CONSTANTS
    b1 = b1  b2 = b2  w1 = w1  s1 = s1  s2 = s2
    None = None
    SeededEntries <- FastSeeds
    Buckets <- TwoBuckets
    SweepOrder <- TwoBucketsOrder
    Workers = {}
    EnabledWorkers = {}
    Scans = {s1}
    Owners = {s1}
    FailureThreshold = 2
    Backoff <- ShortBackoff
    MaxTime = 5
    RefreshLockTTL = 2
    MaxSweeps = 0
    MaxFaults = 0
    FastThreshold = 1
    SlowThreshold = 2
    SustainedAfter = 1
    OuterCap = 3
    Timeout = 1
    GateLockSlack = 1
    Latency = 1
    MaxGateFaults = 1
INVARIANT
    OneSkipDiscardsAll
PROPERTIES
    ServedAgeBounded
    EveryGateDecides
CHECK_DEADLOCK FALSE

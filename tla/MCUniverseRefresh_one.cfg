SPECIFICATION FairSpec
CONSTANTS
    b1 = b1  b2 = b2  w1 = w1  w2 = w2
    None = None
    SeededEntries = {None}
    Buckets <- MCBuckets
    SweepOrder <- MCSweepOrder
    Workers = {w1, w2}
    EnabledWorkers = {w1, w2}
    Owners = {w1, w2}
    FailureThreshold = 2
    Backoff <- MCBackoff
    MaxTime = 1
    RefreshLockTTL = 1
    MaxSweeps = 2
    MaxFaults = 1
INVARIANTS
    TypeOK
    CountsConsecutiveFailures
PROPERTIES
    QueueDrains
    QuietInBackoff
    BreakerSpec
VIEW Relevant
CHECK_DEADLOCK FALSE

SPECIFICATION FairSpec
CONSTANTS
    b1 = b1  b2 = b2
    Bots = {b1}
    Open <- OpenMoments
    Preferred <- Allowed
    Concurrency = 2
    MaxTime = 2
    MaxScans = 2
    MaxPauses = 1
    MaxFaults = 2
INVARIANTS
    PipelineTypeOK
    HandOffsAudited
    RetriesNeverRepeat
PROPERTIES
    ScansEnd
    ScansOnlyRevalidated
CHECK_DEADLOCK FALSE

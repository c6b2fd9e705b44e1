SPECIFICATION FairSpec
CONSTANTS
    j1 = j1  j2 = j2  term = term  int = int
    None = None
    Jobs = {j1, j2}
    Signals = {term, int}
    Interval = 1
    TTL = 3
    ShutdownTimeout = 2
    KillAfter = 2
    MaxTime = 6
    MaxFaults = 3
INVARIANTS
    ProcessTypeOK
    KeyTellsService
    CutHasCause
PROPERTY
    DrainEnds
CHECK_DEADLOCK FALSE

SPECIFICATION FairSpec
CONSTANTS
    THROTTLE = 2
    Threads = 1
    MaxCalls = 3
    MaxTime = 5
    MaxBacks = 0
INVARIANT LatestNeverDropped
CHECK_DEADLOCK FALSE

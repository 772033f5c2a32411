SPECIFICATION FairSpec
CONSTANTS
    THROTTLE = 2
    Threads = 3
    MaxCalls = 3
    MaxTime = 3
    MaxBacks = 1
INVARIANTS
    TypeOK
    OneFlushArmed
    NoLostWakeup
    AtMostOnce
PROPERTIES
    DirectKeepsInterval
    DeferredIsAnnounced
    ImplementsAnnouncer
CHECK_DEADLOCK FALSE

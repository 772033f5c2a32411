SPECIFICATION FairSpec
CONSTANTS
    None = None
    N_OPTIONS = 2
    RATIO_LIMIT = 16
    Requests <- Commands
    MAX_CONNECTIONS = 3
    CAP = 3
    MAX_ATTEMPTS = 2
    VOTE_INTERVAL = 1
    SETTLE = 2
    ROUNDS = 2
    ROUND = 1
    PROPAGATION = 2
    HOLD = 2
    RECV_TIMEOUT = 2
    MaxBots = 4
INVARIANTS
    TypeOK
    AllocationSound
    BarrierHolds
    ListenersHaveFinalTally
    VerdictOfTwoPasses
    VerdictDetermined
    MissingHasCause
PROPERTY EndsUnlessFickleFails
CHECK_DEADLOCK FALSE

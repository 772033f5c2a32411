SPECIFICATION FairSpec
CONSTANTS
    MAX_CONNECTIONS = 2
    CAP = 2
    MaxConn = 2
    MaxRefused = 1
    MaxLines = 1
PROPERTIES
    ClosedPeerLeaves
    ShutdownEndsHandler
    OnlyThreeThingsHoldShutdown
CHECK_DEADLOCK FALSE

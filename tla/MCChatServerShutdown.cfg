SPECIFICATION FairSpec
CONSTANTS
    MAX_CONNECTIONS = 2
    CAP = 8
    MaxConn = 2
    MaxRefused = 0
    MaxLines = 0
PROPERTY ShutdownCompletes
CHECK_DEADLOCK FALSE

SPECIFICATION Spec
CONSTANTS
    MAX_CONNECTIONS = 2
    CAP = 2
    MaxConn = 3
    MaxRefused = 1
    MaxLines = 0
INVARIANTS
    TypeOK
    PermitsExact
    NoHandlerForgotten
    PresenceMatchesMembers
    LeakedOnlyByFailedWelcome
CHECK_DEADLOCK FALSE

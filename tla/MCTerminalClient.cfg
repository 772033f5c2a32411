SPECIFICATION Spec
CONSTANTS
    Client = {c1, c2, c3}
    Name = {n1}
    None = None
    N_OPTIONS = 2
    MAX_MESSAGES = 3
    MaxEntered = 3
CONSTRAINT TwoOrSilent
SYMMETRY Symmetric
INVARIANTS
    TypeOK
    CountRightIfAlone
    OwnVoteMarked
    LinesNamed
    ListIsLatest
PROPERTY ErrorSettledAtJoin
CHECK_DEADLOCK FALSE

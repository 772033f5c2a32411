SPECIFICATION ObsSpec
CONSTANTS
    Client = {c1, c2, c3}
    N_OPTIONS = 2
    None = None
SYMMETRY Symmetric
INVARIANTS
    TypeOK
    CountsExact
    NeverNegative
    ReadYourVote
    EmptyBoardWhenAllGone
    SteadyHolderCounted
CHECK_DEADLOCK FALSE

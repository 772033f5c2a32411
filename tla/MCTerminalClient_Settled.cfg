SPECIFICATION Spec
CONSTANTS
    Client = {c1, c2}
    Name = {n1}
    None = None
    N_OPTIONS = 2
    MAX_MESSAGES = 3
    MaxEntered = 0
INVARIANT SettledCountIsRight
CHECK_DEADLOCK FALSE

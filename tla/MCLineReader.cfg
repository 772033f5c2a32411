SPECIFICATION Spec
CONSTANTS
    NL = NL
    CR = CR
    Byte = {NL, CR, other}
    max_len = 2
    MaxInput = 7
INVARIANTS
    TypeOK
    BufferBounded
    LinesFaithful
    NothingLeftBehind
PROPERTY ImplementsLineSource
CHECK_DEADLOCK FALSE

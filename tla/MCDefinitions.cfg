SPECIFICATION Spec
CONSTANTS
    Program <- MCProgram
    Exact <- MCExact
INVARIANTS
    RightChannel
    NothingLost
CHECK_DEADLOCK FALSE

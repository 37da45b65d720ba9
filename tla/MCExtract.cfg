SPECIFICATION FairSpec
CONSTANTS
    a = a
    b = b
    c = c
    d = d
    Chan = {a, b, c, d}
    Role <- MCRole
    Label <- MCLabel
    Node <- MCNode
    Program <- MCProgram
    MaxFrames = 6
    MaxNodes = 60
    Depth = 5
INVARIANTS
    TypeOK
    FreshLeaf
    LabelBeforeGoto
    GoroutinesVisited
    ProgramWithinSession
    SessionWithinProgram
PROPERTY
    Ends

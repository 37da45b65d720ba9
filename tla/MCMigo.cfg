SPECIFICATION FairSpec
CONSTANTS
    a = a
    b = b
    c = c
    d = d
    side = side
    Chan = {a, b, c, d, side}
    Role <- MCRole
    Label <- MCLabel
    Node <- MCNode
    Program <- MCProgram
    MaxFrames = 8
    MaxStmts = 20
    Depth = 5
INVARIANTS
    TypeOK
    PutAwaysMatch
    ProgramWithinMigo
    MigoWithinProgram
    CallsDefined
    Unrolled

    

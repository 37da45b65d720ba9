SPECIFICATION Spec
CONSTANTS
    a = a
    b = b
    c = c
    d = d
    Chan = {a, b, c, d}
    Role <- MCRole
    Label <- MCLabel
    Node <- MCNode
    Program <- MCMutual
    MaxFrames = 12
    MaxNodes = 60
    Depth = 5
INVARIANT
    RepetitionDetected

SPECIFICATION Spec
CONSTANTS
    Input <- MCInput
    NoFn = NoFn
    c1 = c1
    c2 = c2
    c3 = c3
INVARIANTS
    NothingUnsafeMissed
CHECK_DEADLOCK FALSE

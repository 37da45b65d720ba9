SPECIFICATION Spec
CONSTANTS
    main = main
    worker = worker
    idle = idle
    a = a
    b = b
    loop = loop
    other = other
    NoRole = NoRole
    Role = {main, worker, idle}
    Chan = {a, b}
    Label = {loop, other}
    Node <- MCNode
    Session <- MCSession
    Depth = 4
INVARIANTS
    TypeOK
    EndpointsAllocated
    Linked
    PeersInSystem
    OnlySilentRolesRemoved
    DataIsRelayed
    MachineWithinSession
    SessionWithinMachine

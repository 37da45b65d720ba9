SPECIFICATION FairSpec
CONSTANTS
    Tasks = {ann, ben}
    Jobs <- MCJobs
    BufLines = 2
INVARIANTS
    TypeOK
    LogKept
    HalfResults
    OwnMachines
    OwnGlobal
PROPERTIES
    KeepsPromise
    Served
CHECK_DEADLOCK FALSE

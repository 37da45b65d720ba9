SPECIFICATION Spec
CONSTANTS
    Tasks = {ann, ben}
    Jobs <- MCJobs
    BufLines = 2
INVARIANT ErrorsReported
CHECK_DEADLOCK FALSE

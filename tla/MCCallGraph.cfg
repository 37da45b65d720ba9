SPECIFICATION FairSpec
CONSTANTS
    Builder = {one, two}
    Loaded <- MCLoaded
INVARIANTS
    TypeOK
    ChildrenCalled
    DirectCalleesWritten
    NodesOnce
    AloneSucceeds
PROPERTY
    Ends

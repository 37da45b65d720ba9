SPECIFICATION Spec
CONSTANTS
    Builder = {one}
    Loaded <- MCLoaded
INVARIANT UsedFunctionsWritten

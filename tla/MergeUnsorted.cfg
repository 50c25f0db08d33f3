CONSTANTS
    NULL = NULL
    Scale = 10
    TopRows = 2
    EtlObjectCount = 2
    Runs <- Q5Runs
    Hash <- MCHash
SPECIFICATION Spec
INVARIANT MergeInputsSorted

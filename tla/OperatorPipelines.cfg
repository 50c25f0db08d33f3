CONSTANTS
    NULL = NULL
    MinInt <- MCMinInt
    DoubleScale = 840
    Inputs <- MCInputs
    Operations <- MCOperations
    MaxOps = 2
    MaxJoinRows = 3
    MaxColumns = 4
    ChunkDefaultSize = 2
    DesiredChunkSize = 2
    HashCombine <- MCHashCombine
SPECIFICATION Spec
CHECK_DEADLOCK FALSE
INVARIANTS FilterSelects ProjectionComputes NullsAreDeclared SortOrders PartitionKeeps JoinMatches AggregateGroups CrashNeedsCause

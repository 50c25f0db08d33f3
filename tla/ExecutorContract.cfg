SPECIFICATION FairSpec
CONSTANTS
    scan = scan
    join = join
    h1 = h1
    h2 = h2
    Pipelines = {scan, join}
    Predecessors <- ScanThenJoin
    Fragments <- TwoAndOne
    MaxFailures = 1
    AwsMayThrow = TRUE
    Handlers = {h1, h2}
    Threshold = 1
    MaxBatch = 1
    MaxAttempts = 1
    WorkerOutcomes = {"ok", "fail", "malformed", "crash"}
    InvokeMayFail = TRUE
INVARIANT ResultIsProduced
PROPERTIES KeepsContract Responds
CHECK_DEADLOCK FALSE

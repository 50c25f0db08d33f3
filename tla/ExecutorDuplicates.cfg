SPECIFICATION Spec
CONSTANTS
    scan = scan
    join = join
    h1 = h1
    h2 = h2
    Pipelines = {scan, join}
    Predecessors <- ScanThenJoin
    Fragments <- TwoAndOne
    MaxFailures = 0
    AwsMayThrow = FALSE
    Handlers = {h1, h2}
    Threshold = 1
    MaxBatch = 1
    MaxAttempts = 2
    WorkerOutcomes = {"ok"}
    InvokeMayFail = FALSE
SYMMETRY HandlerSymmetry
INVARIANTS ConsumerAfterProducer CollectorDrains

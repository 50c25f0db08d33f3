CONSTANTS
    NULL = NULL
    Scale = 10
    TopRows = 2
    EtlObjectCount = 2
    Runs <- MCRuns
    Hash <- MCHash
SPECIFICATION Spec
INVARIANTS ResultIsAnswer FailureNeedsCause InputsAreShared WorkerRunsThePlan

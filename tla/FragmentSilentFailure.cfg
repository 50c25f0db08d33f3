SPECIFICATION Spec
CONSTANTS
    import = import
    left = left
    right = right
    export = export
    job1 = job1
    job2 = job2
    t1 = t1
    t2 = t2
    Tasks <- NestedTasks
    Roots <- NestedRoots
    Predecessors <- NestedPredecessors
    Subtasks <- ImportHasSubtasks
    Outcomes <- MayFail
    Threads = {t1}
    Client = client
    Waits = {"WaitForTasks"}
    DebugBuild = TRUE
INVARIANT NoSilentFailure
CHECK_DEADLOCK FALSE

SPECIFICATION FairSpec
CONSTANTS
    import = import
    left = left
    right = right
    export = export
    job1 = job1
    job2 = job2
    t1 = t1
    t2 = t2
    Tasks <- JoinTasks
    Roots <- JoinRoots
    Predecessors <- JoinPredecessors
    Subtasks <- LeftHasSubtask
    Outcomes <- MayFail
    Threads = {t1, t2}
    Client = client
    Waits = {"WaitForTasks"}
    DebugBuild = TRUE
PROPERTY FailureIsAnswered
CHECK_DEADLOCK FALSE

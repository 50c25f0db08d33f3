SPECIFICATION Spec
CONSTANTS
    import = import
    left = left
    right = right
    export = export
    job1 = job1
    job2 = job2
    t1 = t1
    t2 = t2
    Tasks <- DiamondTasks
    Roots <- DiamondRoots
    Predecessors <- DiamondPredecessors
    Subtasks <- LeftHasSubtask
    Outcomes <- MayFail
    Threads = {t1, t2}
    Client = client
    Waits = {"WaitForTasks", "WaitForAllTasks"}
    DebugBuild = FALSE
SYMMETRY ThreadSymmetry
INVARIANTS TypeOK DependencyOrder NoStrandedTask PendingIsExact OneJobPerTask InputsAvailable QuietOnReturn NoAbortWithoutFailure
CHECK_DEADLOCK FALSE

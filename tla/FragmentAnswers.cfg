SPECIFICATION FairSpec
CONSTANTS
    import = import
    left = left
    right = right
    export = export
    job1 = job1
    job2 = job2
    t1 = t1
    t2 = t2
    Tasks <- WaitTasks
    Roots <- JoinRoots
    Predecessors <- WaitPredecessors
    Subtasks <- LeavesHaveSubtask
    Outcomes <- AlwaysOk
    Threads = {t1, t2}
    Client = client
    Waits = {"WaitForTasks"}
    DebugBuild = FALSE
PROPERTY Responds

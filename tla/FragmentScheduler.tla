-------------------------- MODULE FragmentScheduler --------------------------
(***************************************************************************)
(* The worker's task engine: AbstractTask, OperatorTask, FragmentScheduler *)
(* and TaskExecutor (src/lib/scheduler/worker).                            *)
(*                                                                         *)
(* The Lambda handler thread (Client) hands the operator tasks of one      *)
(* fragment to the scheduler and waits for them; a pool of Threads runs    *)
(* the jobs of one queue.  A running task may itself schedule subtasks and *)
(* wait for them, in which case its thread keeps running jobs from the     *)
(* queue, so a thread carries a stack of jobs of which the top one runs.   *)
(*                                                                         *)
(* An ACTIVITY is a sequential flow of control: the client, or the job of  *)
(* a task.  Every atomic access to shared state (a task's state_, its      *)
(* pending_predecessors_, num_scheduled_tasks_, the job queue) is a step   *)
(* of its own.                                                             *)
(***************************************************************************)
EXTENDS Integers, Sequences, FiniteSets

CONSTANTS
    Tasks,          \* every AbstractTask that can come into being
    Threads,        \* the executor's thread pool
    Client,         \* the thread that owns the scheduler
    Predecessors,   \* predecessors_ of each task, fixed before scheduling
    Subtasks,       \* the tasks a task schedules and awaits in OnExecute
    Roots,          \* the OperatorTasks the client hands to the scheduler
    Outcomes,       \* how OnExecute of a task may end
    Waits,          \* the calls the client may use to wait for its tasks
    DebugBuild      \* SKYRISE_DEBUG: DebugAssert is compiled in

Outcome == {"ok", "assertion", "exception"}

ASSUME FragmentAssumption ==
    /\ IsFiniteSet(Tasks)
    /\ Client \notin Tasks
    /\ Predecessors \in [Tasks -> SUBSET Tasks]
    /\ Subtasks \in [Tasks -> SUBSET Tasks]
    /\ Roots \subseteq Tasks
    /\ Outcomes \in [Tasks -> SUBSET Outcome]
    /\ Waits \subseteq {"WaitForTasks", "WaitForAllTasks"}
    /\ DebugBuild \in BOOLEAN

(* Only OperatorTask::GenerateTasksFromOperator sets predecessors, between *)
(* tasks it hands out together; subtasks are made in OnExecute, for the    *)
(* task that awaits them, so no set of tasks awaits itself.                *)
ASSUME TaskGraphAssumption ==
    /\ \A t \in Roots : Predecessors[t] \subseteq Roots
    /\ \A t \in Tasks \ Roots : Predecessors[t] = {}
    /\ \A t \in Tasks : Subtasks[t] \cap Roots = {}
    /\ \A S \in SUBSET Tasks : S # {} => \E s \in S : \A t \in S : s \notin Subtasks[t]

(***************************************************************************)
(* TaskState is ordered; IsScheduled compares with >=.                     *)
(***************************************************************************)
kCreated   == 0
kScheduled == 1
kEnqueued  == 2
kStarted   == 3
kDone      == 4
TaskState  == kCreated .. kDone

Activities    == Tasks \cup {Client}
Successors(t) == {s \in Tasks : t \in Predecessors[s]}

VARIABLES
    state,      \* state_ of each task
    pending,    \* pending_predecessors_ of each task
    exception,  \* exception_ptr_ of each task is set
    output,     \* the operator of the task holds its output table
    queue,      \* the executor's job queue; a job is named by its task
    closed,     \* closed_ of that queue
    running,    \* is_running_ of the executor
    num,        \* num_scheduled_tasks_; -k stands for 2^64 - k
    stack,      \* jobs each thread is running, the innermost first
    loop,       \* where a thread with no job is in WorkerMain
    pc,         \* where each activity is
    cur,        \* the task an activity is scheduling, submitting or joining
    todo,       \* tasks the current loop of an activity has yet to visit
    rest,       \* successors OnTaskFinished of a task has yet to visit
    holders,    \* activities that hold a shared_ptr to the scheduler
    result,     \* WaitForTasks returned or threw, or WaitForAllTasks returned
    aborted     \* std::terminate or a segmentation fault ended the process

taskVars   == <<state, pending, exception, output>>
execVars   == <<queue, closed, running, stack, loop>>
flowVars   == <<pc, cur, todo, rest>>
clientVars == <<holders, result, aborted>>
vars       == <<taskVars, execVars, num, flowVars, clientVars>>

IsReady(t)     == pending[t] = 0
IsScheduled(t) == state[t] >= kScheduled
IsDone(t)      == state[t] = kDone

Init ==
    /\ state = [t \in Tasks |-> kCreated]
    /\ pending = [t \in Tasks |-> Cardinality(Predecessors[t])]
    /\ exception = [t \in Tasks |-> FALSE]
    /\ output = [t \in Tasks |-> FALSE]
    /\ queue = <<>>
    /\ closed = FALSE
    /\ running = TRUE
    /\ num = 0
    /\ stack = [th \in Threads |-> <<>>]
    /\ loop = [th \in Threads |-> "check"]
    /\ pc = [a \in Activities |-> IF a = Client THEN "schedule" ELSE "idle"]
    /\ cur = [a \in Activities |-> a]
    /\ todo = [a \in Activities |-> IF a = Client THEN Roots ELSE {}]
    /\ rest = [t \in Tasks |-> Successors(t)]
    /\ holders = {Client}
    /\ result = "none"
    /\ aborted = FALSE

(* The job of t runs on th when it is the innermost one of th's stack.     *)
Runs(th, t) == stack[th] # <<>> /\ Head(stack[th]) = t

Goto(a, label) == pc' = [pc EXCEPT ![a] = label]
At(a, label)   == pc[a] = label

(* An uncaught exception, a failed Assert outside the try block of Execute *)
(* or a null dereference ends the process.                                 *)
Abort ==
    /\ aborted' = TRUE
    /\ UNCHANGED <<taskVars, execVars, num, flowVars, holders, result>>

-----------------------------------------------------------------------------
(***************************************************************************)
(* FragmentScheduler::Schedule and Submit, run by any activity.  todo      *)
(* holds the tasks for which Schedule has yet to be called, in any order.  *)
(***************************************************************************)
Schedule(a) ==
    /\ At(a, "schedule")
    /\ \E t \in todo[a] :
         IF state[t] >= kScheduled
         THEN /\ todo' = [todo EXCEPT ![a] = @ \ {t}]
              /\ UNCHANGED <<state, pc, cur>>
         ELSE /\ state' = [state EXCEPT ![t] = kScheduled]
              /\ todo' = [todo EXCEPT ![a] = @ \ {t}]
              /\ cur' = [cur EXCEPT ![a] = t]
              /\ Goto(a, "count")
    /\ UNCHANGED <<pending, exception, output, execVars, num, rest, clientVars>>

(* Mutant: the task is not counted.                                        *)
CountNothing(a) ==
    /\ At(a, "count")
    /\ Goto(a, "ready")
    /\ UNCHANGED <<taskVars, execVars, num, cur, todo, rest, clientVars>>

CountScheduled(a) ==
    /\ At(a, "count")
    /\ num' = num + 1
    /\ Goto(a, "ready")
    /\ UNCHANGED <<taskVars, execVars, cur, todo, rest, clientVars>>

(* Mutant: Schedule submits without asking IsReady.                        *)
SubmitUnready(a) ==
    /\ At(a, "ready")
    /\ Goto(a, "submit")
    /\ UNCHANGED <<taskVars, execVars, num, cur, todo, rest, clientVars>>

CheckReady(a) ==
    /\ At(a, "ready")
    /\ IF IsReady(cur[a])
       THEN /\ Goto(a, "submit")
            /\ UNCHANGED todo
       ELSE /\ todo' = [todo EXCEPT ![a] = @ \cup Predecessors[cur[a]]]
            /\ Goto(a, "schedule")
    /\ UNCHANGED <<taskVars, execVars, num, cur, rest, clientVars>>

(* Submit is called from Schedule, or from OnTaskFinished once the task of *)
(* the calling job is done.                                                *)
AfterSubmit(a) ==
    IF a \in Tasks /\ state[a] = kDone THEN "finish" ELSE "schedule"

(* Mutant: the result of TryTransitionToEnqueued is ignored.               *)
EnqueueAgain(a) ==
    /\ At(a, "submit")
    /\ state' = [state EXCEPT ![cur[a]] = kEnqueued]
    /\ Goto(a, "push")
    /\ UNCHANGED <<pending, exception, output, execVars, num, cur, todo, rest,
                   clientVars>>

TryEnqueue(a) ==
    /\ At(a, "submit")
    /\ IF state[cur[a]] >= kEnqueued
       THEN /\ Goto(a, AfterSubmit(a))
            /\ UNCHANGED state
       ELSE /\ state' = [state EXCEPT ![cur[a]] = kEnqueued]
            /\ Goto(a, "push")
    /\ UNCHANGED <<pending, exception, output, execVars, num, cur, todo, rest,
                   clientVars>>

(* Mutant: the job captures the caller instead of the submitted task.      *)
PushCaller(a) ==
    /\ At(a, "push")
    /\ queue' = IF closed THEN queue ELSE Append(queue, a)
    /\ Goto(a, AfterSubmit(a))
    /\ UNCHANGED <<taskVars, closed, running, stack, loop, num, cur, todo, rest,
                   clientVars>>

(* A closed queue drops the job; TaskExecutor::Submit ignores the result.  *)
PushJob(a) ==
    /\ At(a, "push")
    /\ queue' = IF closed THEN queue ELSE Append(queue, cur[a])
    /\ Goto(a, AfterSubmit(a))
    /\ UNCHANGED <<taskVars, closed, running, stack, loop, num, cur, todo, rest,
                   clientVars>>

SchedulerStep(a) ==
    Schedule(a) \/ CountScheduled(a) \/ CheckReady(a) \/ TryEnqueue(a) \/ PushJob(a)

-----------------------------------------------------------------------------
(***************************************************************************)
(* AbstractTask::Execute and OnTaskFinished: the job of task t.            *)
(***************************************************************************)
MissingInput(t) == t \in Roots /\ \E p \in Predecessors[t] : ~output[p]

(* An operator reads its input tables before it schedules any subtask.     *)
Execute(t) ==
    /\ At(t, "execute")
    /\ IF state[t] = kEnqueued
       THEN /\ state' = [state EXCEPT ![t] = kStarted]
            /\ Goto(t, IF Subtasks[t] = {} \/ MissingInput(t)
                       THEN "operate" ELSE "acquire")
            /\ UNCHANGED <<pending, exception, output, execVars, num, cur, todo,
                           rest, clientVars>>
       ELSE Abort

(* OnExecute obtains the scheduler from the execution context, holds the   *)
(* shared_ptr while it runs ScheduleAndWaitForTasks, and releases it.      *)
AcquireScheduler(t) ==
    /\ At(t, "acquire")
    /\ holders' = holders \cup {t}
    /\ todo' = [todo EXCEPT ![t] = Subtasks[t]]
    /\ Goto(t, "schedule")
    /\ UNCHANGED <<taskVars, execVars, num, cur, rest, result, aborted>>

WaitForSubtasks(t) ==
    /\ At(t, "schedule") /\ todo[t] = {}
    /\ Goto(t, "nested")
    /\ UNCHANGED <<taskVars, execVars, num, cur, todo, rest, clientVars>>

(* The last owner runs ~FragmentScheduler.  On an executor thread it joins *)
(* itself: std::thread::join throws inside a destructor.                   *)
SubtasksDone(t) ==
    /\ At(t, "nested")
    /\ \A s \in Subtasks[t] : IsDone(s)
    /\ IF holders = {t}
       THEN Abort
       ELSE /\ holders' = holders \ {t}
            /\ Goto(t, "operate")
            /\ UNCHANGED <<taskVars, execVars, num, cur, todo, rest, result, aborted>>

(* AbstractOperator::Execute without a predecessor's table: a DebugAssert  *)
(* in debug builds, a null dereference in release builds.                  *)
Ends(t) == IF MissingInput(t)
           THEN IF DebugBuild THEN {"assertion"} ELSE {"exception"}
           ELSE Outcomes[t]

(* OnExecute ends: only an AssertionFailedException is caught.             *)
Operate(t) ==
    /\ At(t, "operate")
    /\ \/ /\ "ok" \in Ends(t)
          /\ output' = [output EXCEPT ![t] = t \in Roots]
          /\ todo' = [todo EXCEPT ![t] = IF t \in Roots THEN Predecessors[t] ELSE {}]
          /\ Goto(t, "clear")
          /\ UNCHANGED <<state, pending, exception, execVars, num, cur, rest,
                         clientVars>>
       \/ /\ "assertion" \in Ends(t)
          /\ exception' = [exception EXCEPT ![t] = TRUE]
          /\ Goto(t, "complete")
          /\ UNCHANGED <<state, pending, output, execVars, num, cur, todo, rest,
                         clientVars>>
       \/ /\ "exception" \in Ends(t)
          /\ Abort

(* Mutant: an input is released by the first successor that used it.       *)
NeverNeeded(p, t) == FALSE

StillNeeded(p, t) == \E s \in Successors(p) \ {t} : ~IsDone(s)

(* OperatorTask::OnExecute releases the inputs no other successor needs.   *)
ClearInput(t) ==
    /\ At(t, "clear")
    /\ \E p \in todo[t] :
         /\ output' = [output EXCEPT ![p] = @ /\ StillNeeded(p, t)]
         /\ todo' = [todo EXCEPT ![t] = @ \ {p}]
    /\ UNCHANGED <<state, pending, exception, execVars, num, pc, cur, rest,
                   clientVars>>

InputsCleared(t) ==
    /\ At(t, "clear") /\ todo[t] = {}
    /\ Goto(t, "complete")
    /\ UNCHANGED <<taskVars, execVars, num, cur, todo, rest, clientVars>>

Complete(t) ==
    /\ At(t, "complete")
    /\ IF state[t] = kStarted
       THEN /\ state' = [state EXCEPT ![t] = kDone]
            /\ Goto(t, "wake")
            /\ UNCHANGED <<pending, exception, output, execVars, num, cur, todo,
                           rest, clientVars>>
       ELSE Abort

(* Mutant: nobody is notified that the task is done.                       *)
WakeNobody(t) ==
    /\ At(t, "wake")
    /\ Goto(t, "finish")
    /\ UNCHANGED <<taskVars, execVars, num, cur, todo, rest, clientVars>>

(* done_condition_variable_.notify_all() wakes the client out of Join.     *)
WakeJoiner(t) ==
    /\ At(t, "wake")
    /\ pc' = [pc EXCEPT
                ![t] = "finish",
                ![Client] = IF @ = "joinWait" /\ cur[Client] = t THEN "joined" ELSE @]
    /\ UNCHANGED <<taskVars, execVars, num, cur, todo, rest, clientVars>>

(* Mutant: the count of a successor is taken down only once it is          *)
(* scheduled.                                                              *)
DecrementScheduled(t) ==
    /\ At(t, "finish")
    /\ \E s \in rest[t] :
         /\ pending' = [pending EXCEPT ![s] = IF IsScheduled(s) THEN @ - 1 ELSE @]
         /\ rest' = [rest EXCEPT ![t] = @ \ {s}]
         /\ cur' = [cur EXCEPT ![t] = s]
         /\ Goto(t, IF pending'[s] = 0 THEN "last" ELSE "finish")
    /\ UNCHANGED <<state, exception, output, execVars, num, todo, clientVars>>

DecrementSuccessor(t) ==
    /\ At(t, "finish")
    /\ \E s \in rest[t] :
         IF pending[s] > 0
         THEN /\ pending' = [pending EXCEPT ![s] = @ - 1]
              /\ rest' = [rest EXCEPT ![t] = @ \ {s}]
              /\ cur' = [cur EXCEPT ![t] = s]
              /\ Goto(t, IF pending[s] = 1 THEN "last" ELSE "finish")
              /\ UNCHANGED <<state, exception, output, execVars, num, todo,
                             clientVars>>
         ELSE Abort

(* Mutant: the submission is left to Schedule.                             *)
LeaveToSchedule(t) ==
    /\ At(t, "last")
    /\ Goto(t, "finish")
    /\ UNCHANGED <<taskVars, execVars, num, cur, todo, rest, clientVars>>

(* The last predecessor submits the successor only if it is scheduled.     *)
CheckSuccessorScheduled(t) ==
    /\ At(t, "last")
    /\ Goto(t, IF IsScheduled(cur[t]) THEN "submit" ELSE "finish")
    /\ UNCHANGED <<taskVars, execVars, num, cur, todo, rest, clientVars>>

UncountScheduled(t) ==
    /\ At(t, "finish") /\ rest[t] = {}
    /\ num' = num - 1
    /\ Goto(t, IF num = 1 THEN "notify" ELSE "end")
    /\ UNCHANGED <<taskVars, execVars, cur, todo, rest, clientVars>>

(* lock_condition_.notify_all(), called without holding lock_.             *)
NotifyAllDone(t) ==
    /\ At(t, "notify")
    /\ pc' = [pc EXCEPT
                ![t] = "end",
                ![Client] = IF @ = "asleepAll" THEN "checkAll" ELSE @]
    /\ UNCHANGED <<taskVars, execVars, num, cur, todo, rest, clientVars>>

JobStep(t) ==
    \/ Execute(t) \/ AcquireScheduler(t) \/ WaitForSubtasks(t) \/ SubtasksDone(t)
    \/ Operate(t) \/ ClearInput(t) \/ InputsCleared(t) \/ Complete(t)
    \/ WakeJoiner(t) \/ DecrementSuccessor(t) \/ CheckSuccessorScheduled(t)
    \/ UncountScheduled(t) \/ NotifyAllDone(t)

-----------------------------------------------------------------------------
(***************************************************************************)
(* TaskExecutor: a thread with no job is in WorkerMain.                    *)
(***************************************************************************)
WorkerMain(th) ==
    /\ stack[th] = <<>> /\ loop[th] = "check"
    /\ loop' = [loop EXCEPT ![th] = IF running THEN "pop" ELSE "exited"]
    /\ UNCHANGED <<taskVars, queue, closed, running, stack, num, flowVars, clientVars>>

StartJob(th) ==
    /\ queue' = Tail(queue)
    /\ stack' = [stack EXCEPT ![th] = <<Head(queue)>> \o @]
    /\ Goto(Head(queue), "execute")

(* WorkerProcessSingleItem: Pop blocks until there is a job or the queue   *)
(* is closed; the jobs left in a closed queue can still be received.       *)
WorkerProcessSingleItem(th) ==
    /\ stack[th] = <<>> /\ loop[th] = "pop"
    /\ queue # <<>> \/ closed
    /\ loop' = [loop EXCEPT ![th] = "check"]
    /\ IF queue # <<>> THEN StartJob(th) ELSE UNCHANGED <<queue, stack, pc>>
    /\ UNCHANGED <<taskVars, closed, running, num, cur, todo, rest, clientVars>>

(* WorkerProcessSingleItemNoWait, called while subtasks are pending: a job *)
(* popped after is_running_ was reset is dropped.                          *)
WorkerProcessSingleItemNoWait(th) ==
    /\ stack[th] # <<>>
    /\ LET t == Head(stack[th]) IN
         /\ At(t, "nested")
         /\ \E s \in Subtasks[t] : ~IsDone(s)
    /\ queue # <<>> /\ ~closed
    /\ IF running
       THEN StartJob(th)
       ELSE queue' = Tail(queue) /\ UNCHANGED <<stack, pc>>
    /\ UNCHANGED <<taskVars, closed, running, loop, num, cur, todo, rest, clientVars>>

EndJob(th) ==
    /\ stack[th] # <<>>
    /\ LET t == Head(stack[th]) IN At(t, "end") /\ Goto(t, "ended")
    /\ stack' = [stack EXCEPT ![th] = Tail(@)]
    /\ UNCHANGED <<taskVars, queue, closed, running, loop, num, cur, todo, rest,
                   clientVars>>

ThreadStep(th) ==
    /\ ~aborted
    /\ \/ WorkerMain(th)
       \/ WorkerProcessSingleItem(th)
       \/ WorkerProcessSingleItemNoWait(th)
       \/ EndJob(th)
       \/ \E t \in Tasks : Runs(th, t) /\ (SchedulerStep(t) \/ JobStep(t))

-----------------------------------------------------------------------------
(***************************************************************************)
(* The client: ScheduleTasks, then WaitForTasks or WaitForAllTasks, then   *)
(* the scheduler goes out of scope.                                        *)
(***************************************************************************)
StartWaiting ==
    /\ At(Client, "schedule") /\ todo[Client] = {}
    /\ \/ /\ "WaitForAllTasks" \in Waits
          /\ Goto(Client, "checkAll")
          /\ UNCHANGED todo
       \/ /\ "WaitForTasks" \in Waits
          /\ Goto(Client, "join")
          /\ todo' = [todo EXCEPT ![Client] = Roots]
    /\ UNCHANGED <<taskVars, execVars, num, cur, rest, clientVars>>

Join ==
    /\ At(Client, "join")
    /\ \E t \in todo[Client] :
         /\ cur' = [cur EXCEPT ![Client] = t]
         /\ Goto(Client, IF IsDone(t) THEN "joined" ELSE "joinWait")
    /\ UNCHANGED <<taskVars, execVars, num, todo, rest, clientVars>>

RethrowOrContinue ==
    /\ At(Client, "joined")
    /\ IF exception[cur[Client]]
       THEN result' = "failure" /\ Goto(Client, "leave") /\ UNCHANGED todo
       ELSE /\ todo' = [todo EXCEPT ![Client] = @ \ {cur[Client]}]
            /\ Goto(Client, "join")
            /\ UNCHANGED result
    /\ UNCHANGED <<taskVars, execVars, num, cur, rest, holders, aborted>>

AllJoined ==
    /\ At(Client, "join") /\ todo[Client] = {}
    /\ result' = "success"
    /\ Goto(Client, "leave")
    /\ UNCHANGED <<taskVars, execVars, num, cur, todo, rest, holders, aborted>>

(* WaitForAllTasks evaluates its predicate and then blocks; lock_ keeps    *)
(* nobody from changing num_scheduled_tasks_ in between.                   *)
CheckAllDone ==
    /\ At(Client, "checkAll")
    /\ IF num = 0
       THEN result' = "drained" /\ Goto(Client, "leave")
       ELSE Goto(Client, "dozeAll") /\ UNCHANGED result
    /\ UNCHANGED <<taskVars, execVars, num, cur, todo, rest, holders, aborted>>

BlockUntilNotified ==
    /\ At(Client, "dozeAll")
    /\ Goto(Client, "asleepAll")
    /\ UNCHANGED <<taskVars, execVars, num, cur, todo, rest, clientVars>>

(* A condition variable may wake up for no reason.                         *)
SpuriousWakeup ==
    /\ \/ At(Client, "asleepAll") /\ Goto(Client, "checkAll")
       \/ At(Client, "joinWait") /\ IsDone(cur[Client]) /\ Goto(Client, "joined")
    /\ UNCHANGED <<taskVars, execVars, num, cur, todo, rest, clientVars>>

(* The last shared_ptr goes: ~FragmentScheduler runs ~TaskExecutor.        *)
LeaveScope ==
    /\ At(Client, "leave")
    /\ holders' = holders \ {Client}
    /\ Goto(Client, IF holders = {Client} THEN "stop" ELSE "responded")
    /\ UNCHANGED <<taskVars, execVars, num, cur, todo, rest, result, aborted>>

StopRunning ==
    /\ At(Client, "stop")
    /\ running' = FALSE
    /\ Goto(Client, "close")
    /\ UNCHANGED <<taskVars, queue, closed, stack, loop, num, cur, todo, rest,
                   clientVars>>

CloseQueue ==
    /\ At(Client, "close")
    /\ closed' = TRUE
    /\ Goto(Client, "joinThreads")
    /\ UNCHANGED <<taskVars, queue, running, stack, loop, num, cur, todo, rest,
                   clientVars>>

JoinThreads ==
    /\ At(Client, "joinThreads")
    /\ \A th \in Threads : loop[th] = "exited"
    /\ Goto(Client, "responded")
    /\ UNCHANGED <<taskVars, execVars, num, cur, todo, rest, clientVars>>

ClientStep ==
    /\ ~aborted
    /\ \/ SchedulerStep(Client) \/ StartWaiting
       \/ Join \/ RethrowOrContinue \/ AllJoined
       \/ CheckAllDone \/ BlockUntilNotified
       \/ LeaveScope \/ StopRunning \/ CloseQueue \/ JoinThreads

Terminated ==
    /\ \/ aborted
       \/ /\ At(Client, "responded")
          /\ \A th \in Threads : loop[th] = "exited"
    /\ UNCHANGED vars

Next ==
    \/ ClientStep
    \/ ~aborted /\ SpuriousWakeup
    \/ \E th \in Threads : ThreadStep(th)
    \/ Terminated

Spec == Init /\ [][Next]_vars

(* The operating system gives every runnable thread its turn; nothing      *)
(* makes a spurious wakeup happen.                                         *)
Fairness == WF_vars(ClientStep) /\ \A th \in Threads : WF_vars(ThreadStep(th))

FairSpec == Spec /\ Fairness

-----------------------------------------------------------------------------
(***************************************************************************)
(* Properties                                                              *)
(***************************************************************************)
SchedulePc == {"schedule", "count", "ready", "submit", "push"}
TaskPc     == SchedulePc \cup
              {"idle", "execute", "acquire", "nested", "operate", "clear",
               "complete", "wake", "finish", "last", "notify", "end", "ended"}
ClientPc   == SchedulePc \cup
              {"join", "joinWait", "joined", "checkAll", "dozeAll", "asleepAll",
               "leave", "stop", "close", "joinThreads", "responded"}

NamesTask  == {"count", "ready", "submit", "push", "last", "joinWait", "joined"}

TaskTypes ==
    /\ state \in [Tasks -> TaskState]
    /\ pending \in [Tasks -> Nat]
    /\ exception \in [Tasks -> BOOLEAN]
    /\ output \in [Tasks -> BOOLEAN]

ExecutorTypes ==
    /\ queue \in Seq(Tasks)
    /\ closed \in BOOLEAN
    /\ running \in BOOLEAN
    /\ num \in Int
    /\ stack \in [Threads -> Seq(Tasks)]
    /\ loop \in [Threads -> {"check", "pop", "exited"}]

FlowTypes ==
    /\ pc \in [Activities -> TaskPc \cup ClientPc]
    /\ pc[Client] \in ClientPc
    /\ \A t \in Tasks : pc[t] \in TaskPc
    /\ cur \in [Activities -> Activities]
    /\ \A a \in Activities : pc[a] \in NamesTask => cur[a] \in Tasks
    /\ todo \in [Activities -> SUBSET Tasks]
    /\ rest \in [Tasks -> SUBSET Tasks]

ClientTypes ==
    /\ holders \subseteq Activities
    /\ result \in {"none", "success", "failure", "drained"}
    /\ aborted \in BOOLEAN

(* The type invariant: num_scheduled_tasks_ is an integer because its 64   *)
(* bits are only ever compared with zero.                                  *)
TypeOK == TaskTypes /\ ExecutorTypes /\ FlowTypes /\ ClientTypes

(* No task is started before every one of its predecessors is done: the    *)
(* DebugAssert "Task must not be executed before its dependencies are      *)
(* done", seen from the predecessors' side, whichever of Schedule and      *)
(* OnTaskFinished submitted the task.                                      *)
DependencyOrder ==
    \A t \in Tasks : state[t] >= kStarted => \A p \in Predecessors[t] : IsDone(p)

(* Schedule checks IsReady after it marks the task scheduled, while        *)
(* OnTaskFinished checks IsScheduled after it decrements the count, so a   *)
(* scheduled task whose last predecessor is gone always has an activity    *)
(* that is about to submit it: neither side can leave it to the other.     *)
NoStrandedTask ==
    \A t \in Tasks :
        state[t] = kScheduled /\ IsReady(t)
          => \E a \in Activities :
               cur[a] = t /\ pc[a] \in {"count", "ready", "submit", "last"}

(* pending_predecessors_ counts exactly the predecessors whose             *)
(* OnTaskFinished has not reached the task, so the Assert in               *)
(* AtomicDecrementPredecessorCount cannot fail.                            *)
PendingIsExact ==
    \A t \in Tasks :
        pending[t] = Cardinality({p \in Predecessors[t] : t \in rest[p]})

(* The output of a successful operator stays until the last of its         *)
(* successors has used it: OperatorTask::OnExecute clears it only when     *)
(* every other successor is done.                                          *)
InputsAvailable ==
    \A t \in Roots : \A p \in Predecessors[t] \cap Roots :
        /\ IsDone(p) /\ ~exception[p]
        /\ ~IsDone(t) /\ pc[t] \notin {"clear", "complete"}
        => output[p]

(* When WaitForTasks or WaitForAllTasks returns normally, nothing that was *)
(* ever scheduled, subtasks included, is still on its way.                 *)
QuietOnReturn ==
    result \in {"success", "drained"} =>
        /\ \A t \in Tasks : state[t] \in {kCreated, kDone}
        /\ \A t \in Roots : IsDone(t)

(* As long as no task fails, no Assert outside the try block of Execute    *)
(* fails, no operator runs without its input and no executor thread is the *)
(* one to destroy the scheduler.                                           *)
NoAbortWithoutFailure == aborted => \E t \in Tasks : exception[t]

(* Every job enters the queue once and is run by one thread: the Assert in *)
(* Execute that a started task was enqueued can never fail.                *)
OneJobPerTask ==
    /\ \A i, j \in 1 .. Len(queue) : queue[i] = queue[j] => i = j
    /\ \A i \in 1 .. Len(queue) :
         state[queue[i]] = kEnqueued /\ pc[queue[i]] = "idle"

(* The handler thread always gets its answer and tears the engine down.    *)
Responds == <>(pc[Client] = "responded")

(* "Custom exception class used to report assertion failures back to the   *)
(* coordinator" (utils/assert.hpp:48): a normal return means that no       *)
(* assertion failed in any task, subtasks included.                        *)
NoSilentFailure == result = "success" => \A t \in Tasks : ~exception[t]

(* "... and allows the Lambda runtime to return a structured error         *)
(* response" (utils/assert.hpp:49-50): after an assertion failed in a task *)
(* of the fragment the handler eventually responds.                        *)
FailureIsAnswered == (\E t \in Roots : exception[t]) ~> (pc[Client] = "responded")
=============================================================================

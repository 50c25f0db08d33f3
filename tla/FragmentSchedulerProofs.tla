----------------------- MODULE FragmentSchedulerProofs -----------------------
(* Proofs about FragmentScheduler for every task graph and thread pool.    *)
EXTENDS FragmentScheduler, FiniteSetTheorems, TLAPS

USE DEF kCreated, kScheduled, kEnqueued, kStarted, kDone

(* Every step is the step of some activity, thread or of the client.       *)
LEMMA NextCases ==
    ASSUME [Next]_vars, NEW P,
           (\E a \in Activities : SchedulerStep(a)) => P,
           (\E t \in Tasks : JobStep(t)) => P,
           (\E th \in Threads : WorkerMain(th)) => P,
           (\E th \in Threads : WorkerProcessSingleItem(th)) => P,
           (\E th \in Threads : WorkerProcessSingleItemNoWait(th)) => P,
           (\E th \in Threads : EndJob(th)) => P,
           StartWaiting => P, Join => P, RethrowOrContinue => P, AllJoined => P,
           CheckAllDone => P, BlockUntilNotified => P, SpuriousWakeup => P,
           LeaveScope => P, StopRunning => P, CloseQueue => P, JoinThreads => P,
           UNCHANGED vars => P
    PROVE  P
  BY Zenon DEF Next, ClientStep, ThreadStep, Terminated, Activities

(* The initial state is well typed.                                        *)
LEMMA TypeInit == Init => TypeOK
  <1> SUFFICES ASSUME Init PROVE TypeOK  OBVIOUS
  <1>1. pending \in [Tasks -> Nat]
    <2> SUFFICES ASSUME NEW t \in Tasks PROVE Cardinality(Predecessors[t]) \in Nat
      BY DEF Init
    <2> Predecessors[t] \subseteq Tasks  BY FragmentAssumption
    <2> QED  BY FragmentAssumption, FS_Subset, FS_CardinalityType
  <1>2. TaskTypes  BY <1>1 DEF Init, TaskTypes, TaskState
  <1>3. ExecutorTypes
    <2>1. <<>> \in Seq(Tasks)  OBVIOUS
    <2>2. stack \in [Threads -> Seq(Tasks)]  BY <2>1 DEF Init
    <2>3. loop \in [Threads -> {"check", "pop", "exited"}]  BY DEF Init
    <2>4. queue \in Seq(Tasks) /\ num \in Int  BY <2>1 DEF Init
    <2>5. closed \in BOOLEAN /\ running \in BOOLEAN  BY DEF Init
    <2> QED  BY <2>2, <2>3, <2>4, <2>5 DEF ExecutorTypes
  <1>4. FlowTypes
    BY FragmentAssumption
    DEF Init, FlowTypes, Activities, NamesTask, TaskPc, ClientPc, SchedulePc, Successors
  <1>5. ClientTypes  BY DEF Init, ClientTypes, Activities
  <1> QED  BY <1>2, <1>3, <1>4, <1>5 DEF TypeOK

(* A jump of activity a that may also change its own cur and todo keeps    *)
(* the types of the control state.                                         *)
LEMMA FlowStep ==
    ASSUME FlowTypes, NEW a \in Activities, NEW label, Goto(a, label),
           label \in IF a = Client THEN ClientPc ELSE TaskPc,
           NEW t \in Activities, cur' = cur \/ cur' = [cur EXCEPT ![a] = t],
           label \in NamesTask => cur'[a] \in Tasks,
           NEW T \in SUBSET Tasks, todo' = todo \/ todo' = [todo EXCEPT ![a] = T],
           rest' \in [Tasks -> SUBSET Tasks]
    PROVE  FlowTypes'
  <1> USE FragmentAssumption DEF FlowTypes, Goto, Activities
  <1>1. pc' \in [Activities -> TaskPc \cup ClientPc] /\ pc'[Client] \in ClientPc
    OBVIOUS
  <1>2. \A u \in Tasks : pc'[u] \in TaskPc  OBVIOUS
  <1>3. cur' \in [Activities -> Activities]  OBVIOUS
  <1>4. \A b \in Activities : pc'[b] \in NamesTask => cur'[b] \in Tasks  OBVIOUS
  <1>5. todo' \in [Activities -> SUBSET Tasks]  OBVIOUS
  <1> QED  BY <1>1, <1>2, <1>3, <1>4, <1>5

(* A jump that changes nothing else of the control state.                  *)
LEMMA FlowJump ==
    ASSUME FlowTypes, NEW a \in Activities, NEW label, Goto(a, label),
           label \in IF a = Client THEN ClientPc ELSE TaskPc,
           label \in NamesTask => cur[a] \in Tasks,
           UNCHANGED <<cur, todo, rest>>
    PROVE  FlowTypes'
  BY FlowStep DEF FlowTypes

(* A jump after which the activity visits the tasks T.                     *)
LEMMA FlowVisit ==
    ASSUME FlowTypes, NEW a \in Activities, NEW label, Goto(a, label),
           label \in IF a = Client THEN ClientPc ELSE TaskPc,
           label \in NamesTask => cur[a] \in Tasks,
           NEW T \in SUBSET Tasks, todo' = [todo EXCEPT ![a] = T],
           UNCHANGED <<cur, rest>>
    PROVE  FlowTypes'
  BY FlowStep DEF FlowTypes

(* The operations of the scheduler keep the types.                         *)
LEMMA TypeSchedulerStep ==
    ASSUME TypeOK, NEW a \in Activities, SchedulerStep(a)
    PROVE  TypeOK'
  <1> USE FragmentAssumption
          DEF TypeOK, At, taskVars, execVars, flowVars, clientVars
  <1>0. ASSUME NEW label \in SchedulePc
        PROVE  label \in IF a = Client THEN ClientPc ELSE TaskPc
    BY <1>0 DEF ClientPc, TaskPc
  <1>1. CASE Schedule(a)
    <2>1. PICK t \in todo[a] :
            IF state[t] >= kScheduled
            THEN /\ todo' = [todo EXCEPT ![a] = @ \ {t}]
                 /\ UNCHANGED <<state, pc, cur>>
            ELSE /\ state' = [state EXCEPT ![t] = kScheduled]
                 /\ todo' = [todo EXCEPT ![a] = @ \ {t}]
                 /\ cur' = [cur EXCEPT ![a] = t]
                 /\ Goto(a, "count")
      BY <1>1 DEF Schedule
    <2>2. t \in Tasks /\ todo[a] \ {t} \in SUBSET Tasks  BY DEF FlowTypes
    <2>3. TaskTypes'  BY <1>1, <2>1, <2>2 DEF Schedule, TaskTypes, TaskState
    <2>4. FlowTypes'
      <3>1. CASE state[t] >= kScheduled
        BY <1>1, <2>1, <2>2, <3>1 DEF Schedule, FlowTypes
      <3>2. CASE ~(state[t] >= kScheduled)
        <4>1. cur'[a] \in Tasks  BY <2>1, <2>2, <3>2 DEF FlowTypes
        <4> QED
          BY <1>0, <1>1, <2>1, <2>2, <3>2, <4>1, FlowStep
          DEF Schedule, SchedulePc, Activities, FlowTypes
      <3> QED  BY <3>1, <3>2
    <2> QED  BY <1>1, <2>3, <2>4 DEF Schedule, ExecutorTypes, ClientTypes
  <1>2. CASE CountScheduled(a)
    <2>1. FlowTypes'
      BY <1>0, <1>2, FlowJump
      DEF CountScheduled, SchedulePc, FlowTypes, NamesTask
    <2>2. ExecutorTypes'  BY <1>2 DEF CountScheduled, ExecutorTypes
    <2> QED  BY <1>2, <2>1, <2>2 DEF CountScheduled, TaskTypes, ClientTypes
  <1>3. CASE CheckReady(a)
    <2>1. cur[a] \in Tasks  BY <1>3 DEF CheckReady, FlowTypes, NamesTask
    <2>2. FlowTypes'
      <3>1. CASE IsReady(cur[a])
        BY <1>0, <1>3, <2>1, <3>1, FlowJump DEF CheckReady, SchedulePc
      <3>2. CASE ~IsReady(cur[a])
        <4>1. todo[a] \cup Predecessors[cur[a]] \in SUBSET Tasks
          BY <2>1 DEF FlowTypes
        <4>2. todo' = [todo EXCEPT ![a] = todo[a] \cup Predecessors[cur[a]]]
          BY <1>3, <3>2 DEF CheckReady
        <4> QED
          BY <1>0, <1>3, <2>1, <3>2, <4>1, <4>2, FlowVisit
          DEF CheckReady, SchedulePc
      <3> QED  BY <3>1, <3>2
    <2> QED  BY <1>3, <2>2 DEF CheckReady, TaskTypes, ExecutorTypes, ClientTypes
  <1>4. CASE TryEnqueue(a)
    <2>1. cur[a] \in Tasks  BY <1>4 DEF TryEnqueue, FlowTypes, NamesTask
    <2>2. AfterSubmit(a) \in IF a = Client THEN ClientPc ELSE TaskPc
      BY <1>0 DEF AfterSubmit, SchedulePc, TaskPc, ClientPc
    <2>3. FlowTypes'
      <3>1. CASE state[cur[a]] >= kEnqueued
        BY <1>4, <2>1, <2>2, <3>1, FlowJump DEF TryEnqueue
      <3>2. CASE ~(state[cur[a]] >= kEnqueued)
        BY <1>0, <1>4, <2>1, <3>2, FlowJump DEF TryEnqueue, SchedulePc
      <3> QED  BY <3>1, <3>2
    <2>4. TaskTypes'  BY <1>4, <2>1 DEF TryEnqueue, TaskTypes, TaskState
    <2> QED  BY <1>4, <2>3, <2>4 DEF TryEnqueue, ExecutorTypes, ClientTypes
  <1>5. CASE PushJob(a)
    <2>1. cur[a] \in Tasks  BY <1>5 DEF PushJob, FlowTypes, NamesTask
    <2>2. AfterSubmit(a) \in IF a = Client THEN ClientPc ELSE TaskPc
      BY <1>0 DEF AfterSubmit, SchedulePc, TaskPc, ClientPc
    <2>3. FlowTypes'  BY <1>5, <2>1, <2>2, FlowJump DEF PushJob
    <2>4. ExecutorTypes'  BY <1>5, <2>1 DEF PushJob, ExecutorTypes
    <2> QED  BY <1>5, <2>3, <2>4 DEF PushJob, TaskTypes, ClientTypes
  <1> QED  BY <1>1, <1>2, <1>3, <1>4, <1>5 DEF SchedulerStep

(* The end of the process keeps the types.                                 *)
LEMMA TypeAbort == TypeOK /\ Abort => TypeOK'
  <1> SUFFICES ASSUME TypeOK, Abort PROVE TypeOK'  OBVIOUS
  <1>1. ClientTypes'  BY DEF TypeOK, Abort, ClientTypes
  <1>2. UNCHANGED <<taskVars, execVars, num, flowVars>>  BY DEF Abort
  <1> QED
    BY <1>1, <1>2
    DEF TypeOK, TaskTypes, ExecutorTypes, FlowTypes, taskVars, execVars, flowVars

(* The steps of a job keep the types.                                      *)
LEMMA TypeJobStep ==
    ASSUME TypeOK, NEW t \in Tasks, JobStep(t)
    PROVE  TypeOK'
  <1> USE FragmentAssumption
          DEF TypeOK, At, taskVars, execVars, flowVars, clientVars
  <1>a. t \in Activities /\ t # Client  BY DEF Activities
  <1>b. ASSUME NEW label \in TaskPc
        PROVE  label \in IF t = Client THEN ClientPc ELSE TaskPc
    BY <1>a
  <1>1. CASE Execute(t)
    <2>1. CASE state[t] = kEnqueued
      <3>1. FlowTypes'  BY <1>1, <1>a, <1>b, <2>1, FlowJump DEF Execute, TaskPc, NamesTask
      <3>2. TaskTypes'  BY <1>1, <2>1 DEF Execute, TaskTypes, TaskState
      <3> QED  BY <1>1, <2>1, <3>1, <3>2 DEF Execute, ExecutorTypes, ClientTypes
    <2> QED  BY <1>1, <2>1, TypeAbort DEF Execute
  <1>2. CASE AcquireScheduler(t)
    <2>1. Subtasks[t] \in SUBSET Tasks  OBVIOUS
    <2>2. FlowTypes'
      BY <1>2, <1>a, <1>b, <2>1, FlowVisit
      DEF AcquireScheduler, TaskPc, SchedulePc, NamesTask
    <2>3. ClientTypes'  BY <1>2, <1>a DEF AcquireScheduler, ClientTypes
    <2> QED  BY <1>2, <2>2, <2>3 DEF AcquireScheduler, TaskTypes, ExecutorTypes
  <1>3. CASE WaitForSubtasks(t)
    <2>1. FlowTypes'
      BY <1>3, <1>a, <1>b, FlowJump DEF WaitForSubtasks, TaskPc, NamesTask
    <2> QED  BY <1>3, <2>1 DEF WaitForSubtasks, TaskTypes, ExecutorTypes, ClientTypes
  <1>4. CASE SubtasksDone(t)
    <2>1. CASE holders = {t}  BY <1>4, <2>1, TypeAbort DEF SubtasksDone
    <2>2. CASE holders # {t}
      <3>1. FlowTypes'
        BY <1>4, <1>a, <1>b, <2>2, FlowJump DEF SubtasksDone, TaskPc, NamesTask
      <3>2. ClientTypes'  BY <1>4, <2>2 DEF SubtasksDone, ClientTypes
      <3> QED  BY <1>4, <2>2, <3>1, <3>2 DEF SubtasksDone, TaskTypes, ExecutorTypes
    <2> QED  BY <2>1, <2>2
  <1>5. CASE Operate(t)
    <2> DEFINE T == IF t \in Roots THEN Predecessors[t] ELSE {}
    <2>1. CASE /\ output' = [output EXCEPT ![t] = t \in Roots]
               /\ todo' = [todo EXCEPT ![t] = T]
               /\ Goto(t, "clear")
               /\ UNCHANGED <<state, pending, exception, execVars, num, cur, rest,
                              clientVars>>
      <3>1. T \in SUBSET Tasks  OBVIOUS
      <3>2. FlowTypes'
        BY <1>a, <1>b, <2>1, <3>1, FlowVisit DEF TaskPc, NamesTask
      <3>3. TaskTypes'
        <4>1. (t \in Roots) \in BOOLEAN  OBVIOUS
        <4> QED  BY <2>1, <4>1, Zenon DEF TaskTypes
      <3> QED  BY <2>1, <3>2, <3>3 DEF ExecutorTypes, ClientTypes
    <2>2. CASE /\ exception' = [exception EXCEPT ![t] = TRUE]
               /\ Goto(t, "complete")
               /\ UNCHANGED <<state, pending, output, execVars, num, cur, todo, rest,
                              clientVars>>
      <3>1. FlowTypes'  BY <1>a, <1>b, <2>2, FlowJump DEF TaskPc, NamesTask
      <3>2. TaskTypes'  BY <2>2 DEF TaskTypes
      <3> QED  BY <2>2, <3>1, <3>2 DEF ExecutorTypes, ClientTypes
    <2> QED  BY <1>5, <2>1, <2>2, TypeAbort DEF Operate
  <1>6. CASE ClearInput(t)
    <2>1. PICK p \in todo[t] :
            /\ output' = [output EXCEPT ![p] = @ /\ StillNeeded(p, t)]
            /\ todo' = [todo EXCEPT ![t] = @ \ {p}]
      BY <1>6 DEF ClearInput
    <2>2. p \in Tasks  BY <1>a DEF FlowTypes
    <2>3. output' \in [Tasks -> BOOLEAN]
      <3>1. StillNeeded(p, t) \in BOOLEAN  BY DEF StillNeeded
      <3>2. (output[p] /\ StillNeeded(p, t)) \in BOOLEAN  BY <3>1
      <3> QED  BY <2>1, <2>2, <3>2, Zenon DEF TaskTypes
    <2>4. FlowTypes'  BY <1>6, <1>a, <2>1 DEF ClearInput, FlowTypes
    <2> QED
      BY <1>6, <2>3, <2>4 DEF ClearInput, TaskTypes, ExecutorTypes, ClientTypes
  <1>7. CASE InputsCleared(t)
    <2>1. FlowTypes'
      BY <1>7, <1>a, <1>b, FlowJump DEF InputsCleared, TaskPc, NamesTask
    <2> QED  BY <1>7, <2>1 DEF InputsCleared, TaskTypes, ExecutorTypes, ClientTypes
  <1>8. CASE Complete(t)
    <2>1. CASE state[t] = kStarted
      <3>1. FlowTypes'  BY <1>8, <1>a, <1>b, <2>1, FlowJump DEF Complete, TaskPc, NamesTask
      <3>2. TaskTypes'  BY <1>8, <2>1 DEF Complete, TaskTypes, TaskState
      <3> QED  BY <1>8, <2>1, <3>1, <3>2 DEF Complete, ExecutorTypes, ClientTypes
    <2> QED  BY <1>8, <2>1, TypeAbort DEF Complete
  <1>9. CASE WakeJoiner(t)
    <2>1. FlowTypes'
      BY <1>9, <1>a DEF WakeJoiner, FlowTypes, TaskPc, ClientPc, NamesTask, Activities
    <2> QED  BY <1>9, <2>1 DEF WakeJoiner, TaskTypes, ExecutorTypes, ClientTypes
  <1>10. CASE DecrementSuccessor(t)
    <2>1. PICK s \in rest[t] :
            IF pending[s] > 0
            THEN /\ pending' = [pending EXCEPT ![s] = @ - 1]
                 /\ rest' = [rest EXCEPT ![t] = @ \ {s}]
                 /\ cur' = [cur EXCEPT ![t] = s]
                 /\ Goto(t, IF pending[s] = 1 THEN "last" ELSE "finish")
                 /\ UNCHANGED <<state, exception, output, execVars, num, todo,
                                clientVars>>
            ELSE Abort
      BY <1>10 DEF DecrementSuccessor
    <2>2. s \in Tasks  BY DEF FlowTypes
    <2>3. CASE pending[s] > 0
      <3>1. TaskTypes'  BY <2>1, <2>2, <2>3 DEF TaskTypes
      <3>2. rest' \in [Tasks -> SUBSET Tasks]  BY <2>1, <2>3 DEF FlowTypes
      <3>3. cur'[t] \in Tasks  BY <1>a, <2>1, <2>2, <2>3 DEF FlowTypes
      <3>4. s \in Activities  BY <2>2 DEF Activities
      <3>5. FlowTypes'
        BY <1>a, <1>b, <2>1, <2>3, <3>2, <3>3, <3>4, FlowStep DEF TaskPc
      <3> QED  BY <2>1, <2>3, <3>1, <3>5 DEF ExecutorTypes, ClientTypes
    <2> QED  BY <2>1, <2>3, TypeAbort
  <1>11. CASE CheckSuccessorScheduled(t)
    <2>1. cur[t] \in Tasks
      BY <1>11, <1>a DEF CheckSuccessorScheduled, FlowTypes, NamesTask
    <2>2. FlowTypes'
      BY <1>11, <1>a, <1>b, <2>1, FlowJump DEF CheckSuccessorScheduled, TaskPc, SchedulePc
    <2> QED
      BY <1>11, <2>2 DEF CheckSuccessorScheduled, TaskTypes, ExecutorTypes, ClientTypes
  <1>12. CASE UncountScheduled(t)
    <2>1. FlowTypes'
      BY <1>12, <1>a, <1>b, FlowJump DEF UncountScheduled, TaskPc, NamesTask
    <2>2. ExecutorTypes'  BY <1>12 DEF UncountScheduled, ExecutorTypes
    <2> QED  BY <1>12, <2>1, <2>2 DEF UncountScheduled, TaskTypes, ClientTypes
  <1>13. CASE NotifyAllDone(t)
    <2>1. FlowTypes'
      BY <1>13, <1>a DEF NotifyAllDone, FlowTypes, TaskPc, ClientPc, NamesTask, Activities
    <2> QED  BY <1>13, <2>1 DEF NotifyAllDone, TaskTypes, ExecutorTypes, ClientTypes
  <1> QED
    BY <1>1, <1>2, <1>3, <1>4, <1>5, <1>6, <1>7, <1>8, <1>9, <1>10, <1>11, <1>12, <1>13
    DEF JobStep

(* The steps of the executor's threads keep the types.                     *)
LEMMA TypeStartJob ==
    ASSUME TypeOK, NEW th \in Threads, queue # <<>>, StartJob(th),
           UNCHANGED <<cur, todo, rest>>
    PROVE  /\ queue' \in Seq(Tasks)
           /\ stack' \in [Threads -> Seq(Tasks)]
           /\ FlowTypes'
  <1> USE DEF TypeOK, StartJob
  <1>1. Head(queue) \in Tasks /\ Tail(queue) \in Seq(Tasks)  BY DEF ExecutorTypes
  <1>2. <<Head(queue)>> \o stack[th] \in Seq(Tasks)  BY <1>1 DEF ExecutorTypes
  <1>3. stack' \in [Threads -> Seq(Tasks)]  BY <1>2 DEF ExecutorTypes
  <1>4. Head(queue) \in Activities /\ Head(queue) # Client
    BY <1>1, FragmentAssumption DEF Activities
  <1>5. FlowTypes'  BY <1>4, FlowJump DEF TaskPc, NamesTask
  <1> QED  BY <1>1, <1>3, <1>5

(* The loops of the worker threads keep the types.                         *)
LEMMA TypeThreadStep ==
    ASSUME TypeOK, NEW th \in Threads,
           \/ WorkerMain(th) \/ WorkerProcessSingleItem(th)
           \/ WorkerProcessSingleItemNoWait(th) \/ EndJob(th)
    PROVE  TypeOK'
  <1> USE DEF TypeOK, taskVars, execVars, flowVars, clientVars
  <1>1. CASE WorkerMain(th)
    <2>1. ExecutorTypes'  BY <1>1 DEF WorkerMain, ExecutorTypes
    <2> QED  BY <1>1, <2>1 DEF WorkerMain, TaskTypes, FlowTypes, ClientTypes
  <1>2. CASE WorkerProcessSingleItem(th)
    <2>1. loop' \in [Threads -> {"check", "pop", "exited"}]
      BY <1>2 DEF WorkerProcessSingleItem, ExecutorTypes
    <2>2. CASE queue # <<>>
      BY <1>2, <2>1, <2>2, TypeStartJob
      DEF WorkerProcessSingleItem, TaskTypes, ExecutorTypes, ClientTypes
    <2>3. CASE queue = <<>>
      BY <1>2, <2>1, <2>3
      DEF WorkerProcessSingleItem, TaskTypes, ExecutorTypes, FlowTypes, ClientTypes
    <2> QED  BY <2>2, <2>3
  <1>3. CASE WorkerProcessSingleItemNoWait(th)
    <2>1. CASE running
      BY <1>3, <2>1, TypeStartJob
      DEF WorkerProcessSingleItemNoWait, TaskTypes, ExecutorTypes, ClientTypes
    <2>2. CASE ~running
      <3>1. queue # <<>> /\ queue' = Tail(queue)
        BY <1>3, <2>2 DEF WorkerProcessSingleItemNoWait
      <3>2. queue' \in Seq(Tasks)  BY <3>1 DEF ExecutorTypes
      <3>3. UNCHANGED <<taskVars, closed, running, num, stack, loop, flowVars, clientVars>>
        BY <1>3, <2>2 DEF WorkerProcessSingleItemNoWait
      <3> QED  BY <3>2, <3>3 DEF TaskTypes, ExecutorTypes, FlowTypes, ClientTypes
    <2> QED  BY <2>1, <2>2
  <1>4. CASE EndJob(th)
    <2>1. Head(stack[th]) \in Tasks /\ Tail(stack[th]) \in Seq(Tasks)
      BY <1>4 DEF EndJob, ExecutorTypes
    <2>2. ExecutorTypes'  BY <1>4, <2>1 DEF EndJob, ExecutorTypes
    <2>3. Head(stack[th]) \in Activities /\ Head(stack[th]) # Client
      BY <2>1, FragmentAssumption DEF Activities
    <2>4. FlowTypes'  BY <1>4, <2>3, FlowJump DEF EndJob, TaskPc, NamesTask
    <2> QED  BY <1>4, <2>2, <2>4 DEF EndJob, TaskTypes, ClientTypes
  <1> QED  BY <1>1, <1>2, <1>3, <1>4

(* The steps of the client keep the types.                                 *)
LEMMA TypeClientStep ==
    ASSUME TypeOK,
           \/ StartWaiting \/ Join \/ RethrowOrContinue \/ AllJoined
           \/ CheckAllDone \/ BlockUntilNotified \/ SpuriousWakeup
           \/ LeaveScope \/ StopRunning \/ CloseQueue \/ JoinThreads
    PROVE  TypeOK'
  <1> USE FragmentAssumption
          DEF TypeOK, At, taskVars, execVars, flowVars, clientVars
  <1>a. Client \in Activities  BY DEF Activities
  <1>b. ASSUME NEW label \in ClientPc
        PROVE  label \in IF Client = Client THEN ClientPc ELSE TaskPc
    OBVIOUS
  <1>1. CASE StartWaiting
    <2>1. CASE Goto(Client, "checkAll") /\ UNCHANGED todo
      <3>1. FlowTypes'
        BY <1>1, <1>a, <1>b, <2>1, FlowJump DEF StartWaiting, ClientPc, NamesTask
      <3> QED  BY <1>1, <3>1 DEF StartWaiting, TaskTypes, ExecutorTypes, ClientTypes
    <2>2. CASE Goto(Client, "join") /\ todo' = [todo EXCEPT ![Client] = Roots]
      <3>1. Roots \in SUBSET Tasks  OBVIOUS
      <3>2. FlowTypes'
        BY <1>1, <1>a, <1>b, <2>2, <3>1, FlowVisit DEF StartWaiting, ClientPc, NamesTask
      <3> QED  BY <1>1, <3>2 DEF StartWaiting, TaskTypes, ExecutorTypes, ClientTypes
    <2> QED  BY <1>1, <2>1, <2>2 DEF StartWaiting
  <1>2. CASE Join
    <2>1. PICK t \in todo[Client] :
            /\ cur' = [cur EXCEPT ![Client] = t]
            /\ Goto(Client, IF IsDone(t) THEN "joined" ELSE "joinWait")
      BY <1>2 DEF Join
    <2>2. t \in Tasks /\ t \in Activities  BY <1>a DEF FlowTypes, Activities
    <2>3. cur'[Client] \in Tasks  BY <1>a, <2>1, <2>2 DEF FlowTypes
    <2>4. rest' \in [Tasks -> SUBSET Tasks] /\ todo' = todo
      BY <1>2 DEF Join, FlowTypes
    <2>5. FlowTypes'
      BY <1>a, <1>b, <2>1, <2>2, <2>3, <2>4, FlowStep DEF ClientPc
    <2> QED  BY <1>2, <2>5 DEF Join, TaskTypes, ExecutorTypes, ClientTypes
  <1>3. CASE RethrowOrContinue
    <2>1. ClientTypes'  BY <1>3 DEF RethrowOrContinue, ClientTypes
    <2>2. CASE exception[cur[Client]]
      <3>1. FlowTypes'
        BY <1>3, <1>a, <1>b, <2>2, FlowJump DEF RethrowOrContinue, ClientPc, NamesTask
      <3> QED  BY <1>3, <2>1, <3>1 DEF RethrowOrContinue, TaskTypes, ExecutorTypes
    <2>3. CASE ~exception[cur[Client]]
      <3>1. todo[Client] \ {cur[Client]} \in SUBSET Tasks  BY <1>a DEF FlowTypes
      <3>2. FlowTypes'
        BY <1>3, <1>a, <1>b, <2>3, <3>1, FlowVisit
        DEF RethrowOrContinue, ClientPc, NamesTask
      <3> QED  BY <1>3, <2>1, <3>2 DEF RethrowOrContinue, TaskTypes, ExecutorTypes
    <2> QED  BY <2>2, <2>3
  <1>4. CASE AllJoined
    <2>1. FlowTypes'  BY <1>4, <1>a, <1>b, FlowJump DEF AllJoined, ClientPc, NamesTask
    <2> QED  BY <1>4, <2>1 DEF AllJoined, TaskTypes, ExecutorTypes, ClientTypes
  <1>5. CASE CheckAllDone
    <2>1. FlowTypes'
      BY <1>5, <1>a, <1>b, FlowJump DEF CheckAllDone, ClientPc, NamesTask
    <2> QED  BY <1>5, <2>1 DEF CheckAllDone, TaskTypes, ExecutorTypes, ClientTypes
  <1>6. CASE BlockUntilNotified
    <2>1. FlowTypes'
      BY <1>6, <1>a, <1>b, FlowJump DEF BlockUntilNotified, ClientPc, NamesTask
    <2> QED  BY <1>6, <2>1 DEF BlockUntilNotified, TaskTypes, ExecutorTypes, ClientTypes
  <1>7. CASE SpuriousWakeup
    <2>1. FlowTypes'
      BY <1>7, <1>a, <1>b, FlowJump DEF SpuriousWakeup, ClientPc, NamesTask, FlowTypes
    <2> QED  BY <1>7, <2>1 DEF SpuriousWakeup, TaskTypes, ExecutorTypes, ClientTypes
  <1>8. CASE LeaveScope
    <2>1. FlowTypes'  BY <1>8, <1>a, <1>b, FlowJump DEF LeaveScope, ClientPc, NamesTask
    <2> QED  BY <1>8, <2>1 DEF LeaveScope, TaskTypes, ExecutorTypes, ClientTypes
  <1>9. CASE StopRunning
    <2>1. FlowTypes'  BY <1>9, <1>a, <1>b, FlowJump DEF StopRunning, ClientPc, NamesTask
    <2> QED  BY <1>9, <2>1 DEF StopRunning, TaskTypes, ExecutorTypes, ClientTypes
  <1>10. CASE CloseQueue
    <2>1. FlowTypes'  BY <1>10, <1>a, <1>b, FlowJump DEF CloseQueue, ClientPc, NamesTask
    <2> QED  BY <1>10, <2>1 DEF CloseQueue, TaskTypes, ExecutorTypes, ClientTypes
  <1>11. CASE JoinThreads
    <2>1. FlowTypes'  BY <1>11, <1>a, <1>b, FlowJump DEF JoinThreads, ClientPc, NamesTask
    <2> QED  BY <1>11, <2>1 DEF JoinThreads, TaskTypes, ExecutorTypes, ClientTypes
  <1> QED
    BY <1>1, <1>2, <1>3, <1>4, <1>5, <1>6, <1>7, <1>8, <1>9, <1>10, <1>11

(* Every step keeps the types.                                             *)
LEMMA TypeNext == TypeOK /\ [Next]_vars => TypeOK'
  <1> SUFFICES ASSUME TypeOK, [Next]_vars PROVE TypeOK'  OBVIOUS
  <1>1. UNCHANGED vars => TypeOK'
    BY DEF vars, taskVars, execVars, flowVars, clientVars, TypeOK, TaskTypes,
           ExecutorTypes, FlowTypes, ClientTypes
  <1> QED
    BY <1>1, TypeSchedulerStep, TypeJobStep, TypeThreadStep, TypeClientStep, NextCases

(* The states of tasks, the job queue, the threads and the client stay     *)
(* well typed; in particular no decrement takes pending_predecessors_      *)
(* below zero.                                                             *)
THEOREM TypeCorrect == Spec => []TypeOK
  BY TypeInit, TypeNext, PTL DEF Spec

-----------------------------------------------------------------------------
(***************************************************************************)
(* Dependencies.  OnTaskFinished of a done task visits its successors one  *)
(* by one, and pending_predecessors_ counts the visits to come.            *)
(***************************************************************************)
RestIsSuccessors == \A p \in Tasks : rest[p] \subseteq Successors(p)
VisitsWhenDone   == \A p \in Tasks : rest[p] # Successors(p) => state[p] = kDone
FinishesWhenDone == \A p \in Tasks : pc[p] \in {"wake", "finish", "last"} => state[p] = kDone
SubmitsReady     == \A a \in Activities : pc[a] \in {"submit", "last"} => pending[cur[a]] = 0
EnqueuedIsReady  == \A t \in Tasks : state[t] >= kEnqueued => pending[t] = 0

(* The inductive invariant behind DependencyOrder.                         *)
DependencyInv ==
    /\ RestIsSuccessors
    /\ VisitsWhenDone
    /\ FinishesWhenDone
    /\ SubmitsReady
    /\ EnqueuedIsReady
    /\ PendingIsExact

ToVisit(t) == {p \in Predecessors[t] : t \in rest[p]}

(* The predecessors that have yet to visit a task are finitely many.       *)
LEMMA ToVisitFinite ==
    ASSUME NEW t \in Tasks
    PROVE  IsFiniteSet(ToVisit(t)) /\ Cardinality(ToVisit(t)) \in Nat
  <1> ToVisit(t) \subseteq Tasks  BY FragmentAssumption DEF ToVisit
  <1> QED  BY FragmentAssumption, FS_Subset, FS_CardinalityType

(* Initially every predecessor has yet to visit.                           *)
LEMMA DependencyInit == Init => DependencyInv
  <1> SUFFICES ASSUME Init PROVE DependencyInv  OBVIOUS
  <1>1. ASSUME NEW t \in Tasks
        PROVE  {p \in Predecessors[t] : t \in rest[p]} = Predecessors[t]
    BY FragmentAssumption DEF Init, Successors
  <1>2. PendingIsExact  BY <1>1 DEF Init, PendingIsExact
  <1>3. RestIsSuccessors /\ VisitsWhenDone
    BY DEF Init, RestIsSuccessors, VisitsWhenDone
  <1>4. FinishesWhenDone /\ SubmitsReady /\ EnqueuedIsReady
    BY FragmentAssumption
    DEF Init, FinishesWhenDone, SubmitsReady, EnqueuedIsReady, Activities
  <1> QED  BY <1>2, <1>3, <1>4 DEF DependencyInv

(* A step that leaves the counts and the visits alone, moves no task       *)
(* backwards or to kEnqueued, and starts neither a submission nor the end  *)
(* of a job that is not done, keeps the invariant.                         *)
LEMMA DependencyFrame ==
    ASSUME TypeOK, DependencyInv, UNCHANGED <<pending, rest>>,
           \A t \in Tasks : state[t] = kDone => state'[t] = kDone,
           \A t \in Tasks : state'[t] >= kEnqueued => state[t] >= kEnqueued \/ pending[t] = 0,
           \A t \in Tasks : pc'[t] \in {"wake", "finish", "last"} =>
               pc[t] \in {"wake", "finish", "last"} \/ state'[t] = kDone,
           \A a \in Activities : pc'[a] \in {"submit", "last"} => pending[cur'[a]] = 0
    PROVE  DependencyInv'
  BY DEF DependencyInv, RestIsSuccessors, VisitsWhenDone, FinishesWhenDone,
         SubmitsReady, EnqueuedIsReady, PendingIsExact, Successors

(* A step that changes none of the variables of the invariant.             *)
LEMMA DependencyStutter ==
    ASSUME TypeOK, DependencyInv, UNCHANGED <<state, pending, rest, pc, cur>>
    PROVE  DependencyInv'
  BY DEF DependencyInv, RestIsSuccessors, VisitsWhenDone, FinishesWhenDone,
         SubmitsReady, EnqueuedIsReady, PendingIsExact, Successors

(* An activity moves to another label and may turn to another task.        *)
LEMMA DependencyMove ==
    ASSUME TypeOK, DependencyInv, UNCHANGED <<state, pending, rest>>,
           NEW a \in Activities, NEW label, Goto(a, label),
           cur' = [cur EXCEPT ![a] = cur'[a]],
           label \in {"submit", "last"} => pending[cur'[a]] = 0,
           label \in {"wake", "finish", "last"} => a = Client \/ state[a] = kDone
    PROVE  DependencyInv'
  <1>1. \A t \in Tasks : t \in Activities /\ t # Client
    BY FragmentAssumption DEF Activities
  <1>2. pc'[a] = label /\ \A b \in Activities \ {a} : pc'[b] = pc[b] /\ cur'[b] = cur[b]
    BY DEF Goto, TypeOK, FlowTypes
  <1>3. \A b \in Activities : pc'[b] \in {"submit", "last"} => pending[cur'[b]] = 0
    BY <1>2 DEF DependencyInv, SubmitsReady
  <1>4. \A t \in Tasks : pc'[t] \in {"wake", "finish", "last"} =>
            pc[t] \in {"wake", "finish", "last"} \/ state'[t] = kDone
    BY <1>1, <1>2
  <1> QED  BY <1>3, <1>4, DependencyFrame

(* As DependencyMove, when the activity keeps its task.                    *)
LEMMA DependencyJump ==
    ASSUME TypeOK, DependencyInv, UNCHANGED <<state, pending, rest, cur>>,
           NEW a \in Activities, NEW label, Goto(a, label),
           label \in {"submit", "last"} => pending[cur[a]] = 0,
           label \in {"wake", "finish", "last"} => a = Client \/ state[a] = kDone
    PROVE  DependencyInv'
  <1>1. cur' = [cur EXCEPT ![a] = cur'[a]]  BY DEF TypeOK, FlowTypes
  <1> QED  BY <1>1, DependencyMove

(* The operations of the scheduler keep the dependency invariant.          *)
LEMMA DependencySchedulerStep ==
    ASSUME TypeOK, DependencyInv, NEW a \in Activities, SchedulerStep(a)
    PROVE  DependencyInv'
  <1> USE DEF At, taskVars, flowVars
  <1>a. a = Client \/ a \in Tasks  BY DEF Activities
  <1>1. CASE Schedule(a)
    <2>1. PICK t \in todo[a] :
            IF state[t] >= kScheduled
            THEN UNCHANGED <<state, pc, cur>>
            ELSE /\ state' = [state EXCEPT ![t] = kScheduled]
                 /\ cur' = [cur EXCEPT ![a] = t]
                 /\ Goto(a, "count")
      BY <1>1 DEF Schedule
    <2>2. UNCHANGED <<pending, rest>>  BY <1>1 DEF Schedule
    <2>3. CASE state[t] >= kScheduled
      BY <2>1, <2>2, <2>3, DependencyStutter
    <2>4. CASE ~(state[t] >= kScheduled)
      <3>1. \A s \in Tasks : s # t => state'[s] = state[s]
        BY <2>1, <2>4 DEF TypeOK, TaskTypes
      <3>2. t \in Tasks  BY DEF TypeOK, FlowTypes
      <3>3. state'[t] = kScheduled /\ state[t] = kCreated
        BY <2>1, <2>4, <3>2 DEF TypeOK, TaskTypes, TaskState
      <3>4. pc'[a] = "count"
              /\ \A b \in Activities \ {a} : pc'[b] = pc[b] /\ cur'[b] = cur[b]
        BY <2>1, <2>4 DEF Goto, TypeOK, FlowTypes
      <3>5. \A b \in Activities : pc'[b] \in {"submit", "last"} => pending[cur'[b]] = 0
        BY <3>4 DEF DependencyInv, SubmitsReady
      <3>6. \A s \in Tasks : pc'[s] \in {"wake", "finish", "last"}
                               => pc[s] \in {"wake", "finish", "last"}
        BY <3>4 DEF Activities
      <3>7. /\ \A s \in Tasks : state[s] = kDone => state'[s] = kDone
            /\ \A s \in Tasks : state'[s] >= kEnqueued => state[s] >= kEnqueued
        BY <3>1, <3>3
      <3> QED  BY <2>2, <3>5, <3>6, <3>7, DependencyFrame
    <2> QED  BY <2>3, <2>4
  <1>2. CASE CountScheduled(a)
    BY <1>2, DependencyJump DEF CountScheduled
  <1>3. CASE CheckReady(a)
    <2>1. CASE IsReady(cur[a])
      BY <1>3, <2>1, DependencyJump DEF CheckReady, IsReady
    <2>2. CASE ~IsReady(cur[a])
      BY <1>3, <2>2, DependencyJump DEF CheckReady
    <2> QED  BY <2>1, <2>2
  <1>4. CASE TryEnqueue(a)
    <2>1. CASE state[cur[a]] >= kEnqueued
      BY <1>4, <2>1, <1>a, DependencyJump DEF TryEnqueue, AfterSubmit
    <2>2. CASE ~(state[cur[a]] >= kEnqueued)
      <3>1. /\ state' = [state EXCEPT ![cur[a]] = kEnqueued]
            /\ Goto(a, "push") /\ UNCHANGED <<pending, rest, cur>>
        BY <1>4, <2>2 DEF TryEnqueue
      <3>2. pending[cur[a]] = 0
        BY <1>4 DEF TryEnqueue, DependencyInv, SubmitsReady
      <3>3. cur[a] \in Tasks
        BY <1>4 DEF TryEnqueue, TypeOK, FlowTypes, NamesTask
      <3>4. /\ state'[cur[a]] = kEnqueued
            /\ \A s \in Tasks : s # cur[a] => state'[s] = state[s]
        BY <3>1, <3>3 DEF TypeOK, TaskTypes
      <3>5. pc'[a] = "push" /\ \A b \in Activities \ {a} : pc'[b] = pc[b]
        BY <3>1 DEF Goto, TypeOK, FlowTypes
      <3>6. \A b \in Activities : pc'[b] \in {"submit", "last"} => pending[cur'[b]] = 0
        BY <3>1, <3>5 DEF DependencyInv, SubmitsReady
      <3>7. \A s \in Tasks : pc'[s] \in {"wake", "finish", "last"}
                               => pc[s] \in {"wake", "finish", "last"}
        BY <3>5 DEF Activities
      <3>8. /\ \A s \in Tasks : state[s] = kDone => state'[s] = kDone
            /\ \A s \in Tasks : state'[s] >= kEnqueued
                                  => state[s] >= kEnqueued \/ pending[s] = 0
        BY <2>2, <3>2, <3>4
      <3> QED  BY <3>1, <3>6, <3>7, <3>8, DependencyFrame
    <2> QED  BY <2>1, <2>2
  <1>5. CASE PushJob(a)
    BY <1>5, <1>a, DependencyJump DEF PushJob, AfterSubmit
  <1> QED  BY <1>1, <1>2, <1>3, <1>4, <1>5 DEF SchedulerStep

(* OnTaskFinished takes one predecessor off the count of one successor.    *)
LEMMA DependencyDecrement ==
    ASSUME TypeOK, DependencyInv, NEW t \in Tasks, DecrementSuccessor(t)
    PROVE  DependencyInv'
  <1> USE DEF At, taskVars, flowVars
  <1>1. PICK s \in rest[t] :
          IF pending[s] > 0
          THEN /\ pending' = [pending EXCEPT ![s] = @ - 1]
               /\ rest' = [rest EXCEPT ![t] = @ \ {s}]
               /\ cur' = [cur EXCEPT ![t] = s]
               /\ Goto(t, IF pending[s] = 1 THEN "last" ELSE "finish")
               /\ UNCHANGED state
          ELSE Abort
    BY DEF DecrementSuccessor
  <1>2. CASE ~(pending[s] > 0)
    BY <1>1, <1>2, DependencyStutter DEF Abort
  <1>3. CASE pending[s] > 0
    <2>1. s \in Tasks /\ s \in Successors(t) /\ t \in Predecessors[s]
      BY DEF TypeOK, FlowTypes, DependencyInv, RestIsSuccessors, Successors
    <2>2. state[t] = kDone
      BY DEF DecrementSuccessor, DependencyInv, FinishesWhenDone
    <2>3. rest'[t] = rest[t] \ {s} /\ \A p \in Tasks \ {t} : rest'[p] = rest[p]
      BY <1>1, <1>3 DEF TypeOK, FlowTypes
    <2>4. pending'[s] = pending[s] - 1 /\ \A u \in Tasks \ {s} : pending'[u] = pending[u]
      BY <1>1, <1>3, <2>1 DEF TypeOK, TaskTypes
    <2>5. pending[s] \in Nat  BY <2>1 DEF TypeOK, TaskTypes
    <2>6. t \in Activities  BY DEF Activities
    <2>7. /\ pc'[t] = IF pending[s] = 1 THEN "last" ELSE "finish"
          /\ cur'[t] = s
          /\ \A b \in Activities \ {t} : pc'[b] = pc[b] /\ cur'[b] = cur[b]
      BY <1>1, <1>3, <2>6 DEF Goto, TypeOK, FlowTypes
    <2>8. UNCHANGED state  BY <1>1, <1>3
    <2>9. RestIsSuccessors' /\ VisitsWhenDone'
      BY <2>2, <2>3, <2>8
      DEF DependencyInv, RestIsSuccessors, VisitsWhenDone, Successors
    <2>10. FinishesWhenDone'
      BY <2>2, <2>7, <2>8 DEF DependencyInv, FinishesWhenDone, Activities
    <2>11. EnqueuedIsReady'
      BY <1>3, <2>1, <2>4, <2>8 DEF DependencyInv, EnqueuedIsReady
    <2>12. SubmitsReady'
      <3> SUFFICES ASSUME NEW b \in Activities, pc'[b] \in {"submit", "last"}
                   PROVE  pending'[cur'[b]] = 0
        BY DEF SubmitsReady
      <3>1. CASE b = t
        BY <2>4, <2>5, <2>7, <3>1
      <3>2. CASE b # t
        <4>1. pending[cur[b]] = 0 /\ pc[b] = pc'[b] /\ cur'[b] = cur[b]
          BY <2>7, <3>2 DEF DependencyInv, SubmitsReady
        <4>2. cur[b] \in Tasks  BY <4>1 DEF TypeOK, FlowTypes, NamesTask
        <4> QED  BY <1>3, <2>4, <4>1, <4>2
      <3> QED  BY <3>1, <3>2
    <2>13. PendingIsExact'
      <3> SUFFICES ASSUME NEW u \in Tasks PROVE pending'[u] = Cardinality(ToVisit(u)')
        BY DEF PendingIsExact, ToVisit
      <3>1. pending[u] = Cardinality(ToVisit(u))
        BY DEF DependencyInv, PendingIsExact, ToVisit
      <3>2. CASE u = s
        <4>1. ToVisit(s)' = ToVisit(s) \ {t}
          BY <2>1, <2>3, FragmentAssumption DEF ToVisit
        <4>2. t \in ToVisit(s)  BY <2>1 DEF ToVisit
        <4>3. Cardinality(ToVisit(s) \ {t}) = Cardinality(ToVisit(s)) - 1
          BY <2>1, <4>2, ToVisitFinite, FS_RemoveElement
        <4> QED  BY <2>4, <3>1, <3>2, <4>1, <4>3
      <3>3. CASE u # s
        <4>1. ToVisit(u)' = ToVisit(u)
          BY <2>3, <3>3, FragmentAssumption DEF ToVisit
        <4> QED  BY <2>4, <3>1, <3>3, <4>1
      <3> QED  BY <3>2, <3>3
    <2> QED  BY <2>9, <2>10, <2>11, <2>12, <2>13 DEF DependencyInv
  <1> QED  BY <1>2, <1>3

(* The steps of a job keep the dependency invariant.                       *)
LEMMA DependencyJobStep ==
    ASSUME TypeOK, DependencyInv, NEW t \in Tasks, JobStep(t)
    PROVE  DependencyInv'
  <1> USE DEF At, taskVars, flowVars
  <1>a. t \in Activities /\ t # Client  BY FragmentAssumption DEF Activities
  <1>b. ASSUME Abort PROVE DependencyInv'  BY <1>b, DependencyStutter DEF Abort
  <1>c. state \in [Tasks -> TaskState]  BY DEF TypeOK, TaskTypes
  <1>1. CASE Execute(t)
    <2>1. CASE state[t] = kEnqueued
      <3>1. /\ state' = [state EXCEPT ![t] = kStarted]
            /\ Goto(t, IF Subtasks[t] = {} \/ MissingInput(t)
                       THEN "operate" ELSE "acquire")
            /\ UNCHANGED <<pending, rest, cur>>
        BY <1>1, <2>1 DEF Execute
      <3>2. state'[t] = kStarted /\ \A s \in Tasks \ {t} : state'[s] = state[s]
        BY <1>c, <3>1
      <3>3. pc'[t] \in {"operate", "acquire"} /\ \A b \in Activities \ {t} : pc'[b] = pc[b]
        BY <1>a, <3>1 DEF Goto, TypeOK, FlowTypes
      <3>4. \A b \in Activities : pc'[b] \in {"submit", "last"} => pending[cur'[b]] = 0
        BY <3>1, <3>3 DEF DependencyInv, SubmitsReady
      <3>5. \A s \in Tasks : pc'[s] \in {"wake", "finish", "last"}
                               => pc[s] \in {"wake", "finish", "last"}
        BY <3>3 DEF Activities
      <3>6. /\ \A s \in Tasks : state[s] = kDone => state'[s] = kDone
            /\ \A s \in Tasks : state'[s] >= kEnqueued => state[s] >= kEnqueued
        BY <2>1, <3>2
      <3> QED  BY <3>1, <3>4, <3>5, <3>6, DependencyFrame
    <2> QED  BY <1>1, <1>b, <2>1 DEF Execute
  <1>2. CASE AcquireScheduler(t)
    BY <1>2, <1>a, DependencyJump DEF AcquireScheduler
  <1>3. CASE WaitForSubtasks(t)
    BY <1>3, <1>a, DependencyJump DEF WaitForSubtasks
  <1>4. CASE SubtasksDone(t)
    <2>1. CASE holders # {t}
      BY <1>4, <2>1, <1>a, DependencyJump DEF SubtasksDone
    <2> QED  BY <1>4, <1>b, <2>1 DEF SubtasksDone
  <1>5. CASE Operate(t)
    <2>1. CASE /\ Goto(t, "clear")
               /\ UNCHANGED <<state, pending, rest, cur>>
      BY <1>a, <2>1, DependencyJump
    <2>2. CASE /\ Goto(t, "complete")
               /\ UNCHANGED <<state, pending, rest, cur>>
      BY <1>a, <2>2, DependencyJump
    <2> QED  BY <1>5, <1>b, <2>1, <2>2 DEF Operate
  <1>6. CASE ClearInput(t)
    BY <1>6, DependencyStutter DEF ClearInput
  <1>7. CASE InputsCleared(t)
    BY <1>7, <1>a, DependencyJump DEF InputsCleared
  <1>8. CASE Complete(t)
    <2>1. CASE state[t] = kStarted
      <3>1. /\ state' = [state EXCEPT ![t] = kDone]
            /\ Goto(t, "wake") /\ UNCHANGED <<pending, rest, cur>>
        BY <1>8, <2>1 DEF Complete
      <3>2. state'[t] = kDone /\ \A s \in Tasks \ {t} : state'[s] = state[s]
        BY <1>c, <3>1
      <3>3. pc'[t] = "wake" /\ \A b \in Activities \ {t} : pc'[b] = pc[b]
        BY <1>a, <3>1 DEF Goto, TypeOK, FlowTypes
      <3>4. \A b \in Activities : pc'[b] \in {"submit", "last"} => pending[cur'[b]] = 0
        BY <3>1, <3>3 DEF DependencyInv, SubmitsReady
      <3>5. \A s \in Tasks : pc'[s] \in {"wake", "finish", "last"}
                => pc[s] \in {"wake", "finish", "last"} \/ state'[s] = kDone
        BY <3>2, <3>3 DEF Activities
      <3>6. /\ \A s \in Tasks : state[s] = kDone => state'[s] = kDone
            /\ \A s \in Tasks : state'[s] >= kEnqueued => state[s] >= kEnqueued
        BY <2>1, <3>2
      <3> QED  BY <3>1, <3>4, <3>5, <3>6, DependencyFrame
    <2> QED  BY <1>8, <1>b, <2>1 DEF Complete
  <1>9. CASE WakeJoiner(t)
    <2>1. state[t] = kDone
      BY <1>9 DEF WakeJoiner, DependencyInv, FinishesWhenDone
    <2>2. /\ pc'[t] = "finish"
          /\ pc'[Client] \in {"joined", pc[Client]}
          /\ \A b \in Activities \ {t, Client} : pc'[b] = pc[b]
      BY <1>9, <1>a DEF WakeJoiner, TypeOK, FlowTypes, Activities
    <2>3. UNCHANGED <<state, pending, rest, cur>>  BY <1>9 DEF WakeJoiner
    <2>4. \A b \in Activities : pc'[b] \in {"submit", "last"} => pending[cur'[b]] = 0
      BY <2>2, <2>3 DEF DependencyInv, SubmitsReady, Activities
    <2>5. \A s \in Tasks : pc'[s] \in {"wake", "finish", "last"} =>
              pc[s] \in {"wake", "finish", "last"} \/ state'[s] = kDone
      BY <2>1, <2>2, <2>3, FragmentAssumption DEF Activities
    <2> QED  BY <2>3, <2>4, <2>5, DependencyFrame
  <1>10. CASE DecrementSuccessor(t)
    BY <1>10, DependencyDecrement
  <1>11. CASE CheckSuccessorScheduled(t)
    <2>1. state[t] = kDone /\ pending[cur[t]] = 0
      BY <1>11, <1>a
      DEF CheckSuccessorScheduled, DependencyInv, FinishesWhenDone, SubmitsReady
    <2> QED  BY <1>11, <1>a, <2>1, DependencyJump DEF CheckSuccessorScheduled
  <1>12. CASE UncountScheduled(t)
    BY <1>12, <1>a, DependencyJump DEF UncountScheduled
  <1>13. CASE NotifyAllDone(t)
    <2>1. /\ pc'[t] = "end"
          /\ pc'[Client] \in {"checkAll", pc[Client]}
          /\ \A b \in Activities \ {t, Client} : pc'[b] = pc[b]
      BY <1>13, <1>a DEF NotifyAllDone, TypeOK, FlowTypes, Activities
    <2>2. UNCHANGED <<state, pending, rest, cur>>  BY <1>13 DEF NotifyAllDone
    <2>3. \A b \in Activities : pc'[b] \in {"submit", "last"} => pending[cur'[b]] = 0
      BY <2>1, <2>2 DEF DependencyInv, SubmitsReady, Activities
    <2>4. \A s \in Tasks : pc'[s] \in {"wake", "finish", "last"} =>
              pc[s] \in {"wake", "finish", "last"}
      BY <2>1, FragmentAssumption DEF Activities
    <2> QED  BY <2>2, <2>3, <2>4, DependencyFrame
  <1> QED
    BY <1>1, <1>2, <1>3, <1>4, <1>5, <1>6, <1>7, <1>8, <1>9, <1>10, <1>11, <1>12,
       <1>13 DEF JobStep

(* The steps of the executor's threads keep the dependency invariant.      *)
LEMMA DependencyThreadStep ==
    ASSUME TypeOK, DependencyInv, NEW th \in Threads,
           \/ WorkerMain(th) \/ WorkerProcessSingleItem(th)
           \/ WorkerProcessSingleItemNoWait(th) \/ EndJob(th)
    PROVE  DependencyInv'
  <1> USE DEF At, taskVars, flowVars
  <1>a. queue # <<>> => Head(queue) \in Activities
    BY DEF TypeOK, ExecutorTypes, Activities
  <1>b. stack[th] # <<>> => Head(stack[th]) \in Activities
    BY DEF TypeOK, ExecutorTypes, Activities
  <1>1. CASE WorkerMain(th)
    BY <1>1, DependencyStutter DEF WorkerMain
  <1>2. CASE WorkerProcessSingleItem(th)
    <2>1. CASE queue # <<>>
      BY <1>2, <1>a, <2>1, DependencyJump DEF WorkerProcessSingleItem, StartJob
    <2> QED  BY <1>2, <2>1, DependencyStutter DEF WorkerProcessSingleItem
  <1>3. CASE WorkerProcessSingleItemNoWait(th)
    <2>1. CASE running
      BY <1>3, <1>a, <2>1, DependencyJump DEF WorkerProcessSingleItemNoWait, StartJob
    <2> QED  BY <1>3, <2>1, DependencyStutter DEF WorkerProcessSingleItemNoWait
  <1>4. CASE EndJob(th)
    BY <1>4, <1>b, DependencyJump DEF EndJob
  <1> QED  BY <1>1, <1>2, <1>3, <1>4

(* The steps of the client keep the dependency invariant.                  *)
LEMMA DependencyClientStep ==
    ASSUME TypeOK, DependencyInv,
           \/ StartWaiting \/ Join \/ RethrowOrContinue \/ AllJoined
           \/ CheckAllDone \/ BlockUntilNotified \/ SpuriousWakeup
           \/ LeaveScope \/ StopRunning \/ CloseQueue \/ JoinThreads
    PROVE  DependencyInv'
  <1> USE DEF At, taskVars, flowVars
  <1>a. Client \in Activities  BY DEF Activities
  <1>1. CASE StartWaiting
    BY <1>1, <1>a, DependencyJump DEF StartWaiting
  <1>2. CASE Join
    <2>1. PICK t \in todo[Client] :
            /\ cur' = [cur EXCEPT ![Client] = t]
            /\ Goto(Client, IF IsDone(t) THEN "joined" ELSE "joinWait")
      BY <1>2 DEF Join
    <2>2. cur' = [cur EXCEPT ![Client] = cur'[Client]]
      BY <1>a, <2>1 DEF TypeOK, FlowTypes
    <2> QED  BY <1>2, <1>a, <2>1, <2>2, DependencyMove DEF Join
  <1>3. CASE RethrowOrContinue
    BY <1>3, <1>a, DependencyJump DEF RethrowOrContinue
  <1>4. CASE AllJoined  BY <1>4, <1>a, DependencyJump DEF AllJoined
  <1>5. CASE CheckAllDone  BY <1>5, <1>a, DependencyJump DEF CheckAllDone
  <1>6. CASE BlockUntilNotified  BY <1>6, <1>a, DependencyJump DEF BlockUntilNotified
  <1>7. CASE SpuriousWakeup  BY <1>7, <1>a, DependencyJump DEF SpuriousWakeup
  <1>8. CASE LeaveScope  BY <1>8, <1>a, DependencyJump DEF LeaveScope
  <1>9. CASE StopRunning  BY <1>9, <1>a, DependencyJump DEF StopRunning
  <1>10. CASE CloseQueue  BY <1>10, <1>a, DependencyJump DEF CloseQueue
  <1>11. CASE JoinThreads  BY <1>11, <1>a, DependencyJump DEF JoinThreads
  <1> QED
    BY <1>1, <1>2, <1>3, <1>4, <1>5, <1>6, <1>7, <1>8, <1>9, <1>10, <1>11

(* Every step keeps the dependency invariant.                              *)
LEMMA DependencyNext == TypeOK /\ DependencyInv /\ [Next]_vars => DependencyInv'
  <1> SUFFICES ASSUME TypeOK, DependencyInv, [Next]_vars PROVE DependencyInv'  OBVIOUS
  <1>1. UNCHANGED vars => DependencyInv'
    BY DependencyStutter DEF vars, taskVars, flowVars
  <1> QED
    BY <1>1, DependencySchedulerStep, DependencyJobStep, DependencyThreadStep,
       DependencyClientStep, NextCases

(* The invariant holds in every reachable state.                           *)
LEMMA DependencyCorrect == Spec => []DependencyInv
  BY DependencyInit, DependencyNext, TypeCorrect, PTL DEF Spec

(* A task with no visit to come has only done predecessors.                *)
LEMMA ReadyMeansDone ==
    ASSUME DependencyInv, NEW t \in Tasks, pending[t] = 0
    PROVE  \A p \in Predecessors[t] : IsDone(p)
  <1>1. ToVisit(t) = {}
    <2>1. Cardinality(ToVisit(t)) = 0  BY DEF DependencyInv, PendingIsExact, ToVisit
    <2> QED  BY <2>1, ToVisitFinite, FS_EmptySet
  <1> SUFFICES ASSUME NEW p \in Predecessors[t] PROVE IsDone(p)  OBVIOUS
  <1>2. p \in Tasks  BY FragmentAssumption
  <1>3. t \in Successors(p) /\ t \notin rest[p]  BY <1>1 DEF Successors, ToVisit
  <1> QED  BY <1>2, <1>3 DEF DependencyInv, VisitsWhenDone, IsDone

(* No task of any task graph starts before all of its predecessors are     *)
(* done, however Schedule, OnTaskFinished and the threads interleave, with *)
(* nested scheduling and with failing tasks.                               *)
THEOREM DependenciesRespected == Spec => []DependencyOrder
  <1>1. TypeOK /\ DependencyInv => DependencyOrder
    <2> SUFFICES ASSUME TypeOK, DependencyInv, NEW t \in Tasks, state[t] >= kStarted
                 PROVE  \A p \in Predecessors[t] : IsDone(p)
      BY DEF DependencyOrder
    <2>1. state[t] >= kEnqueued  BY DEF TypeOK, TaskTypes, TaskState
    <2>2. pending[t] = 0  BY <2>1 DEF DependencyInv, EnqueuedIsReady
    <2> QED  BY <2>2, ReadyMeansDone
  <1> QED  BY <1>1, TypeCorrect, DependencyCorrect, PTL

(* pending_predecessors_ always equals the number of predecessors whose    *)
(* OnTaskFinished has yet to decrement it.                                 *)
THEOREM PendingCountCorrect == Spec => []PendingIsExact
  <1>1. DependencyInv => PendingIsExact  BY DEF DependencyInv
  <1> QED  BY <1>1, DependencyCorrect, PTL

-----------------------------------------------------------------------------
(***************************************************************************)
(* Jobs.  The activity that moves a task to kEnqueued is the only one that *)
(* pushes its job, and until a thread pops the job the task has not moved. *)
(***************************************************************************)
EarlyIsIdle == \A t \in Tasks : state[t] < kEnqueued => pc[t] = "idle"

Queued(t) == \E i \in 1 .. Len(queue) : queue[i] = t

PushIsExclusive ==
    \A a \in Activities : pc[a] = "push" =>
        /\ state[cur[a]] = kEnqueued
        /\ pc[cur[a]] = "idle"
        /\ ~Queued(cur[a])
        /\ \A b \in Activities : pc[b] = "push" /\ cur[b] = cur[a] => a = b

(* The inductive invariant behind OneJobPerTask.                           *)
JobInv == EarlyIsIdle /\ PushIsExclusive /\ OneJobPerTask

(* Initially nothing is queued and no task runs.                           *)
LEMMA JobInit == Init => JobInv
  BY FragmentAssumption
  DEF Init, JobInv, EarlyIsIdle, PushIsExclusive, OneJobPerTask, Activities

(* A step keeps the invariant if it leaves the queue and the tasks that    *)
(* have not started alone and nobody comes to push.                        *)
LEMMA JobFrame ==
    ASSUME TypeOK, JobInv, UNCHANGED queue,
           \A t \in Tasks : pc[t] = "idle" =>
               pc'[t] = "idle" /\ (state[t] = kEnqueued => state'[t] = kEnqueued),
           \A t \in Tasks : state'[t] < kEnqueued => state[t] < kEnqueued,
           \A a \in Activities : pc'[a] = "push" => pc[a] = "push" /\ cur'[a] = cur[a]
    PROVE  JobInv'
  <1>1. \A i \in 1 .. Len(queue) : queue[i] \in Tasks  BY DEF TypeOK, ExecutorTypes
  <1>2. OneJobPerTask'  BY <1>1 DEF JobInv, OneJobPerTask
  <1>3. EarlyIsIdle'  BY DEF JobInv, EarlyIsIdle
  <1>4. PushIsExclusive'
    <2> SUFFICES ASSUME NEW a \in Activities, pc'[a] = "push"
                 PROVE  /\ state'[cur'[a]] = kEnqueued
                        /\ pc'[cur'[a]] = "idle"
                        /\ ~Queued(cur[a])
                        /\ \A b \in Activities : pc'[b] = "push" /\ cur'[b] = cur'[a] => a = b
      BY DEF PushIsExclusive, Queued
    <2>1. pc[a] = "push" /\ cur'[a] = cur[a]  OBVIOUS
    <2>2. cur[a] \in Tasks  BY <2>1 DEF TypeOK, FlowTypes, NamesTask
    <2> QED  BY <2>1, <2>2 DEF JobInv, PushIsExclusive
  <1> QED  BY <1>2, <1>3, <1>4 DEF JobInv

(* A step that changes none of the variables of the invariant.             *)
LEMMA JobStutter ==
    ASSUME TypeOK, JobInv, UNCHANGED <<state, queue, pc, cur>>
    PROVE  JobInv'
  BY JobFrame

(* An activity that is not idle moves on to something else than a push.    *)
LEMMA JobMove ==
    ASSUME TypeOK, JobInv, UNCHANGED queue,
           NEW a \in Activities, pc[a] # "idle", NEW label, label # "push",
           Goto(a, label), \A b \in Activities \ {a} : cur'[b] = cur[b],
           \A t \in Tasks : pc[t] = "idle" /\ state[t] = kEnqueued => state'[t] = kEnqueued,
           \A t \in Tasks : state'[t] < kEnqueued => state[t] < kEnqueued
    PROVE  JobInv'
  <1>1. pc'[a] = label /\ \A b \in Activities \ {a} : pc'[b] = pc[b]
    BY DEF Goto, TypeOK, FlowTypes
  <1>2. \A t \in Tasks : pc[t] = "idle" => pc'[t] = "idle"  BY <1>1 DEF Activities
  <1>3. \A b \in Activities : pc'[b] = "push" => pc[b] = "push" /\ cur'[b] = cur[b]
    BY <1>1
  <1> QED  BY <1>2, <1>3, JobFrame

(* As JobMove, when no task changes its state.                             *)
LEMMA JobJump ==
    ASSUME TypeOK, JobInv, UNCHANGED <<state, queue, cur>>,
           NEW a \in Activities, pc[a] # "idle", NEW label, label # "push",
           Goto(a, label)
    PROVE  JobInv'
  BY JobMove

(* The operations of the scheduler keep the job invariant.                 *)
LEMMA JobSchedulerStep ==
    ASSUME TypeOK, JobInv, NEW a \in Activities, SchedulerStep(a)
    PROVE  JobInv'
  <1> USE DEF At, taskVars, flowVars, execVars
  <1>1. CASE Schedule(a)
    <2>1. PICK t \in todo[a] :
            IF state[t] >= kScheduled
            THEN UNCHANGED <<state, pc, cur>>
            ELSE /\ state' = [state EXCEPT ![t] = kScheduled]
                 /\ cur' = [cur EXCEPT ![a] = t]
                 /\ Goto(a, "count")
      BY <1>1 DEF Schedule
    <2>2. UNCHANGED queue /\ pc[a] # "idle"  BY <1>1 DEF Schedule
    <2>3. CASE state[t] >= kScheduled
      BY <2>1, <2>2, <2>3, JobStutter
    <2>4. CASE ~(state[t] >= kScheduled)
      <3>1. t \in Tasks  BY DEF TypeOK, FlowTypes
      <3>2. /\ state'[t] = kScheduled /\ state[t] = kCreated
            /\ \A s \in Tasks : s # t => state'[s] = state[s]
        BY <2>1, <2>4, <3>1 DEF TypeOK, TaskTypes, TaskState
      <3>3. \A b \in Activities \ {a} : cur'[b] = cur[b]
        BY <2>1, <2>4 DEF TypeOK, FlowTypes
      <3>4. \A s \in Tasks : pc[s] = "idle" /\ state[s] = kEnqueued => state'[s] = kEnqueued
        BY <3>2
      <3>5. \A s \in Tasks : state'[s] < kEnqueued => state[s] < kEnqueued
        BY <3>2
      <3> QED  BY <2>1, <2>2, <2>4, <3>3, <3>4, <3>5, JobMove
    <2> QED  BY <2>3, <2>4
  <1>2. CASE CountScheduled(a)  BY <1>2, JobJump DEF CountScheduled
  <1>3. CASE CheckReady(a)  BY <1>3, JobJump DEF CheckReady
  <1>4. CASE TryEnqueue(a)
    <2>1. CASE state[cur[a]] >= kEnqueued
      BY <1>4, <2>1, JobJump DEF TryEnqueue, AfterSubmit
    <2>2. CASE ~(state[cur[a]] >= kEnqueued)
      <3> DEFINE t == cur[a]
      <3>1. /\ state' = [state EXCEPT ![t] = kEnqueued]
            /\ Goto(a, "push") /\ UNCHANGED <<queue, cur>> /\ pc[a] = "submit"
        BY <1>4, <2>2 DEF TryEnqueue
      <3>2. t \in Tasks /\ t \in Activities
        BY <3>1 DEF TypeOK, FlowTypes, NamesTask, Activities
      <3>3. state[t] < kEnqueued  BY <2>2, <3>2 DEF TypeOK, TaskTypes, TaskState
      <3>4. state'[t] = kEnqueued /\ \A s \in Tasks : s # t => state'[s] = state[s]
        BY <3>1, <3>2 DEF TypeOK, TaskTypes
      <3>5. pc'[a] = "push" /\ \A b \in Activities \ {a} : pc'[b] = pc[b]
        BY <3>1 DEF Goto, TypeOK, FlowTypes
      <3>6. pc[t] = "idle"  BY <3>2, <3>3 DEF JobInv, EarlyIsIdle
      <3>7. t # a /\ pc'[t] = "idle"  BY <3>1, <3>2, <3>5, <3>6
      <3>8. \A i \in 1 .. Len(queue) : queue[i] \in Tasks /\ queue[i] # t /\ queue[i] # a
        BY <3>1, <3>3 DEF JobInv, OneJobPerTask, TypeOK, ExecutorTypes
      <3>9. OneJobPerTask'
        BY <3>1, <3>4, <3>5, <3>8 DEF JobInv, OneJobPerTask, Activities
      <3>10. EarlyIsIdle'
        BY <3>1, <3>3, <3>4, <3>5, <3>7 DEF JobInv, EarlyIsIdle, Activities
      <3>11. \A b \in Activities : pc[b] = "push" =>
                cur[b] \in Tasks /\ cur[b] # t /\ cur[b] # a
        BY <3>1, <3>3 DEF JobInv, PushIsExclusive, TypeOK, FlowTypes, NamesTask
      <3>12. PushIsExclusive'
        <4> SUFFICES ASSUME NEW b \in Activities, pc'[b] = "push"
                     PROVE  /\ state'[cur[b]] = kEnqueued
                            /\ pc'[cur[b]] = "idle"
                            /\ ~Queued(cur[b])
                            /\ \A c \in Activities :
                                 pc'[c] = "push" /\ cur[c] = cur[b] => b = c
          BY <3>1 DEF PushIsExclusive, Queued
        <4>1. CASE b = a
          BY <3>4, <3>5, <3>7, <3>8, <3>11, <4>1 DEF Queued
        <4>2. CASE b # a
          <5>1. pc[b] = "push" /\ cur[b] \in Tasks /\ cur[b] # t /\ cur[b] # a
            BY <3>5, <3>11, <4>2
          <5>2. /\ state[cur[b]] = kEnqueued /\ pc[cur[b]] = "idle" /\ ~Queued(cur[b])
                /\ \A c \in Activities : pc[c] = "push" /\ cur[c] = cur[b] => b = c
            BY <5>1 DEF JobInv, PushIsExclusive
          <5> QED  BY <3>4, <3>5, <5>1, <5>2 DEF Activities
        <4> QED  BY <4>1, <4>2
      <3> QED  BY <3>9, <3>10, <3>12 DEF JobInv
    <2> QED  BY <2>1, <2>2
  <1>5. CASE PushJob(a)
    <2>1. CASE closed
      BY <1>5, <2>1, JobJump DEF PushJob, AfterSubmit
    <2>2. CASE ~closed
      <3> DEFINE t == cur[a]
      <3>1. /\ queue' = Append(queue, t) /\ pc[a] = "push"
            /\ UNCHANGED <<state, cur>> /\ Goto(a, AfterSubmit(a))
        BY <1>5, <2>2 DEF PushJob
      <3>2. t \in Tasks  BY <3>1 DEF TypeOK, FlowTypes, NamesTask
      <3>3. /\ state[t] = kEnqueued /\ pc[t] = "idle" /\ ~Queued(t)
            /\ \A b \in Activities : pc[b] = "push" /\ cur[b] = t => b = a
        BY <3>1 DEF JobInv, PushIsExclusive
      <3>4. pc'[a] \in {"finish", "schedule"} /\ \A b \in Activities \ {a} : pc'[b] = pc[b]
        BY <3>1 DEF Goto, AfterSubmit, TypeOK, FlowTypes
      <3>5. /\ Len(queue') = Len(queue) + 1 /\ queue'[Len(queue) + 1] = t
            /\ \A i \in 1 .. Len(queue) : queue'[i] = queue[i]
            /\ Len(queue) \in Nat
        BY <3>1, <3>2 DEF TypeOK, ExecutorTypes
      <3>6. \A i \in 1 .. Len(queue') : i \in 1 .. Len(queue) \/ (i = Len(queue) + 1 /\ queue'[i] = t)
        BY <3>5
      <3>7. \A i \in 1 .. Len(queue) : /\ queue[i] \in Tasks /\ queue[i] # t
                                       /\ queue[i] # a /\ state[queue[i]] = kEnqueued
                                       /\ pc[queue[i]] = "idle"
        BY <3>1, <3>3 DEF JobInv, OneJobPerTask, Queued, TypeOK, ExecutorTypes
      <3>8. OneJobPerTask'
        <4>1. \A i, j \in 1 .. Len(queue') : queue'[i] = queue'[j] => i = j
          BY <3>5, <3>6, <3>7 DEF JobInv, OneJobPerTask
        <4>2. \A i \in 1 .. Len(queue') : state[queue'[i]] = kEnqueued /\ pc'[queue'[i]] = "idle"
          BY <3>1, <3>2, <3>3, <3>4, <3>5, <3>6, <3>7 DEF Activities
        <4> QED  BY <3>1, <4>1, <4>2 DEF OneJobPerTask
      <3>9. EarlyIsIdle'
        BY <3>1, <3>4 DEF JobInv, EarlyIsIdle, Activities
      <3>10. PushIsExclusive'
        <4> SUFFICES ASSUME NEW b \in Activities, pc'[b] = "push"
                     PROVE  /\ state[cur[b]] = kEnqueued
                            /\ pc'[cur[b]] = "idle"
                            /\ ~Queued(cur[b])'
                            /\ \A c \in Activities :
                                 pc'[c] = "push" /\ cur[c] = cur[b] => b = c
          BY <3>1 DEF PushIsExclusive, Queued
        <4>1. b # a /\ pc[b] = "push"  BY <3>4
        <4>2. /\ state[cur[b]] = kEnqueued /\ pc[cur[b]] = "idle" /\ ~Queued(cur[b])
              /\ \A c \in Activities : pc[c] = "push" /\ cur[c] = cur[b] => b = c
              /\ cur[b] \in Tasks
          BY <4>1 DEF JobInv, PushIsExclusive, TypeOK, FlowTypes, NamesTask
        <4>3. cur[b] # t /\ cur[b] # a  BY <3>1, <3>3, <4>1, <4>2
        <4>4. ~Queued(cur[b])'
          BY <3>1, <3>5, <3>6, <4>2, <4>3 DEF Queued
        <4> QED  BY <3>4, <4>2, <4>3, <4>4 DEF Activities
      <3> QED  BY <3>8, <3>9, <3>10 DEF JobInv
    <2> QED  BY <2>1, <2>2
  <1> QED  BY <1>1, <1>2, <1>3, <1>4, <1>5 DEF SchedulerStep

(* The steps of a job keep the job invariant.                              *)
LEMMA JobJobStep ==
    ASSUME TypeOK, JobInv, NEW t \in Tasks, JobStep(t)
    PROVE  JobInv'
  <1> USE DEF At, taskVars, flowVars, execVars
  <1>a. t \in Activities /\ t # Client  BY FragmentAssumption DEF Activities
  <1>b. ASSUME Abort PROVE JobInv'  BY <1>b, JobStutter DEF Abort
  <1>c. state \in [Tasks -> TaskState]  BY DEF TypeOK, TaskTypes
  <1>d. ASSUME pc[t] # "idle", UNCHANGED <<queue, cur>>, NEW new \in {kStarted, kDone},
               state' = [state EXCEPT ![t] = new],
               NEW label, label # "push", Goto(t, label)
        PROVE  JobInv'
    <2>1. state'[t] = new /\ \A s \in Tasks \ {t} : state'[s] = state[s]
      BY <1>c, <1>d
    <2>2. \A s \in Tasks : pc[s] = "idle" /\ state[s] = kEnqueued => state'[s] = kEnqueued
      BY <1>d, <2>1
    <2>3. \A s \in Tasks : state'[s] < kEnqueued => state[s] < kEnqueued
      BY <1>d, <2>1
    <2> QED  BY <1>a, <1>d, <2>2, <2>3, JobMove
  <1>1. CASE Execute(t)
    <2>1. CASE state[t] = kEnqueued
      BY <1>1, <1>d, <2>1 DEF Execute
    <2> QED  BY <1>1, <1>b, <2>1 DEF Execute
  <1>2. CASE AcquireScheduler(t)  BY <1>2, <1>a, JobJump DEF AcquireScheduler
  <1>3. CASE WaitForSubtasks(t)  BY <1>3, <1>a, JobJump DEF WaitForSubtasks
  <1>4. CASE SubtasksDone(t)
    <2>1. CASE holders # {t}  BY <1>4, <2>1, <1>a, JobJump DEF SubtasksDone
    <2> QED  BY <1>4, <1>b, <2>1 DEF SubtasksDone
  <1>5. CASE Operate(t)
    <2>1. CASE Goto(t, "clear") /\ UNCHANGED <<state, queue, cur>>
      BY <1>5, <1>a, <2>1, JobJump DEF Operate
    <2>2. CASE Goto(t, "complete") /\ UNCHANGED <<state, queue, cur>>
      BY <1>5, <1>a, <2>2, JobJump DEF Operate
    <2> QED  BY <1>5, <1>b, <2>1, <2>2 DEF Operate
  <1>6. CASE ClearInput(t)  BY <1>6, JobStutter DEF ClearInput
  <1>7. CASE InputsCleared(t)  BY <1>7, <1>a, JobJump DEF InputsCleared
  <1>8. CASE Complete(t)
    <2>1. CASE state[t] = kStarted
      BY <1>8, <1>d, <2>1 DEF Complete
    <2> QED  BY <1>8, <1>b, <2>1 DEF Complete
  <1>9. ASSUME pc[t] \in {"wake", "notify"}, UNCHANGED <<state, queue, cur>>,
               pc'[t] \in {"finish", "end"},
               pc'[Client] \in {"joined", "checkAll", pc[Client]},
               \A b \in Activities \ {t, Client} : pc'[b] = pc[b]
        PROVE  JobInv'
    <2>1. \A s \in Tasks : pc[s] = "idle" => pc'[s] = "idle"
      BY <1>9, FragmentAssumption DEF Activities
    <2>2. \A b \in Activities : pc'[b] = "push" => pc[b] = "push"
      BY <1>9 DEF Activities
    <2> QED  BY <1>9, <2>1, <2>2, JobFrame
  <1>10. CASE WakeJoiner(t)
    BY <1>10, <1>9, <1>a DEF WakeJoiner, TypeOK, FlowTypes, Activities
  <1>11. CASE DecrementSuccessor(t)
    <2>1. PICK s \in rest[t] :
            IF pending[s] > 0
            THEN /\ cur' = [cur EXCEPT ![t] = s]
                 /\ Goto(t, IF pending[s] = 1 THEN "last" ELSE "finish")
                 /\ UNCHANGED <<state, queue>>
            ELSE Abort
      BY <1>11 DEF DecrementSuccessor
    <2>2. CASE pending[s] > 0
      <3>1. \A b \in Activities \ {t} : cur'[b] = cur[b]
        BY <2>1, <2>2 DEF TypeOK, FlowTypes
      <3> QED  BY <1>11, <1>a, <2>1, <2>2, <3>1, JobMove DEF DecrementSuccessor
    <2> QED  BY <1>b, <2>1, <2>2
  <1>12. CASE CheckSuccessorScheduled(t)
    BY <1>12, <1>a, JobJump DEF CheckSuccessorScheduled
  <1>13. CASE UncountScheduled(t)  BY <1>13, <1>a, JobJump DEF UncountScheduled
  <1>14. CASE NotifyAllDone(t)
    BY <1>14, <1>9, <1>a DEF NotifyAllDone, TypeOK, FlowTypes, Activities
  <1> QED
    BY <1>1, <1>2, <1>3, <1>4, <1>5, <1>6, <1>7, <1>8, <1>10, <1>11, <1>12, <1>13,
       <1>14 DEF JobStep

(* Popping a job, to run it or to drop it, keeps the job invariant: nobody *)
(* else has the job.                                                       *)
LEMMA JobPop ==
    ASSUME TypeOK, JobInv, queue # <<>>, queue' = Tail(queue),
           UNCHANGED <<state, cur>>,
           UNCHANGED pc \/ Goto(Head(queue), "execute")
    PROVE  JobInv'
  <1> DEFINE t == Head(queue)
  <1>1. /\ Len(queue) \in Nat /\ Len(queue) >= 1 /\ t = queue[1] /\ t \in Tasks
        /\ Len(queue') = Len(queue) - 1
        /\ \A i \in 1 .. Len(queue') : queue'[i] = queue[i + 1]
    BY DEF TypeOK, ExecutorTypes
  <1>2. \A i \in 1 .. Len(queue') : i + 1 \in 1 .. Len(queue) /\ queue'[i] \in Tasks
    BY <1>1 DEF TypeOK, ExecutorTypes
  <1>3. \A b \in Activities \ {t} : pc'[b] = pc[b]
    BY DEF Goto, TypeOK, FlowTypes
  <1>4. \A i \in 1 .. Len(queue') : queue'[i] # t
    <2>1. 1 \in 1 .. Len(queue)  BY <1>1
    <2> QED  BY <1>1, <1>2, <2>1 DEF JobInv, OneJobPerTask
  <1>5. OneJobPerTask'
    <2>1. ASSUME NEW i \in 1 .. Len(queue'), NEW j \in 1 .. Len(queue'),
                 queue'[i] = queue'[j]
          PROVE  i = j
      <3>1. i + 1 = j + 1
        BY <1>1, <1>2, <2>1 DEF JobInv, OneJobPerTask
      <3> QED  BY <3>1
    <2>2. \A i \in 1 .. Len(queue') : state[queue'[i]] = kEnqueued /\ pc'[queue'[i]] = "idle"
      BY <1>1, <1>2, <1>3, <1>4 DEF JobInv, OneJobPerTask, Activities
    <2> QED  BY <2>1, <2>2 DEF OneJobPerTask
  <1>6. state[t] = kEnqueued /\ pc[t] = "idle" /\ Queued(t)
    <2>1. 1 \in 1 .. Len(queue)  BY <1>1
    <2> QED  BY <1>1, <2>1 DEF JobInv, OneJobPerTask, Queued
  <1>7. EarlyIsIdle'
    BY <1>3, <1>6 DEF JobInv, EarlyIsIdle, Activities
  <1>8. \A b \in Activities : pc'[b] = "push" => pc[b] = "push"
    BY <1>1, <1>3 DEF Goto, TypeOK, FlowTypes
  <1>9. PushIsExclusive'
    <2> SUFFICES ASSUME NEW b \in Activities, pc'[b] = "push"
                 PROVE  /\ state[cur[b]] = kEnqueued
                        /\ pc'[cur[b]] = "idle"
                        /\ ~Queued(cur[b])'
                        /\ \A c \in Activities : pc'[c] = "push" /\ cur[c] = cur[b] => b = c
      BY DEF PushIsExclusive, Queued
    <2>1. /\ state[cur[b]] = kEnqueued /\ pc[cur[b]] = "idle" /\ ~Queued(cur[b])
          /\ \A c \in Activities : pc[c] = "push" /\ cur[c] = cur[b] => b = c
          /\ cur[b] \in Tasks
      BY <1>8 DEF JobInv, PushIsExclusive, TypeOK, FlowTypes, NamesTask
    <2>2. cur[b] # t  BY <1>6, <2>1
    <2>3. ~Queued(cur[b])'
      <3> SUFFICES ASSUME NEW i \in 1 .. Len(queue'), queue'[i] = cur[b] PROVE FALSE
        BY DEF Queued
      <3> QED  BY <1>1, <1>2, <2>1 DEF Queued
    <2> QED  BY <1>3, <1>8, <2>1, <2>2, <2>3 DEF Activities
  <1> QED  BY <1>5, <1>7, <1>9 DEF JobInv

(* The steps of the executor's threads keep the job invariant.             *)
LEMMA JobThreadStep ==
    ASSUME TypeOK, JobInv, NEW th \in Threads,
           \/ WorkerMain(th) \/ WorkerProcessSingleItem(th)
           \/ WorkerProcessSingleItemNoWait(th) \/ EndJob(th)
    PROVE  JobInv'
  <1> USE DEF At, taskVars, flowVars, execVars
  <1>1. CASE WorkerMain(th)  BY <1>1, JobStutter DEF WorkerMain
  <1>2. CASE WorkerProcessSingleItem(th)
    <2>1. CASE queue # <<>>
      BY <1>2, <2>1, JobPop DEF WorkerProcessSingleItem, StartJob
    <2> QED  BY <1>2, <2>1, JobStutter DEF WorkerProcessSingleItem
  <1>3. CASE WorkerProcessSingleItemNoWait(th)
    BY <1>3, JobPop DEF WorkerProcessSingleItemNoWait, StartJob
  <1>4. CASE EndJob(th)
    <2>1. Head(stack[th]) \in Activities
      BY <1>4 DEF EndJob, TypeOK, ExecutorTypes, Activities
    <2> QED  BY <1>4, <2>1, JobJump DEF EndJob
  <1> QED  BY <1>1, <1>2, <1>3, <1>4

(* The steps of the client keep the job invariant.                         *)
LEMMA JobClientStep ==
    ASSUME TypeOK, JobInv,
           \/ StartWaiting \/ Join \/ RethrowOrContinue \/ AllJoined
           \/ CheckAllDone \/ BlockUntilNotified \/ SpuriousWakeup
           \/ LeaveScope \/ StopRunning \/ CloseQueue \/ JoinThreads
    PROVE  JobInv'
  <1> USE DEF At, taskVars, flowVars, execVars
  <1>a. Client \in Activities  BY DEF Activities
  <1>1. CASE StartWaiting  BY <1>1, <1>a, JobJump DEF StartWaiting
  <1>2. CASE Join
    <2>1. \A b \in Activities \ {Client} : cur'[b] = cur[b]
      BY <1>2 DEF Join, TypeOK, FlowTypes
    <2> QED  BY <1>2, <1>a, <2>1, JobMove DEF Join
  <1>3. CASE RethrowOrContinue  BY <1>3, <1>a, JobJump DEF RethrowOrContinue
  <1>4. CASE AllJoined  BY <1>4, <1>a, JobJump DEF AllJoined
  <1>5. CASE CheckAllDone  BY <1>5, <1>a, JobJump DEF CheckAllDone
  <1>6. CASE BlockUntilNotified  BY <1>6, <1>a, JobJump DEF BlockUntilNotified
  <1>7. CASE SpuriousWakeup  BY <1>7, <1>a, JobJump DEF SpuriousWakeup
  <1>8. CASE LeaveScope  BY <1>8, <1>a, JobJump DEF LeaveScope
  <1>9. CASE StopRunning  BY <1>9, <1>a, JobJump DEF StopRunning
  <1>10. CASE CloseQueue  BY <1>10, <1>a, JobJump DEF CloseQueue
  <1>11. CASE JoinThreads  BY <1>11, <1>a, JobJump DEF JoinThreads
  <1> QED
    BY <1>1, <1>2, <1>3, <1>4, <1>5, <1>6, <1>7, <1>8, <1>9, <1>10, <1>11

(* Every step keeps the job invariant.                                     *)
LEMMA JobNext == TypeOK /\ JobInv /\ [Next]_vars => JobInv'
  <1> SUFFICES ASSUME TypeOK, JobInv, [Next]_vars PROVE JobInv'  OBVIOUS
  <1>1. UNCHANGED vars => JobInv'
    BY JobStutter DEF vars, taskVars, flowVars, execVars
  <1> QED
    BY <1>1, JobSchedulerStep, JobJobStep, JobThreadStep, JobClientStep, NextCases

(* The invariant holds in every reachable state.                           *)
LEMMA JobCorrect == Spec => []JobInv
  BY JobInit, JobNext, TypeCorrect, PTL DEF Spec

(* Schedule and OnTaskFinished may both try to submit a task; its job      *)
(* enters the queue once, and a queued job has not begun to run.           *)
THEOREM JobsAreUnique == Spec => []OneJobPerTask
  <1>1. JobInv => OneJobPerTask  BY DEF JobInv
  <1> QED  BY <1>1, JobCorrect, PTL

-----------------------------------------------------------------------------
(***************************************************************************)
(* Nobody is stranded.  Whoever comes last to a task, Schedule or          *)
(* OnTaskFinished of its last predecessor, sees what the other one did.    *)
(***************************************************************************)
Tends(a, t) == cur[a] = t /\ pc[a] \in {"count", "ready", "submit", "last"}

(* The witnesses of NoStrandedTask stay when no task becomes ready or      *)
(* scheduled.                                                              *)
LEMMA StrandedFrame ==
    ASSUME NoStrandedTask, UNCHANGED pending,
           \A t \in Tasks : state'[t] = kScheduled => state[t] = kScheduled,
           \A a \in Activities, t \in Tasks :
               /\ state'[t] = kScheduled /\ pending[t] = 0
               /\ Tends(a, t)
               => Tends(a, t)'
    PROVE  NoStrandedTask'
  BY DEF NoStrandedTask, IsReady, Tends

(* An activity that tends to no task, or to one that no longer needs it,   *)
(* moves on.                                                               *)
LEMMA StrandedMove ==
    ASSUME TypeOK, NoStrandedTask, UNCHANGED pending, NEW a \in Activities,
           NEW label, Goto(a, label),
           \A b \in Activities \ {a} : cur'[b] = cur[b],
           \A t \in Tasks : state'[t] = kScheduled => state[t] = kScheduled,
           \A t \in Tasks :
               /\ state'[t] = kScheduled /\ pending[t] = 0
               /\ Tends(a, t)
               => Tends(a, t)'
    PROVE  NoStrandedTask'
  <1>1. \A b \in Activities \ {a} : pc'[b] = pc[b]
    BY DEF Goto, TypeOK, FlowTypes
  <1>2. \A b \in Activities \ {a}, t \in Tasks : Tends(b, t) => Tends(b, t)'
    BY <1>1 DEF Tends
  <1> QED  BY <1>2, StrandedFrame

(* As StrandedMove, for an activity that was tending to nothing.           *)
LEMMA StrandedJump ==
    ASSUME TypeOK, NoStrandedTask, UNCHANGED <<state, pending, cur>>,
           NEW a \in Activities, pc[a] \notin {"count", "ready", "submit", "last"},
           NEW label, Goto(a, label)
    PROVE  NoStrandedTask'
  BY StrandedMove DEF Tends

(* A step that changes none of the variables of NoStrandedTask.            *)
LEMMA StrandedStutter ==
    ASSUME NoStrandedTask, UNCHANGED <<state, pending, pc, cur>>
    PROVE  NoStrandedTask'
  BY DEF NoStrandedTask, IsReady

(* The operations of the scheduler strand no task.                         *)
LEMMA StrandedSchedulerStep ==
    ASSUME TypeOK, NoStrandedTask, NEW a \in Activities, SchedulerStep(a)
    PROVE  NoStrandedTask'
  <1> USE DEF At, taskVars, flowVars
  <1>a. pc \in [Activities -> TaskPc \cup ClientPc] /\ cur \in [Activities -> Activities]
    BY DEF TypeOK, FlowTypes
  <1>1. CASE Schedule(a)
    <2>1. PICK t \in todo[a] :
            IF state[t] >= kScheduled
            THEN UNCHANGED <<state, pc, cur>>
            ELSE /\ state' = [state EXCEPT ![t] = kScheduled]
                 /\ cur' = [cur EXCEPT ![a] = t]
                 /\ Goto(a, "count")
      BY <1>1 DEF Schedule
    <2>2. UNCHANGED pending /\ pc[a] = "schedule"  BY <1>1 DEF Schedule
    <2>3. CASE state[t] >= kScheduled  BY <2>1, <2>2, <2>3, StrandedStutter
    <2>4. CASE ~(state[t] >= kScheduled)
      <3>1. \A s \in Tasks : s # t => state'[s] = state[s]
        BY <2>1, <2>4 DEF TypeOK, TaskTypes
      <3>2. /\ pc'[a] = "count" /\ cur'[a] = t
            /\ \A b \in Activities \ {a} : pc'[b] = pc[b] /\ cur'[b] = cur[b]
        BY <1>a, <2>1, <2>4 DEF Goto
      <3> SUFFICES ASSUME NEW s \in Tasks, state'[s] = kScheduled, pending[s] = 0
                   PROVE  \E b \in Activities : Tends(b, s)'
        BY <2>2 DEF NoStrandedTask, IsReady, Tends
      <3>3. CASE s = t  BY <3>2, <3>3 DEF Tends
      <3>4. CASE s # t
        <4>1. PICK b \in Activities : Tends(b, s)
          BY <3>1, <3>4 DEF NoStrandedTask, IsReady, Tends
        <4>2. b # a  BY <2>2, <4>1 DEF Tends
        <4> QED  BY <3>2, <4>1, <4>2 DEF Tends
      <3> QED  BY <3>3, <3>4
    <2> QED  BY <2>3, <2>4
  <1>2. CASE CountScheduled(a)
    <2>1. pc'[a] = "ready" /\ cur' = cur  BY <1>2, <1>a DEF CountScheduled, Goto
    <2>2. \A t \in Tasks : Tends(a, t) => Tends(a, t)'  BY <2>1 DEF Tends
    <2> QED  BY <1>2, <2>1, <2>2, StrandedMove DEF CountScheduled
  <1>3. CASE CheckReady(a)
    <2>1. CASE IsReady(cur[a])
      <3>1. pc'[a] = "submit" /\ cur' = cur  BY <1>3, <1>a, <2>1 DEF CheckReady, Goto
      <3>2. \A t \in Tasks : Tends(a, t) => Tends(a, t)'  BY <3>1 DEF Tends
      <3> QED  BY <1>3, <2>1, <3>1, <3>2, StrandedMove DEF CheckReady
    <2>2. CASE ~IsReady(cur[a])
      <3>1. \A t \in Tasks : Tends(a, t) => pending[t] # 0  BY <2>2 DEF Tends, IsReady
      <3> QED  BY <1>3, <2>2, <3>1, StrandedMove DEF CheckReady
    <2> QED  BY <2>1, <2>2
  <1>4. CASE TryEnqueue(a)
    <2>1. UNCHANGED <<pending, cur>> /\ pc[a] = "submit"  BY <1>4 DEF TryEnqueue
    <2>2. cur[a] \in Tasks  BY <2>1 DEF TypeOK, FlowTypes, NamesTask
    <2>3. CASE state[cur[a]] >= kEnqueued
      <3>1. UNCHANGED state /\ Goto(a, AfterSubmit(a))  BY <1>4, <2>3 DEF TryEnqueue
      <3>2. \A t \in Tasks : Tends(a, t) => state[t] # kScheduled  BY <2>3 DEF Tends
      <3> QED  BY <2>1, <3>1, <3>2, StrandedMove
    <2>4. CASE ~(state[cur[a]] >= kEnqueued)
      <3>1. state' = [state EXCEPT ![cur[a]] = kEnqueued] /\ Goto(a, "push")
        BY <1>4, <2>4 DEF TryEnqueue
      <3>2. state'[cur[a]] = kEnqueued /\ \A t \in Tasks \ {cur[a]} : state'[t] = state[t]
        BY <2>2, <3>1 DEF TypeOK, TaskTypes
      <3>3. \A t \in Tasks : Tends(a, t) => state'[t] # kScheduled  BY <3>2 DEF Tends
      <3>4. \A t \in Tasks : state'[t] = kScheduled => state[t] = kScheduled
        BY <3>2
      <3> QED  BY <2>1, <3>1, <3>3, <3>4, StrandedMove
    <2> QED  BY <2>3, <2>4
  <1>5. CASE PushJob(a)  BY <1>5, StrandedJump DEF PushJob
  <1> QED  BY <1>1, <1>2, <1>3, <1>4, <1>5 DEF SchedulerStep

(* The steps of a job strand no task: the decrement that makes a successor *)
(* ready turns to that successor, and leaves it alone only if it is not    *)
(* scheduled yet.                                                          *)
LEMMA StrandedJobStep ==
    ASSUME TypeOK, NoStrandedTask, NEW t \in Tasks, JobStep(t)
    PROVE  NoStrandedTask'
  <1> USE DEF At, taskVars, flowVars
  <1>a. t \in Activities /\ t # Client  BY FragmentAssumption DEF Activities
  <1>b. ASSUME Abort PROVE NoStrandedTask'  BY <1>b, StrandedStutter DEF Abort
  <1>c. ASSUME pc[t] \in {"execute", "complete"}, UNCHANGED <<pending, cur>>,
               NEW new \in {kStarted, kDone}, state' = [state EXCEPT ![t] = new],
               NEW label, Goto(t, label)
        PROVE  NoStrandedTask'
    <2>1. \A s \in Tasks : state'[s] = kScheduled => state[s] = kScheduled
      BY <1>c DEF TypeOK, TaskTypes
    <2>2. \A s \in Tasks : ~Tends(t, s)  BY <1>c DEF Tends
    <2> QED  BY <1>a, <1>c, <2>1, <2>2, StrandedMove
  <1>1. CASE Execute(t)
    <2>1. CASE state[t] = kEnqueued  BY <1>1, <1>c, <2>1 DEF Execute
    <2> QED  BY <1>1, <1>b, <2>1 DEF Execute
  <1>2. CASE AcquireScheduler(t)  BY <1>2, <1>a, StrandedJump DEF AcquireScheduler
  <1>3. CASE WaitForSubtasks(t)  BY <1>3, <1>a, StrandedJump DEF WaitForSubtasks
  <1>4. CASE SubtasksDone(t)
    <2>1. CASE holders # {t}  BY <1>4, <2>1, <1>a, StrandedJump DEF SubtasksDone
    <2> QED  BY <1>4, <1>b, <2>1 DEF SubtasksDone
  <1>5. CASE Operate(t)
    <2>1. CASE Goto(t, "clear") /\ UNCHANGED <<state, pending, cur>>
      BY <1>5, <1>a, <2>1, StrandedJump DEF Operate
    <2>2. CASE Goto(t, "complete") /\ UNCHANGED <<state, pending, cur>>
      BY <1>5, <1>a, <2>2, StrandedJump DEF Operate
    <2> QED  BY <1>5, <1>b, <2>1, <2>2 DEF Operate
  <1>6. CASE ClearInput(t)  BY <1>6, StrandedStutter DEF ClearInput
  <1>7. CASE InputsCleared(t)  BY <1>7, <1>a, StrandedJump DEF InputsCleared
  <1>8. CASE Complete(t)
    <2>1. CASE state[t] = kStarted  BY <1>8, <1>c, <2>1 DEF Complete
    <2> QED  BY <1>8, <1>b, <2>1 DEF Complete
  <1>9. ASSUME pc[t] \in {"wake", "notify"}, UNCHANGED <<state, pending, cur>>,
               pc[Client] \in {"joinWait", "asleepAll"} \/ pc'[Client] = pc[Client],
               \A b \in Activities \ {t, Client} : pc'[b] = pc[b]
        PROVE  NoStrandedTask'
    <2>1. \A b \in Activities, s \in Tasks : Tends(b, s) => Tends(b, s)'
      BY <1>9 DEF Activities, Tends
    <2> QED  BY <1>9, <2>1, StrandedFrame
  <1>10. CASE WakeJoiner(t)
    BY <1>10, <1>9, <1>a DEF WakeJoiner, TypeOK, FlowTypes, Activities
  <1>11. CASE DecrementSuccessor(t)
    <2>1. PICK s \in rest[t] :
            IF pending[s] > 0
            THEN /\ pending' = [pending EXCEPT ![s] = @ - 1]
                 /\ cur' = [cur EXCEPT ![t] = s]
                 /\ Goto(t, IF pending[s] = 1 THEN "last" ELSE "finish")
                 /\ UNCHANGED state
            ELSE Abort
      BY <1>11 DEF DecrementSuccessor
    <2>2. CASE pending[s] > 0
      <3>1. s \in Tasks /\ pending[s] \in Nat /\ pc[t] = "finish"
        BY <1>11 DEF DecrementSuccessor, TypeOK, TaskTypes, FlowTypes
      <3>2. pending'[s] = pending[s] - 1 /\ \A u \in Tasks \ {s} : pending'[u] = pending[u]
        BY <2>1, <2>2, <3>1 DEF TypeOK, TaskTypes
      <3>3. /\ pc'[t] = IF pending[s] = 1 THEN "last" ELSE "finish"
            /\ cur'[t] = s
            /\ \A b \in Activities \ {t} : pc'[b] = pc[b] /\ cur'[b] = cur[b]
        BY <1>a, <2>1, <2>2 DEF Goto, TypeOK, FlowTypes
      <3> SUFFICES ASSUME NEW u \in Tasks, state[u] = kScheduled, pending'[u] = 0
                   PROVE  \E b \in Activities : Tends(b, u)'
        BY <2>1, <2>2 DEF NoStrandedTask, IsReady, Tends
      <3>4. CASE u = s
        <4>1. pc'[t] = "last"  BY <3>1, <3>2, <3>3, <3>4
        <4> QED  BY <1>a, <3>3, <3>4, <4>1 DEF Tends
      <3>5. CASE u # s
        <4>1. PICK b \in Activities : Tends(b, u)
          BY <3>2, <3>5 DEF NoStrandedTask, IsReady, Tends
        <4>2. b # t  BY <3>1, <4>1 DEF Tends
        <4> QED  BY <3>3, <4>1, <4>2 DEF Tends
      <3> QED  BY <3>4, <3>5
    <2> QED  BY <1>b, <2>1, <2>2
  <1>12. CASE CheckSuccessorScheduled(t)
    <2>1. cur[t] \in Tasks
      BY <1>12, <1>a DEF CheckSuccessorScheduled, TypeOK, FlowTypes, NamesTask
    <2>2. CASE IsScheduled(cur[t])
      <3>1. pc'[t] = "submit" /\ cur' = cur
        BY <1>12, <1>a, <2>2 DEF CheckSuccessorScheduled, Goto, TypeOK, FlowTypes
      <3>2. \A u \in Tasks : Tends(t, u) => Tends(t, u)'  BY <3>1 DEF Tends
      <3> QED  BY <1>12, <1>a, <2>2, <3>1, <3>2, StrandedMove DEF CheckSuccessorScheduled
    <2>3. CASE ~IsScheduled(cur[t])
      <3>1. \A u \in Tasks : Tends(t, u) => state[u] # kScheduled
        BY <2>3 DEF Tends, IsScheduled
      <3> QED  BY <1>12, <1>a, <2>3, <3>1, StrandedMove DEF CheckSuccessorScheduled
    <2> QED  BY <2>2, <2>3
  <1>13. CASE UncountScheduled(t)  BY <1>13, <1>a, StrandedJump DEF UncountScheduled
  <1>14. CASE NotifyAllDone(t)
    BY <1>14, <1>9, <1>a DEF NotifyAllDone, TypeOK, FlowTypes, Activities
  <1> QED
    BY <1>1, <1>2, <1>3, <1>4, <1>5, <1>6, <1>7, <1>8, <1>10, <1>11, <1>12, <1>13,
       <1>14 DEF JobStep

(* The steps of the threads and of the client strand no task; a popped job *)
(* belongs to a task that was idle, hence tending to nothing.              *)
LEMMA StrandedOtherStep ==
    ASSUME TypeOK, JobInv, NoStrandedTask,
           \/ \E th \in Threads : \/ WorkerMain(th) \/ WorkerProcessSingleItem(th)
                                  \/ WorkerProcessSingleItemNoWait(th) \/ EndJob(th)
           \/ StartWaiting \/ Join \/ RethrowOrContinue \/ AllJoined
           \/ CheckAllDone \/ BlockUntilNotified \/ SpuriousWakeup
           \/ LeaveScope \/ StopRunning \/ CloseQueue \/ JoinThreads
    PROVE  NoStrandedTask'
  <1> USE DEF At, taskVars, flowVars
  <1>a. Client \in Activities  BY DEF Activities
  <1>b. queue # <<>> => Head(queue) \in Activities /\ pc[Head(queue)] = "idle"
    <2> SUFFICES ASSUME queue # <<>>
                 PROVE  Head(queue) \in Activities /\ pc[Head(queue)] = "idle"
      OBVIOUS
    <2>1. Head(queue) \in Tasks /\ Head(queue) = queue[1] /\ 1 \in 1 .. Len(queue)
      BY DEF TypeOK, ExecutorTypes
    <2> QED  BY <2>1 DEF JobInv, OneJobPerTask, Activities
  <1>1. ASSUME NEW th \in Threads, WorkerMain(th) PROVE NoStrandedTask'
    BY <1>1, StrandedStutter DEF WorkerMain
  <1>2. ASSUME NEW th \in Threads, WorkerProcessSingleItem(th) PROVE NoStrandedTask'
    <2>1. CASE queue # <<>>
      BY <1>2, <1>b, <2>1, StrandedJump DEF WorkerProcessSingleItem, StartJob
    <2> QED  BY <1>2, <2>1, StrandedStutter DEF WorkerProcessSingleItem
  <1>3. ASSUME NEW th \in Threads, WorkerProcessSingleItemNoWait(th) PROVE NoStrandedTask'
    <2>1. CASE running
      BY <1>3, <1>b, <2>1, StrandedJump DEF WorkerProcessSingleItemNoWait, StartJob
    <2> QED  BY <1>3, <2>1, StrandedStutter DEF WorkerProcessSingleItemNoWait
  <1>4. ASSUME NEW th \in Threads, EndJob(th) PROVE NoStrandedTask'
    <2>1. Head(stack[th]) \in Activities
      BY <1>4 DEF EndJob, TypeOK, ExecutorTypes, Activities
    <2> QED  BY <1>4, <2>1, StrandedJump DEF EndJob
  <1>5. CASE StartWaiting  BY <1>5, <1>a, StrandedJump DEF StartWaiting
  <1>6. CASE Join
    <2>1. \A b \in Activities \ {Client} : cur'[b] = cur[b]
      BY <1>6 DEF Join, TypeOK, FlowTypes
    <2>2. \A t \in Tasks : ~Tends(Client, t)  BY <1>6 DEF Join, Tends
    <2> QED  BY <1>6, <1>a, <2>1, <2>2, StrandedMove DEF Join
  <1>7. CASE RethrowOrContinue  BY <1>7, <1>a, StrandedJump DEF RethrowOrContinue
  <1>8. CASE AllJoined  BY <1>8, <1>a, StrandedJump DEF AllJoined
  <1>9. CASE CheckAllDone  BY <1>9, <1>a, StrandedJump DEF CheckAllDone
  <1>10. CASE BlockUntilNotified  BY <1>10, <1>a, StrandedJump DEF BlockUntilNotified
  <1>11. CASE SpuriousWakeup  BY <1>11, <1>a, StrandedJump DEF SpuriousWakeup
  <1>12. CASE LeaveScope  BY <1>12, <1>a, StrandedJump DEF LeaveScope
  <1>13. CASE StopRunning  BY <1>13, <1>a, StrandedJump DEF StopRunning
  <1>14. CASE CloseQueue  BY <1>14, <1>a, StrandedJump DEF CloseQueue
  <1>15. CASE JoinThreads  BY <1>15, <1>a, StrandedJump DEF JoinThreads
  <1> QED
    BY <1>1, <1>2, <1>3, <1>4, <1>5, <1>6, <1>7, <1>8, <1>9, <1>10, <1>11, <1>12,
       <1>13, <1>14, <1>15

(* In every task graph, a scheduled task with no predecessor left always   *)
(* has an activity that is about to submit it: the two-sided check of      *)
(* Schedule and OnTaskFinished loses no task.                              *)
THEOREM NobodyIsStranded == Spec => []NoStrandedTask
  <1>1. Init => NoStrandedTask  BY DEF Init, NoStrandedTask
  <1>2. TypeOK /\ JobInv /\ NoStrandedTask /\ [Next]_vars => NoStrandedTask'
    <2> SUFFICES ASSUME TypeOK, JobInv, NoStrandedTask, [Next]_vars
                 PROVE  NoStrandedTask'
      OBVIOUS
    <2>1. UNCHANGED vars => NoStrandedTask'
      BY StrandedStutter DEF vars, taskVars, flowVars
    <2> QED
      BY <2>1, StrandedSchedulerStep, StrandedJobStep, StrandedOtherStep, NextCases
  <1> QED  BY <1>1, <1>2, TypeCorrect, JobCorrect, PTL DEF Spec
=============================================================================

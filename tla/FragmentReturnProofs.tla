------------------------ MODULE FragmentReturnProofs ------------------------
(***************************************************************************)
(* What the worker's task engine promises its client, proved for every     *)
(* task graph and thread pool: what WaitForTasks and WaitForAllTasks mean, *)
(* when an operator finds its inputs, and what can end the process.        *)
(***************************************************************************)
EXTENDS FragmentSchedulerProofs

USE DEF kCreated, kScheduled, kEnqueued, kStarted, kDone

Unfinished(t) == state[t] \notin {kCreated, kDone}

(* What a step may do to the state of a task, and which activity does it.  *)
StateStep(t) ==
    \/ state'[t] = state[t]
    \/ /\ state[t] = kCreated /\ state'[t] = kScheduled
       /\ \E a \in Activities :
            pc[a] = "schedule" /\ t \in todo[a] /\ pc'[a] = "count" /\ cur'[a] = t
    \/ /\ state[t] < kEnqueued /\ state'[t] = kEnqueued
       /\ \E a \in Activities : pc[a] = "submit" /\ cur[a] = t
    \/ pc[t] = "execute" /\ state[t] = kEnqueued /\ state'[t] = kStarted
    \/ pc[t] = "complete" /\ state[t] = kStarted /\ state'[t] = kDone

(* A task only moves forward, one transition at a time.                    *)
LEMMA StateSteps ==
    ASSUME TypeOK, [Next]_vars
    PROVE  \A t \in Tasks : StateStep(t)
  <1> SUFFICES ASSUME NEW t \in Tasks PROVE StateStep(t)  OBVIOUS
  <1> USE DEF TypeOK, TaskTypes, TaskState, At, Goto, StateStep, taskVars
  <1>0. state' = state => StateStep(t)  OBVIOUS
  <1>a. Abort => StateStep(t)  BY DEF Abort
  <1>1. ASSUME NEW a \in Activities, SchedulerStep(a) PROVE StateStep(t)
    <2>1. CASE Schedule(a)
      <3>1. PICK s \in todo[a] :
              \/ state' = state
              \/ /\ ~(state[s] >= kScheduled)
                 /\ state' = [state EXCEPT ![s] = kScheduled]
                 /\ cur' = [cur EXCEPT ![a] = s]
                 /\ Goto(a, "count")
        BY <2>1 DEF Schedule
      <3>2. s \in Tasks /\ s \in Activities  BY DEF FlowTypes, Activities
      <3>3. CASE state' # state /\ s = t
        <4>1. pc'[a] = "count" /\ cur'[a] = t  BY <3>1, <3>2, <3>3 DEF FlowTypes
        <4>2. pc[a] = "schedule"  BY <2>1 DEF Schedule
        <4>3. state[t] = kCreated /\ state'[t] = kScheduled
          <5>1. state[t] \in 0 .. 4 /\ ~(state[t] >= 1)  BY <3>1, <3>3
          <5>2. state' = [state EXCEPT ![t] = kScheduled]  BY <3>1, <3>3
          <5> QED  BY <5>1, <5>2
        <4> QED  BY <3>3, <4>1, <4>2, <4>3
      <3> QED  BY <3>1, <3>2, <3>3
    <2>2. CASE CountScheduled(a)  BY <1>0, <2>2 DEF CountScheduled
    <2>3. CASE CheckReady(a)  BY <1>0, <2>3 DEF CheckReady
    <2>4. CASE TryEnqueue(a)
      <3>1. CASE state[cur[a]] >= kEnqueued  BY <2>4, <3>1 DEF TryEnqueue
      <3>2. CASE ~(state[cur[a]] >= kEnqueued)
        <4>1. state' = [state EXCEPT ![cur[a]] = kEnqueued] /\ pc[a] = "submit"
          BY <2>4, <3>2 DEF TryEnqueue
        <4>2. cur[a] \in Tasks  BY <4>1 DEF FlowTypes, NamesTask
        <4>3. CASE t = cur[a]
          <5>1. state[t] < kEnqueued  BY <3>2, <4>3
          <5>2. state'[t] = kEnqueued  BY <4>1, <4>3
          <5> QED  BY <4>1, <4>3, <5>1, <5>2
        <4>4. CASE t # cur[a]  BY <4>1, <4>4
        <4> QED  BY <4>3, <4>4
      <3> QED  BY <3>1, <3>2
    <2>5. CASE PushJob(a)  BY <1>0, <2>5 DEF PushJob
    <2> QED  BY <1>1, <2>1, <2>2, <2>3, <2>4, <2>5 DEF SchedulerStep
  <1>2. ASSUME NEW s \in Tasks, JobStep(s) PROVE StateStep(t)
    <2>1. CASE Execute(s)
      <3>1. CASE state[s] = kEnqueued  BY <2>1, <3>1 DEF Execute
      <3> QED  BY <1>a, <2>1, <3>1 DEF Execute
    <2>2. CASE Complete(s)
      <3>1. CASE state[s] = kStarted  BY <2>2, <3>1 DEF Complete
      <3> QED  BY <1>a, <2>2, <3>1 DEF Complete
    <2>3. CASE SubtasksDone(s) \/ Operate(s) \/ DecrementSuccessor(s)
      BY <1>0, <1>a, <2>3 DEF SubtasksDone, Operate, DecrementSuccessor
    <2>4. CASE \/ AcquireScheduler(s) \/ WaitForSubtasks(s) \/ ClearInput(s) \/ InputsCleared(s)
               \/ WakeJoiner(s) \/ CheckSuccessorScheduled(s) \/ UncountScheduled(s)
               \/ NotifyAllDone(s)
      BY <1>0, <2>4
      DEF AcquireScheduler, WaitForSubtasks, ClearInput, InputsCleared, WakeJoiner,
          CheckSuccessorScheduled, UncountScheduled, NotifyAllDone
    <2> QED  BY <1>2, <2>1, <2>2, <2>3, <2>4 DEF JobStep
  <1>3. ASSUME NEW th \in Threads,
               \/ WorkerMain(th) \/ WorkerProcessSingleItem(th)
               \/ WorkerProcessSingleItemNoWait(th) \/ EndJob(th)
        PROVE  StateStep(t)
    BY <1>0, <1>3
    DEF WorkerMain, WorkerProcessSingleItem, WorkerProcessSingleItemNoWait, EndJob
  <1>4. ASSUME \/ StartWaiting \/ Join \/ RethrowOrContinue \/ AllJoined \/ CheckAllDone
               \/ BlockUntilNotified \/ SpuriousWakeup \/ LeaveScope \/ StopRunning
               \/ CloseQueue \/ JoinThreads
        PROVE  StateStep(t)
    BY <1>0, <1>4
    DEF StartWaiting, Join, RethrowOrContinue, AllJoined, CheckAllDone, BlockUntilNotified,
        SpuriousWakeup, LeaveScope, StopRunning, CloseQueue, JoinThreads
  <1>5. UNCHANGED vars => StateStep(t)  BY <1>0 DEF vars
  <1> HIDE DEF StateStep
  <1> QED  BY <1>1, <1>2, <1>3, <1>4, <1>5, NextCases

-----------------------------------------------------------------------------
(***************************************************************************)
(* Control.  Where a job is tells the state of its task; what an activity  *)
(* visits are the roots if it is the client, its own subtasks if it is a   *)
(* task that runs, and roots again if it is one that has finished.         *)
(***************************************************************************)
Visiting == {"count", "ready", "submit", "push"}

Phase(t) ==
    /\ pc[t] = "execute" => state[t] = kEnqueued
    /\ pc[t] \in {"acquire", "schedule", "count", "ready", "nested", "operate", "clear",
                  "complete"} => state[t] = kStarted
    /\ pc[t] \in {"submit", "push"} => state[t] \in {kStarted, kDone}
    /\ pc[t] \in {"wake", "finish", "last", "notify", "end", "ended"} => state[t] = kDone

VisitsSubtasks(t) ==
    state[t] = kStarted => /\ pc[t] \in SchedulePc => todo[t] \subseteq Subtasks[t]
                           /\ pc[t] \in Visiting => cur[t] \in Subtasks[t]

VisitsSuccessors(t) ==
    state[t] = kDone /\ pc[t] \in {"last", "submit", "push"} => cur[t] \in Roots

Fits(a) ==
    /\ pc[a] \in Visiting => IsScheduled(cur[a])
    /\ a \in Tasks => /\ Phase(a) /\ VisitsSubtasks(a) /\ VisitsSuccessors(a)
                      /\ pc[a] = "clear" => todo[a] \subseteq Predecessors[a]
    /\ a = Client => /\ pc[a] \in SchedulePc => todo[a] \subseteq Roots
                     /\ pc[a] \in Visiting => cur[a] \in Roots

ControlInv == \A a \in Activities : Fits(a)

(* A task that waits for its subtasks, or is still scheduling them.        *)
Awaits(t) == state[t] = kStarted /\ pc[t] \in SchedulePc \cup {"nested"}

(* A subtask on its way has a task that will not get past it.              *)
SubtasksAreAwaited ==
    \A u \in Tasks \ Roots :
        Unfinished(u) => \E t \in Tasks : u \in Subtasks[t] /\ Awaits(t)

(* Initially every task is idle and the client has the roots to schedule.  *)
LEMMA ControlInit == Init => ControlInv /\ SubtasksAreAwaited
  <1> SUFFICES ASSUME Init PROVE ControlInv /\ SubtasksAreAwaited  OBVIOUS
  <1>1. SubtasksAreAwaited  BY DEF Init, SubtasksAreAwaited, Unfinished
  <1>2. ControlInv
    BY FragmentAssumption
    DEF Init, ControlInv, Fits, Phase, VisitsSubtasks, VisitsSuccessors, Visiting, SchedulePc,
        Activities
  <1> QED  BY <1>1, <1>2

(* A scheduled task stays scheduled.                                       *)
LEMMA ScheduledStays ==
    ASSUME TypeOK, [Next]_vars, NEW t \in Tasks, IsScheduled(t)
    PROVE  IsScheduled(t)'
  BY StateSteps DEF StateStep, IsScheduled, TypeOK, TaskTypes, TaskState

(* An activity keeps its part of the invariant if neither it nor the state *)
(* of its task moves; a task that is not enqueued yet is idle.             *)
LEMMA ControlFrame ==
    ASSUME TypeOK, JobInv, ControlInv, [Next]_vars,
           \A b \in Activities :
               \/ Fits(b)'
               \/ /\ pc'[b] = pc[b] /\ cur'[b] = cur[b] /\ todo'[b] = todo[b]
                  /\ b \in Tasks => state'[b] = state[b] \/ state[b] < kEnqueued
    PROVE  ControlInv'
  <1> SUFFICES ASSUME NEW b \in Activities,
                      pc'[b] = pc[b], cur'[b] = cur[b], todo'[b] = todo[b],
                      b \in Tasks => state'[b] = state[b] \/ state[b] < kEnqueued
               PROVE  Fits(b)'
    BY DEF ControlInv
  <1>1. Fits(b)  BY DEF ControlInv
  <1>2. pc'[b] \in Visiting => IsScheduled(cur[b])'
    <2>1. pc[b] \in Visiting => cur[b] \in Tasks
      BY DEF TypeOK, FlowTypes, Visiting, NamesTask
    <2> SUFFICES ASSUME pc[b] \in Visiting PROVE state'[cur'[b]] >= kScheduled
      BY DEF IsScheduled
    <2>2. PICK u \in Tasks : u = cur[b]  BY <2>1
    <2>3. IsScheduled(u)  BY <1>1, <2>2 DEF Fits
    <2> QED  BY <2>2, <2>3, ScheduledStays DEF IsScheduled
  <1>3. b \in Tasks /\ state[b] < kEnqueued => pc[b] = "idle"  BY DEF JobInv, EarlyIsIdle
  <1>4. b \in Tasks => /\ Phase(b)' /\ VisitsSubtasks(b)' /\ VisitsSuccessors(b)'
                       /\ pc'[b] = "clear" => todo'[b] \subseteq Predecessors[b]
    <2>1. CASE b \in Tasks /\ state'[b] = state[b]
      BY <1>1, <2>1 DEF Fits, Phase, VisitsSubtasks, VisitsSuccessors
    <2>2. CASE b \in Tasks /\ pc[b] = "idle"
      BY <2>2 DEF Phase, VisitsSubtasks, VisitsSuccessors, SchedulePc, Visiting
    <2> QED  BY <1>3, <2>1, <2>2
  <1>5. b = Client => /\ pc'[b] \in SchedulePc => todo'[b] \subseteq Roots
                      /\ pc'[b] \in Visiting => cur'[b] \in Roots
    BY <1>1 DEF Fits
  <1> QED  BY <1>2, <1>4, <1>5 DEF Fits, IsScheduled

(* An activity moves to a place where it fits.                             *)
LEMMA ControlMove ==
    ASSUME TypeOK, JobInv, ControlInv, [Next]_vars,
           NEW a \in Activities, NEW label, Goto(a, label), Fits(a)',
           cur' = cur \/ (\E t \in Tasks : cur' = [cur EXCEPT ![a] = t]),
           todo' = todo \/ (\E T \in SUBSET Tasks : todo' = [todo EXCEPT ![a] = T]),
           \A b \in Tasks \ {a} : state'[b] = state[b] \/ state[b] < kEnqueued
    PROVE  ControlInv'
  <1>1. ASSUME NEW b \in Activities \ {a}
        PROVE  pc'[b] = pc[b] /\ cur'[b] = cur[b] /\ todo'[b] = todo[b]
    BY DEF Goto, TypeOK, FlowTypes
  <1>2. ASSUME NEW b \in Activities
        PROVE  \/ Fits(b)'
               \/ /\ pc'[b] = pc[b] /\ cur'[b] = cur[b] /\ todo'[b] = todo[b]
                  /\ b \in Tasks => state'[b] = state[b] \/ state[b] < kEnqueued
    <2>1. CASE b = a  BY <2>1
    <2>2. CASE b # a  BY <1>1, <2>2
    <2> QED  BY <2>1, <2>2
  <1> QED  BY <1>2, ControlFrame

(* A step that moves nobody.                                               *)
LEMMA ControlStutter ==
    ASSUME TypeOK, JobInv, ControlInv, [Next]_vars, UNCHANGED <<state, pc, cur, todo>>
    PROVE  ControlInv'
  BY ControlFrame

(* The operations of the scheduler.                                        *)
LEMMA ControlSchedulerStep ==
    ASSUME TypeOK, DependencyInv, JobInv, ControlInv, [Next]_vars,
           NEW a \in Activities, SchedulerStep(a)
    PROVE  ControlInv'
  <1> USE DEF At, taskVars
  <1>a. Fits(a)  BY DEF ControlInv
  <1>b. (a \in Tasks /\ a # Client) \/ (a = Client /\ a \notin Tasks)
    BY FragmentAssumption DEF Activities
  <1>c. \A label : Goto(a, label) => pc'[a] = label  BY DEF Goto, TypeOK, FlowTypes
  <1>1. CASE Schedule(a)
    <2>1. PICK t \in todo[a] :
            /\ todo' = [todo EXCEPT ![a] = @ \ {t}]
            /\ \/ UNCHANGED <<state, pc, cur>>
               \/ /\ ~(state[t] >= kScheduled)
                  /\ state' = [state EXCEPT ![t] = kScheduled]
                  /\ cur' = [cur EXCEPT ![a] = t]
                  /\ Goto(a, "count")
      BY <1>1 DEF Schedule
    <2>2. /\ t \in Tasks /\ todo[a] \ {t} \in SUBSET Tasks
          /\ todo'[a] = todo[a] \ {t} /\ pc[a] = "schedule"
      BY <1>1, <2>1 DEF TypeOK, FlowTypes, Schedule
    <2>3. CASE UNCHANGED <<state, pc, cur>>
      <3>1. Fits(a)'
        BY <1>a, <1>b, <2>2, <2>3 
        DEF Fits, Phase, VisitsSubtasks, VisitsSuccessors, Visiting, SchedulePc
      <3>2. \A b \in Activities \ {a} : pc'[b] = pc[b] /\ cur'[b] = cur[b] /\ todo'[b] = todo[b]
        BY <2>1, <2>3 DEF TypeOK, FlowTypes
      <3> QED  BY <2>3, <3>1, <3>2, ControlFrame
    <2>4. CASE /\ ~(state[t] >= kScheduled)
               /\ state' = [state EXCEPT ![t] = kScheduled]
               /\ cur' = [cur EXCEPT ![a] = t]
               /\ Goto(a, "count")
      <3>1. state'[t] = kScheduled /\ \A s \in Tasks \ {t} : state'[s] = state[s]
        BY <2>2, <2>4 DEF TypeOK, TaskTypes
      <3>2. pc'[a] = "count" /\ cur'[a] = t  BY <1>c, <2>4 DEF TypeOK, FlowTypes
      <3>3. a \in Tasks => state[a] = kStarted /\ a # t
        BY <1>a, <2>2, <2>4 DEF Fits, Phase
      <3>4. Fits(a)'
        BY <1>a, <1>b, <2>2, <3>1, <3>2, <3>3
        DEF Fits, Phase, VisitsSubtasks, VisitsSuccessors, Visiting, SchedulePc, IsScheduled
      <3>5. \A b \in Tasks \ {a} : state'[b] = state[b] \/ state[b] < kEnqueued
        BY <2>2, <2>4, <3>1 DEF TypeOK, TaskTypes, TaskState
      <3> QED  BY <2>1, <2>2, <2>4, <3>4, <3>5, ControlMove
    <2> QED  BY <2>1, <2>3, <2>4
  <1>2. CASE CountScheduled(a)
    <2>1. pc[a] = "count" /\ pc'[a] = "ready" /\ UNCHANGED <<state, cur, todo>>
      BY <1>2, <1>c DEF CountScheduled
    <2>2. Fits(a)'
      BY <1>a, <1>b, <2>1
      DEF Fits, Phase, VisitsSubtasks, VisitsSuccessors, Visiting, SchedulePc, IsScheduled
    <2> QED  BY <1>2, <2>1, <2>2, ControlMove DEF CountScheduled
  <1>3. CASE CheckReady(a)
    <2>1. pc[a] = "ready" /\ cur[a] \in Tasks /\ UNCHANGED <<state, cur>>
      BY <1>3 DEF CheckReady, TypeOK, FlowTypes, NamesTask
    <2>2. CASE IsReady(cur[a])
      <3>1. pc'[a] = "submit" /\ UNCHANGED todo  BY <1>3, <1>c, <2>2 DEF CheckReady
      <3>2. Fits(a)'
        BY <1>a, <1>b, <2>1, <3>1
        DEF Fits, Phase, VisitsSubtasks, VisitsSuccessors, Visiting, SchedulePc, IsScheduled
      <3> QED  BY <1>3, <2>1, <2>2, <3>1, <3>2, ControlMove DEF CheckReady
    <2>3. CASE ~IsReady(cur[a])
      <3>1. /\ pc'[a] = "schedule" /\ todo' = [todo EXCEPT ![a] = todo[a] \cup Predecessors[cur[a]]]
            /\ Goto(a, "schedule")
        BY <1>3, <1>c, <2>3 DEF CheckReady
      <3>2. /\ todo[a] \cup Predecessors[cur[a]] \in SUBSET Tasks
            /\ todo'[a] = todo[a] \cup Predecessors[cur[a]]
        BY <2>1, <3>1, FragmentAssumption DEF TypeOK, FlowTypes
      <3>3. a = Client => cur[a] \in Roots /\ Predecessors[cur[a]] \subseteq Roots
        BY <1>a, <2>1, TaskGraphAssumption DEF Fits, Visiting
      <3>4. a \in Tasks => state[a] = kStarted /\ Predecessors[cur[a]] = {}
        <4> SUFFICES ASSUME a \in Tasks PROVE state[a] = kStarted /\ Predecessors[cur[a]] = {}
          OBVIOUS
        <4>1. state[a] = kStarted /\ cur[a] \in Subtasks[a]
          BY <1>a, <2>1 DEF Fits, Phase, VisitsSubtasks, Visiting
        <4> QED  BY <2>1, <4>1, TaskGraphAssumption
      <3>5. Fits(a)'
        BY <1>a, <1>b, <2>1, <3>1, <3>2, <3>3, <3>4
        DEF Fits, Phase, VisitsSubtasks, VisitsSuccessors, Visiting, SchedulePc
      <3> QED  BY <2>1, <3>1, <3>2, <3>5, ControlMove
    <2> QED  BY <2>2, <2>3
  <1>4. CASE TryEnqueue(a)
    <2>1. pc[a] = "submit" /\ cur[a] \in Tasks /\ UNCHANGED <<cur, todo>>
      BY <1>4 DEF TryEnqueue, TypeOK, FlowTypes, NamesTask
    <2>2. CASE state[cur[a]] >= kEnqueued
      <3>1. pc'[a] = AfterSubmit(a) /\ UNCHANGED state  BY <1>4, <1>c, <2>2 DEF TryEnqueue
      <3>2. Fits(a)'
        BY <1>a, <1>b, <2>1, <3>1
        DEF Fits, Phase, VisitsSubtasks, VisitsSuccessors, Visiting, SchedulePc, AfterSubmit
      <3> QED  BY <1>4, <2>1, <2>2, <3>1, <3>2, ControlMove DEF TryEnqueue
    <2>3. CASE ~(state[cur[a]] >= kEnqueued)
      <3>1. pc'[a] = "push" /\ Goto(a, "push") /\ state' = [state EXCEPT ![cur[a]] = kEnqueued]
        BY <1>4, <1>c, <2>3 DEF TryEnqueue
      <3>2. state'[cur[a]] = kEnqueued /\ \A s \in Tasks \ {cur[a]} : state'[s] = state[s]
        BY <2>1, <3>1 DEF TypeOK, TaskTypes
      <3>3. a \in Tasks => state[a] \in {kStarted, kDone} /\ a # cur[a]
        BY <1>a, <2>1, <2>3 DEF Fits, Phase
      <3>4. Fits(a)'
        BY <1>a, <1>b, <2>1, <3>1, <3>2, <3>3
        DEF Fits, Phase, VisitsSubtasks, VisitsSuccessors, Visiting, SchedulePc, IsScheduled
      <3>5. \A b \in Tasks \ {a} : state'[b] = state[b] \/ state[b] < kEnqueued
        BY <2>1, <2>3, <3>2 DEF TypeOK, TaskTypes, TaskState
      <3> QED  BY <2>1, <3>1, <3>4, <3>5, ControlMove
    <2> QED  BY <2>2, <2>3
  <1>5. CASE PushJob(a)
    <2>1. pc[a] = "push" /\ pc'[a] = AfterSubmit(a) /\ UNCHANGED <<state, cur, todo>>
      BY <1>5, <1>c DEF PushJob
    <2>2. Fits(a)'
      BY <1>a, <1>b, <2>1
      DEF Fits, Phase, VisitsSubtasks, VisitsSuccessors, Visiting, SchedulePc, AfterSubmit
    <2> QED  BY <1>5, <2>1, <2>2, ControlMove DEF PushJob
  <1> QED  BY <1>1, <1>2, <1>3, <1>4, <1>5 DEF SchedulerStep

(* The end of the process moves nobody.                                    *)
LEMMA ControlAbort ==
    ASSUME TypeOK, JobInv, ControlInv, [Next]_vars, Abort
    PROVE  ControlInv'
  BY ControlStutter DEF Abort, taskVars, flowVars

(* The steps of a job.                                                     *)
LEMMA ControlJobStep ==
    ASSUME TypeOK, DependencyInv, JobInv, ControlInv, [Next]_vars,
           NEW t \in Tasks, JobStep(t)
    PROVE  ControlInv'
  <1> USE DEF At, taskVars
  <1>a. Fits(t) /\ t \in Activities  BY DEF ControlInv, Activities
  <1>b. t # Client  BY FragmentAssumption
  <1>c. \A label : Goto(t, label) => pc'[t] = label
    BY <1>a DEF Goto, TypeOK, FlowTypes
  <1>f. ASSUME NEW label, Goto(t, label), UNCHANGED <<state, cur, todo>>,
               pc[t] \notin SchedulePc,
               \/ label \in {"acquire", "nested", "operate", "complete"} /\ state[t] = kStarted
               \/ label \in {"wake", "finish", "notify", "end"} /\ state[t] = kDone
        PROVE  ControlInv'
    <2>1. pc'[t] = label  BY <1>c, <1>f
    <2>2. Fits(t)'
      BY <1>b, <1>f, <2>1
      DEF Fits, Phase, VisitsSubtasks, VisitsSuccessors, Visiting, SchedulePc
    <2> QED  BY <1>a, <1>f, <2>2, ControlMove
  <1>1. CASE Execute(t)
    <2>1. CASE state[t] = kEnqueued
      <3>1. PICK label \in {"operate", "acquire"} :
              Goto(t, label) /\ state' = [state EXCEPT ![t] = kStarted] /\ UNCHANGED <<cur, todo>>
        BY <1>1, <2>1 DEF Execute
      <3>2. pc'[t] = label /\ state'[t] = kStarted /\ \A s \in Tasks \ {t} : state'[s] = state[s]
        BY <1>c, <3>1 DEF TypeOK, TaskTypes
      <3>3. Fits(t)'
        BY <1>b, <3>2
        DEF Fits, Phase, VisitsSubtasks, VisitsSuccessors, Visiting, SchedulePc
      <3> QED  BY <1>a, <3>1, <3>2, <3>3, ControlMove
    <2> QED  BY <1>1, <2>1, ControlAbort DEF Execute
  <1>2. CASE AcquireScheduler(t)
    <2>1. /\ Goto(t, "schedule") /\ pc'[t] = "schedule" /\ pc[t] = "acquire"
          /\ todo' = [todo EXCEPT ![t] = Subtasks[t]] /\ UNCHANGED <<state, cur>>
      BY <1>2, <1>c DEF AcquireScheduler
    <2>2. todo'[t] = Subtasks[t] /\ Subtasks[t] \in SUBSET Tasks
      BY <1>a, <2>1, FragmentAssumption DEF TypeOK, FlowTypes
    <2>3. state'[t] = kStarted  BY <1>a, <2>1 DEF Fits, Phase
    <2>4. Fits(t)'
      BY <1>b, <2>1, <2>2, <2>3
      DEF Fits, Phase, VisitsSubtasks, VisitsSuccessors, Visiting, SchedulePc
    <2> QED  BY <1>a, <2>1, <2>2, <2>4, ControlMove
  <1>3. CASE WaitForSubtasks(t)
    <2>1. pc[t] = "schedule" /\ Goto(t, "nested") /\ pc'[t] = "nested"
          /\ UNCHANGED <<state, cur, todo>>
      BY <1>3, <1>c DEF WaitForSubtasks
    <2>2. state'[t] = kStarted  BY <1>a, <2>1 DEF Fits, Phase
    <2>3. Fits(t)'
      BY <1>b, <2>1, <2>2
      DEF Fits, Phase, VisitsSubtasks, VisitsSuccessors, Visiting, SchedulePc
    <2> QED  BY <1>a, <2>1, <2>3, ControlMove
  <1>4. CASE SubtasksDone(t)
    <2>1. CASE holders = {t}  BY <1>4, <2>1, ControlAbort DEF SubtasksDone
    <2>2. CASE holders # {t}
      <3>1. pc[t] = "nested" /\ Goto(t, "operate") /\ UNCHANGED <<state, cur, todo>>
        BY <1>4, <2>2 DEF SubtasksDone
      <3> QED  BY <1>a, <1>f, <3>1 DEF Fits, Phase, SchedulePc
    <2> QED  BY <2>1, <2>2
  <1>5. CASE Operate(t)
    <2>0. pc[t] = "operate" /\ state[t] = kStarted  BY <1>5, <1>a DEF Operate, Fits, Phase
    <2> DEFINE T == IF t \in Roots THEN Predecessors[t] ELSE {}
    <2>1. CASE /\ todo' = [todo EXCEPT ![t] = T] /\ Goto(t, "clear")
               /\ UNCHANGED <<state, cur>>
      <3>1. T \in SUBSET Tasks /\ T \subseteq Predecessors[t]  BY FragmentAssumption
      <3>2. todo'[t] = T /\ pc'[t] = "clear"
        BY <1>a, <1>c, <2>1, <3>1 DEF TypeOK, FlowTypes
      <3>3. Fits(t)'
        BY <1>b, <2>0, <2>1, <3>1, <3>2
        DEF Fits, Phase, VisitsSubtasks, VisitsSuccessors, Visiting, SchedulePc
      <3> HIDE DEF T
      <3> QED  BY <1>a, <2>1, <3>1, <3>3, ControlMove
    <2>2. CASE Goto(t, "complete") /\ UNCHANGED <<state, cur, todo>>
      BY <1>f, <2>0, <2>2 DEF SchedulePc
    <2> QED  BY <1>5, <2>1, <2>2, ControlAbort DEF Operate
  <1>6. CASE ClearInput(t)
    <2>1. PICK p \in todo[t] : todo' = [todo EXCEPT ![t] = @ \ {p}]  BY <1>6 DEF ClearInput
    <2>2. pc[t] = "clear" /\ UNCHANGED <<state, pc, cur>>  BY <1>6 DEF ClearInput
    <2>3. /\ todo'[t] = todo[t] \ {p}
          /\ \A b \in Activities \ {t} : pc'[b] = pc[b] /\ cur'[b] = cur[b] /\ todo'[b] = todo[b]
      BY <1>a, <2>1, <2>2 DEF TypeOK, FlowTypes
    <2>4. Fits(t)'
      BY <1>a, <1>b, <2>2, <2>3
      DEF Fits, Phase, VisitsSubtasks, VisitsSuccessors, Visiting, SchedulePc
    <2> QED  BY <2>2, <2>3, <2>4, ControlFrame
  <1>7. CASE InputsCleared(t)
    <2>1. pc[t] = "clear" /\ Goto(t, "complete") /\ UNCHANGED <<state, cur, todo>>
      BY <1>7 DEF InputsCleared
    <2> QED  BY <1>a, <1>f, <2>1 DEF Fits, Phase, SchedulePc
  <1>8. CASE Complete(t)
    <2>1. CASE state[t] = kStarted
      <3>1. /\ Goto(t, "wake") /\ pc'[t] = "wake" /\ state' = [state EXCEPT ![t] = kDone]
            /\ UNCHANGED <<cur, todo>>
        BY <1>8, <1>c, <2>1 DEF Complete
      <3>2. state'[t] = kDone /\ \A s \in Tasks \ {t} : state'[s] = state[s]
        BY <3>1 DEF TypeOK, TaskTypes
      <3>3. Fits(t)'
        BY <1>b, <3>1, <3>2
        DEF Fits, Phase, VisitsSubtasks, VisitsSuccessors, Visiting, SchedulePc
      <3> QED  BY <1>a, <3>1, <3>2, <3>3, ControlMove
    <2> QED  BY <1>8, <2>1, ControlAbort DEF Complete
  <1>9. CASE WakeJoiner(t) \/ NotifyAllDone(t)
    <2>1. PICK label, other :
            /\ label \in {"finish", "end"} /\ pc[t] \in {"wake", "notify"}
            /\ pc' = [pc EXCEPT ![t] = label, ![Client] = other]
            /\ other \in {pc[Client], "joined", "checkAll"}
            /\ UNCHANGED <<state, cur, todo>>
      BY <1>9, <1>a, <1>b DEF WakeJoiner, NotifyAllDone, TypeOK, FlowTypes
    <2>2. /\ pc'[t] = label /\ pc'[Client] = other
          /\ \A b \in Activities \ {t, Client} : pc'[b] = pc[b]
      BY <1>a, <1>b, <2>1 DEF TypeOK, FlowTypes, Activities
    <2>3. Fits(t)'
      BY <1>a, <1>b, <2>1, <2>2
      DEF Fits, Phase, VisitsSubtasks, VisitsSuccessors, Visiting, SchedulePc
    <2>4. Fits(Client) /\ Client \notin Tasks
      BY FragmentAssumption DEF ControlInv, Activities
    <2>5. Fits(Client)' \/ pc'[Client] = pc[Client]
      BY <2>1, <2>2, <2>4 DEF Fits, Visiting, SchedulePc
    <2>6. ASSUME NEW b \in Activities
          PROVE  \/ Fits(b)'
                 \/ /\ pc'[b] = pc[b] /\ cur'[b] = cur[b] /\ todo'[b] = todo[b]
                    /\ b \in Tasks => state'[b] = state[b] \/ state[b] < kEnqueued
      <3>1. CASE b = t  BY <2>3, <3>1
      <3>2. CASE b = Client  BY <2>1, <2>5, <3>2
      <3>3. CASE b \notin {t, Client}  BY <2>1, <2>2, <3>3
      <3> QED  BY <3>1, <3>2, <3>3
    <2> QED  BY <2>6, ControlFrame
  <1>10. CASE DecrementSuccessor(t)
    <2>0. pc[t] = "finish" /\ state[t] = kDone
      BY <1>10, <1>a DEF DecrementSuccessor, Fits, Phase
    <2>1. PICK s \in rest[t] :
            \/ Abort
            \/ \E label \in {"last", "finish"} : Goto(t, label)
                 /\ cur' = [cur EXCEPT ![t] = s] /\ UNCHANGED <<state, todo>>
      BY <1>10 DEF DecrementSuccessor
    <2>2. s \in Tasks /\ t \in Predecessors[s]
      BY DEF DependencyInv, RestIsSuccessors, Successors, TypeOK, FlowTypes
    <2>3. s \in Roots  BY <2>2, TaskGraphAssumption
    <2>4. CASE ~Abort
      <3>1. PICK label \in {"last", "finish"} : Goto(t, label)
              /\ cur' = [cur EXCEPT ![t] = s] /\ UNCHANGED <<state, todo>>
        BY <2>1, <2>4
      <3>2. pc'[t] = label /\ cur'[t] = s  BY <1>a, <1>c, <3>1 DEF TypeOK, FlowTypes
      <3>3. Fits(t)'
        BY <1>b, <2>0, <2>3, <3>1, <3>2
        DEF Fits, Phase, VisitsSubtasks, VisitsSuccessors, Visiting, SchedulePc
      <3> QED  BY <1>a, <2>2, <3>1, <3>3, ControlMove
    <2> QED  BY <2>4, ControlAbort
  <1>11. CASE CheckSuccessorScheduled(t)
    <2>1. PICK label \in {"submit", "finish"} :
            /\ Goto(t, label) /\ pc[t] = "last" /\ UNCHANGED <<state, cur, todo>>
            /\ label = "submit" => IsScheduled(cur[t])
      BY <1>11 DEF CheckSuccessorScheduled
    <2>2. pc'[t] = label /\ state[t] = kDone /\ cur[t] \in Roots
      BY <1>a, <1>c, <2>1 DEF Fits, Phase, VisitsSuccessors
    <2>3. Fits(t)'
      BY <1>b, <2>1, <2>2
      DEF Fits, Phase, VisitsSubtasks, VisitsSuccessors, Visiting, SchedulePc, IsScheduled
    <2> QED  BY <1>a, <2>1, <2>3, ControlMove
  <1>12. CASE UncountScheduled(t)
    <2>1. PICK label \in {"notify", "end"} :
            Goto(t, label) /\ pc[t] = "finish" /\ UNCHANGED <<state, cur, todo>>
      BY <1>12 DEF UncountScheduled
    <2> QED  BY <1>a, <1>f, <2>1 DEF Fits, Phase, SchedulePc
  <1> QED
    BY <1>1, <1>2, <1>3, <1>4, <1>5, <1>6, <1>7, <1>8, <1>9, <1>10, <1>11, <1>12
    DEF JobStep

(* The job at the head of the queue belongs to an idle, enqueued task.     *)
LEMMA HeadIsIdle ==
    ASSUME TypeOK, JobInv, queue # <<>>
    PROVE  /\ Head(queue) \in Tasks /\ Head(queue) \in Activities
           /\ pc[Head(queue)] = "idle" /\ state[Head(queue)] = kEnqueued
  <1>1. Head(queue) \in Tasks /\ Head(queue) = queue[1] /\ 1 \in 1 .. Len(queue)
    BY DEF TypeOK, ExecutorTypes
  <1> QED  BY <1>1 DEF JobInv, OneJobPerTask, Activities

(* The steps of the executor's threads.                                    *)
LEMMA ControlThreadStep ==
    ASSUME TypeOK, JobInv, ControlInv, [Next]_vars, NEW th \in Threads,
           \/ WorkerMain(th) \/ WorkerProcessSingleItem(th)
           \/ WorkerProcessSingleItemNoWait(th) \/ EndJob(th)
    PROVE  ControlInv'
  <1> USE DEF At, taskVars, flowVars
  <1>1. ASSUME NEW t \in Tasks, NEW label, Goto(t, label), UNCHANGED <<state, cur, todo>>,
               \/ pc[t] = "idle" /\ state[t] = kEnqueued /\ label = "execute"
               \/ pc[t] = "end" /\ label = "ended"
        PROVE  ControlInv'
    <2>1. t \in Activities /\ t # Client /\ Fits(t)
      BY FragmentAssumption DEF Activities, ControlInv
    <2>2. pc'[t] = label  BY <1>1, <2>1 DEF Goto, TypeOK, FlowTypes
    <2>3. Fits(t)'
      BY <1>1, <2>1, <2>2
      DEF Fits, Phase, VisitsSubtasks, VisitsSuccessors, Visiting, SchedulePc
    <2> QED  BY <1>1, <2>1, <2>3, ControlMove
  <1>2. CASE queue # <<>> /\ StartJob(th) /\ UNCHANGED <<state, cur, todo>>
    BY <1>1, <1>2, HeadIsIdle DEF StartJob
  <1>3. CASE EndJob(th)
    <2>1. Head(stack[th]) \in Tasks  BY <1>3 DEF EndJob, TypeOK, ExecutorTypes
    <2> QED  BY <1>1, <1>3, <2>1 DEF EndJob
  <1>4. CASE WorkerMain(th)  BY <1>4, ControlStutter DEF WorkerMain
  <1>5. CASE WorkerProcessSingleItem(th)
    BY <1>2, <1>5, ControlStutter DEF WorkerProcessSingleItem
  <1>6. CASE WorkerProcessSingleItemNoWait(th)
    BY <1>2, <1>6, ControlStutter DEF WorkerProcessSingleItemNoWait
  <1> QED  BY <1>3, <1>4, <1>5, <1>6

(* The steps of the client after it has scheduled its tasks.               *)
LEMMA ControlClientStep ==
    ASSUME TypeOK, JobInv, ControlInv, [Next]_vars,
           \/ StartWaiting \/ Join \/ RethrowOrContinue \/ AllJoined
           \/ CheckAllDone \/ BlockUntilNotified \/ SpuriousWakeup
           \/ LeaveScope \/ StopRunning \/ CloseQueue \/ JoinThreads
    PROVE  ControlInv'
  <1> USE DEF At, taskVars, flowVars
  <1>a. Client \in Activities /\ Client \notin Tasks
    BY FragmentAssumption DEF Activities
  <1>1. ASSUME NEW label, Goto(Client, label), label \notin SchedulePc, UNCHANGED state,
               cur' = cur \/ (\E t \in Tasks : cur' = [cur EXCEPT ![Client] = t]),
               todo' = todo \/ (\E T \in SUBSET Tasks : todo' = [todo EXCEPT ![Client] = T])
        PROVE  ControlInv'
    <2>1. pc'[Client] = label  BY <1>1, <1>a DEF Goto, TypeOK, FlowTypes
    <2>2. Fits(Client)'  BY <1>1, <1>a, <2>1 DEF Fits, Visiting, SchedulePc
    <2> QED  BY <1>1, <1>a, <2>2, ControlMove
  <1> USE DEF SchedulePc
  <1>2. CASE StartWaiting
    <2>1. Roots \in SUBSET Tasks  BY FragmentAssumption
    <2> QED  BY <1>1, <1>2, <2>1 DEF StartWaiting
  <1>3. CASE Join
    <2>1. todo[Client] \subseteq Tasks  BY <1>a DEF TypeOK, FlowTypes
    <2> QED  BY <1>1, <1>3, <2>1 DEF Join
  <1>4. CASE RethrowOrContinue
    <2>1. todo[Client] \ {cur[Client]} \in SUBSET Tasks  BY <1>a DEF TypeOK, FlowTypes
    <2> QED  BY <1>1, <1>4, <2>1 DEF RethrowOrContinue
  <1>5. CASE AllJoined  BY <1>1, <1>5 DEF AllJoined
  <1>6. CASE CheckAllDone  BY <1>1, <1>6 DEF CheckAllDone
  <1>7. CASE BlockUntilNotified  BY <1>1, <1>7 DEF BlockUntilNotified
  <1>8. CASE SpuriousWakeup  BY <1>1, <1>8 DEF SpuriousWakeup
  <1>9. CASE LeaveScope  BY <1>1, <1>9 DEF LeaveScope
  <1>10. CASE StopRunning  BY <1>1, <1>10 DEF StopRunning
  <1>11. CASE CloseQueue  BY <1>1, <1>11 DEF CloseQueue
  <1>12. CASE JoinThreads  BY <1>1, <1>12 DEF JoinThreads
  <1> QED
    BY <1>2, <1>3, <1>4, <1>5, <1>6, <1>7, <1>8, <1>9, <1>10, <1>11, <1>12

(* Every step keeps the control invariant.                                 *)
LEMMA ControlNext ==
    TypeOK /\ DependencyInv /\ JobInv /\ ControlInv /\ [Next]_vars => ControlInv'
  <1> SUFFICES ASSUME TypeOK, DependencyInv, JobInv, ControlInv, [Next]_vars
               PROVE  ControlInv'
    OBVIOUS
  <1>1. UNCHANGED vars => ControlInv'
    BY ControlStutter DEF vars, taskVars, flowVars
  <1> QED
    BY <1>1, ControlSchedulerStep, ControlJobStep, ControlThreadStep, ControlClientStep,
       NextCases

-----------------------------------------------------------------------------
(***************************************************************************)
(* The steps that neither schedule, nor count, nor uncount.                *)
(***************************************************************************)
Past == {"notify", "end", "ended"}

Neutral(b) ==
    \/ pc'[b] = pc[b] /\ cur'[b] = cur[b]
    \/ /\ pc[b] \notin SchedulePc \cup {"nested"} \/ b = Client
       /\ pc[b] # "count" /\ pc'[b] \notin {"count", "ready", "push"}
       /\ pc'[b] = "submit" => pc[b] = "last" /\ cur'[b] = cur[b]
       /\ pc'[b] \in Past <=> pc[b] \in Past
    \/ pc[b] = "schedule" /\ pc'[b] = "nested"
    \/ pc[b] = "nested" /\ pc'[b] = "operate" /\ \A u \in Subtasks[b] : IsDone(u)

(* An activity makes a neutral move, perhaps to another task.              *)
LEMMA NeutralMove ==
    ASSUME TypeOK, NEW a \in Activities, NEW label, Goto(a, label),
           cur' = cur \/ (\E t \in Tasks : cur' = [cur EXCEPT ![a] = t]),
           pc'[a] = label => Neutral(a)
    PROVE  \A b \in Activities : Neutral(b)
  <1>1. pc'[a] = label /\ \A b \in Activities \ {a} : pc'[b] = pc[b] /\ cur'[b] = cur[b]
    BY DEF Goto, TypeOK, FlowTypes
  <1> QED  BY <1>1 DEF Neutral

(* Nobody moves.                                                           *)
LEMMA NeutralStutter ==
    ASSUME UNCHANGED <<pc, cur>>
    PROVE  \A b \in Activities : Neutral(b)
  BY DEF Neutral

(* The steps of a job other than the last one of OnTaskFinished.           *)
LEMMA NeutralJobStep ==
    ASSUME TypeOK, NEW t \in Tasks, JobStep(t), ~UncountScheduled(t)
    PROVE  num' = num /\ \A b \in Activities : Neutral(b)
  <1> USE DEF At, taskVars, execVars, flowVars
  <1>a. t \in Activities /\ t # Client  BY FragmentAssumption DEF Activities
  <1>b. num' = num
    BY DEF JobStep, Execute, AcquireScheduler, WaitForSubtasks, SubtasksDone, Operate, ClearInput,
           InputsCleared, Complete, WakeJoiner, DecrementSuccessor, CheckSuccessorScheduled,
           NotifyAllDone, Abort
  <1> SUFFICES \A b \in Activities : Neutral(b)  BY <1>b
  <1>c. Abort => \A b \in Activities : Neutral(b)  BY NeutralStutter DEF Abort
  <1>1. CASE Execute(t) \/ Complete(t)
    <2>1. ASSUME NEW label \in {"operate", "acquire", "wake"}, Goto(t, label), UNCHANGED cur,
                 pc[t] \in {"execute", "complete"}
          PROVE  \A b \in Activities : Neutral(b)
      BY <1>a, <2>1, NeutralMove DEF Neutral, SchedulePc, Past
    <2> QED  BY <1>1, <1>c, <2>1 DEF Execute, Complete
  <1>2. CASE AcquireScheduler(t)
    BY <1>2, <1>a, NeutralMove DEF AcquireScheduler, Neutral, SchedulePc, Past
  <1>3. CASE WaitForSubtasks(t)
    BY <1>3, <1>a, NeutralMove DEF WaitForSubtasks, Neutral, SchedulePc, Past
  <1>4. CASE SubtasksDone(t)
    <2>1. CASE Goto(t, "operate") /\ UNCHANGED cur
      BY <1>4, <1>a, <2>1, NeutralMove DEF SubtasksDone, Neutral
    <2> QED  BY <1>4, <1>c, <2>1 DEF SubtasksDone
  <1>5. CASE Operate(t)
    <2>1. ASSUME NEW label \in {"clear", "complete"}, Goto(t, label), UNCHANGED cur
          PROVE  \A b \in Activities : Neutral(b)
      BY <1>5, <1>a, <2>1, NeutralMove DEF Operate, Neutral, SchedulePc, Past
    <2> QED  BY <1>5, <1>c, <2>1 DEF Operate
  <1>6. CASE ClearInput(t)  BY <1>6, NeutralStutter DEF ClearInput
  <1>7. CASE InputsCleared(t)
    BY <1>7, <1>a, NeutralMove DEF InputsCleared, Neutral, SchedulePc, Past
  <1>8. CASE WakeJoiner(t) \/ NotifyAllDone(t)
    <2>1. PICK label, other :
            /\ \/ pc[t] = "wake" /\ label = "finish"
               \/ pc[t] = "notify" /\ label = "end"
            /\ pc' = [pc EXCEPT ![t] = label, ![Client] = other]
            /\ \/ other = pc[Client]
               \/ other = "joined" /\ pc[Client] = "joinWait"
               \/ other = "checkAll" /\ pc[Client] = "asleepAll"
            /\ UNCHANGED cur
      BY <1>8, <1>a DEF WakeJoiner, NotifyAllDone, TypeOK, FlowTypes
    <2>2. /\ pc'[t] = label /\ pc'[Client] = other
          /\ \A b \in Activities \ {t, Client} : pc'[b] = pc[b]
      BY <1>a, <2>1 DEF TypeOK, FlowTypes, Activities
    <2>3. Neutral(t)  BY <1>a, <2>1, <2>2 DEF Neutral, SchedulePc, Past
    <2>4. Neutral(Client)  BY <2>1, <2>2 DEF Neutral, SchedulePc, Past
    <2>5. \A b \in Activities \ {t, Client} : Neutral(b)  BY <2>1, <2>2 DEF Neutral
    <2> QED  BY <2>3, <2>4, <2>5
  <1>9. CASE DecrementSuccessor(t)
    <2>1. ASSUME NEW label \in {"last", "finish"}, Goto(t, label),
                 \E s \in Tasks : cur' = [cur EXCEPT ![t] = s]
          PROVE  \A b \in Activities : Neutral(b)
      BY <1>9, <1>a, <2>1, NeutralMove DEF DecrementSuccessor, Neutral, SchedulePc, Past
    <2>2. rest[t] \subseteq Tasks  BY DEF TypeOK, FlowTypes
    <2> QED  BY <1>9, <1>c, <2>1, <2>2 DEF DecrementSuccessor
  <1>10. CASE CheckSuccessorScheduled(t)
    <2>1. PICK label \in {"submit", "finish"} : Goto(t, label) /\ UNCHANGED cur /\ pc[t] = "last"
      BY <1>10 DEF CheckSuccessorScheduled
    <2> QED  BY <1>a, <2>1, NeutralMove DEF Neutral, SchedulePc, Past
  <1> QED
    BY <1>1, <1>2, <1>3, <1>4, <1>5, <1>6, <1>7, <1>8, <1>9, <1>10 DEF JobStep

(* The steps of the threads and of the client.                             *)
LEMMA NeutralOtherStep ==
    ASSUME TypeOK, JobInv,
           \/ \E th \in Threads : \/ WorkerMain(th) \/ WorkerProcessSingleItem(th)
                                  \/ WorkerProcessSingleItemNoWait(th) \/ EndJob(th)
           \/ StartWaiting \/ Join \/ RethrowOrContinue \/ AllJoined
           \/ CheckAllDone \/ BlockUntilNotified \/ SpuriousWakeup
           \/ LeaveScope \/ StopRunning \/ CloseQueue \/ JoinThreads
    PROVE  num' = num /\ \A b \in Activities : Neutral(b)
  <1> USE DEF At, taskVars, execVars, flowVars
  <1>a. Client \in Activities /\ pc[Client] \in ClientPc
    BY DEF Activities, TypeOK, FlowTypes
  <1>b. num' = num
    BY DEF WorkerMain, WorkerProcessSingleItem, WorkerProcessSingleItemNoWait, EndJob,
           StartWaiting, Join, RethrowOrContinue, AllJoined, CheckAllDone, BlockUntilNotified,
           SpuriousWakeup, LeaveScope, StopRunning, CloseQueue, JoinThreads
  <1> SUFFICES \A b \in Activities : Neutral(b)  BY <1>b
  <1>1. ASSUME NEW th \in Threads,
               \/ WorkerMain(th) \/ WorkerProcessSingleItem(th)
               \/ WorkerProcessSingleItemNoWait(th) \/ EndJob(th)
        PROVE  \A b \in Activities : Neutral(b)
    <2>1. ASSUME NEW t \in Tasks, NEW label, Goto(t, label), UNCHANGED cur,
                 \/ pc[t] = "idle" /\ label = "execute"
                 \/ pc[t] = "end" /\ label = "ended"
          PROVE  \A b \in Activities : Neutral(b)
      BY <2>1, NeutralMove DEF Neutral, SchedulePc, Past, Activities
    <2>2. queue # <<>> /\ StartJob(th) /\ UNCHANGED cur => \A b \in Activities : Neutral(b)
      BY <2>1, HeadIsIdle DEF StartJob
    <2>3. EndJob(th) => \A b \in Activities : Neutral(b)
      <3> SUFFICES ASSUME EndJob(th) PROVE \A b \in Activities : Neutral(b)  OBVIOUS
      <3>1. Head(stack[th]) \in Tasks  BY DEF EndJob, TypeOK, ExecutorTypes
      <3> QED  BY <2>1, <3>1 DEF EndJob
    <2> QED
      BY <1>1, <2>2, <2>3, NeutralStutter
      DEF WorkerMain, WorkerProcessSingleItem, WorkerProcessSingleItemNoWait
  <1>2. ASSUME NEW label \in ClientPc, label \notin SchedulePc, Goto(Client, label), pc[Client] # "count",
               cur' = cur \/ (\E t \in Tasks : cur' = [cur EXCEPT ![Client] = t])
        PROVE  \A b \in Activities : Neutral(b)
    BY <1>2, <1>a, NeutralMove DEF Neutral, SchedulePc, Past, ClientPc
  <1>3. todo[Client] \subseteq Tasks  BY <1>a DEF TypeOK, FlowTypes
  <1>4. CASE Join  BY <1>2, <1>3, <1>4 DEF Join, ClientPc, SchedulePc
  <1>5. CASE StartWaiting  BY <1>2, <1>5 DEF StartWaiting, ClientPc, SchedulePc
  <1>6. CASE \/ RethrowOrContinue \/ AllJoined \/ CheckAllDone \/ BlockUntilNotified
             \/ SpuriousWakeup \/ LeaveScope \/ StopRunning \/ CloseQueue \/ JoinThreads
    BY <1>2, <1>6
    DEF RethrowOrContinue, AllJoined, CheckAllDone, BlockUntilNotified, SpuriousWakeup,
        LeaveScope, StopRunning, CloseQueue, JoinThreads, ClientPc, SchedulePc
  <1> QED  BY <1>1, <1>4, <1>5, <1>6

(* Every step is neutral, uncounts a task, or is one of the scheduler's.   *)
LEMMA NeutralSteps ==
    ASSUME TypeOK, JobInv, [Next]_vars
    PROVE  \/ num' = num /\ \A b \in Activities : Neutral(b)
           \/ \E t \in Tasks : UncountScheduled(t)
           \/ \E a \in Activities : SchedulerStep(a)
  <1>1. UNCHANGED vars => num' = num /\ \A b \in Activities : Neutral(b)
    BY NeutralStutter DEF vars, flowVars
  <1> QED  BY <1>1, NeutralJobStep, NeutralOtherStep, NextCases

-----------------------------------------------------------------------------
(***************************************************************************)
(* Subtasks are awaited.                                                   *)
(***************************************************************************)

(* A task that awaits its subtasks goes on doing so until all are done.    *)
LEMMA AwaitsStays ==
    ASSUME TypeOK, JobInv, [Next]_vars, NEW t \in Tasks, Awaits(t)
    PROVE  Awaits(t)' \/ \A u \in Subtasks[t] : IsDone(u)
  <1>a. t \in Activities /\ t # Client  BY FragmentAssumption DEF Activities
  <1>b. /\ state[t] = kStarted /\ pc[t] \in SchedulePc \cup {"nested"}
        /\ pc[t] \notin {"execute", "complete", "finish"}
    BY DEF Awaits, SchedulePc
  <1>c. state'[t] = kStarted  BY <1>b, StateSteps DEF StateStep
  <1> SUFFICES pc'[t] \in SchedulePc \cup {"nested"} \/ \A u \in Subtasks[t] : IsDone(u)
    BY <1>c DEF Awaits
  <1>1. CASE Neutral(t)  BY <1>1, <1>a, <1>b DEF Neutral, SchedulePc
  <1>2. ASSUME NEW s \in Tasks, UncountScheduled(s)
        PROVE  pc'[t] \in SchedulePc \cup {"nested"}
    <2>1. s # t /\ pc'[t] = pc[t]
      BY <1>2, <1>a, <1>b DEF UncountScheduled, At, Goto, TypeOK, FlowTypes
    <2> QED  BY <1>b, <2>1
  <1>3. ASSUME NEW a \in Activities, SchedulerStep(a)
        PROVE  pc'[t] \in SchedulePc \cup {"nested"}
    <2>1. PICK label : pc' = pc \/ (Goto(a, label) /\ label \in SchedulePc \cup {AfterSubmit(a)})
      BY <1>3
      DEF SchedulerStep, Schedule, CountScheduled, CheckReady, TryEnqueue, PushJob, SchedulePc
    <2>2. CASE a # t  BY <1>a, <1>b, <2>1, <2>2 DEF Goto, TypeOK, FlowTypes
    <2>3. CASE a = t
      <3>1. AfterSubmit(a) = "schedule"  BY <1>b, <2>3 DEF AfterSubmit
      <3> QED  BY <1>a, <1>b, <2>1, <2>3, <3>1 DEF Goto, TypeOK, FlowTypes, SchedulePc
    <2> QED  BY <2>2, <2>3
  <1> QED  BY <1>a, <1>1, <1>2, <1>3, NeutralSteps

(* Every subtask on its way is awaited.                                    *)
LEMMA AwaitedNext ==
    TypeOK /\ JobInv /\ ControlInv /\ SubtasksAreAwaited /\ [Next]_vars => SubtasksAreAwaited'
  <1> SUFFICES ASSUME TypeOK, JobInv, ControlInv, SubtasksAreAwaited, [Next]_vars,
                      NEW u \in Tasks \ Roots, Unfinished(u)'
               PROVE  \E t \in Tasks : u \in Subtasks[t] /\ Awaits(t)'
    BY DEF SubtasksAreAwaited
  <1>1. CASE Unfinished(u)
    <2>1. PICK t \in Tasks : u \in Subtasks[t] /\ Awaits(t)  BY <1>1 DEF SubtasksAreAwaited
    <2>2. ~IsDone(u)  BY <1>1 DEF Unfinished, IsDone
    <2> QED  BY <2>1, <2>2, AwaitsStays
  <1>2. CASE ~Unfinished(u)
    <2>1. StateStep(u) /\ state'[u] # state[u]  BY <1>2, StateSteps DEF Unfinished
    <2>2. state[u] = kCreated  BY <1>2, <2>1 DEF Unfinished, StateStep
    <2>3. ASSUME NEW a \in Activities, pc[a] = "submit", cur[a] = u PROVE FALSE
      BY <2>2, <2>3 DEF ControlInv, Fits, Visiting, IsScheduled
    <2>4. PICK a \in Activities : pc[a] = "schedule" /\ u \in todo[a] /\ pc'[a] = "count"
      BY <2>1, <2>2, <2>3 DEF StateStep
    <2>5. Fits(a) /\ a \in Tasks
      BY <2>4 DEF ControlInv, Fits, Activities, SchedulePc
    <2>6. state[a] = kStarted /\ u \in Subtasks[a]
      BY <2>4, <2>5 DEF Fits, Phase, VisitsSubtasks, SchedulePc
    <2>7. state'[a] = kStarted  BY <2>4, <2>5, <2>6, StateSteps DEF StateStep
    <2> QED  BY <2>4, <2>5, <2>6, <2>7 DEF Awaits, SchedulePc
  <1> QED  BY <1>1, <1>2

-----------------------------------------------------------------------------
(***************************************************************************)
(* num_scheduled_tasks_.  A task is counted once the activity that has     *)
(* moved it to kScheduled is past the increment.  A root may finish before *)
(* that, so that the counter wraps; a subtask cannot.                      *)
(***************************************************************************)
IsCounted(t) == IsScheduled(t) /\ \A a \in Activities : ~(pc[a] = "count" /\ cur[a] = t)
Counted      == {t \in Tasks : IsCounted(t)}
Uncounted    == {t \in Tasks : pc[t] \in {"notify", "end", "ended"}}

CountIsExact  == num = Cardinality(Counted) - Cardinality(Uncounted)
CountedByOne  == \A a, b \in Activities :
                     pc[a] = "count" /\ pc[b] = "count" /\ cur[a] = cur[b] => a = b
SubtasksAreCounted ==
    \A u \in Tasks \ Roots :
        state[u] >= kEnqueued \/ (\E a \in Activities : cur[a] = u /\ pc[a] \in {"ready", "submit", "push"})
          => IsCounted(u)

CountInv == CountIsExact /\ CountedByOne /\ SubtasksAreCounted

(* Initially nothing is counted.                                           *)
LEMMA CountInit == Init => CountInv
  <1> SUFFICES ASSUME Init PROVE CountInv  OBVIOUS
  <1>1. Counted = {} /\ Uncounted = {}
    BY FragmentAssumption DEF Init, Counted, Uncounted, IsCounted, IsScheduled, Activities
  <1>2. CountIsExact  BY <1>1, FS_EmptySet DEF CountIsExact, Init
  <1>3. \A a \in Activities : pc[a] \in {"schedule", "idle"}  BY DEF Init
  <1>4. \A t \in Tasks : ~(state[t] >= kEnqueued)  BY DEF Init
  <1>5. CountedByOne /\ SubtasksAreCounted
    BY <1>3, <1>4 DEF CountedByOne, SubtasksAreCounted
  <1> QED  BY <1>2, <1>5 DEF CountInv

(* The sets that are counted are finite.                                   *)
LEMMA CountedFinite ==
    /\ IsFiniteSet(Counted) /\ Cardinality(Counted) \in Nat
    /\ IsFiniteSet(Uncounted) /\ Cardinality(Uncounted) \in Nat
  <1> Counted \subseteq Tasks /\ Uncounted \subseteq Tasks  BY DEF Counted, Uncounted
  <1> QED  BY FragmentAssumption, FS_Subset, FS_CardinalityType

(* A task becomes scheduled only together with an activity that counts it. *)
LEMMA ScheduledSame ==
    ASSUME TypeOK, ControlInv, [Next]_vars, NEW t \in Tasks,
           \A a \in Activities : pc'[a] = "count" => pc[a] = "count"
    PROVE  IsScheduled(t)' <=> IsScheduled(t)
  <1>1. ASSUME NEW a \in Activities, pc[a] = "submit", cur[a] = t PROVE IsScheduled(t)
    BY <1>1 DEF ControlInv, Fits, Visiting
  <1> QED
    BY <1>1, StateSteps, ScheduledStays
    DEF StateStep, IsScheduled, TypeOK, TaskTypes, TaskState

CountsAlike(b) == /\ pc'[b] = "count" <=> pc[b] = "count"
                  /\ pc[b] = "count" => cur'[b] = cur[b]

SubmitsAlike(b) ==
    pc'[b] \in {"ready", "submit", "push"} =>
        \/ pc[b] \in {"ready", "submit", "push"} /\ cur'[b] = cur[b]
        \/ cur'[b] \in Roots

(* A step in which no activity starts or stops counting.                   *)
LEMMA CountFrame ==
    ASSUME TypeOK, ControlInv, CountInv, [Next]_vars,
           \A b \in Activities : CountsAlike(b) /\ SubmitsAlike(b)
    PROVE  Counted' = Counted /\ CountedByOne' /\ SubtasksAreCounted'
  <1>1. \A t \in Tasks : IsScheduled(t)' <=> IsScheduled(t)
    BY ScheduledSame DEF CountsAlike
  <1>2. \A t \in Tasks : IsCounted(t)' <=> IsCounted(t)
    BY <1>1 DEF IsCounted, CountsAlike
  <1>3. Counted' = Counted  BY <1>2 DEF Counted
  <1>4. CountedByOne'  BY DEF CountInv, CountedByOne, CountsAlike
  <1>5. SubtasksAreCounted'
    <2> SUFFICES ASSUME NEW u \in Tasks \ Roots,
                        \/ state'[u] >= kEnqueued
                        \/ \E a \in Activities : cur'[a] = u /\ pc'[a] \in {"ready", "submit", "push"}
                 PROVE  IsCounted(u)'
      BY DEF SubtasksAreCounted
    <2>1. CASE state'[u] >= kEnqueued
      <3>1. \/ state[u] >= kEnqueued
            \/ \E a \in Activities : pc[a] = "submit" /\ cur[a] = u
        BY <2>1, StateSteps DEF StateStep
      <3>2. IsCounted(u)  BY <3>1 DEF CountInv, SubtasksAreCounted
      <3> QED  BY <1>2, <3>2
    <2>2. ASSUME NEW a \in Activities, cur'[a] = u, pc'[a] \in {"ready", "submit", "push"}
          PROVE  IsCounted(u)'
      <3>1. pc[a] \in {"ready", "submit", "push"} /\ cur[a] = u  BY <2>2 DEF SubmitsAlike
      <3>2. IsCounted(u)  BY <3>1 DEF CountInv, SubtasksAreCounted
      <3> QED  BY <1>2, <3>2
    <2> QED  BY <2>1, <2>2
  <1> QED  BY <1>3, <1>4, <1>5

(* A neutral move neither counts nor uncounts; a successor that a finished *)
(* task comes to submit is a root.                                         *)
LEMMA NeutralCounts ==
    ASSUME TypeOK, ControlInv, [Next]_vars, NEW b \in Activities, Neutral(b)
    PROVE  /\ CountsAlike(b) /\ SubmitsAlike(b)
           /\ b \in Tasks => (pc'[b] \in Past <=> pc[b] \in Past)
  <1>1. Fits(b)  BY DEF ControlInv
  <1>2. pc[b] = "last" => cur[b] \in Roots
    <2> SUFFICES ASSUME pc[b] = "last" PROVE cur[b] \in Roots  OBVIOUS
    <2>1. b \in Tasks  BY DEF TypeOK, FlowTypes, Activities, ClientPc, SchedulePc
    <2> QED  BY <1>1, <2>1 DEF Fits, Phase, VisitsSuccessors
  <1> QED  BY <1>2 DEF Neutral, CountsAlike, SubmitsAlike, SchedulePc, Past

(* The scheduler's steps other than the count.                             *)
LEMMA CountSchedulerStep ==
    ASSUME TypeOK, ControlInv, CountInv, [Next]_vars, NEW a \in Activities, SchedulerStep(a)
    PROVE  CountInv'
  <1> USE DEF At, execVars
  <1>a. \A label : Goto(a, label) => pc'[a] = label /\ \A b \in Activities \ {a} : pc'[b] = pc[b]
    BY DEF Goto, TypeOK, FlowTypes
  <1>b. Fits(a)  BY DEF ControlInv
  <1>1. ASSUME num' = num, Uncounted' = Uncounted, Counted' = Counted,
               CountedByOne', SubtasksAreCounted'
        PROVE  CountInv'
    BY <1>1 DEF CountInv, CountIsExact
  <1>2. ASSUME num' = num, UNCHANGED cur, CountsAlike(a), SubmitsAlike(a),
               \A b \in Activities \ {a} : pc'[b] = pc[b],
               a \in Tasks => (pc'[a] \in Past <=> pc[a] \in Past)
        PROVE  CountInv'
    <2>1. \A b \in Activities : CountsAlike(b) /\ SubmitsAlike(b)
      BY <1>2 DEF CountsAlike, SubmitsAlike
    <2>2. Uncounted' = Uncounted  BY <1>2 DEF Uncounted, Past, Activities
    <2> QED  BY <1>1, <1>2, <2>1, <2>2, CountFrame
  <1>3. CASE Schedule(a)
    <2>1. PICK t \in todo[a] :
            \/ UNCHANGED <<state, pc, cur>>
            \/ /\ ~(state[t] >= kScheduled)
               /\ state' = [state EXCEPT ![t] = kScheduled]
               /\ cur' = [cur EXCEPT ![a] = t]
               /\ Goto(a, "count")
      BY <1>3 DEF Schedule
    <2>2. t \in Tasks /\ num' = num /\ pc[a] = "schedule"
      BY <1>3 DEF TypeOK, FlowTypes, Schedule
    <2>3. CASE UNCHANGED <<state, pc, cur>>
      BY <1>2, <2>2, <2>3 DEF CountsAlike, SubmitsAlike
    <2>4. CASE /\ ~(state[t] >= kScheduled)
               /\ state' = [state EXCEPT ![t] = kScheduled]
               /\ cur' = [cur EXCEPT ![a] = t]
               /\ Goto(a, "count")
      <3>1. /\ pc'[a] = "count" /\ cur'[a] = t
            /\ \A b \in Activities \ {a} : pc'[b] = pc[b] /\ cur'[b] = cur[b]
        BY <1>a, <2>4 DEF TypeOK, FlowTypes
      <3>2. ~IsScheduled(t) /\ \A s \in Tasks \ {t} : state'[s] = state[s]
        BY <2>2, <2>4 DEF IsScheduled, TypeOK, TaskTypes
      <3>3. \A b \in Activities : pc[b] \in Visiting => cur[b] # t
        BY <3>2 DEF ControlInv, Fits
      <3>4. ASSUME NEW s \in Tasks PROVE IsCounted(s)' <=> IsCounted(s)
        <4>1. CASE s = t
          <5>1. ~IsCounted(s)  BY <3>2, <4>1 DEF IsCounted
          <5>2. ~IsCounted(s)'  BY <3>1, <4>1 DEF IsCounted
          <5> QED  BY <5>1, <5>2
        <4>2. CASE s # t
          <5>1. IsScheduled(s)' <=> IsScheduled(s)  BY <3>2, <4>2 DEF IsScheduled
          <5>2. \A b \in Activities : (pc'[b] = "count" /\ cur'[b] = s) <=> (pc[b] = "count" /\ cur[b] = s)
            BY <2>2, <3>1, <4>2
          <5> QED  BY <5>1, <5>2 DEF IsCounted
        <4> QED  BY <4>1, <4>2
      <3>5. Counted' = Counted  BY <3>4 DEF Counted
      <3>6. CountedByOne'
        <4> SUFFICES ASSUME NEW b \in Activities, NEW c \in Activities,
                            pc'[b] = "count", pc'[c] = "count", cur'[b] = cur'[c]
                     PROVE  b = c
          BY DEF CountedByOne
        <4> QED  BY <3>1, <3>3 DEF CountInv, CountedByOne, Visiting
      <3>7. SubtasksAreCounted'
        <4> SUFFICES ASSUME NEW u \in Tasks \ Roots,
                            \/ state'[u] >= kEnqueued
                            \/ \E b \in Activities :
                                 cur'[b] = u /\ pc'[b] \in {"ready", "submit", "push"}
                     PROVE  IsCounted(u)'
          BY DEF SubtasksAreCounted
        <4>1. state'[u] >= kEnqueued => state[u] >= kEnqueued
          BY <2>2, <2>4, <3>2 DEF TypeOK, TaskTypes
        <4>2. ASSUME NEW b \in Activities, cur'[b] = u, pc'[b] \in {"ready", "submit", "push"}
              PROVE  cur[b] = u /\ pc[b] \in {"ready", "submit", "push"}
          BY <3>1, <4>2
        <4> QED  BY <3>4, <4>1, <4>2 DEF CountInv, SubtasksAreCounted
      <3>8. Uncounted' = Uncounted
        BY <2>2, <3>1 DEF Uncounted, Activities
      <3> QED  BY <1>1, <2>2, <3>5, <3>6, <3>7, <3>8
    <2> QED  BY <2>1, <2>3, <2>4
  <1>4. CASE CountScheduled(a)
    <2>1. /\ pc[a] = "count" /\ pc'[a] = "ready" /\ num' = num + 1 /\ UNCHANGED <<state, cur>>
          /\ \A b \in Activities \ {a} : pc'[b] = pc[b]
      BY <1>4, <1>a DEF CountScheduled, taskVars
    <2>2. PICK t \in Tasks : t = cur[a]
      BY <2>1 DEF TypeOK, FlowTypes, NamesTask
    <2>3. IsScheduled(t) /\ ~IsCounted(t)  BY <1>b, <2>1, <2>2 DEF Fits, Visiting, IsCounted
    <2>4. ASSUME NEW s \in Tasks PROVE IsCounted(s)' <=> IsCounted(s) \/ s = t
      <3>0. IsScheduled(s)' <=> IsScheduled(s)  BY <2>1 DEF IsScheduled
      <3>1. CASE s = t
        <4>1. ASSUME NEW b \in Activities, pc'[b] = "count", cur'[b] = t PROVE FALSE
          BY <2>1, <2>2, <4>1 DEF CountInv, CountedByOne
        <4> QED  BY <2>3, <3>0, <3>1, <4>1 DEF IsCounted
      <3>2. CASE s # t
        <4>1. \A b \in Activities : (pc'[b] = "count" /\ cur'[b] = s) <=> (pc[b] = "count" /\ cur[b] = s)
          BY <2>1, <2>2, <3>2
        <4> QED  BY <3>0, <3>2, <4>1 DEF IsCounted
      <3> QED  BY <3>1, <3>2
    <2>5. Counted' = Counted \cup {t} /\ t \notin Counted  BY <2>3, <2>4 DEF Counted
    <2>6. Uncounted' = Uncounted  BY <2>1 DEF Uncounted, Activities
    <2>7. CountIsExact'
      <3>1. Cardinality(Counted') = Cardinality(Counted) + 1
        BY <2>5, CountedFinite, FS_AddElement
      <3> QED  BY <2>1, <2>6, <3>1, CountedFinite DEF CountInv, CountIsExact
    <2>8. CountedByOne'  BY <2>1 DEF CountInv, CountedByOne
    <2>9. SubtasksAreCounted'
      <3> SUFFICES ASSUME NEW u \in Tasks \ Roots,
                          \/ state'[u] >= kEnqueued
                          \/ \E b \in Activities :
                               cur'[b] = u /\ pc'[b] \in {"ready", "submit", "push"}
                   PROVE  IsCounted(u)'
        BY DEF SubtasksAreCounted
      <3>1. CASE u = t  BY <2>4, <3>1
      <3>2. CASE u # t  BY <2>1, <2>2, <2>4, <3>2 DEF CountInv, SubtasksAreCounted
      <3> QED  BY <3>1, <3>2
    <2> QED  BY <2>7, <2>8, <2>9 DEF CountInv
  <1>5. CASE CheckReady(a)
    <2>1. /\ pc[a] = "ready" /\ pc'[a] \in {"submit", "schedule"} /\ UNCHANGED <<num, cur>>
          /\ \A b \in Activities \ {a} : pc'[b] = pc[b]
      BY <1>5, <1>a DEF CheckReady
    <2> QED  BY <1>2, <2>1 DEF CountsAlike, SubmitsAlike, Past
  <1>6. CASE TryEnqueue(a) \/ PushJob(a)
    <2>1. /\ pc[a] \in {"submit", "push"} /\ pc'[a] \in {"finish", "schedule", "push"}
          /\ UNCHANGED <<num, cur>> /\ \A b \in Activities \ {a} : pc'[b] = pc[b]
      BY <1>6, <1>a DEF TryEnqueue, PushJob, AfterSubmit
    <2> QED  BY <1>2, <2>1 DEF CountsAlike, SubmitsAlike, Past
  <1> QED  BY <1>3, <1>4, <1>5, <1>6 DEF SchedulerStep

(* num_scheduled_tasks_ stays exact.                                       *)
LEMMA CountNext ==
    TypeOK /\ JobInv /\ ControlInv /\ CountInv /\ [Next]_vars => CountInv'
  <1> SUFFICES ASSUME TypeOK, JobInv, ControlInv, CountInv, [Next]_vars PROVE CountInv'
    OBVIOUS
  <1>1. ASSUME num' = num, \A b \in Activities : Neutral(b) PROVE CountInv'
    <2>1. Uncounted' = Uncounted
      BY <1>1, NeutralCounts DEF Uncounted, Past, Activities
    <2>2. Counted' = Counted /\ CountedByOne' /\ SubtasksAreCounted'
      BY <1>1, NeutralCounts, CountFrame
    <2> QED  BY <1>1, <2>1, <2>2 DEF CountInv, CountIsExact
  <1>2. ASSUME NEW t \in Tasks, UncountScheduled(t) PROVE CountInv'
    <2>1. /\ pc[t] = "finish" /\ pc'[t] \in {"notify", "end"} /\ num' = num - 1
          /\ UNCHANGED cur /\ \A b \in Activities \ {t} : pc'[b] = pc[b]
      BY <1>2 DEF UncountScheduled, At, Goto, TypeOK, FlowTypes, Activities
    <2>2. \A b \in Activities : CountsAlike(b) /\ SubmitsAlike(b)
      BY <2>1 DEF CountsAlike, SubmitsAlike
    <2>3. Uncounted' = Uncounted \cup {t} /\ t \notin Uncounted
      BY <2>1 DEF Uncounted, Activities
    <2>4. Cardinality(Uncounted') = Cardinality(Uncounted) + 1
      BY <2>3, CountedFinite, FS_AddElement
    <2>5. Counted' = Counted /\ CountedByOne' /\ SubtasksAreCounted'  BY <2>2, CountFrame
    <2>6. CountIsExact'
      BY <2>1, <2>4, <2>5, CountedFinite DEF CountInv, CountIsExact
    <2> QED  BY <2>5, <2>6 DEF CountInv
  <1> QED  BY <1>1, <1>2, CountSchedulerStep, NeutralSteps

-----------------------------------------------------------------------------
(***************************************************************************)
(* The client.                                                             *)
(***************************************************************************)
Returned == {"leave", "stop", "close", "joinThreads", "responded"}

RootsAreScheduled ==
    \A t \in Roots : IsScheduled(t) \/ (pc[Client] \in SchedulePc /\ t \in todo[Client])

JoinedAreDone ==
    /\ pc[Client] \in {"join", "joinWait", "joined"} => \A t \in Roots \ todo[Client] : IsDone(t)
    /\ pc[Client] = "joined" => IsDone(cur[Client])

ResultIsFinal ==
    /\ result # "none" <=> pc[Client] \in Returned
    /\ result = "failure" => \E t \in Tasks : exception[t]
    /\ Client \in holders \/ result # "none"

ClientInv == RootsAreScheduled /\ JoinedAreDone /\ ResultIsFinal /\ QuietOnReturn

(* Initially the client has every root to schedule.                        *)
LEMMA ClientInit == Init => ClientInv
  BY FragmentAssumption
  DEF Init, ClientInv, RootsAreScheduled, JoinedAreDone, ResultIsFinal, QuietOnReturn,
      Activities, SchedulePc, Returned

(* A done task stays done, and what it has thrown is kept.                 *)
LEMMA DoneStays ==
    ASSUME TypeOK, [Next]_vars, NEW t \in Tasks, IsDone(t)
    PROVE  IsDone(t)'
  BY StateSteps DEF StateStep, IsDone

ClientRests ==
    /\ pc'[Client] = pc[Client] /\ cur'[Client] = cur[Client] /\ todo'[Client] = todo[Client]
    /\ result' = result
    /\ Client \in holders => Client \in holders'
    /\ \A t \in Tasks : exception[t] => exception'[t]

(* Only its own steps and two notifications move the client.               *)
LEMMA ClientSteps ==
    ASSUME TypeOK, JobInv, [Next]_vars
    PROVE  \/ ClientRests
           \/ \E t \in Tasks : WakeJoiner(t) \/ NotifyAllDone(t)
           \/ SchedulerStep(Client) \/ StartWaiting \/ Join \/ RethrowOrContinue \/ AllJoined
           \/ CheckAllDone \/ BlockUntilNotified \/ SpuriousWakeup
           \/ LeaveScope \/ StopRunning \/ CloseQueue \/ JoinThreads
  <1> USE DEF At, taskVars, execVars, flowVars, clientVars
  <1>a. Client \in Activities /\ Client \notin Tasks
    BY FragmentAssumption DEF Activities
  <1>b. UNCHANGED <<taskVars, flowVars, clientVars>> => ClientRests  BY DEF ClientRests
  <1>c. Abort => ClientRests  BY DEF Abort, ClientRests
  <1>1. ASSUME NEW a \in Activities, a # Client, NEW label, Goto(a, label) \/ pc' = pc,
               cur' = cur \/ (\E t \in Tasks : cur' = [cur EXCEPT ![a] = t]),
               todo' = todo \/ (\E T \in SUBSET Tasks : todo' = [todo EXCEPT ![a] = T]),
               result' = result, Client \in holders => Client \in holders',
               \A t \in Tasks : exception[t] => exception'[t]
        PROVE  ClientRests
    BY <1>1, <1>a DEF ClientRests, Goto, TypeOK, FlowTypes
  <1>2. ASSUME NEW a \in Activities, SchedulerStep(a) PROVE ClientRests \/ SchedulerStep(Client)
    <2> SUFFICES ASSUME a # Client PROVE ClientRests  BY <1>2
    <2>1. PICK label : Goto(a, label) \/ pc' = pc
      BY <1>2 DEF SchedulerStep, Schedule, CountScheduled, CheckReady, TryEnqueue, PushJob
    <2>2. todo[a] \subseteq Tasks /\ (pc[a] = "ready" => cur[a] \in Tasks)
      BY DEF TypeOK, FlowTypes, NamesTask
    <2>3. UNCHANGED <<result, holders, exception>>
      BY <1>2 DEF SchedulerStep, Schedule, CountScheduled, CheckReady, TryEnqueue, PushJob
    <2>4. cur' = cur \/ (\E t \in Tasks : cur' = [cur EXCEPT ![a] = t])
      BY <1>2, <2>2 DEF SchedulerStep, Schedule, CountScheduled, CheckReady, TryEnqueue, PushJob
    <2>5. todo' = todo \/ (\E T \in SUBSET Tasks : todo' = [todo EXCEPT ![a] = T])
      <3>1. CASE Schedule(a)
        <4>1. PICK t \in todo[a] : todo' = [todo EXCEPT ![a] = todo[a] \ {t}]
          BY <3>1 DEF Schedule
        <4>2. todo[a] \ {t} \in SUBSET Tasks  BY <2>2
        <4> QED  BY <4>1, <4>2
      <3>2. CASE CheckReady(a)
        <4>1. todo' = todo \/ todo' = [todo EXCEPT ![a] = todo[a] \cup Predecessors[cur[a]]]
          BY <3>2 DEF CheckReady
        <4>2. todo[a] \cup Predecessors[cur[a]] \in SUBSET Tasks
          BY <2>2, <3>2, FragmentAssumption DEF CheckReady
        <4> QED  BY <4>1, <4>2
      <3> QED  BY <1>2, <3>1, <3>2 DEF SchedulerStep, CountScheduled, TryEnqueue, PushJob
    <2> QED  BY <1>1, <2>1, <2>3, <2>4, <2>5
  <1>3. ASSUME NEW s \in Tasks, JobStep(s), ~WakeJoiner(s), ~NotifyAllDone(s)
        PROVE  ClientRests
    <2>a. s \in Activities /\ s # Client  BY FragmentAssumption DEF Activities
    <2>b. rest[s] \subseteq Tasks /\ todo[s] \subseteq Tasks  BY <2>a DEF TypeOK, FlowTypes
    <2> SUFFICES ASSUME ~Abort PROVE ClientRests  BY <1>c
    <2>1. CASE Operate(s)
      <3>1. PICK label : Goto(s, label)  BY <2>1 DEF Operate
      <3>2. (IF s \in Roots THEN Predecessors[s] ELSE {}) \in SUBSET Tasks
        BY FragmentAssumption
      <3>3. todo' = todo \/ (\E T \in SUBSET Tasks : todo' = [todo EXCEPT ![s] = T])
        BY <2>1, <3>2 DEF Operate
      <3>4. \A t \in Tasks : exception[t] => exception'[t]
        BY <2>1 DEF Operate, TypeOK, TaskTypes
      <3> QED  BY <1>1, <2>1, <2>a, <3>1, <3>3, <3>4 DEF Operate
    <2>2. CASE AcquireScheduler(s)
      <3>1. Subtasks[s] \in SUBSET Tasks  BY FragmentAssumption
      <3> QED  BY <1>1, <2>2, <2>a, <3>1 DEF AcquireScheduler
    <2>3. CASE SubtasksDone(s)  BY <1>1, <2>3, <2>a DEF SubtasksDone
    <2>4. CASE ClearInput(s)
      <3>1. PICK p \in todo[s] : todo' = [todo EXCEPT ![s] = todo[s] \ {p}]
        BY <2>4 DEF ClearInput
      <3>2. todo[s] \ {p} \in SUBSET Tasks  BY <2>b
      <3> QED  BY <1>1, <2>4, <2>a, <3>1, <3>2 DEF ClearInput
    <2>5. CASE DecrementSuccessor(s)
      <3>1. PICK t \in Tasks, label \in {"last", "finish"} :
              Goto(s, label) /\ cur' = [cur EXCEPT ![s] = t]
        BY <2>5, <2>b DEF DecrementSuccessor
      <3>2. UNCHANGED <<todo, result, holders, exception>>  BY <2>5 DEF DecrementSuccessor
      <3> QED  BY <1>1, <2>a, <3>1, <3>2
    <2>6. CASE \/ Execute(s) \/ WaitForSubtasks(s) \/ InputsCleared(s) \/ Complete(s)
               \/ CheckSuccessorScheduled(s) \/ UncountScheduled(s)
      <3>1. PICK label : Goto(s, label)
        BY <2>6
        DEF Execute, WaitForSubtasks, InputsCleared, Complete, CheckSuccessorScheduled,
            UncountScheduled
      <3>2. UNCHANGED <<cur, todo, result, holders, exception>>
        BY <2>6
        DEF Execute, WaitForSubtasks, InputsCleared, Complete, CheckSuccessorScheduled,
            UncountScheduled
      <3> QED  BY <1>1, <2>a, <3>1, <3>2
    <2> QED  BY <1>3, <2>1, <2>2, <2>3, <2>4, <2>5, <2>6 DEF JobStep
  <1>4. ASSUME NEW th \in Threads,
               \/ WorkerMain(th) \/ WorkerProcessSingleItem(th)
               \/ WorkerProcessSingleItemNoWait(th) \/ EndJob(th)
        PROVE  ClientRests
    <2>1. UNCHANGED <<taskVars, cur, todo, clientVars>>
      BY <1>4
      DEF WorkerMain, WorkerProcessSingleItem, WorkerProcessSingleItemNoWait, EndJob
    <2>2. \/ pc' = pc
          \/ \E t \in Tasks, label \in {"execute", "ended"} : Goto(t, label)
      <3>1. queue # <<>> => Head(queue) \in Tasks  BY HeadIsIdle
      <3>2. EndJob(th) => Head(stack[th]) \in Tasks  BY DEF EndJob, TypeOK, ExecutorTypes
      <3> QED
        BY <1>4, <3>1, <3>2
        DEF WorkerMain, WorkerProcessSingleItem, WorkerProcessSingleItemNoWait, EndJob, StartJob
    <2>3. \A t \in Tasks : t \in Activities /\ t # Client  BY <1>a DEF Activities
    <2>4. CASE pc' = pc  BY <2>1, <2>4 DEF ClientRests
    <2>5. ASSUME NEW t \in Tasks, NEW label, Goto(t, label) PROVE ClientRests
      BY <1>1, <2>1, <2>3, <2>5
    <2> QED  BY <2>2, <2>4, <2>5
  <1>5. UNCHANGED vars => ClientRests  BY <1>b DEF vars
  <1> HIDE DEF At, taskVars, execVars, flowVars, clientVars
  <1> QED  BY <1>2, <1>3, <1>4, <1>5, NextCases

(* A resting client, or one that moves on without a result, keeps what it  *)
(* knows about its tasks.                                                  *)
LEMMA ClientFrame ==
    ASSUME TypeOK, RootsAreScheduled, JoinedAreDone, ResultIsFinal, [Next]_vars, ClientRests
    PROVE  RootsAreScheduled' /\ JoinedAreDone' /\ ResultIsFinal'
  <1>1. \A t \in Tasks : (IsScheduled(t) => IsScheduled(t)') /\ (IsDone(t) => IsDone(t)')
    BY ScheduledStays, DoneStays
  <1>2. Roots \subseteq Tasks  BY FragmentAssumption
  <1>3. pc[Client] = "joined" => cur[Client] \in Tasks
    BY DEF TypeOK, FlowTypes, NamesTask, Activities
  <1>4. RootsAreScheduled'  BY <1>1, <1>2 DEF RootsAreScheduled, ClientRests
  <1>5. JoinedAreDone'
    <2>1. pc[Client] = "joined" => IsDone(cur[Client])'
      <3> SUFFICES ASSUME pc[Client] = "joined" PROVE state'[cur'[Client]] = kDone
        BY DEF IsDone
      <3>1. PICK u \in Tasks : u = cur[Client]  BY <1>3
      <3> QED  BY <1>1, <3>1 DEF JoinedAreDone, IsDone, ClientRests
    <2> QED  BY <1>1, <1>2, <2>1 DEF JoinedAreDone, ClientRests, IsDone
  <1>6. ResultIsFinal'  BY DEF ResultIsFinal, ClientRests
  <1> QED  BY <1>4, <1>5, <1>6

(* Every step keeps what the client knows about its tasks.                 *)
LEMMA ClientKnows ==
    ASSUME TypeOK, JobInv, ControlInv, RootsAreScheduled, JoinedAreDone, ResultIsFinal,
           [Next]_vars
    PROVE  RootsAreScheduled' /\ JoinedAreDone' /\ ResultIsFinal'
  <1> USE DEF At, taskVars, clientVars
  <1>a. Client \in Activities /\ Client \notin Tasks /\ Roots \subseteq Tasks
    BY FragmentAssumption DEF Activities
  <1>b. \A t \in Tasks : (IsScheduled(t) => IsScheduled(t)') /\ (IsDone(t) => IsDone(t)')
    BY ScheduledStays, DoneStays
  <1>c. \A label : Goto(Client, label) => pc'[Client] = label
    BY <1>a DEF Goto, TypeOK, FlowTypes
  <1>d. pc[Client] \in {"joinWait", "joined"} => cur[Client] \in Tasks
    BY <1>a DEF TypeOK, FlowTypes, NamesTask
  <1>1. CASE ClientRests  BY <1>1, ClientFrame
  <1>2. ASSUME NEW t \in Tasks, WakeJoiner(t) \/ NotifyAllDone(t)
        PROVE  RootsAreScheduled' /\ JoinedAreDone' /\ ResultIsFinal'
    <2>0. t # Client /\ t \in Activities  BY <1>a DEF Activities
    <2>1. /\ UNCHANGED <<state, exception, cur, todo, result, holders>>
          /\ \/ pc'[Client] = pc[Client]
             \/ pc[Client] = "joinWait" /\ pc'[Client] = "joined" /\ cur[Client] = t /\ pc[t] = "wake"
             \/ pc[Client] = "asleepAll" /\ pc'[Client] = "checkAll"
      BY <1>2, <1>a, <2>0 DEF WakeJoiner, NotifyAllDone, TypeOK, FlowTypes
    <2>2. pc[t] = "wake" => IsDone(t)
      BY <2>0 DEF ControlInv, Fits, Phase, IsDone
    <2>3. RootsAreScheduled'  BY <2>1 DEF RootsAreScheduled, SchedulePc, IsScheduled
    <2>4. JoinedAreDone'  BY <2>1, <2>2 DEF JoinedAreDone, IsDone
    <2>5. ResultIsFinal'  BY <2>1 DEF ResultIsFinal, Returned
    <2> QED  BY <2>3, <2>4, <2>5
  <1>3. CASE SchedulerStep(Client)
    <2>1. pc[Client] \in SchedulePc /\ pc'[Client] \in SchedulePc
      BY <1>3, <1>a, <1>c
      DEF SchedulerStep, Schedule, CountScheduled, CheckReady, TryEnqueue, PushJob, SchedulePc,
          AfterSubmit
    <2>2. UNCHANGED <<exception, result, holders>>
      BY <1>3 DEF SchedulerStep, Schedule, CountScheduled, CheckReady, TryEnqueue, PushJob
    <2>3. ASSUME NEW r \in Roots, r \in todo[Client] PROVE r \in todo'[Client] \/ IsScheduled(r)'
      <3>1. CASE Schedule(Client)
        <4>1. PICK t \in todo[Client] :
                /\ todo' = [todo EXCEPT ![Client] = @ \ {t}]
                /\ state[t] >= kScheduled \/ state' = [state EXCEPT ![t] = kScheduled]
          BY <3>1 DEF Schedule
        <4>2. t \in Tasks /\ todo'[Client] = todo[Client] \ {t}
          BY <1>a, <4>1 DEF TypeOK, FlowTypes
        <4>3. CASE r = t
          <5>1. CASE state[t] >= kScheduled  BY <1>b, <4>2, <4>3, <5>1 DEF IsScheduled
          <5>2. CASE state' = [state EXCEPT ![t] = kScheduled]
            BY <4>2, <4>3, <5>2 DEF IsScheduled, TypeOK, TaskTypes
          <5> QED  BY <4>1, <5>1, <5>2
        <4> QED  BY <2>3, <4>2, <4>3
      <3>2. CASE CheckReady(Client)  BY <1>a, <2>3, <3>2 DEF CheckReady, TypeOK, FlowTypes
      <3> QED  BY <1>3, <2>3, <3>1, <3>2 DEF SchedulerStep, CountScheduled, TryEnqueue, PushJob
    <2>4. RootsAreScheduled'  BY <1>a, <1>b, <2>1, <2>3 DEF RootsAreScheduled
    <2>5. JoinedAreDone'  BY <2>1 DEF JoinedAreDone, SchedulePc
    <2>6. ResultIsFinal'  BY <2>1, <2>2 DEF ResultIsFinal, SchedulePc, Returned
    <2> QED  BY <2>4, <2>5, <2>6
  <1>4. ASSUME pc[Client] \notin SchedulePc \/ todo[Client] = {}
        PROVE  RootsAreScheduled'
    BY <1>4, <1>a, <1>b DEF RootsAreScheduled
  <1>5. CASE StartWaiting
    <2>1. /\ pc[Client] = "schedule" /\ todo[Client] = {}
          /\ UNCHANGED <<exception, result, holders>>
          /\ pc'[Client] \in {"checkAll", "join"}
          /\ pc'[Client] = "join" => todo'[Client] = Roots
      BY <1>5, <1>a, <1>c DEF StartWaiting, TypeOK, FlowTypes
    <2>2. JoinedAreDone'  BY <2>1 DEF JoinedAreDone
    <2>3. ResultIsFinal'  BY <2>1 DEF ResultIsFinal, Returned
    <2> QED  BY <1>4, <2>1, <2>2, <2>3
  <1>6. CASE Join
    <2>1. PICK t \in todo[Client] :
            cur' = [cur EXCEPT ![Client] = t] /\ Goto(Client, IF IsDone(t) THEN "joined" ELSE "joinWait")
      BY <1>6 DEF Join
    <2>2. /\ t \in Tasks /\ cur'[Client] = t /\ pc[Client] = "join"
          /\ UNCHANGED <<state, exception, todo, result, holders>>
          /\ pc'[Client] \in {"joined", "joinWait"} /\ (pc'[Client] = "joined" => IsDone(t))
      BY <1>6, <1>a, <1>c, <2>1 DEF Join, TypeOK, FlowTypes
    <2>3. JoinedAreDone'  BY <2>2 DEF JoinedAreDone, IsDone
    <2>4. ResultIsFinal'  BY <2>2 DEF ResultIsFinal, Returned
    <2> QED  BY <1>4, <2>2, <2>3, <2>4 DEF SchedulePc
  <1>7. CASE RethrowOrContinue
    <2>1. /\ pc[Client] = "joined" /\ cur[Client] \in Tasks /\ IsDone(cur[Client])
          /\ UNCHANGED <<state, exception, holders>>
          /\ \/ pc'[Client] = "leave" /\ result' = "failure" /\ exception[cur[Client]]
             \/ /\ pc'[Client] = "join" /\ result' = result
                /\ todo'[Client] = todo[Client] \ {cur[Client]}
      BY <1>7, <1>a, <1>c, <1>d DEF RethrowOrContinue, TypeOK, FlowTypes, JoinedAreDone
    <2>2. JoinedAreDone'  BY <2>1 DEF JoinedAreDone, IsDone
    <2>3. ResultIsFinal'  BY <2>1 DEF ResultIsFinal, Returned
    <2> QED  BY <1>4, <2>1, <2>2, <2>3 DEF SchedulePc
  <1>8. CASE AllJoined \/ CheckAllDone \/ BlockUntilNotified
    <2>1. /\ pc[Client] \in {"join", "checkAll", "dozeAll"}
          /\ UNCHANGED <<state, exception, holders>>
          /\ \/ pc'[Client] = "leave" /\ result' \in {"success", "drained"}
             \/ pc'[Client] \in {"dozeAll", "asleepAll"} /\ result' = result
      BY <1>8, <1>c DEF AllJoined, CheckAllDone, BlockUntilNotified
    <2>2. JoinedAreDone'  BY <2>1 DEF JoinedAreDone
    <2>3. ResultIsFinal'  BY <2>1 DEF ResultIsFinal, Returned
    <2> QED  BY <1>4, <2>1, <2>2, <2>3 DEF SchedulePc
  <1>9. CASE SpuriousWakeup
    <2>1. /\ UNCHANGED <<state, exception, cur, todo, result, holders>>
          /\ \/ pc[Client] = "asleepAll" /\ pc'[Client] = "checkAll"
             \/ pc[Client] = "joinWait" /\ pc'[Client] = "joined" /\ IsDone(cur[Client])
      BY <1>9, <1>c DEF SpuriousWakeup
    <2>2. JoinedAreDone'  BY <2>1 DEF JoinedAreDone, IsDone
    <2>3. ResultIsFinal'  BY <2>1 DEF ResultIsFinal, Returned
    <2> QED  BY <1>4, <2>1, <2>2, <2>3 DEF SchedulePc
  <1>10. CASE LeaveScope \/ StopRunning \/ CloseQueue \/ JoinThreads
    <2>1. /\ pc[Client] \in Returned /\ pc'[Client] \in Returned
          /\ UNCHANGED <<exception, result>>
      BY <1>10, <1>c DEF LeaveScope, StopRunning, CloseQueue, JoinThreads, Returned
    <2>2. JoinedAreDone'  BY <2>1 DEF JoinedAreDone, Returned
    <2>3. ResultIsFinal'  BY <2>1 DEF ResultIsFinal
    <2> QED  BY <1>4, <2>1, <2>2, <2>3 DEF SchedulePc, Returned
  <1> QED
    BY <1>1, <1>2, <1>3, <1>5, <1>6, <1>7, <1>8, <1>9, <1>10, ClientSteps

(* A result is set by three steps of the client.                           *)
LEMMA ResultSteps ==
    ASSUME TypeOK, JobInv, [Next]_vars
    PROVE  result' = result \/ RethrowOrContinue \/ AllJoined \/ CheckAllDone
  <1> USE DEF clientVars
  <1>1. SchedulerStep(Client) => result' = result
    BY DEF SchedulerStep, Schedule, CountScheduled, CheckReady, TryEnqueue, PushJob
  <1>2. \A t \in Tasks : WakeJoiner(t) \/ NotifyAllDone(t) => result' = result
    BY DEF WakeJoiner, NotifyAllDone
  <1>3. StartWaiting \/ Join \/ BlockUntilNotified \/ SpuriousWakeup => result' = result
    BY DEF StartWaiting, Join, BlockUntilNotified, SpuriousWakeup
  <1>4. LeaveScope \/ StopRunning \/ CloseQueue \/ JoinThreads => result' = result
    BY DEF LeaveScope, StopRunning, CloseQueue, JoinThreads
  <1> QED  BY <1>1, <1>2, <1>3, <1>4, ClientSteps DEF ClientRests

(* When every root is done nothing is on its way: an unfinished subtask is *)
(* awaited by an unfinished task, and no set of tasks awaits itself.       *)
LEMMA DoneMeansQuiet ==
    ASSUME TypeOK, SubtasksAreAwaited, \A t \in Roots : IsDone(t)
    PROVE  \A t \in Tasks : ~Unfinished(t)
  <1> DEFINE S == {t \in Tasks : Unfinished(t)}
  <1> SUFFICES ASSUME S # {} PROVE FALSE  OBVIOUS
  <1>1. S \in SUBSET Tasks  OBVIOUS
  <1>2. PICK s \in S : \A t \in S : s \notin Subtasks[t]  BY <1>1, TaskGraphAssumption
  <1>3. s \in Tasks \ Roots  BY DEF Unfinished, IsDone
  <1>4. PICK t \in Tasks : s \in Subtasks[t] /\ Awaits(t)  BY <1>3 DEF SubtasksAreAwaited
  <1>5. t \in S  BY <1>4 DEF Awaits, Unfinished
  <1> QED  BY <1>2, <1>4, <1>5

(* When the client reads zero every scheduled task has been uncounted.     *)
LEMMA ZeroMeansDone ==
    ASSUME TypeOK, ControlInv, CountInv, RootsAreScheduled,
           pc[Client] \notin SchedulePc, num = 0
    PROVE  /\ \A t \in Tasks : ~Unfinished(t)
           /\ \A t \in Roots : IsDone(t)
  <1>a. Roots \subseteq Tasks /\ Client \notin Tasks  BY FragmentAssumption
  <1>1. ASSUME NEW a \in Activities, pc[a] = "count"
        PROVE  a \in Tasks /\ state[a] = kStarted /\ cur[a] \notin Roots /\ cur[a] \in Tasks
    <2>1. a \in Tasks  BY <1>1 DEF Activities, SchedulePc
    <2>2. Fits(a) /\ cur[a] \in Tasks
      BY <1>1 DEF ControlInv, TypeOK, FlowTypes, NamesTask
    <2>3. state[a] = kStarted  BY <1>1, <2>1, <2>2 DEF Fits, Phase
    <2>4. cur[a] \in Subtasks[a]  BY <1>1, <2>1, <2>2, <2>3 DEF Fits, VisitsSubtasks, Visiting
    <2> QED  BY <2>1, <2>2, <2>3, <2>4, TaskGraphAssumption
  <1>2. \A r \in Roots : IsCounted(r)
    BY <1>1 DEF IsCounted, RootsAreScheduled
  <1>3. \A t \in Tasks : state[t] >= kEnqueued => IsCounted(t)
    BY <1>2 DEF CountInv, SubtasksAreCounted
  <1>4. \A t \in Uncounted : t \in Tasks /\ state[t] = kDone
    BY DEF Uncounted, ControlInv, Fits, Phase, Activities
  <1>5. Uncounted \subseteq Counted  BY <1>3, <1>4 DEF Counted
  <1>6. Uncounted = Counted
    <2>1. Cardinality(Counted) = Cardinality(Uncounted)
      BY CountedFinite DEF CountInv, CountIsExact
    <2> QED  BY <1>5, <2>1, CountedFinite, FS_Subset
  <1>7. \A t \in Tasks : IsCounted(t) => state[t] = kDone  BY <1>4, <1>6 DEF Counted
  <1>8. \A a \in Activities : pc[a] # "count"
    <2> SUFFICES ASSUME NEW a \in Activities, pc[a] = "count" PROVE FALSE  OBVIOUS
    <2>1. a \in Tasks /\ state[a] = kStarted  BY <1>1
    <2> QED  BY <1>3, <1>7, <2>1
  <1>9. \A t \in Tasks : IsScheduled(t) => state[t] = kDone  BY <1>7, <1>8 DEF IsCounted
  <1>10. \A t \in Tasks : ~Unfinished(t)
    BY <1>9 DEF Unfinished, IsScheduled, TypeOK, TaskTypes, TaskState
  <1> QED  BY <1>2, <1>7, <1>10, <1>a DEF IsDone

(* Nothing is scheduled any more after a normal return.                    *)
LEMMA QuietNext ==
    ASSUME TypeOK, JobInv, ControlInv, SubtasksAreAwaited, CountInv, ClientInv, [Next]_vars
    PROVE  QuietOnReturn'
  <1>a. Roots \subseteq Tasks /\ Client \notin Tasks  BY FragmentAssumption
  <1>1. CASE result' = result
    <2> SUFFICES ASSUME result \in {"success", "drained"}
                 PROVE  /\ \A t \in Tasks : state'[t] \in {kCreated, kDone}
                        /\ \A t \in Roots : state'[t] = kDone
      BY <1>1 DEF QuietOnReturn, IsDone
    <2>1. /\ \A t \in Tasks : state[t] \in {kCreated, kDone}
          /\ \A t \in Roots : state[t] = kDone
      BY DEF ClientInv, QuietOnReturn, IsDone
    <2>2. pc[Client] \in Returned  BY DEF ClientInv, ResultIsFinal
    <2>3. ASSUME NEW a \in Activities PROVE pc[a] # "schedule"
      BY <2>1, <2>2 DEF ControlInv, Fits, Phase, Activities, Returned
    <2>4. ASSUME NEW a \in Activities, pc[a] = "submit" PROVE state[cur[a]] >= kScheduled
      BY <2>4 DEF ControlInv, Fits, Visiting, IsScheduled
    <2>5. \A t \in Tasks : state'[t] = state[t]
      BY <2>1, <2>3, <2>4, StateSteps DEF StateStep
    <2> QED  BY <1>a, <2>1, <2>5
  <1>2. ASSUME UNCHANGED state,
               \A t \in Tasks : ~Unfinished(t), \A t \in Roots : IsDone(t)
        PROVE  QuietOnReturn'
    BY <1>2 DEF QuietOnReturn, Unfinished, IsDone
  <1>3. CASE AllJoined
    <2>1. pc[Client] = "join" /\ todo[Client] = {} /\ UNCHANGED state
      BY <1>3 DEF AllJoined, At, taskVars
    <2>2. \A t \in Roots : IsDone(t)  BY <2>1 DEF ClientInv, JoinedAreDone
    <2> QED  BY <1>2, <2>1, <2>2, DoneMeansQuiet
  <1>4. CASE CheckAllDone /\ result' # result
    <2>1. pc[Client] = "checkAll" /\ num = 0 /\ UNCHANGED state
      BY <1>4 DEF CheckAllDone, At, taskVars
    <2> QED  BY <1>2, <2>1, ZeroMeansDone DEF ClientInv, SchedulePc
  <1>5. CASE RethrowOrContinue /\ result' # result
    <2>1. result' = "failure"  BY <1>5 DEF RethrowOrContinue
    <2> QED  BY <2>1 DEF QuietOnReturn
  <1> QED  BY <1>1, <1>3, <1>4, <1>5, ResultSteps

(* Every step keeps the client's invariant.                                *)
LEMMA ClientNext ==
    TypeOK /\ JobInv /\ ControlInv /\ SubtasksAreAwaited /\ CountInv /\ ClientInv /\ [Next]_vars
      => ClientInv'
  BY ClientKnows, QuietNext DEF ClientInv

-----------------------------------------------------------------------------
(***************************************************************************)
(* Outputs.                                                                *)
(***************************************************************************)
OutputIsKept ==
    \A p \in Roots : pc[p] = "clear" \/ (pc[p] = "complete" /\ ~exception[p]) => output[p]

OutputInv == OutputIsKept /\ InputsAvailable

Clearing == {"clear", "complete"}

KeepsOutput(t) ==
    /\ pc'[t] = "clear" => pc[t] = "clear"
    /\ pc'[t] = "complete" => pc[t] \in Clearing
    /\ pc[t] \in Clearing => pc'[t] \in Clearing \/ IsDone(t)'

(* Only Operate brings a job to the clearing of its inputs, and only       *)
(* Complete takes it from there.                                           *)
LEMMA OutputSteps ==
    ASSUME TypeOK, JobInv, ControlInv, [Next]_vars, \A t \in Tasks : ~Operate(t)
    PROVE  /\ exception' = exception
           /\ output' = output \/ \E t \in Tasks : ClearInput(t)
           /\ \A t \in Tasks : KeepsOutput(t)
  <1> DEFINE G == /\ exception' = exception
                  /\ output' = output \/ \E t \in Tasks : ClearInput(t)
                  /\ \A t \in Tasks : KeepsOutput(t)
  <1> USE DEF At, taskVars, flowVars, Clearing
  <1>a. ASSUME UNCHANGED pc PROVE \A t \in Tasks : KeepsOutput(t)  BY <1>a DEF KeepsOutput
  <1>b. ASSUME NEW a \in Activities, NEW label, Goto(a, label), pc[a] \notin Clearing,
               label \notin Clearing
        PROVE  \A t \in Tasks : KeepsOutput(t)
    BY <1>b DEF KeepsOutput, Goto, TypeOK, FlowTypes, Activities
  <1>c. Abort => G  BY <1>a DEF Abort
  <1>1. ASSUME NEW a \in Activities, SchedulerStep(a) PROVE G
    <2>1. PICK label : pc' = pc \/ (Goto(a, label) /\ label \in SchedulePc \cup {"finish"})
      BY <1>1
      DEF SchedulerStep, Schedule, CountScheduled, CheckReady, TryEnqueue, PushJob, SchedulePc,
          AfterSubmit
    <2>2. UNCHANGED <<exception, output>> /\ pc[a] \in SchedulePc
      BY <1>1
      DEF SchedulerStep, Schedule, CountScheduled, CheckReady, TryEnqueue, PushJob, SchedulePc
    <2> QED  BY <1>a, <1>b, <2>1, <2>2 DEF SchedulePc
  <1>2. ASSUME NEW s \in Tasks, JobStep(s) PROVE G
    <2>a. s \in Activities /\ s # Client /\ Fits(s)
      BY FragmentAssumption DEF Activities, ControlInv
    <2> SUFFICES ASSUME ~Abort PROVE G  BY <1>c
    <2>1. CASE ClearInput(s)  BY <1>a, <2>1 DEF ClearInput
    <2>2. CASE InputsCleared(s)
      <3>1. /\ pc[s] = "clear" /\ pc'[s] = "complete" /\ UNCHANGED <<exception, output>>
            /\ \A b \in Activities \ {s} : pc'[b] = pc[b]
        BY <2>2, <2>a DEF InputsCleared, Goto, TypeOK, FlowTypes
      <3> QED  BY <3>1 DEF KeepsOutput, Activities
    <2>3. CASE Complete(s)
      <3>1. /\ state'[s] = kDone /\ pc'[s] = "wake" /\ UNCHANGED <<exception, output>>
            /\ \A b \in Activities \ {s} : pc'[b] = pc[b]
        BY <2>3, <2>a DEF Complete, Goto, TypeOK, FlowTypes, TaskTypes
      <3> QED  BY <3>1 DEF KeepsOutput, Activities, IsDone
    <2>4. CASE WakeJoiner(s) \/ NotifyAllDone(s)
      <3>1. /\ pc[s] \in {"wake", "notify"} /\ pc'[s] \in {"finish", "end"}
            /\ UNCHANGED <<exception, output>>
            /\ \A b \in Activities \ {s, Client} : pc'[b] = pc[b]
        BY <2>4, <2>a DEF WakeJoiner, NotifyAllDone, TypeOK, FlowTypes
      <3>2. Client \notin Tasks  BY FragmentAssumption
      <3> QED  BY <3>1, <3>2 DEF KeepsOutput, Activities
    <2>5. CASE \/ Execute(s) \/ AcquireScheduler(s) \/ WaitForSubtasks(s) \/ SubtasksDone(s)
               \/ DecrementSuccessor(s) \/ CheckSuccessorScheduled(s) \/ UncountScheduled(s)
      <3>1. PICK label \in {"operate", "acquire", "schedule", "nested", "last", "finish", "submit",
                            "notify", "end"} : Goto(s, label)
        BY <2>5
        DEF Execute, AcquireScheduler, WaitForSubtasks, SubtasksDone, DecrementSuccessor,
            CheckSuccessorScheduled, UncountScheduled
      <3>2. UNCHANGED <<exception, output>> /\ pc[s] \notin Clearing
        BY <2>5
        DEF Execute, AcquireScheduler, WaitForSubtasks, SubtasksDone, DecrementSuccessor,
            CheckSuccessorScheduled, UncountScheduled
      <3> QED  BY <1>b, <2>a, <3>1, <3>2
    <2> QED  BY <1>2, <2>1, <2>2, <2>3, <2>4, <2>5 DEF JobStep
  <1>3. ASSUME NEW th \in Threads,
               \/ WorkerMain(th) \/ WorkerProcessSingleItem(th)
               \/ WorkerProcessSingleItemNoWait(th) \/ EndJob(th)
        PROVE  G
    <2>1. UNCHANGED <<exception, output>>
      BY <1>3
      DEF WorkerMain, WorkerProcessSingleItem, WorkerProcessSingleItemNoWait, EndJob
    <2>2. queue # <<>> /\ StartJob(th) => G  BY <1>b, <2>1, HeadIsIdle DEF StartJob
    <2>3. EndJob(th) => G
      <3> SUFFICES ASSUME EndJob(th) PROVE G  OBVIOUS
      <3>1. Head(stack[th]) \in Tasks  BY DEF EndJob, TypeOK, ExecutorTypes
      <3> QED  BY <1>b, <2>1, <3>1 DEF EndJob, Activities
    <2> HIDE DEF G
    <2>4. UNCHANGED pc => G  BY <1>a, <2>1 DEF G
    <2> QED
      BY <1>3, <2>2, <2>3, <2>4
      DEF WorkerMain, WorkerProcessSingleItem, WorkerProcessSingleItemNoWait
  <1>4. ASSUME \/ StartWaiting \/ Join \/ RethrowOrContinue \/ AllJoined \/ CheckAllDone
               \/ BlockUntilNotified \/ SpuriousWakeup \/ LeaveScope \/ StopRunning
               \/ CloseQueue \/ JoinThreads
        PROVE  G
    <2>1. UNCHANGED <<exception, output>>
      BY <1>4
      DEF StartWaiting, Join, RethrowOrContinue, AllJoined, CheckAllDone, BlockUntilNotified,
          SpuriousWakeup, LeaveScope, StopRunning, CloseQueue, JoinThreads
    <2>2. PICK label : Goto(Client, label)
      BY <1>4
      DEF StartWaiting, Join, RethrowOrContinue, AllJoined, CheckAllDone, BlockUntilNotified,
          SpuriousWakeup, LeaveScope, StopRunning, CloseQueue, JoinThreads
    <2>3. \A t \in Tasks : pc'[t] = pc[t]
      BY <2>2, FragmentAssumption DEF Goto, TypeOK, FlowTypes, Activities
    <2> QED  BY <2>1, <2>3 DEF KeepsOutput
  <1>5. UNCHANGED vars => G  BY <1>a DEF vars
  <1> HIDE DEF G
  <1>6. G  BY <1>1, <1>2, <1>3, <1>4, <1>5, NextCases
  <1> QED  BY <1>6 DEF G

(* Initially no task is done or about to be.                               *)
LEMMA OutputInit == Init => OutputInv
  <1> SUFFICES ASSUME Init PROVE OutputInv  OBVIOUS
  <1>1. \A t \in Tasks : pc[t] = "idle" /\ ~IsDone(t)
    BY FragmentAssumption DEF Init, IsDone, Activities
  <1>2. Roots \subseteq Tasks /\ \A t \in Roots : Predecessors[t] \subseteq Tasks
    BY FragmentAssumption
  <1> QED  BY <1>1, <1>2 DEF OutputInv, OutputIsKept, InputsAvailable

(* A started task has only done predecessors.                              *)
LEMMA StartedAfterInputs ==
    ASSUME TypeOK, DependencyInv, NEW t \in Tasks, state[t] = kStarted, NEW p \in Predecessors[t]
    PROVE  IsDone(p)
  <1>1. pending[t] = 0  BY DEF DependencyInv, EnqueuedIsReady
  <1> QED  BY <1>1, ReadyMeansDone

(* Every step keeps the outputs that somebody has yet to use.              *)
LEMMA OutputNext ==
    TypeOK /\ DependencyInv /\ JobInv /\ ControlInv /\ OutputInv /\ [Next]_vars => OutputInv'
  <1> SUFFICES ASSUME TypeOK, DependencyInv, JobInv, ControlInv, OutputInv, [Next]_vars
               PROVE  OutputInv'
    OBVIOUS
  <1> USE DEF At, taskVars, flowVars
  <1>a. Roots \subseteq Tasks /\ \A t \in Tasks : t \in Activities /\ t # Client
    BY FragmentAssumption DEF Activities
  <1>b. \A p \in Tasks : pc[p] \in Clearing => state[p] = kStarted
    BY <1>a DEF ControlInv, Fits, Phase, Clearing
  <1>1. ASSUME exception' = exception, \A t \in Tasks : KeepsOutput(t),
               \A p \in Roots : output[p] =>
                   \/ output'[p]
                   \/ /\ pc[p] \notin Clearing
                      /\ \A t \in Tasks : p \in Predecessors[t] => IsDone(t) \/ pc[t] = "clear"
        PROVE  OutputInv'
    <2>1. OutputIsKept'
      <3> SUFFICES ASSUME NEW p \in Roots,
                          pc'[p] = "clear" \/ (pc'[p] = "complete" /\ ~exception'[p])
                   PROVE  output'[p]
        BY DEF OutputIsKept
      <3>1. pc[p] = "clear" \/ (pc[p] = "complete" /\ ~exception[p])
        BY <1>1, <1>a DEF KeepsOutput, Clearing
      <3> QED  BY <1>1, <3>1 DEF OutputInv, OutputIsKept, Clearing
    <2>2. InputsAvailable'
      <3> SUFFICES ASSUME NEW t \in Roots, NEW p \in Predecessors[t] \cap Roots,
                          state'[p] = kDone, ~exception'[p], state'[t] # kDone,
                          pc'[t] \notin Clearing
                   PROVE  output'[p]
        BY DEF InputsAvailable, IsDone, Clearing
      <3>1. ~IsDone(t) /\ pc[t] \notin Clearing
        <4>1. ~IsDone(t)  BY <1>a, DoneStays DEF IsDone
        <4>2. pc[t] \notin Clearing  BY <1>1, <1>a DEF KeepsOutput, IsDone
        <4> QED  BY <4>1, <4>2
      <3>2. IsDone(p) \/ pc[p] = "complete"  BY <1>a, StateSteps DEF StateStep, IsDone
      <3>3. output[p]
        BY <1>1, <3>1, <3>2 DEF OutputInv, OutputIsKept, InputsAvailable, Clearing
      <3> QED  BY <1>1, <1>a, <3>1, <3>3 DEF Clearing
    <2> QED  BY <2>1, <2>2 DEF OutputInv
  <1>2. CASE \A t \in Tasks : ~Operate(t) /\ ~ClearInput(t)
    BY <1>1, <1>2, OutputSteps
  <1>3. ASSUME NEW t \in Tasks, ClearInput(t), \A s \in Tasks : ~Operate(s)
        PROVE  OutputInv'
    <2>1. PICK p \in todo[t] : output' = [output EXCEPT ![p] = @ /\ StillNeeded(p, t)]
      BY <1>3 DEF ClearInput
    <2>2. pc[t] = "clear" /\ p \in Predecessors[t] /\ p \in Tasks
      BY <1>3, <1>a DEF ClearInput, ControlInv, Fits, TypeOK, FlowTypes
    <2>3. IsDone(p)
      <3>1. state[t] = kStarted  BY <1>b, <2>2 DEF Clearing
      <3> QED  BY <2>2, <3>1, StartedAfterInputs
    <2>4. pc[p] \notin Clearing  BY <1>b, <2>2, <2>3 DEF IsDone
    <2>5. ASSUME NEW q \in Roots, output[q], ~output'[q]
          PROVE  /\ pc[q] \notin Clearing
                 /\ \A s \in Tasks : q \in Predecessors[s] => IsDone(s) \/ pc[s] = "clear"
      <3>1. q = p  BY <2>1, <2>2, <2>5, <1>a DEF TypeOK, TaskTypes
      <3>2. ~StillNeeded(p, t)
        <4> SUFFICES ASSUME StillNeeded(p, t) PROVE FALSE  OBVIOUS
        <4>1. output'[p] = (output[p] /\ StillNeeded(p, t))
          BY <2>1, <2>2, Zenon DEF TypeOK, TaskTypes
        <4> QED  BY <2>5, <3>1, <4>1
      <3>3. ASSUME NEW s \in Tasks, q \in Predecessors[s] PROVE IsDone(s) \/ pc[s] = "clear"
        BY <2>2, <3>1, <3>2, <3>3 DEF StillNeeded, Successors
      <3> QED  BY <2>4, <3>1, <3>3
    <2> QED  BY <1>1, <1>3, <2>5, OutputSteps
  <1>4. ASSUME NEW t \in Tasks, Operate(t) PROVE OutputInv'
    <2>0. /\ pc[t] = "operate" /\ state[t] = kStarted
          /\ UNCHANGED state
      BY <1>4, <1>a DEF Operate, Abort, ControlInv, Fits, Phase
    <2>a. /\ \A label : Goto(t, label) => pc'[t] = label /\ \A s \in Tasks \ {t} : pc'[s] = pc[s]
      BY <1>a DEF Goto, TypeOK, FlowTypes
    <2>1. CASE /\ output' = [output EXCEPT ![t] = t \in Roots] /\ Goto(t, "clear")
               /\ UNCHANGED exception
      <3>1. /\ t \in Roots => output'[t]
            /\ \A s \in Tasks \ {t} : output'[s] = output[s]
        BY <2>1 DEF TypeOK, TaskTypes
      <3>2. OutputIsKept'
        BY <1>a, <2>1, <2>a, <3>1 DEF OutputInv, OutputIsKept
      <3>3. InputsAvailable'
        BY <1>a, <2>0, <2>1, <2>a, <3>1 DEF OutputInv, InputsAvailable, IsDone
      <3> QED  BY <3>2, <3>3 DEF OutputInv
    <2>2. CASE exception' = [exception EXCEPT ![t] = TRUE] /\ Goto(t, "complete") /\ UNCHANGED output
      <3>1. exception'[t] /\ \A s \in Tasks \ {t} : exception'[s] = exception[s]
        BY <2>2 DEF TypeOK, TaskTypes
      <3>2. OutputIsKept'
        BY <1>a, <2>2, <2>a, <3>1 DEF OutputInv, OutputIsKept
      <3>3. InputsAvailable'
        BY <1>a, <2>0, <2>2, <2>a, <3>1 DEF OutputInv, InputsAvailable, IsDone
      <3> QED  BY <3>2, <3>3 DEF OutputInv
    <2>3. CASE Abort
      BY <2>3 DEF Abort, OutputInv, OutputIsKept, InputsAvailable, IsDone
    <2> QED  BY <1>4, <2>1, <2>2, <2>3 DEF Operate
  <1> QED  BY <1>2, <1>3, <1>4

-----------------------------------------------------------------------------
(***************************************************************************)
(* Results.                                                                *)
(***************************************************************************)
ReturnInv == ControlInv /\ SubtasksAreAwaited /\ CountInv /\ ClientInv /\ OutputInv

(* The five parts together are an invariant of the engine, relative to the *)
(* invariants of FragmentSchedulerProofs.                                  *)
THEOREM ReturnInvariant == Spec => []ReturnInv
  <1>1. Init => ReturnInv
    BY ControlInit, CountInit, ClientInit, OutputInit DEF ReturnInv
  <1>2. TypeOK /\ DependencyInv /\ JobInv /\ ReturnInv /\ [Next]_vars => ReturnInv'
    BY ControlNext, AwaitedNext, CountNext, ClientNext, OutputNext DEF ReturnInv
  <1> QED  BY <1>1, <1>2, TypeCorrect, DependencyCorrect, JobCorrect, PTL DEF Spec

(* In every task graph the output of a successful operator is there until  *)
(* the last of its successors has used it, whatever the order in which     *)
(* successors finish and clear their inputs.                               *)
THEOREM InputsStayAvailable == Spec => []InputsAvailable
  <1>1. ReturnInv => InputsAvailable  BY DEF ReturnInv, OutputInv
  <1> QED  BY <1>1, ReturnInvariant, PTL

(* A normal return of WaitForTasks or WaitForAllTasks leaves nothing on    *)
(* its way, subtasks of any depth included, although num_scheduled_tasks_  *)
(* may be decremented before it is incremented.                            *)
THEOREM ReturnsAreQuiet == Spec => []QuietOnReturn
  <1>1. ReturnInv => QuietOnReturn  BY DEF ReturnInv, ClientInv
  <1> QED  BY <1>1, ReturnInvariant, PTL

(* The outcomes for which Execute is written: an operator that does not    *)
(* finish throws an AssertionFailedException.                              *)
OnlyAssertions == \A t \in Tasks : "exception" \notin Outcomes[t]

(* The steps that can end the process.                                     *)
LEMMA AbortSteps ==
    ASSUME TypeOK, JobInv, [Next]_vars
    PROVE  /\ \A t \in Tasks : exception[t] => exception'[t]
           /\ \/ aborted' = aborted
              \/ \E t \in Tasks : /\ UNCHANGED <<taskVars, flowVars>>
                                  /\ \/ Execute(t) \/ SubtasksDone(t) \/ Operate(t)
                                     \/ Complete(t) \/ DecrementSuccessor(t)
  <1> USE DEF At, taskVars, execVars, flowVars, clientVars
  <1>1. \A t \in Tasks : exception[t] => exception'[t]
    <2>1. SchedulerStep(Client) => exception' = exception
      BY DEF SchedulerStep, Schedule, CountScheduled, CheckReady, TryEnqueue, PushJob
    <2>2. \A t \in Tasks : WakeJoiner(t) \/ NotifyAllDone(t) => exception' = exception
      BY DEF WakeJoiner, NotifyAllDone
    <2>3. ASSUME \/ StartWaiting \/ Join \/ RethrowOrContinue \/ AllJoined \/ CheckAllDone
                 \/ BlockUntilNotified \/ SpuriousWakeup \/ LeaveScope \/ StopRunning
                 \/ CloseQueue \/ JoinThreads
          PROVE  exception' = exception
      BY <2>3
      DEF StartWaiting, Join, RethrowOrContinue, AllJoined, CheckAllDone, BlockUntilNotified,
          SpuriousWakeup, LeaveScope, StopRunning, CloseQueue, JoinThreads
    <2> QED  BY <2>1, <2>2, <2>3, ClientSteps DEF ClientRests
  <1> DEFINE G == \/ aborted' = aborted
                  \/ \E t \in Tasks : /\ UNCHANGED <<taskVars, flowVars>>
                                      /\ \/ Execute(t) \/ SubtasksDone(t) \/ Operate(t)
                                         \/ Complete(t) \/ DecrementSuccessor(t)
  <1>2. ASSUME NEW a \in Activities, SchedulerStep(a) PROVE G
    BY <1>2 DEF SchedulerStep, Schedule, CountScheduled, CheckReady, TryEnqueue, PushJob
  <1>3. ASSUME NEW t \in Tasks, JobStep(t) PROVE G
    <2>1. CASE \/ Execute(t) \/ SubtasksDone(t) \/ Operate(t) \/ Complete(t)
               \/ DecrementSuccessor(t)
      <3>1. aborted' = aborted \/ Abort
        BY <2>1 DEF Execute, SubtasksDone, Operate, Complete, DecrementSuccessor
      <3> QED  BY <2>1, <3>1 DEF Abort
    <2>2. CASE \/ AcquireScheduler(t) \/ WaitForSubtasks(t) \/ ClearInput(t) \/ InputsCleared(t)
               \/ WakeJoiner(t) \/ CheckSuccessorScheduled(t) \/ UncountScheduled(t)
               \/ NotifyAllDone(t)
      BY <2>2
      DEF AcquireScheduler, WaitForSubtasks, ClearInput, InputsCleared, WakeJoiner,
          CheckSuccessorScheduled, UncountScheduled, NotifyAllDone
    <2> QED  BY <1>3, <2>1, <2>2 DEF JobStep
  <1>4. ASSUME NEW th \in Threads,
               \/ WorkerMain(th) \/ WorkerProcessSingleItem(th)
               \/ WorkerProcessSingleItemNoWait(th) \/ EndJob(th)
        PROVE  G
    BY <1>4 DEF WorkerMain, WorkerProcessSingleItem, WorkerProcessSingleItemNoWait, EndJob
  <1>5. ASSUME \/ StartWaiting \/ Join \/ RethrowOrContinue \/ AllJoined \/ CheckAllDone
               \/ BlockUntilNotified \/ SpuriousWakeup \/ LeaveScope \/ StopRunning
               \/ CloseQueue \/ JoinThreads
        PROVE  G
    BY <1>5
    DEF StartWaiting, Join, RethrowOrContinue, AllJoined, CheckAllDone, BlockUntilNotified,
        SpuriousWakeup, LeaveScope, StopRunning, CloseQueue, JoinThreads
  <1>6. UNCHANGED vars => G  BY DEF vars
  <1> HIDE DEF G, At, taskVars, execVars, flowVars, clientVars
  <1>7. G  BY <1>2, <1>3, <1>4, <1>5, <1>6, NextCases
  <1> QED  BY <1>1, <1>7 DEF G

(* None of the steps that can end the process does so while no task has    *)
(* failed.                                                                 *)
LEMMA AbortNext ==
    ASSUME OnlyAssertions, TypeOK, DependencyInv, JobInv, ReturnInv, NoAbortWithoutFailure,
           [Next]_vars
    PROVE  NoAbortWithoutFailure'
  <1> SUFFICES ASSUME aborted', aborted' # aborted PROVE \E t \in Tasks : exception[t]
    <2>1. aborted \in BOOLEAN  BY DEF TypeOK, ClientTypes
    <2> QED  BY <2>1, AbortSteps DEF NoAbortWithoutFailure
  <1> USE DEF At, taskVars, execVars, flowVars, clientVars
  <1>1. PICK t \in Tasks : /\ UNCHANGED <<taskVars, flowVars>>
                           /\ \/ Execute(t) \/ SubtasksDone(t) \/ Operate(t)
                              \/ Complete(t) \/ DecrementSuccessor(t)
    BY AbortSteps
  <1>2. Phase(t)  BY DEF ReturnInv, ControlInv, Fits, Activities
  <1>3. ~Execute(t)  BY <1>1, <1>2 DEF Execute, Phase
  <1>4. ~Complete(t)  BY <1>1, <1>2 DEF Complete, Phase
  <1>5. ~DecrementSuccessor(t)
    <2> SUFFICES ASSUME DecrementSuccessor(t) PROVE FALSE  OBVIOUS
    <2>1. PICK s \in rest[t] : ~(pending[s] > 0)  BY DEF DecrementSuccessor
    <2>2. s \in Tasks /\ t \in ToVisit(s)
      BY DEF DependencyInv, RestIsSuccessors, Successors, ToVisit, TypeOK, FlowTypes
    <2>3. pending[s] = 0  BY <2>1, <2>2 DEF TypeOK, TaskTypes
    <2>4. Cardinality(ToVisit(s)) = 0
      BY <2>2, <2>3 DEF DependencyInv, PendingIsExact, ToVisit
    <2> QED  BY <2>2, <2>4, ToVisitFinite, FS_EmptySet
  <1>6. CASE SubtasksDone(t)
    <2>1. pc[t] = "nested" /\ holders = {t}  BY <1>6 DEF SubtasksDone
    <2>2. state[t] = kStarted  BY <1>2, <2>1 DEF Phase
    <2>3. Client \notin holders  BY <2>1, FragmentAssumption
    <2>4. result \in {"success", "failure", "drained"}
      BY <2>3 DEF ReturnInv, ClientInv, ResultIsFinal, TypeOK, ClientTypes
    <2>5. result \notin {"success", "drained"}
      BY <2>2 DEF ReturnInv, ClientInv, QuietOnReturn
    <2> QED  BY <2>4, <2>5 DEF ReturnInv, ClientInv, ResultIsFinal
  <1>7. CASE Operate(t)
    <2>1. pc[t] = "operate" /\ "exception" \in Ends(t)  BY <1>7 DEF Operate
    <2>2. state[t] = kStarted  BY <1>2, <2>1 DEF Phase
    <2>3. MissingInput(t)  BY <2>1 DEF Ends, OnlyAssertions
    <2>4. PICK p \in Predecessors[t] : t \in Roots /\ ~output[p]  BY <2>3 DEF MissingInput
    <2>5. p \in Roots /\ p \in Tasks  BY <2>4, TaskGraphAssumption, FragmentAssumption
    <2>6. IsDone(p)  BY <2>2, StartedAfterInputs
    <2>7. ~IsDone(t) /\ pc[t] \notin {"clear", "complete"}  BY <2>1, <2>2 DEF IsDone
    <2> QED  BY <2>4, <2>5, <2>6, <2>7 DEF ReturnInv, OutputInv, InputsAvailable
  <1> QED  BY <1>1, <1>3, <1>4, <1>5, <1>6, <1>7

(* As long as operators fail only by AssertionFailedException, the process *)
(* ends only after a task has failed: until then no Assert outside the try *)
(* block fails, no operator misses an input and no executor thread is left *)
(* to destroy the scheduler.                                               *)
THEOREM AbortsHaveCauses ==
    ASSUME OnlyAssertions
    PROVE  Spec => []NoAbortWithoutFailure
  <1>1. Init => NoAbortWithoutFailure  BY DEF Init, NoAbortWithoutFailure
  <1>2. TypeOK /\ DependencyInv /\ JobInv /\ ReturnInv /\ NoAbortWithoutFailure /\ [Next]_vars
          => NoAbortWithoutFailure'
    BY OnlyAssertions, AbortNext
  <1> QED
    BY <1>1, <1>2, TypeCorrect, DependencyCorrect, JobCorrect, ReturnInvariant, PTL DEF Spec
=============================================================================

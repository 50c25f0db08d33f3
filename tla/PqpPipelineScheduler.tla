------------------------ MODULE PqpPipelineScheduler ------------------------
(***************************************************************************)
(* The coordinator's pipeline scheduler                                    *)
(* (src/lib/scheduler/coordinator/pqp_pipeline_scheduler.cpp) and the part *)
(* of CoordinatorFunction::OnHandleRequest that runs it.                   *)
(*                                                                         *)
(* The main thread submits the pipelines without predecessors and blocks   *)
(* until all are finished or an error is set.  Executor threads (Callers)  *)
(* report one fragment at a time through                                   *)
(* OnFragmentExecutionFinishedCallback, whose two critical sections are    *)
(* two steps.  The scheduler lives on the stack of OnHandleRequest: once   *)
(* the main thread has responded it is gone, callers or not.               *)
(*                                                                         *)
(* The executor is seen through its contract, ExecutorReports: it reports  *)
(* a fragment of a submitted pipeline, and a success at most once.         *)
(***************************************************************************)
EXTENDS Integers, Sequences, FiniteSets

CONSTANTS
    Pipelines,       \* identities of the pipelines of one query
    Predecessors,    \* Predecessors() of each pipeline
    Fragments,       \* FragmentDefinitions() of each pipeline
    Callers,         \* threads on which the executor calls back
    MaxFailures,     \* bound on the failures reported, for model checking
    AwsMayThrow      \* a call into AWS may end in an exception (queues, prices)

ASSUME PipelineAssumption ==
    /\ IsFiniteSet(Pipelines)
    /\ Predecessors \in [Pipelines -> SUBSET Pipelines]
    /\ \A p \in Pipelines : IsFiniteSet(Fragments[p]) /\ Fragments[p] # {}
    /\ MaxFailures \in Nat
    /\ AwsMayThrow \in BOOLEAN

VARIABLES
    taskState,      \* state of the PqpPipelineTask
    fragmentsLeft,  \* fragments_to_finish_count; -k stands for 2^64 - k
    predsLeft,      \* pipeline_predecessors_to_finish_count
    results,        \* fragment_execution_results: <<fragment, is_success>>
    error,          \* error_message_ is not empty
    main,           \* where the main thread is
    response,       \* what OnHandleRequest returned
    call,           \* the callback each caller is in
    reported,       \* successes handed to the scheduler so far
    failures,       \* failures handed to the scheduler so far
    dangling,       \* a callback used the scheduler after its destruction
    crashed         \* an exception escaped from a caller's thread

schedulerVars == <<taskState, fragmentsLeft, predsLeft, results, error>>
mainVars      == <<main, response>>
vars == <<schedulerVars, mainVars, call, reported, failures, dangling, crashed>>

Idle        == [pc |-> "idle"]
AnyFragment == UNION {Fragments[p] : p \in Pipelines}
Calls       == [pc : {"error", "count"}, pipeline : Pipelines,
                fragment : AnyFragment, ok : BOOLEAN]

Successors(p) == {s \in Pipelines : p \in Predecessors[s]}

Init ==
    /\ taskState = [p \in Pipelines |-> "kWaiting"]
    /\ fragmentsLeft = [p \in Pipelines |-> Cardinality(Fragments[p])]
    /\ predsLeft = [p \in Pipelines |-> Cardinality(Predecessors[p])]
    /\ results = [p \in Pipelines |-> <<>>]
    /\ error = FALSE
    /\ main = "start"
    /\ response = "none"
    /\ call = [c \in Callers |-> Idle]
    /\ reported = {}
    /\ failures = 0
    /\ dangling = FALSE
    /\ crashed = FALSE

-----------------------------------------------------------------------------
(* SubmitTasksWithFinishedPredecessors over the given states and counts.   *)
Ready(st, left) == {p \in Pipelines : left[p] = 0 /\ st[p] = "kWaiting"}

Submitted(st, batch) ==
    [p \in Pipelines |-> IF p \in batch THEN "kRunning" ELSE st[p]]

(* Mutant: the wait ends when every pipeline has been submitted.           *)
AllTasksSubmitted == \A p \in Pipelines : taskState[p] # "kWaiting"

AllTasksFinished == \A p \in Pipelines : taskState[p] = "kFinished"

(* Execute, up to the wait on execution_done_.                             *)
StartExecution ==
    /\ main = "start"
    /\ taskState' = Submitted(taskState, Ready(taskState, predsLeft))
    /\ main' = "waiting"
    /\ UNCHANGED <<fragmentsLeft, predsLeft, results, error, response, call,
                   reported, failures, dangling, crashed>>

(* executor_->Execute throws for one of the ready pipelines; the others    *)
(* before it in tasks_ are submitted already.  OnHandleRequest logs the    *)
(* exception and returns a success without a result.                       *)
StartExecutionThrows ==
    /\ main = "start" /\ AwsMayThrow
    /\ \E batch \in SUBSET Ready(taskState, predsLeft) :
         /\ batch # Ready(taskState, predsLeft)
         /\ taskState' = Submitted(taskState, batch)
    /\ main' = "responded"
    /\ response' = "empty"
    /\ UNCHANGED <<fragmentsLeft, predsLeft, results, error, call, reported,
                   failures, dangling, crashed>>

(* Both conditions are made true under mutex_ and notified there, so the   *)
(* wait is a guard.                                                        *)
ExecutionDone ==
    /\ main = "waiting"
    /\ AllTasksFinished \/ error
    /\ main' = "returned"
    /\ UNCHANGED <<schedulerVars, response, call, reported, failures, dangling,
                   crashed>>

(* Mutant: HasError is not consulted.                                      *)
RespondAnyway ==
    /\ main = "returned"
    /\ response' = "result"
    /\ main' = "responded"
    /\ UNCHANGED <<schedulerVars, call, reported, failures, dangling, crashed>>

(* HasError decides the response; the scheduler goes out of scope.  An     *)
(* exception while the result and its statistics are put together (the     *)
(* presigned URL, the prices) also leaves the response empty.              *)
Respond ==
    /\ main = "returned"
    /\ \/ response' = IF error THEN "error" ELSE "result"
       \/ AwsMayThrow /\ ~error /\ response' = "empty"
    /\ main' = "responded"
    /\ UNCHANGED <<schedulerVars, call, reported, failures, dangling, crashed>>

-----------------------------------------------------------------------------
(* Mutant: a failure is counted like a success.                            *)
BeginUnchecked(c, p, f, ok) ==
    /\ call[c] = Idle
    /\ call' = [call EXCEPT ![c] = [pc |-> "count", pipeline |-> p, fragment |-> f,
                                    ok |-> ok]]
    /\ reported' = IF ok THEN reported \cup {<<p, f>>} ELSE reported
    /\ failures' = IF ok THEN failures ELSE failures + 1
    /\ UNCHANGED <<schedulerVars, mainVars, dangling, crashed>>

(* The caller enters OnFragmentExecutionFinishedCallback.                  *)
BeginCallback(c, p, f, ok) ==
    /\ call[c] = Idle
    /\ call' = [call EXCEPT ![c] = [pc |-> IF ok THEN "count" ELSE "error",
                                    pipeline |-> p, fragment |-> f, ok |-> ok]]
    /\ reported' = IF ok THEN reported \cup {<<p, f>>} ELSE reported
    /\ failures' = IF ok THEN failures ELSE failures + 1
    /\ UNCHANGED <<schedulerVars, mainVars, dangling, crashed>>

(* A section of a callback that runs after the scheduler was destroyed.    *)
UseAfterDestruction(c) ==
    /\ call[c] # Idle
    /\ main = "responded"
    /\ dangling' = TRUE
    /\ call' = [call EXCEPT ![c] = Idle]
    /\ UNCHANGED <<schedulerVars, mainVars, reported, failures, crashed>>

(* The first critical section: a failed fragment sets the error.           *)
SetError(c) ==
    /\ call[c].pc = "error"
    /\ main # "responded"
    /\ error' = TRUE
    /\ call' = [call EXCEPT ![c].pc = "count"]
    /\ UNCHANGED <<taskState, fragmentsLeft, predsLeft, results, mainVars,
                   reported, failures, dangling, crashed>>

(* Mutant: a late fragment finishes its pipeline once more.                *)
CountLate(c) ==
    LET p    == call[c].pipeline
        last == fragmentsLeft[p] <= 1
        left == [q \in Pipelines |->
                    IF last /\ q \in Successors(p) THEN predsLeft[q] - 1 ELSE predsLeft[q]]
        st   == [taskState EXCEPT ![p] = IF last THEN "kFinished" ELSE @]
    IN
    /\ call[c].pc = "count"
    /\ main # "responded"
    /\ results' = [results EXCEPT ![p] = Append(@, <<call[c].fragment, call[c].ok>>)]
    /\ fragmentsLeft' = [fragmentsLeft EXCEPT ![p] = @ - 1]
    /\ predsLeft' = left
    /\ taskState' = IF last THEN Submitted(st, Ready(st, left)) ELSE st
    /\ call' = [call EXCEPT ![c] = Idle]
    /\ UNCHANGED <<error, mainVars, reported, failures, dangling, crashed>>

(* Mutant: a finished pipeline does not submit its successors.             *)
CountOnly(c) ==
    LET p    == call[c].pipeline
        last == fragmentsLeft[p] = 1
    IN
    /\ call[c].pc = "count"
    /\ main # "responded"
    /\ results' = [results EXCEPT ![p] = Append(@, <<call[c].fragment, call[c].ok>>)]
    /\ fragmentsLeft' = [fragmentsLeft EXCEPT ![p] = @ - 1]
    /\ taskState' = [taskState EXCEPT ![p] = IF last THEN "kFinished" ELSE @]
    /\ call' = [call EXCEPT ![c] = Idle]
    /\ UNCHANGED <<predsLeft, error, mainVars, reported, failures, dangling, crashed>>

(* The second critical section: the fragment, failed or not, is counted;   *)
(* the last one finishes its pipeline and submits what became ready.       *)
CountFragment(c) ==
    LET p    == call[c].pipeline
        last == fragmentsLeft[p] = 1
        left == [q \in Pipelines |->
                    IF last /\ q \in Successors(p) THEN predsLeft[q] - 1 ELSE predsLeft[q]]
        st   == [taskState EXCEPT ![p] = IF last THEN "kFinished" ELSE @]
    IN
    /\ call[c].pc = "count"
    /\ main # "responded"
    /\ results' = [results EXCEPT ![p] = Append(@, <<call[c].fragment, call[c].ok>>)]
    /\ fragmentsLeft' = [fragmentsLeft EXCEPT ![p] = @ - 1]
    /\ predsLeft' = left
    /\ taskState' = IF last THEN Submitted(st, Ready(st, left)) ELSE st
    /\ call' = [call EXCEPT ![c] = Idle]
    /\ UNCHANGED <<error, mainVars, reported, failures, dangling, crashed>>

(* Submitting a successor throws: nothing on the caller's thread catches.  *)
SubmitThrows(c) ==
    /\ AwsMayThrow
    /\ call[c].pc = "count"
    /\ main # "responded"
    /\ fragmentsLeft[call[c].pipeline] = 1
    /\ \E s \in Successors(call[c].pipeline) : predsLeft[s] = 1
    /\ crashed' = TRUE
    /\ UNCHANGED <<schedulerVars, mainVars, call, reported, failures, dangling>>

CallbackStep(c) ==
    SetError(c) \/ CountFragment(c) \/ SubmitThrows(c) \/ UseAfterDestruction(c)

MainStep == StartExecution \/ StartExecutionThrows \/ ExecutionDone \/ Respond

(* The contract of AbstractPqpPipelineFragmentExecutor.                    *)
ExecutorReports(c) ==
    \E p \in Pipelines : \E f \in Fragments[p] : \E ok \in BOOLEAN :
        /\ taskState[p] # "kWaiting"
        /\ IF ok THEN <<p, f>> \notin reported ELSE failures < MaxFailures
        /\ BeginCallback(c, p, f, ok)

(* An exception that the executor itself does not catch on its threads: a  *)
(* failed Assert on a response, or one out of a call into AWS.             *)
ExecutorThrows ==
    /\ crashed' = TRUE
    /\ UNCHANGED <<schedulerVars, mainVars, call, reported, failures, dangling>>

Terminated ==
    /\ \/ crashed
       \/ main = "responded" /\ \A c \in Callers : call[c] = Idle
    /\ UNCHANGED vars

Next ==
    \/ ~crashed /\ MainStep
    \/ ~crashed /\ \E c \in Callers : CallbackStep(c) \/ ExecutorReports(c)
    \/ ~crashed /\ ExecutorThrows
    \/ Terminated

Spec == Init /\ [][Next]_vars

(* A thread that holds or can take mutex_ is scheduled; the executor does  *)
(* not keep the success of a submitted fragment to itself for ever.        *)
Fairness ==
    /\ WF_vars(~crashed /\ MainStep)
    /\ \A c \in Callers : WF_vars(~crashed /\ CallbackStep(c))
    /\ WF_vars(~crashed /\ (\E c \in Callers : ExecutorReports(c)) /\ reported' # reported)

FairSpec == Spec /\ Fairness

-----------------------------------------------------------------------------
(* The fragments of a pipeline that the scheduler counted as successful.   *)
Succeeded(p) == {f \in Fragments[p] : \E i \in DOMAIN results[p] : results[p][i] = <<f, TRUE>>}

(* The type invariant: a pipeline finishes once, so no count of            *)
(* predecessors is taken below zero.                                       *)
TypeOK ==
    /\ taskState \in [Pipelines -> {"kWaiting", "kRunning", "kFinished"}]
    /\ fragmentsLeft \in [Pipelines -> Int]
    /\ predsLeft \in [Pipelines -> Nat]
    /\ results \in [Pipelines -> Seq(AnyFragment \X BOOLEAN)]
    /\ error \in BOOLEAN
    /\ main \in {"start", "waiting", "returned", "responded"}
    /\ response \in {"none", "result", "error", "empty"}
    /\ call \in [Callers -> Calls \cup {Idle}]
    /\ \A r \in reported : r[1] \in Pipelines /\ r[2] \in Fragments[r[1]]
    /\ failures \in Nat
    /\ dangling \in BOOLEAN
    /\ crashed \in BOOLEAN

(* Unless an error was set, a submitted pipeline finds the output of every *)
(* fragment of its predecessors: no success is counted twice, and no       *)
(* failure is counted without the error being set first.                   *)
InputsComplete ==
    ~error =>
        \A p \in Pipelines : taskState[p] # "kWaiting" =>
            \A q \in Predecessors[p] : Succeeded(q) = Fragments[q]

(* A response that carries a result means that every fragment of every     *)
(* pipeline succeeded.                                                     *)
ResultIsComplete ==
    response = "result" => \A p \in Pipelines : Succeeded(p) = Fragments[p]

(* While the query has no error, no callback outlives the scheduler.       *)
NoUseAfterDestruction == failures = 0 /\ response # "empty" => ~dangling

(* The coordinator always responds.                                        *)
Responds == <>(main = "responded" \/ crashed)
=============================================================================

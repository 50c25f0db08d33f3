---------------------------- MODULE LambdaExecutor ----------------------------
(***************************************************************************)
(* The execution of one query: PqpPipelineScheduler composed with the      *)
(* LambdaExecutor that invokes the workers, the workers themselves, and    *)
(* the SQS queue per pipeline that carries their responses back            *)
(* (src/lib/scheduler/coordinator/lambda_executor.cpp,                     *)
(* src/bin/function/worker_function.cpp, src/lib/function/function.cpp).   *)
(*                                                                         *)
(* AWS Lambda runs an Event invocation at least once and repeats it after  *)
(* a failure; SQS delivers a message at least once and keeps it until it   *)
(* is deleted.  Each receive is handled on a thread of its own.            *)
(***************************************************************************)
EXTENDS Integers, Sequences, FiniteSets

CONSTANTS
    Pipelines, Predecessors, Fragments, MaxFailures, AwsMayThrow,
    Handlers,          \* threads handling a received batch at the same time
    Threshold,         \* kWorkerRecursiveInvocationThreshold
    MaxBatch,          \* WithMaxNumberOfMessages
    MaxAttempts,       \* executions of one invocation, retries included
    WorkerOutcomes,    \* how the execution of a worker may end
    InvokeMayFail      \* InvokeAsync may fail; the outcome is only logged

Outcome == {"ok", "fail", "malformed", "crash"}

ASSUME PlanAssumption ==
    /\ IsFiniteSet(Pipelines)
    /\ Predecessors \in [Pipelines -> SUBSET Pipelines]
    /\ \A p \in Pipelines : IsFiniteSet(Fragments[p]) /\ Fragments[p] # {}
    /\ MaxFailures \in Nat
    /\ AwsMayThrow \in BOOLEAN

ASSUME ExecutorAssumption ==
    /\ IsFiniteSet(Handlers)
    /\ Threshold \in Nat \ {0}
    /\ MaxBatch \in Nat \ {0}
    /\ MaxAttempts \in Nat \ {0}
    /\ WorkerOutcomes \subseteq Outcome
    /\ InvokeMayFail \in BOOLEAN

VARIABLES
    taskState, fragmentsLeft, predsLeft, results, error, main, response, call,
    reported, failures, dangling, crashed,    \* see PqpPipelineScheduler
    invocations,    \* Event invocations Lambda has accepted, <<p, f>>
    attempts,       \* how often the worker of a fragment was started
    running,        \* workers that are executing their fragment
    produced,       \* fragments whose output was written
    inbox,          \* messages of each pipeline's SQS queue
    processedIds,   \* processed_worker_ids of each collector
    processedCount, \* processed_count of each collector
    collector,      \* where the collector thread of each pipeline is
    handler         \* what each handler thread is doing

Scheduler == INSTANCE PqpPipelineScheduler WITH Callers <- Handlers

planVars      == <<taskState, fragmentsLeft, predsLeft, results, error>>
mainVars      == <<main, response>>
schedulerVars == <<planVars, mainVars, call, reported, failures, dangling, crashed>>
workerVars    == <<invocations, attempts, running, produced>>
collectorVars == <<processedIds, processedCount, collector>>
vars == <<schedulerVars, workerVars, inbox, collectorVars, handler>>

Work == UNION {{p} \X Fragments[p] : p \in Pipelines}
Free == [pc |-> "free"]

(* ceil(fragment_count / kWorkerRecursiveInvocationThreshold).             *)
FragmentsPerWorker(p) == (Cardinality(Fragments[p]) + Threshold - 1) \div Threshold

(* The first fragment definition of an invocation is the invoked worker's, *)
(* the others are those of the workers it invokes.                         *)
Leader(p, f)    == f - (f % FragmentsPerWorker(p))
Leaders(p)      == {f \in Fragments[p] : Leader(p, f) = f}
Followers(p, f) == {g \in Fragments[p] : g # f /\ Leader(p, g) = f}

Init ==
    /\ Scheduler!Init
    /\ invocations = {}
    /\ attempts = [w \in Work |-> 0]
    /\ running = {}
    /\ produced = {}
    /\ inbox = [p \in Pipelines |-> {}]
    /\ processedIds = [p \in Pipelines |-> {}]
    /\ processedCount = [p \in Pipelines |-> 0]
    /\ collector = [p \in Pipelines |-> "none"]
    /\ handler = [h \in Handlers |-> Free]

-----------------------------------------------------------------------------
(* LambdaExecutor::Execute for the pipelines that a scheduler step has     *)
(* submitted: one invocation per leader, then the detached collector.      *)
LaunchSubmitted ==
    LET batch == {p \in Pipelines : taskState[p] = "kWaiting" /\ taskState'[p] = "kRunning"}
    IN  /\ invocations' = invocations \cup UNION {{p} \X Leaders(p) : p \in batch}
        /\ collector' = [p \in Pipelines |->
                            IF p \in batch THEN "polling" ELSE collector[p]]

(* ~LambdaExecutor deletes the queues when OnHandleRequest returns.        *)
DeleteQueues == inbox' = IF main' = "responded" THEN [p \in Pipelines |-> {}] ELSE inbox

MainStep ==
    /\ ~crashed
    /\ Scheduler!MainStep
    /\ LaunchSubmitted
    /\ DeleteQueues
    /\ UNCHANGED <<attempts, running, produced, processedIds, processedCount, handler>>

CallbackStep(h) ==
    /\ ~crashed
    /\ Scheduler!CallbackStep(h)
    /\ LaunchSubmitted
    /\ UNCHANGED <<attempts, running, produced, inbox, processedIds, processedCount,
                   handler>>

-----------------------------------------------------------------------------
(* WorkerFunction::OnHandleRequest begins: it invokes the workers of the   *)
(* other fragments it was given (InvokeRecursive), then starts its own.    *)
StartWorker(w) ==
    /\ w \in invocations
    /\ attempts[w] < MaxAttempts
    /\ w \notin running
    /\ invocations' = (invocations \ {w}) \cup ({w[1]} \X Followers(w[1], w[2]))
    /\ attempts' = [attempts EXCEPT ![w] = @ + 1]
    /\ running' = running \cup {w}
    /\ UNCHANGED <<schedulerVars, produced, inbox, collectorVars, handler>>

(* A failed InvokeAsync, or Lambda giving up on an invocation.             *)
LoseInvocation(w) ==
    /\ InvokeMayFail
    /\ w \in invocations
    /\ invocations' = invocations \ {w}
    /\ UNCHANGED <<schedulerVars, attempts, running, produced, inbox, collectorVars,
                   handler>>

(* The worker's response goes to the queue of its pipeline, if the queue   *)
(* still exists; a response built in Function::HandleRequest's catch block *)
(* names neither worker nor pipeline.                                      *)
Reply(w, kind) ==
    inbox' = IF main = "responded" THEN inbox
             ELSE [inbox EXCEPT ![w[1]] = @ \cup {[fragment |-> w[2], kind |-> kind]}]

(* Mutant: the worker answers with a success whatever happened.            *)
AlwaysSucceed(w) ==
    /\ w \in running
    /\ running' = running \ {w}
    /\ \E outcome \in WorkerOutcomes :
         /\ produced' = IF outcome = "ok" THEN produced \cup {w} ELSE produced
         /\ Reply(w, "ok")
    /\ UNCHANGED <<schedulerVars, invocations, attempts, collectorVars, handler>>

FinishWorker(w) ==
    /\ w \in running
    /\ running' = running \ {w}
    /\ \E outcome \in WorkerOutcomes :
         /\ produced' = IF outcome = "ok" THEN produced \cup {w} ELSE produced
         /\ IF outcome = "crash" THEN UNCHANGED inbox ELSE Reply(w, outcome)
    /\ UNCHANGED <<schedulerVars, invocations, attempts, collectorVars, handler>>

(* Lambda runs an Event invocation again, whether or not it answered.      *)
RetryInvocation(w) ==
    /\ attempts[w] \in 1 .. MaxAttempts - 1
    /\ w \notin invocations /\ w \notin running
    /\ invocations' = invocations \cup {w}
    /\ UNCHANGED <<schedulerVars, attempts, running, produced, inbox, collectorVars,
                   handler>>

-----------------------------------------------------------------------------
(* CollectSqsMessages: receive up to MaxBatch messages and hand them to a  *)
(* new thread.  Received messages stay in the queue until deleted.         *)
Receive(p, h) ==
    /\ collector[p] = "polling"
    /\ processedCount[p] < Cardinality(Fragments[p])
    /\ handler[h] = Free
    /\ \E batch \in SUBSET inbox[p] :
         /\ Cardinality(batch) \in 1 .. MaxBatch
         /\ handler' = [handler EXCEPT ![h] = [pc |-> "next", pipeline |-> p,
                                               messages |-> batch]]
    /\ UNCHANGED <<schedulerVars, workerVars, inbox, collectorVars>>

(* The loop ends when processed_count reaches the number of fragments; the *)
(* collector then joins its handler threads.                               *)
StopPolling(p) ==
    /\ collector[p] = "polling"
    /\ processedCount[p] >= Cardinality(Fragments[p])
    /\ collector' = [collector EXCEPT ![p] = "joining"]
    /\ UNCHANGED <<schedulerVars, workerVars, inbox, processedIds, processedCount,
                   handler>>

JoinHandlers(p) ==
    /\ collector[p] = "joining"
    /\ \A h \in Handlers : handler[h] # Free => handler[h].pipeline # p
    /\ collector' = [collector EXCEPT ![p] = "ended"]
    /\ UNCHANGED <<schedulerVars, workerVars, inbox, processedIds, processedCount,
                   handler>>

-----------------------------------------------------------------------------
(* Mutant: processed_worker_ids is never looked at.                        *)
NoDedup(h) ==
    /\ handler[h].pc = "next"
    /\ \E m \in handler[h].messages :
         LET p == handler[h].pipeline
         IN  /\ processedIds' =
                   [processedIds EXCEPT ![p] = IF m.kind = "ok" THEN @ \cup {m.fragment} ELSE @]
             /\ handler' =
                   [handler EXCEPT ![h] =
                       [pc |-> "report", pipeline |-> p,
                        messages |-> @.messages \ {m}, message |-> m, dup |-> FALSE]]
    /\ UNCHANGED <<schedulerVars, workerVars, inbox, processedCount, collector>>

(* Mutant: the id is inserted before it is looked up, and a duplicate is   *)
(* skipped before it is deleted.                                           *)
SkipAll(h) ==
    /\ handler[h].pc = "next"
    /\ \E m \in handler[h].messages :
         /\ processedIds' = [processedIds EXCEPT ![handler[h].pipeline] = @ \cup {m.fragment}]
         /\ handler' = [handler EXCEPT ![h].messages = @ \ {m}]
    /\ UNCHANGED <<schedulerVars, workerVars, inbox, processedCount, collector>>

(* handle_message, for one message of the batch.  Only a success is looked *)
(* up in processed_worker_ids, under dedup_mutex.                          *)
Dedup(h) ==
    /\ handler[h].pc = "next"
    /\ \E m \in handler[h].messages :
         LET p   == handler[h].pipeline
             dup == m.kind = "ok" /\ m.fragment \in processedIds[p]
         IN  /\ processedIds' =
                   [processedIds EXCEPT ![p] = IF m.kind = "ok" THEN @ \cup {m.fragment} ELSE @]
             /\ handler' =
                   [handler EXCEPT ![h] =
                       [pc |-> IF dup THEN "delete" ELSE "report", pipeline |-> p,
                        messages |-> @.messages \ {m}, message |-> m, dup |-> dup]]
    /\ UNCHANGED <<schedulerVars, workerVars, inbox, processedCount, collector>>

(* on_finished_callback; a response that does not name the pipeline fails  *)
(* the Assert, and nothing catches that on this thread.                    *)
Report(h) ==
    /\ handler[h].pc = "report"
    /\ LET m == handler[h].message IN
         IF m.kind = "malformed"
         THEN /\ crashed' = TRUE
              /\ UNCHANGED <<planVars, mainVars, call, reported,
                             failures, dangling, handler>>
         ELSE /\ m.kind = "ok" \/ failures < MaxFailures
              /\ Scheduler!BeginCallback(h, handler[h].pipeline, m.fragment, m.kind = "ok")
              /\ handler' = [handler EXCEPT ![h].pc = "called"]
    /\ UNCHANGED <<workerVars, inbox, collectorVars>>

CallbackReturned(h) ==
    /\ handler[h].pc = "called" /\ call[h] = Scheduler!Idle
    /\ handler' = [handler EXCEPT ![h].pc = "delete"]
    /\ UNCHANGED <<schedulerVars, workerVars, inbox, collectorVars>>

(* Mutant: duplicates are counted as well.                                 *)
DeleteAndCount(h) ==
    /\ handler[h].pc = "delete"
    /\ \/ inbox' = [inbox EXCEPT ![handler[h].pipeline] = @ \ {handler[h].message}]
       \/ UNCHANGED inbox
    /\ handler' = [handler EXCEPT ![h].pc = "load"]
    /\ UNCHANGED <<schedulerVars, workerVars, collectorVars>>

(* DeleteMessage may fail, which is only logged.                           *)
DeleteMessage(h) ==
    /\ handler[h].pc = "delete"
    /\ \/ inbox' = [inbox EXCEPT ![handler[h].pipeline] = @ \ {handler[h].message}]
       \/ UNCHANGED inbox
    /\ handler' = [handler EXCEPT ![h].pc = IF handler[h].dup THEN "next" ELSE "load"]
    /\ UNCHANGED <<schedulerVars, workerVars, collectorVars>>

(* processed_count.store(processed_count.load() + 1): two accesses.        *)
LoadCount(h) ==
    /\ handler[h].pc = "load"
    /\ handler' = [handler EXCEPT
                     ![h] = [pc |-> "store", pipeline |-> @.pipeline,
                             messages |-> @.messages,
                             count |-> processedCount[@.pipeline]]]
    /\ UNCHANGED <<schedulerVars, workerVars, inbox, collectorVars>>

StoreCount(h) ==
    /\ handler[h].pc = "store"
    /\ processedCount' = [processedCount EXCEPT ![handler[h].pipeline] = handler[h].count + 1]
    /\ handler' = [handler EXCEPT ![h] = [pc |-> "next", pipeline |-> @.pipeline,
                                          messages |-> @.messages]]
    /\ UNCHANGED <<schedulerVars, workerVars, inbox, processedIds, collector>>

BatchDone(h) ==
    /\ handler[h].pc = "next" /\ handler[h].messages = {}
    /\ handler' = [handler EXCEPT ![h] = Free]
    /\ UNCHANGED <<schedulerVars, workerVars, inbox, collectorVars>>

HandlerStep(h) ==
    Dedup(h) \/ Report(h) \/ CallbackReturned(h) \/ DeleteMessage(h)
    \/ LoadCount(h) \/ StoreCount(h) \/ BatchDone(h)

WorkerStep(w) == StartWorker(w) \/ FinishWorker(w)

CollectorStep(p) == (\E h \in Handlers : Receive(p, h)) \/ StopPolling(p) \/ JoinHandlers(p)

Terminated ==
    /\ crashed \/ main = "responded"
    /\ UNCHANGED vars

Next ==
    \/ MainStep
    \/ \E h \in Handlers : CallbackStep(h) \/ (~crashed /\ HandlerStep(h))
    \/ \E p \in Pipelines : ~crashed /\ CollectorStep(p)
    \/ \E w \in Work : ~crashed /\ (WorkerStep(w) \/ LoseInvocation(w) \/ RetryInvocation(w))
    \/ Terminated

Spec == Init /\ [][Next]_vars

(* Threads are scheduled, Lambda starts what it accepted and workers end,  *)
(* and SQS offers every message it holds to a polling collector.           *)
Fairness ==
    /\ WF_vars(MainStep)
    /\ \A h \in Handlers : WF_vars(CallbackStep(h)) /\ WF_vars(~crashed /\ HandlerStep(h))
    /\ \A p \in Pipelines : \A f \in Fragments[p] :
         SF_vars(~crashed /\ \E h \in Handlers :
                    Receive(p, h) /\ \E m \in handler'[h].messages : m.fragment = f)
    /\ \A p \in Pipelines : WF_vars(~crashed /\ (StopPolling(p) \/ JoinHandlers(p)))
    /\ \A w \in Work : WF_vars(~crashed /\ WorkerStep(w))

FairSpec == Spec /\ Fairness

-----------------------------------------------------------------------------
(* Deduplication by worker id makes the executor keep the contract the     *)
(* scheduler relies on, however often Lambda runs a worker and SQS         *)
(* delivers its response: every step of the query is a step of             *)
(* PqpPipelineScheduler or leaves its state alone.                         *)
KeepsContract == Scheduler!Spec

(* A worker starts only after all output that its pipeline reads has been  *)
(* written, unless the query has an error.                                 *)
ConsumerAfterProducer ==
    ~error => \A w \in running : \A q \in Predecessors[w[1]] : {q} \X Fragments[q] \subseteq produced

(* A result is returned only if every worker really wrote its output.      *)
ResultIsProduced == response = "result" => produced = Work

(* Lost updates of processed_count never make a collector stop while the   *)
(* response of some worker is still outstanding.                           *)
CollectorDrains ==
    failures = 0 =>
        \A p \in Pipelines : collector[p] \in {"joining", "ended"} => processedIds[p] = Fragments[p]

(* No answer of the worker will come: nothing is invoked or running any    *)
(* more, and the queue of its pipeline has no message from it.             *)
Abandoned(w) ==
    /\ taskState[w[1]] = "kRunning" /\ w \notin reported
    /\ invocations = {} /\ running = {}
    /\ \A m \in inbox[w[1]] : m.fragment # w[2]

(* The coordinator answers, with a result or a failure, although lost      *)
(* updates of processed_count keep collectors polling.  It does not if the *)
(* process ends or a worker never answers, for which nothing times out     *)
(* (lambda_executor.cpp:88 only logs the outcome of InvokeAsync).          *)
Responds == <>(main = "responded" \/ crashed \/ \E w \in Work : Abandoned(w))

=============================================================================

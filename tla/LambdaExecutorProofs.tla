------------------------ MODULE LambdaExecutorProofs ------------------------
(* Proofs about LambdaExecutor for every plan, however often Lambda runs a *)
(* worker and SQS delivers its response.  What the pipeline scheduler      *)
(* guarantees is taken over from PqpPipelineSchedulerProofs.               *)
EXTENDS LambdaExecutor, FiniteSetTheorems, TLAPS

SP == INSTANCE PqpPipelineSchedulerProofs WITH Callers <- Handlers

(* What a handler holds a message for, one after the other.                *)
Handling == {"report", "called", "delete", "load"}

Messages  == [fragment : Scheduler!AnyFragment, kind : {"ok", "fail", "malformed"}]
Iterating == [pc : {"next"}, pipeline : Pipelines, messages : SUBSET Messages]
Holding   == [pc : Handling \cup {"next"}, pipeline : Pipelines, messages : SUBSET Messages,
              message : Messages, dup : BOOLEAN]
Storing   == [pc : {"store"}, pipeline : Pipelines, messages : SUBSET Messages, count : Nat]

ExecutorTypeOK ==
    /\ invocations \subseteq Work /\ running \subseteq Work /\ produced \subseteq Work
    /\ attempts \in [Work -> Nat]
    /\ inbox \in [Pipelines -> SUBSET Messages]
    /\ processedIds \in [Pipelines -> SUBSET Scheduler!AnyFragment]
    /\ processedCount \in [Pipelines -> Nat]
    /\ collector \in [Pipelines -> {"none", "polling", "joining", "ended"}]
    /\ handler \in [Handlers -> {Free} \cup Iterating \cup Holding \cup Storing]

(* A message of pipeline p is about one of its fragments, and a success    *)
(* was sent after the output had been written.                             *)
Genuine(p, m, out) == m.fragment \in Fragments[p] /\ (m.kind = "ok" => <<p, m.fragment>> \in out)

(* Nothing is started, sent or handled for a pipeline before it is         *)
(* submitted.                                                              *)
WorkIsSubmitted ==
    /\ \A w \in invocations \cup running : taskState[w[1]] # "kWaiting"
    /\ \A w \in Work : attempts[w] > 0 => taskState[w[1]] # "kWaiting"
    /\ \A p \in Pipelines : collector[p] # "none" => taskState[p] # "kWaiting"
    /\ \A h \in Handlers : handler[h] # Free => taskState[handler[h].pipeline] # "kWaiting"

MessagesAreGenuine ==
    /\ \A p \in Pipelines : \A m \in inbox[p] : Genuine(p, m, produced)
    /\ \A h \in Handlers : handler[h] # Free =>
          \A m \in handler[h].messages : Genuine(handler[h].pipeline, m, produced)
    /\ \A h \in Handlers : handler[h].pc \in Handling =>
          Genuine(handler[h].pipeline, handler[h].message, produced)

(* A handler that is about to report a success.                            *)
Reporting(x) == x.pc = "report" /\ x.message.kind = "ok"

(* The id of a success is inserted before it is reported, and whoever      *)
(* inserted it is the only one to report it.                               *)
SuccessesAreUnique ==
    /\ \A r \in reported : r[2] \in processedIds[r[1]] /\ r \in produced
    /\ \A p \in Pipelines : processedIds[p] \subseteq Fragments[p]
    /\ \A h \in Handlers : Reporting(handler[h]) =>
          /\ handler[h].message.fragment \in processedIds[handler[h].pipeline]
          /\ <<handler[h].pipeline, handler[h].message.fragment>> \notin reported
    /\ \A h, k \in Handlers : h # k /\ Reporting(handler[h]) /\ Reporting(handler[k]) =>
          <<handler[h].pipeline, handler[h].message.fragment>>
            # <<handler[k].pipeline, handler[k].message.fragment>>

(* The handlers of pipeline p that have inserted an id and are still to    *)
(* count it.                                                               *)
Owes(x, p) ==
    \/ x.pc = "store" /\ x.pipeline = p
    \/ x.pc \in Handling /\ x.pipeline = p /\ ~x.dup /\ x.message.kind = "ok"

Uncounted(p, hs) == {h \in Handlers : Owes(hs[h], p)}

(* Every value stored or about to be stored in processed_count is covered  *)
(* by ids that were inserted and counted, so that lost updates only make   *)
(* it too small.                                                           *)
CountsAreCovered ==
    failures = 0 =>
      /\ \A h \in Handlers : handler[h].pc \in {"called", "delete", "load"} =>
            handler[h].message.kind = "ok"
      /\ \A h \in Handlers : handler[h].pc = "load" => ~handler[h].dup
      /\ \A p \in Pipelines :
            processedCount[p] + Cardinality(Uncounted(p, handler)) <= Cardinality(processedIds[p])
      /\ \A h \in Handlers : handler[h].pc = "store" =>
            handler[h].count + Cardinality(Uncounted(handler[h].pipeline, handler))
              <= Cardinality(processedIds[handler[h].pipeline])
      /\ \A p \in Pipelines : collector[p] \in {"joining", "ended"} => processedIds[p] = Fragments[p]

ExecutorInv ==
    ExecutorTypeOK /\ WorkIsSubmitted /\ MessagesAreGenuine /\ SuccessesAreUnique /\ CountsAreCovered

-----------------------------------------------------------------------------
(* The members of Work are pairs.                                          *)
LEMMA WorkPairs ==
    ASSUME NEW w \in Work
    PROVE  w[1] \in Pipelines /\ w[2] \in Fragments[w[1]] /\ w = <<w[1], w[2]>>
  BY DEF Work

(* A pipeline with one of its fragments is an item of work.                *)
LEMMA PairsAreWork ==
    ASSUME NEW p \in Pipelines, NEW f \in Fragments[p]
    PROVE  <<p, f>> \in Work
  BY DEF Work

(* The sets the counts are taken of are finite.                            *)
LEMMA FiniteCounts ==
    ASSUME NEW p \in Pipelines, NEW hs
    PROVE  /\ IsFiniteSet(Fragments[p]) /\ Cardinality(Fragments[p]) \in Nat
           /\ \A ids \in SUBSET Fragments[p] : IsFiniteSet(ids) /\ Cardinality(ids) \in Nat
           /\ IsFiniteSet(Uncounted(p, hs)) /\ Cardinality(Uncounted(p, hs)) \in Nat
  <1>1. IsFiniteSet(Fragments[p])  BY PlanAssumption
  <1>2. \A ids \in SUBSET Fragments[p] : IsFiniteSet(ids)  BY <1>1, FS_Subset
  <1>3. Uncounted(p, hs) \subseteq Handlers /\ IsFiniteSet(Handlers)
    BY ExecutorAssumption DEF Uncounted
  <1>4. IsFiniteSet(Uncounted(p, hs))  BY <1>3, FS_Subset
  <1> QED  BY <1>1, <1>2, <1>4, FS_CardinalityType

(* What a handler's record holds in each stage.                            *)
LEMMA HandlerCases ==
    ASSUME ExecutorTypeOK, NEW h \in Handlers
    PROVE  \/ handler[h] = Free /\ handler[h].pc = "free"
           \/ /\ handler[h] # Free /\ handler[h].pc \in Handling \cup {"next", "store"}
              /\ handler[h].pipeline \in Pipelines /\ handler[h].messages \in SUBSET Messages
              /\ handler[h].pc \in Handling =>
                    /\ handler[h] \in Holding /\ handler[h].message \in Messages
                    /\ handler[h].dup \in BOOLEAN
              /\ handler[h].pc = "store" => handler[h].count \in Nat
  <1>1. handler[h] \in {Free} \cup Iterating \cup Holding \cup Storing  BY DEF ExecutorTypeOK
  <1>2. CASE handler[h] = Free  BY <1>2 DEF Free
  <1>3. CASE handler[h] \in Iterating  BY <1>3 DEF Iterating, Free, Handling
  <1>4. CASE handler[h] \in Holding  BY <1>4 DEF Holding, Free, Handling
  <1>5. CASE handler[h] \in Storing  BY <1>5 DEF Storing, Free, Handling
  <1> QED  BY <1>1, <1>2, <1>3, <1>4, <1>5

(* A handler's record is replaced.                                         *)
LEMMA HandlerReplaced ==
    ASSUME ExecutorTypeOK, NEW h \in Handlers,
           NEW x \in {Free} \cup Iterating \cup Holding \cup Storing,
           handler' = [handler EXCEPT ![h] = x]
    PROVE  /\ handler' \in [Handlers -> {Free} \cup Iterating \cup Holding \cup Storing]
           /\ handler'[h] = x
           /\ \A k \in Handlers \ {h} : handler'[k] = handler[k]
  BY DEF ExecutorTypeOK

(* A handler goes on to the next stage with the message it holds.          *)
LEMMA HandlerAdvanced ==
    ASSUME ExecutorTypeOK, NEW h \in Handlers, handler[h].pc \in Handling,
           NEW s \in Handling \cup {"next"}, handler' = [handler EXCEPT ![h].pc = s]
    PROVE  /\ handler' \in [Handlers -> {Free} \cup Iterating \cup Holding \cup Storing]
           /\ \A k \in Handlers \ {h} : handler'[k] = handler[k]
           /\ handler'[h] # Free /\ handler'[h].pc = s
           /\ handler'[h].pipeline = handler[h].pipeline
           /\ handler'[h].messages = handler[h].messages
           /\ handler'[h].message = handler[h].message
           /\ handler'[h].dup = handler[h].dup
  <1> DEFINE x == [pc |-> s, pipeline |-> handler[h].pipeline, messages |-> handler[h].messages,
                   message |-> handler[h].message, dup |-> handler[h].dup]
  <1>1. handler[h] \in Holding  BY HandlerCases DEF Free, Handling
  <1>2. x \in Holding /\ x # Free  BY <1>1 DEF Holding, Free, Handling
  <1>3. [handler[h] EXCEPT !.pc = s] = x  BY <1>1 DEF Holding
  <1>4. handler' = [handler EXCEPT ![h] = x]  BY <1>3
  <1>5. /\ handler' \in [Handlers -> {Free} \cup Iterating \cup Holding \cup Storing]
        /\ handler'[h] = x
        /\ \A k \in Handlers \ {h} : handler'[k] = handler[k]
    <2> HIDE DEF x
    <2> QED  BY <1>2, <1>4, HandlerReplaced
  <1> QED  BY <1>2, <1>5

(* Only the handler that changes may begin or end to owe a count.          *)
LEMMA UncountedChange ==
    ASSUME NEW h \in Handlers, \A k \in Handlers \ {h} : handler'[k] = handler[k], NEW p
    PROVE  /\ (Owes(handler[h], p) <=> Owes(handler'[h], p))
                => Uncounted(p, handler') = Uncounted(p, handler)
           /\ ~Owes(handler[h], p) /\ Owes(handler'[h], p)
                => /\ Uncounted(p, handler') = Uncounted(p, handler) \cup {h}
                   /\ h \notin Uncounted(p, handler)
           /\ Owes(handler[h], p) /\ ~Owes(handler'[h], p)
                => /\ Uncounted(p, handler') = Uncounted(p, handler) \ {h}
                   /\ h \in Uncounted(p, handler)
  <1>1. \A k \in Handlers \ {h} : Owes(handler'[k], p) <=> Owes(handler[k], p)  OBVIOUS
  <1> QED  BY <1>1 DEF Uncounted

-----------------------------------------------------------------------------
(* Before Execute, nothing is invoked, produced or collected.              *)
LEMMA ExecutorInvInit == Init => ExecutorInv
  <1> SUFFICES ASSUME Init PROVE ExecutorInv  OBVIOUS
  <1>1. \A h \in Handlers : handler[h] = Free /\ handler[h].pc = "free"  BY DEF Init, Free
  <1>2. \A p \in Pipelines :
          /\ taskState[p] = "kWaiting" /\ collector[p] = "none" /\ inbox[p] = {}
          /\ processedIds[p] = {} /\ processedCount[p] = 0
    BY DEF Init, Scheduler!Init
  <1>3. \A p \in Pipelines : Uncounted(p, handler) = {}
    BY <1>1 DEF Uncounted, Owes, Handling
  <1>4. ExecutorTypeOK  BY DEF Init, ExecutorTypeOK
  <1>5. WorkIsSubmitted  BY <1>1, <1>2 DEF Init, WorkIsSubmitted
  <1>6. MessagesAreGenuine  BY <1>1, <1>2 DEF MessagesAreGenuine, Handling
  <1>7. SuccessesAreUnique
    BY <1>1, <1>2 DEF Init, Scheduler!Init, SuccessesAreUnique, Reporting
  <1>8. CountsAreCovered
    <2>1. Cardinality({}) = 0  BY FS_EmptySet
    <2>2. \A p \in Pipelines :
            /\ processedCount[p] + Cardinality(Uncounted(p, handler)) <= Cardinality(processedIds[p])
            /\ collector[p] \notin {"joining", "ended"}
      BY <1>2, <1>3, <2>1
    <2> QED  BY <1>1, <2>2 DEF CountsAreCovered
  <1> QED  BY <1>4, <1>5, <1>6, <1>7, <1>8 DEF ExecutorInv

(* A step of the scheduler, on the main thread or in a callback: pipelines *)
(* may be submitted, and the queues may be deleted.                        *)
LEMMA InvSchedulerStep ==
    ASSUME ExecutorInv,
           \A p \in Pipelines : taskState[p] # "kWaiting" => taskState'[p] # "kWaiting",
           LaunchSubmitted,
           UNCHANGED <<reported, failures, attempts, running, produced, processedIds,
                       processedCount, handler>>,
           inbox' = inbox \/ inbox' = [p \in Pipelines |-> {}]
    PROVE  ExecutorInv'
  <1> USE DEF ExecutorInv
  <1> DEFINE batch == {p \in Pipelines : taskState[p] = "kWaiting" /\ taskState'[p] = "kRunning"}
  <1>1. /\ invocations' = invocations \cup UNION {{p} \X Leaders(p) : p \in batch}
        /\ collector' = [p \in Pipelines |-> IF p \in batch THEN "polling" ELSE collector[p]]
    BY DEF LaunchSubmitted
  <1>2. \A p \in batch : p \in Pipelines /\ taskState'[p] # "kWaiting"  OBVIOUS
  <1> HIDE DEF batch
  <1>3. ASSUME NEW w \in invocations'
        PROVE  w \in Work /\ taskState'[w[1]] # "kWaiting"
    <2>1. CASE w \in invocations  BY <2>1, WorkPairs DEF ExecutorTypeOK, WorkIsSubmitted
    <2>2. CASE w \in UNION {{p} \X Leaders(p) : p \in batch}
      <3>1. PICK p \in batch : w \in {p} \X Leaders(p)  BY <2>2
      <3>2. w[1] = p /\ w[2] \in Fragments[p] /\ w = <<w[1], w[2]>>  BY <3>1 DEF Leaders
      <3> QED  BY <1>2, <3>2, PairsAreWork
    <2> QED  BY <1>1, <1>3, <2>1, <2>2
  <1>4. \A p \in Pipelines : inbox'[p] \subseteq inbox[p]  OBVIOUS
  <1>5. ExecutorTypeOK'
    <2>1. collector' \in [Pipelines -> {"none", "polling", "joining", "ended"}]
      BY <1>1 DEF ExecutorTypeOK
    <2>2. inbox' \in [Pipelines -> SUBSET Messages]  BY DEF ExecutorTypeOK
    <2> QED  BY <1>3, <2>1, <2>2 DEF ExecutorTypeOK
  <1>6. WorkIsSubmitted'
    <2>1. \A w \in running' : taskState'[w[1]] # "kWaiting"
      BY WorkPairs DEF ExecutorTypeOK, WorkIsSubmitted
    <2>2. \A w \in Work : attempts'[w] > 0 => taskState'[w[1]] # "kWaiting"
      BY WorkPairs DEF WorkIsSubmitted
    <2>3. \A p \in Pipelines : collector'[p] # "none" => taskState'[p] # "kWaiting"
      BY <1>1, <1>2 DEF WorkIsSubmitted
    <2>4. \A h \in Handlers : handler'[h] # Free => taskState'[handler'[h].pipeline] # "kWaiting"
      BY HandlerCases DEF WorkIsSubmitted
    <2> QED  BY <1>3, <2>1, <2>2, <2>3, <2>4 DEF WorkIsSubmitted
  <1>7. MessagesAreGenuine'  BY <1>4 DEF MessagesAreGenuine
  <1>8. SuccessesAreUnique'  BY DEF SuccessesAreUnique
  <1>9. CountsAreCovered'
    <2>1. \A p \in Pipelines : collector'[p] \in {"joining", "ended"} => collector'[p] = collector[p]
      BY <1>1
    <2> QED  BY <2>1 DEF CountsAreCovered
  <1> QED  BY <1>5, <1>6, <1>7, <1>8, <1>9

(* Lambda starts, loses or repeats an invocation.                          *)
LEMMA InvInvocation ==
    ASSUME ExecutorInv, NEW w \in Work,
           StartWorker(w) \/ LoseInvocation(w) \/ RetryInvocation(w)
    PROVE  ExecutorInv'
  <1> USE DEF ExecutorInv
  <1>1. UNCHANGED <<taskState, reported, failures, produced, inbox, processedIds, processedCount,
                    collector, handler>>
    BY DEF StartWorker, LoseInvocation, RetryInvocation, schedulerVars, planVars, collectorVars
  <1>2. w[1] \in Pipelines /\ w[2] \in Fragments[w[1]] /\ w = <<w[1], w[2]>>  BY WorkPairs
  <1>3. taskState[w[1]] # "kWaiting"
    <2>1. CASE w \in invocations  BY <2>1 DEF WorkIsSubmitted
    <2>2. CASE attempts[w] \in 1 .. MaxAttempts - 1
      <3>1. attempts[w] > 0  BY <2>2, ExecutorAssumption DEF ExecutorTypeOK
      <3> QED  BY <3>1 DEF WorkIsSubmitted
    <2> QED  BY <2>1, <2>2 DEF StartWorker, LoseInvocation, RetryInvocation
  <1>4. \A v \in invocations' : v \in Work /\ taskState[v[1]] # "kWaiting"
    <2>1. \A v \in {w[1]} \X Followers(w[1], w[2]) : v \in Work /\ v[1] = w[1]
      BY <1>2, PairsAreWork DEF Followers
    <2> QED
      BY <1>3, <2>1 DEF StartWorker, LoseInvocation, RetryInvocation, ExecutorTypeOK, WorkIsSubmitted
  <1>5. /\ running' \subseteq Work /\ \A v \in running' : taskState[v[1]] # "kWaiting"
        /\ attempts' \in [Work -> Nat]
        /\ \A v \in Work : attempts'[v] > 0 => attempts[v] > 0 \/ v = w
    BY <1>3 DEF StartWorker, LoseInvocation, RetryInvocation, ExecutorTypeOK, WorkIsSubmitted
  <1>6. ExecutorTypeOK'  BY <1>1, <1>4, <1>5 DEF ExecutorTypeOK
  <1>7. WorkIsSubmitted'  BY <1>1, <1>3, <1>4, <1>5 DEF WorkIsSubmitted
  <1>8. MessagesAreGenuine'  BY <1>1 DEF MessagesAreGenuine
  <1>9. SuccessesAreUnique'  BY <1>1 DEF SuccessesAreUnique
  <1>10. CountsAreCovered'  BY <1>1 DEF CountsAreCovered
  <1> QED  BY <1>6, <1>7, <1>8, <1>9, <1>10

(* A worker ends, in whatever way, and may answer.                         *)
LEMMA InvFinishWorker ==
    ASSUME ExecutorInv, NEW w \in Work, FinishWorker(w)
    PROVE  ExecutorInv'
  <1> USE DEF ExecutorInv
  <1>1. /\ running' = running \ {w}
        /\ UNCHANGED <<taskState, reported, failures, invocations, attempts, processedIds,
                       processedCount, collector, handler>>
    BY DEF FinishWorker, schedulerVars, planVars, collectorVars
  <1>2. w[1] \in Pipelines /\ w[2] \in Fragments[w[1]] /\ w = <<w[1], w[2]>>  BY WorkPairs
  <1>3. PICK outcome \in WorkerOutcomes :
          /\ produced' = IF outcome = "ok" THEN produced \cup {w} ELSE produced
          /\ IF outcome = "crash" THEN inbox' = inbox ELSE Reply(w, outcome)
    BY DEF FinishWorker
  <1> DEFINE sent == [fragment |-> w[2], kind |-> outcome]
  <1>4. produced \subseteq produced' /\ produced' \subseteq Work
    BY <1>3 DEF ExecutorTypeOK
  <1>5. inbox' = inbox \/ (inbox' = [inbox EXCEPT ![w[1]] = @ \cup {sent}] /\ outcome # "crash")
    BY <1>3 DEF Reply
  <1>6. outcome # "crash" => sent \in Messages /\ Genuine(w[1], sent, produced')
    <2>1. w[2] \in Scheduler!AnyFragment  BY <1>2 DEF Scheduler!AnyFragment
    <2>2. outcome # "crash" => outcome \in {"ok", "fail", "malformed"}
      BY ExecutorAssumption DEF Outcome
    <2> QED  BY <1>2, <1>3, <2>1, <2>2 DEF Messages, Genuine
  <1> HIDE DEF sent
  <1>7. \A p, m : Genuine(p, m, produced) => Genuine(p, m, produced')  BY <1>4 DEF Genuine
  <1>8. ExecutorTypeOK'
    <2>1. inbox' \in [Pipelines -> SUBSET Messages]
      BY <1>2, <1>5, <1>6 DEF ExecutorTypeOK
    <2> QED  BY <1>1, <1>4, <2>1 DEF ExecutorTypeOK
  <1>9. WorkIsSubmitted'  BY <1>1 DEF WorkIsSubmitted
  <1>10. MessagesAreGenuine'
    <2>1. ASSUME NEW p \in Pipelines, NEW m \in inbox'[p] PROVE Genuine(p, m, produced')
      <3>1. CASE m \in inbox[p]  BY <1>7, <3>1 DEF MessagesAreGenuine
      <3>2. CASE m \notin inbox[p]
        <4>1. p = w[1] /\ m = sent /\ outcome # "crash"
          BY <1>5, <2>1, <3>2 DEF ExecutorTypeOK
        <4> QED  BY <1>6, <4>1
      <3> QED  BY <3>1, <3>2
    <2> QED  BY <1>1, <1>7, <2>1 DEF MessagesAreGenuine
  <1>11. SuccessesAreUnique'  BY <1>1, <1>4 DEF SuccessesAreUnique
  <1>12. CountsAreCovered'  BY <1>1 DEF CountsAreCovered
  <1> QED  BY <1>8, <1>9, <1>10, <1>11, <1>12

-----------------------------------------------------------------------------
(* The collector of a pipeline receives a batch and starts a thread.       *)
LEMMA InvReceive ==
    ASSUME ExecutorInv, NEW p \in Pipelines, NEW h \in Handlers, Receive(p, h)
    PROVE  ExecutorInv'
  <1> USE DEF ExecutorInv
  <1>1. /\ collector[p] = "polling" /\ handler[h] = Free
        /\ UNCHANGED <<taskState, reported, failures, invocations, attempts, running, produced,
                       inbox, processedIds, processedCount, collector>>
    BY DEF Receive, schedulerVars, planVars, workerVars, collectorVars
  <1>2. PICK batch \in SUBSET inbox[p] :
          handler' = [handler EXCEPT ![h] = [pc |-> "next", pipeline |-> p, messages |-> batch]]
    BY DEF Receive
  <1> DEFINE x == [pc |-> "next", pipeline |-> p, messages |-> batch]
  <1>3. x \in Iterating  BY DEF Iterating, ExecutorTypeOK
  <1>4. x # Free /\ x.pc = "next" /\ x.pipeline = p /\ x.messages = batch  BY DEF Free
  <1> HIDE DEF x
  <1>5. /\ handler' \in [Handlers -> {Free} \cup Iterating \cup Holding \cup Storing]
        /\ handler'[h] = x /\ \A k \in Handlers \ {h} : handler'[k] = handler[k]
    <2>1. handler' = [handler EXCEPT ![h] = x]  BY <1>2 DEF x
    <2> QED  BY <1>3, <2>1, HandlerReplaced
  <1>6. ExecutorTypeOK'  BY <1>1, <1>5 DEF ExecutorTypeOK
  <1>7. WorkIsSubmitted'  BY <1>1, <1>4, <1>5 DEF WorkIsSubmitted
  <1>8. MessagesAreGenuine'  BY <1>1, <1>4, <1>5 DEF MessagesAreGenuine, Handling
  <1>9. SuccessesAreUnique'  BY <1>1, <1>4, <1>5 DEF SuccessesAreUnique, Reporting
  <1>10. CountsAreCovered'
    <2>1. handler[h].pc = "free"  BY <1>1 DEF Free
    <2>2. \A q : Uncounted(q, handler') = Uncounted(q, handler)
      <3>1. \A q : ~Owes(handler[h], q) /\ ~Owes(handler'[h], q)
        BY <1>4, <1>5, <2>1 DEF Owes, Handling
      <3> QED  BY <1>5, <3>1, UncountedChange
    <2> QED  BY <1>1, <1>4, <1>5, <2>2 DEF CountsAreCovered
  <1> QED  BY <1>6, <1>7, <1>8, <1>9, <1>10

(* A collector stops polling only when all ids of its pipeline have been   *)
(* inserted.                                                               *)
LEMMA InvCollector ==
    ASSUME ExecutorInv, NEW p \in Pipelines, StopPolling(p) \/ JoinHandlers(p)
    PROVE  ExecutorInv'
  <1> USE DEF ExecutorInv
  <1>1. UNCHANGED <<taskState, reported, failures, invocations, attempts, running, produced,
                    inbox, processedIds, processedCount, handler>>
    BY DEF StopPolling, JoinHandlers, schedulerVars, planVars, workerVars
  <1>2. PICK s \in {"joining", "ended"} : collector' = [collector EXCEPT ![p] = s]
    BY DEF StopPolling, JoinHandlers
  <1>3. collector[p] # "none"  BY DEF StopPolling, JoinHandlers
  <1>4. /\ collector' \in [Pipelines -> {"none", "polling", "joining", "ended"}]
        /\ \A q \in Pipelines \ {p} : collector'[q] = collector[q]
    BY <1>2 DEF ExecutorTypeOK
  <1>5. ExecutorTypeOK'  BY <1>1, <1>4 DEF ExecutorTypeOK
  <1>6. WorkIsSubmitted'  BY <1>1, <1>3, <1>4 DEF WorkIsSubmitted
  <1>7. MessagesAreGenuine'  BY <1>1 DEF MessagesAreGenuine
  <1>8. SuccessesAreUnique'  BY <1>1 DEF SuccessesAreUnique
  <1>9. failures = 0 => processedIds[p] = Fragments[p]
    <2>1. CASE collector[p] = "joining"  BY <2>1 DEF CountsAreCovered
    <2>2. CASE failures = 0 /\ processedCount[p] >= Cardinality(Fragments[p])
      <3> DEFINE n == Cardinality(Uncounted(p, handler))
                 ids == processedIds[p]
      <3>1. ids \in SUBSET Fragments[p]  BY DEF SuccessesAreUnique
      <3>2. /\ IsFiniteSet(Fragments[p]) /\ Cardinality(Fragments[p]) \in Nat
            /\ Cardinality(ids) \in Nat /\ n \in Nat /\ processedCount[p] \in Nat
        BY <3>1, FiniteCounts DEF ExecutorTypeOK
      <3>3. processedCount[p] + n <= Cardinality(ids)  BY <2>2 DEF CountsAreCovered
      <3> HIDE DEF n, ids
      <3>4. Cardinality(ids) >= Cardinality(Fragments[p])  BY <2>2, <3>2, <3>3
      <3>5. Cardinality(ids) <= Cardinality(Fragments[p])
            /\ (Cardinality(ids) = Cardinality(Fragments[p]) => ids = Fragments[p])
        BY <3>1, <3>2, FS_Subset
      <3> QED  BY <3>2, <3>4, <3>5 DEF ids
    <2> QED  BY <2>1, <2>2 DEF StopPolling, JoinHandlers
  <1>10. CountsAreCovered'
    BY <1>1, <1>4, <1>9 DEF CountsAreCovered
  <1> QED  BY <1>5, <1>6, <1>7, <1>8, <1>10

(* A handler moves on with the message it holds, or with the next one: the *)
(* callback returned, the message is deleted, or the batch is done.        *)
LEMMA InvHandlerMoves ==
    ASSUME ExecutorInv, NEW h \in Handlers,
           CallbackReturned(h) \/ DeleteMessage(h) \/ BatchDone(h)
    PROVE  ExecutorInv'
  <1> USE DEF ExecutorInv
  <1>1. /\ UNCHANGED <<taskState, reported, failures, invocations, attempts, running, produced,
                       processedIds, processedCount, collector>>
    BY DEF CallbackReturned, DeleteMessage, BatchDone, schedulerVars, planVars, workerVars,
           collectorVars
  <1>2. /\ inbox' \in [Pipelines -> SUBSET Messages]
        /\ \A p \in Pipelines : inbox'[p] \subseteq inbox[p]
    BY DEF CallbackReturned, DeleteMessage, BatchDone, ExecutorTypeOK
  <1>3. /\ handler' \in [Handlers -> {Free} \cup Iterating \cup Holding \cup Storing]
        /\ \A k \in Handlers \ {h} : handler'[k] = handler[k]
        /\ \/ handler'[h] = Free /\ handler'[h].pc = "free" /\ handler[h].pc = "next"
           \/ /\ handler[h] # Free /\ handler'[h] # Free
              /\ handler'[h].pipeline = handler[h].pipeline
              /\ handler'[h].messages = handler[h].messages
              /\ handler'[h].message = handler[h].message
              /\ handler'[h].dup = handler[h].dup
              /\ \/ handler[h].pc = "called" /\ handler'[h].pc = "delete"
                 \/ handler[h].pc = "delete" /\ handler'[h].pc = "load" /\ ~handler[h].dup
                 \/ handler[h].pc = "delete" /\ handler'[h].pc = "next" /\ handler[h].dup
    <2>1. CASE CallbackReturned(h)
      <3>1. handler[h].pc = "called" /\ handler' = [handler EXCEPT ![h].pc = "delete"]
        BY <2>1 DEF CallbackReturned
      <3>2. handler[h] # Free  BY <3>1, HandlerCases DEF Handling
      <3> QED  BY <3>1, <3>2, HandlerAdvanced DEF Handling
    <2>2. CASE DeleteMessage(h)
      <3> DEFINE s == IF handler[h].dup THEN "next" ELSE "load"
      <3>1. handler[h].pc = "delete" /\ handler' = [handler EXCEPT ![h].pc = s]
        BY <2>2 DEF DeleteMessage
      <3>2. handler[h] # Free  BY <3>1, HandlerCases DEF Handling
      <3>3. PICK t : t = s  OBVIOUS
      <3>4. /\ handler[h].pc \in Handling /\ t \in Handling \cup {"next"}
            /\ handler' = [handler EXCEPT ![h].pc = t]
        BY <3>1, <3>3 DEF Handling
      <3> HIDE DEF s
      <3>5. /\ handler' \in [Handlers -> {Free} \cup Iterating \cup Holding \cup Storing]
            /\ \A k \in Handlers \ {h} : handler'[k] = handler[k]
            /\ handler'[h] # Free /\ handler'[h].pc = t
            /\ handler'[h].pipeline = handler[h].pipeline
            /\ handler'[h].messages = handler[h].messages
            /\ handler'[h].message = handler[h].message
            /\ handler'[h].dup = handler[h].dup
        BY <3>4, HandlerAdvanced
      <3> QED  BY <3>1, <3>2, <3>3, <3>5 DEF s
    <2>3. CASE BatchDone(h)
      <3>1. handler[h].pc = "next" /\ handler' = [handler EXCEPT ![h] = Free]
        BY <2>3 DEF BatchDone
      <3>2. Free.pc = "free"  BY DEF Free
      <3> QED  BY <3>1, <3>2, HandlerReplaced
    <2> QED  BY <2>1, <2>2, <2>3
  <1>4. ExecutorTypeOK'  BY <1>1, <1>2, <1>3 DEF ExecutorTypeOK
  <1>5. WorkIsSubmitted'  BY <1>1, <1>3 DEF WorkIsSubmitted
  <1>6. MessagesAreGenuine'  BY <1>1, <1>2, <1>3 DEF MessagesAreGenuine, Handling
  <1>7. SuccessesAreUnique'  BY <1>1, <1>3 DEF SuccessesAreUnique, Reporting
  <1>8. CountsAreCovered'
    <2>1. \A q : Owes(handler[h], q) <=> Owes(handler'[h], q)  BY <1>3 DEF Owes, Handling
    <2>2. \A q : Uncounted(q, handler') = Uncounted(q, handler)  BY <1>3, <2>1, UncountedChange
    <2>3. \A k \in Handlers : handler'[k].pc = "store" => handler'[k] = handler[k]  BY <1>3
    <2>4. ASSUME failures = 0, NEW k \in Handlers
          PROVE  /\ handler'[k].pc \in {"called", "delete", "load"} => handler'[k].message.kind = "ok"
                 /\ handler'[k].pc = "load" => ~handler'[k].dup
      <3>1. CASE k = h  BY <1>3, <2>4, <3>1 DEF CountsAreCovered
      <3>2. CASE k # h  BY <1>3, <2>4, <3>2 DEF CountsAreCovered
      <3> QED  BY <3>1, <3>2
    <2>5. ASSUME failures = 0, NEW k \in Handlers, handler'[k].pc = "store"
          PROVE  handler'[k].count + Cardinality(Uncounted(handler'[k].pipeline, handler'))
                   <= Cardinality(processedIds[handler'[k].pipeline])
      BY <2>2, <2>3, <2>5 DEF CountsAreCovered
    <2> QED  BY <1>1, <2>2, <2>4, <2>5 DEF CountsAreCovered
  <1> QED  BY <1>4, <1>5, <1>6, <1>7, <1>8

(* The first accesses of processed_count, and the second.                  *)
LEMMA InvLoadCount ==
    ASSUME ExecutorInv, NEW h \in Handlers, LoadCount(h)
    PROVE  ExecutorInv'
  <1> USE DEF ExecutorInv
  <1>1. /\ handler[h].pc = "load"
        /\ UNCHANGED <<taskState, reported, failures, invocations, attempts, running, produced,
                       inbox, processedIds, processedCount, collector>>
    BY DEF LoadCount, schedulerVars, planVars, workerVars, collectorVars
  <1>2. PICK p, x : /\ p = handler[h].pipeline
                    /\ x = [pc |-> "store", pipeline |-> p, messages |-> handler[h].messages,
                            count |-> processedCount[p]]
    OBVIOUS
  <1>3. p \in Pipelines /\ handler[h] # Free /\ handler[h].messages \in SUBSET Messages
    BY <1>1, <1>2, HandlerCases DEF Handling
  <1>4. x \in Storing /\ x # Free  BY <1>2, <1>3 DEF Storing, Free, ExecutorTypeOK
  <1>5. /\ x.pc = "store" /\ x.pipeline = p /\ x.messages = handler[h].messages
        /\ x.count = processedCount[p]
    BY <1>2
  <1>6. /\ handler' \in [Handlers -> {Free} \cup Iterating \cup Holding \cup Storing]
        /\ handler'[h] = x /\ \A k \in Handlers \ {h} : handler'[k] = handler[k]
    <2>1. handler' = [handler EXCEPT ![h] = x]  BY <1>2 DEF LoadCount
    <2> QED  BY <1>4, <2>1, HandlerReplaced
  <1>7. ExecutorTypeOK'  BY <1>1, <1>6 DEF ExecutorTypeOK
  <1>8. WorkIsSubmitted'  BY <1>1, <1>2, <1>3, <1>5, <1>6 DEF WorkIsSubmitted
  <1>9. MessagesAreGenuine'  BY <1>1, <1>2, <1>3, <1>5, <1>6 DEF MessagesAreGenuine, Handling
  <1>10. SuccessesAreUnique'  BY <1>1, <1>5, <1>6 DEF SuccessesAreUnique, Reporting
  <1>11. CountsAreCovered'
    <2> SUFFICES ASSUME failures = 0 PROVE CountsAreCovered'  BY <1>1 DEF CountsAreCovered
    <2>1. \A q : Owes(handler[h], q) <=> Owes(handler'[h], q)
      BY <1>1, <1>2, <1>5, <1>6 DEF Owes, Handling, CountsAreCovered
    <2>2. \A q : Uncounted(q, handler') = Uncounted(q, handler)  BY <1>6, <2>1, UncountedChange
    <2>3. ASSUME NEW k \in Handlers
          PROVE  /\ handler'[k].pc \in {"called", "delete", "load"} => handler'[k].message.kind = "ok"
                 /\ handler'[k].pc = "load" => ~handler'[k].dup
      BY <1>5, <1>6 DEF CountsAreCovered
    <2>4. ASSUME NEW k \in Handlers, handler'[k].pc = "store"
          PROVE  handler'[k].count + Cardinality(Uncounted(handler'[k].pipeline, handler'))
                   <= Cardinality(processedIds[handler'[k].pipeline])
      <3>1. CASE k = h  BY <1>3, <1>5, <1>6, <2>2, <3>1 DEF CountsAreCovered
      <3>2. CASE k # h  BY <1>6, <2>2, <2>4, <3>2 DEF CountsAreCovered
      <3> QED  BY <3>1, <3>2
    <2> QED  BY <1>1, <2>2, <2>3, <2>4 DEF CountsAreCovered
  <1> QED  BY <1>7, <1>8, <1>9, <1>10, <1>11

(* A handler writes back the count it has read and incremented.            *)
LEMMA InvStoreCount ==
    ASSUME ExecutorInv, NEW h \in Handlers, StoreCount(h)
    PROVE  ExecutorInv'
  <1> USE DEF ExecutorInv
  <1>1. /\ handler[h].pc = "store"
        /\ UNCHANGED <<taskState, reported, failures, invocations, attempts, running, produced,
                       inbox, processedIds, collector>>
    BY DEF StoreCount, schedulerVars, planVars, workerVars
  <1>2. PICK p, x, n : /\ p = handler[h].pipeline /\ n = handler[h].count
                       /\ x = [pc |-> "next", pipeline |-> p, messages |-> handler[h].messages]
    OBVIOUS
  <1>3. p \in Pipelines /\ handler[h] # Free /\ handler[h].messages \in SUBSET Messages /\ n \in Nat
    BY <1>1, <1>2, HandlerCases DEF Handling
  <1>4. x \in Iterating /\ x # Free  BY <1>2, <1>3 DEF Iterating, Free
  <1>5. x.pc = "next" /\ x.pipeline = p /\ x.messages = handler[h].messages  BY <1>2
  <1>6. /\ handler' \in [Handlers -> {Free} \cup Iterating \cup Holding \cup Storing]
        /\ handler'[h] = x /\ \A k \in Handlers \ {h} : handler'[k] = handler[k]
    <2>1. handler' = [handler EXCEPT ![h] = x]  BY <1>2 DEF StoreCount
    <2> QED  BY <1>4, <2>1, HandlerReplaced
  <1>7. /\ processedCount' \in [Pipelines -> Nat] /\ processedCount'[p] = n + 1
        /\ \A q \in Pipelines \ {p} : processedCount'[q] = processedCount[q]
    BY <1>2, <1>3 DEF StoreCount, ExecutorTypeOK
  <1>8. ExecutorTypeOK'  BY <1>1, <1>6, <1>7 DEF ExecutorTypeOK
  <1>9. WorkIsSubmitted'  BY <1>1, <1>2, <1>3, <1>5, <1>6 DEF WorkIsSubmitted
  <1>10. MessagesAreGenuine'  BY <1>1, <1>2, <1>3, <1>5, <1>6 DEF MessagesAreGenuine, Handling
  <1>11. SuccessesAreUnique'  BY <1>1, <1>5, <1>6 DEF SuccessesAreUnique, Reporting
  <1>12. CountsAreCovered'
    <2> SUFFICES ASSUME failures = 0 PROVE CountsAreCovered'  BY <1>1 DEF CountsAreCovered
    <2> DEFINE U(q) == Uncounted(q, handler)
               N(q) == Uncounted(q, handler')
    <2>1. \A q : Owes(handler[h], q) <=> q = p  BY <1>1, <1>2 DEF Owes, Handling
    <2>2. \A q : ~Owes(handler'[h], q)  BY <1>5, <1>6 DEF Owes, Handling
    <2>3. \A q \in Pipelines \ {p} : N(q) = U(q)  BY <1>6, <2>1, <2>2, UncountedChange
    <2>4. N(p) = U(p) \ {h} /\ h \in U(p)  BY <1>6, <2>1, <2>2, UncountedChange
    <2>5. Cardinality(N(p)) = Cardinality(U(p)) - 1 /\ Cardinality(N(p)) \in Nat
      BY <1>3, <2>4, FiniteCounts, FS_RemoveElement
    <2>6. \A q \in Pipelines : Cardinality(U(q)) \in Nat /\ Cardinality(processedIds[q]) \in Nat
      BY FiniteCounts DEF SuccessesAreUnique
    <2>7. ASSUME NEW k \in Handlers
          PROVE  /\ handler'[k].pc \in {"called", "delete", "load"} => handler'[k].message.kind = "ok"
                 /\ handler'[k].pc = "load" => ~handler'[k].dup
      BY <1>5, <1>6 DEF CountsAreCovered
    <2>8. /\ n + Cardinality(U(p)) <= Cardinality(processedIds[p])
          /\ \A q \in Pipelines : processedCount[q] + Cardinality(U(q)) <= Cardinality(processedIds[q])
      BY <1>1, <1>2 DEF CountsAreCovered
    <2>9. ASSUME NEW k \in Handlers, handler'[k].pc = "store"
          PROVE  handler'[k].count + Cardinality(Uncounted(handler'[k].pipeline, handler'))
                   <= Cardinality(processedIds[handler'[k].pipeline])
      <3>1. k # h /\ handler'[k] = handler[k]  BY <1>5, <1>6, <2>9
      <3>2. PICK q, m : q = handler[k].pipeline /\ m = handler[k].count  OBVIOUS
      <3>3. q \in Pipelines /\ m \in Nat  BY <2>9, <3>1, <3>2, HandlerCases DEF Handling
      <3>4. m + Cardinality(U(q)) <= Cardinality(processedIds[q])
        BY <2>9, <3>1, <3>2 DEF CountsAreCovered
      <3> HIDE DEF U, N
      <3>5. CASE q = p
        <4>1. m + Cardinality(N(q)) <= Cardinality(processedIds[q])
          BY <2>5, <2>6, <3>3, <3>4, <3>5
        <4> QED  BY <3>1, <3>2, <4>1 DEF N
      <3>6. CASE q # p  BY <2>3, <3>1, <3>2, <3>3, <3>4, <3>6 DEF N
      <3> QED  BY <3>5, <3>6
    <2>10. ASSUME NEW q \in Pipelines
           PROVE  processedCount'[q] + Cardinality(N(q)) <= Cardinality(processedIds[q])
      <3> HIDE DEF U, N
      <3>1. CASE q = p  BY <1>3, <1>7, <2>5, <2>6, <2>8, <3>1
      <3>2. CASE q # p  BY <1>7, <2>3, <2>8, <3>2
      <3> QED  BY <3>1, <3>2
    <2>11. \A q \in Pipelines : collector[q] \in {"joining", "ended"} => processedIds[q] = Fragments[q]
      BY DEF CountsAreCovered
    <2> QED  BY <1>1, <2>7, <2>9, <2>10, <2>11 DEF CountsAreCovered
  <1> QED  BY <1>8, <1>9, <1>10, <1>11, <1>12

(* Deduplication: a success whose id is new becomes this handler's alone   *)
(* to report, and a count it owes.                                         *)
LEMMA InvDedup ==
    ASSUME ExecutorInv, NEW h \in Handlers, Dedup(h)
    PROVE  ExecutorInv'
  <1> USE DEF ExecutorInv
  <1>1. /\ handler[h].pc = "next"
        /\ UNCHANGED <<taskState, reported, failures, invocations, attempts, running, produced,
                       inbox, processedCount, collector>>
    BY DEF Dedup, schedulerVars, planVars, workerVars
  <1>2. PICK p, ids : p = handler[h].pipeline /\ ids = processedIds[p]  OBVIOUS
  <1>3. PICK m \in handler[h].messages :
          /\ processedIds' =
               [processedIds EXCEPT ![p] = IF m.kind = "ok" THEN @ \cup {m.fragment} ELSE @]
          /\ handler' =
               [handler EXCEPT ![h] =
                  [pc |-> IF m.kind = "ok" /\ m.fragment \in ids THEN "delete" ELSE "report",
                   pipeline |-> p, messages |-> @.messages \ {m}, message |-> m,
                   dup |-> (m.kind = "ok" /\ m.fragment \in ids)]]
    BY <1>2 DEF Dedup
  <1>4. PICK dup, x :
          /\ dup = (m.kind = "ok" /\ m.fragment \in ids)
          /\ x = [pc |-> IF dup THEN "delete" ELSE "report", pipeline |-> p,
                  messages |-> handler[h].messages \ {m}, message |-> m, dup |-> dup]
    OBVIOUS
  <1>5. p \in Pipelines /\ handler[h] # Free /\ handler[h].messages \in SUBSET Messages
    BY <1>1, <1>2, HandlerCases DEF Handling
  <1>6. x \in Holding /\ x # Free /\ x.pc \in {"delete", "report"}
    BY <1>4, <1>5 DEF Holding, Handling, Free
  <1>7. /\ x.pc = (IF dup THEN "delete" ELSE "report") /\ x.pipeline = p
        /\ x.messages = handler[h].messages \ {m} /\ x.message = m /\ x.dup = dup
    BY <1>4
  <1>8. dup \in BOOLEAN /\ (dup <=> m.kind = "ok" /\ m.fragment \in ids)  BY <1>4
  <1>9. /\ handler' \in [Handlers -> {Free} \cup Iterating \cup Holding \cup Storing]
        /\ handler'[h] = x /\ \A k \in Handlers \ {h} : handler'[k] = handler[k]
    <2>1. handler' = [handler EXCEPT ![h] = x]  BY <1>3, <1>4
    <2> QED  BY <1>6, <2>1, HandlerReplaced
  <1>10. /\ m \in Messages /\ Genuine(p, m, produced) /\ m.fragment \in Fragments[p]
         /\ m.fragment \in Scheduler!AnyFragment
    BY <1>2, <1>5 DEF MessagesAreGenuine, Genuine, Messages
  <1>11. /\ processedIds' \in [Pipelines -> SUBSET Scheduler!AnyFragment]
         /\ processedIds'[p] = IF m.kind = "ok" THEN ids \cup {m.fragment} ELSE ids
         /\ \A q \in Pipelines \ {p} : processedIds'[q] = processedIds[q]
         /\ \A q \in Pipelines : processedIds[q] \subseteq processedIds'[q]
         /\ ids \subseteq Fragments[p]
         /\ \A q \in Pipelines : processedIds'[q] \subseteq Fragments[q]
    BY <1>2, <1>3, <1>5, <1>10 DEF ExecutorTypeOK, SuccessesAreUnique
  <1>12. ExecutorTypeOK'  BY <1>1, <1>9, <1>11 DEF ExecutorTypeOK
  <1>13. WorkIsSubmitted'  BY <1>1, <1>2, <1>5, <1>7, <1>9 DEF WorkIsSubmitted
  <1>14. MessagesAreGenuine'
    <2>1. ASSUME NEW k \in Handlers, handler'[k] # Free, NEW e \in handler'[k].messages
          PROVE  Genuine(handler'[k].pipeline, e, produced)
      BY <1>2, <1>5, <1>7, <1>9, <2>1 DEF MessagesAreGenuine
    <2>2. ASSUME NEW k \in Handlers, handler'[k].pc \in Handling
          PROVE  Genuine(handler'[k].pipeline, handler'[k].message, produced)
      BY <1>7, <1>9, <1>10, <2>2 DEF MessagesAreGenuine
    <2> QED  BY <1>1, <2>1, <2>2 DEF MessagesAreGenuine
  <1>15. \A k \in Handlers : Reporting(handler[k]) => handler[k].pipeline \in Pipelines
    BY HandlerCases DEF Reporting, Handling
  <1>16. Reporting(x) => /\ m.kind = "ok" /\ m.fragment \notin ids /\ m.fragment \in processedIds'[p]
                         /\ <<p, m.fragment>> \notin reported
    <2>1. Reporting(x) => m.kind = "ok" /\ m.fragment \notin ids
      BY <1>7, <1>8 DEF Reporting
    <2>2. m.fragment \notin ids => <<p, m.fragment>> \notin reported
      BY <1>2 DEF SuccessesAreUnique
    <2> QED  BY <1>11, <2>1, <2>2
  <1>17. SuccessesAreUnique'
    <2>1. \A r \in reported : r[2] \in processedIds'[r[1]] /\ r \in produced
      <3>1. \A r \in reported : r \in Work  BY DEF SuccessesAreUnique, ExecutorTypeOK
      <3> QED  BY <1>11, <3>1, WorkPairs DEF SuccessesAreUnique
    <2>2. ASSUME NEW k \in Handlers, Reporting(handler'[k])
          PROVE  /\ handler'[k].message.fragment \in processedIds'[handler'[k].pipeline]
                 /\ <<handler'[k].pipeline, handler'[k].message.fragment>> \notin reported
      <3>1. CASE k = h  BY <1>7, <1>9, <1>16, <2>2, <3>1
      <3>2. CASE k # h  BY <1>9, <1>11, <1>15, <2>2, <3>2 DEF SuccessesAreUnique
      <3> QED  BY <3>1, <3>2
    <2>3. ASSUME NEW k \in Handlers \ {h}, Reporting(handler[k]), Reporting(x)
          PROVE  <<handler[k].pipeline, handler[k].message.fragment>> # <<p, m.fragment>>
      BY <1>2, <1>16, <2>3 DEF SuccessesAreUnique
    <2>4. ASSUME NEW j \in Handlers, NEW k \in Handlers, j # k, Reporting(handler'[j]),
                 Reporting(handler'[k])
          PROVE  <<handler'[j].pipeline, handler'[j].message.fragment>>
                   # <<handler'[k].pipeline, handler'[k].message.fragment>>
      <3>1. CASE j = h  BY <1>7, <1>9, <2>3, <2>4, <3>1
      <3>2. CASE k = h  BY <1>7, <1>9, <2>3, <2>4, <3>2
      <3>3. CASE j # h /\ k # h  BY <1>9, <2>4, <3>3 DEF SuccessesAreUnique
      <3> QED  BY <3>1, <3>2, <3>3
    <2> QED  BY <1>1, <1>11, <2>1, <2>2, <2>4 DEF SuccessesAreUnique
  <1>18. CountsAreCovered'
    <2> SUFFICES ASSUME failures = 0 PROVE CountsAreCovered'  BY <1>1 DEF CountsAreCovered
    <2> DEFINE U(q) == Uncounted(q, handler)
               N(q) == Uncounted(q, handler')
               I(q) == Cardinality(processedIds[q])
               J(q) == Cardinality(processedIds'[q])
    <2>1. \A q : ~Owes(handler[h], q)  BY <1>1 DEF Owes, Handling
    <2>2. \A q : Owes(handler'[h], q) <=> q = p /\ ~dup /\ m.kind = "ok"
      BY <1>6, <1>7, <1>9 DEF Owes, Handling
    <2>3. \A q \in Pipelines : /\ Cardinality(U(q)) \in Nat /\ I(q) \in Nat
                               /\ Cardinality(N(q)) \in Nat /\ J(q) \in Nat
                               /\ processedCount[q] \in Nat
                               /\ IsFiniteSet(processedIds[q]) /\ IsFiniteSet(U(q))
      BY <1>11, FiniteCounts DEF SuccessesAreUnique, ExecutorTypeOK
    <2>4. ASSUME NEW q \in Pipelines
          PROVE  \/ Cardinality(N(q)) = Cardinality(U(q)) + 1 /\ J(q) = I(q) + 1
                 \/ N(q) = U(q) /\ J(q) = I(q)
      <3>1. CASE q # p  BY <1>9, <1>11, <2>1, <2>2, <3>1, UncountedChange
      <3>2. CASE q = p /\ ~dup /\ m.kind = "ok"
        <4>1. N(p) = U(p) \cup {h} /\ h \notin U(p)  BY <1>9, <2>1, <2>2, <3>2, UncountedChange
        <4>2. processedIds'[p] = processedIds[p] \cup {m.fragment} /\ m.fragment \notin processedIds[p]
          BY <1>2, <1>8, <1>11, <3>2
        <4>3. Cardinality(U(p) \cup {h}) = Cardinality(U(p)) + 1
          BY <1>5, <2>3, <4>1, FS_AddElement
        <4>4. Cardinality(processedIds[p] \cup {m.fragment}) = Cardinality(processedIds[p]) + 1
          BY <1>5, <2>3, <4>2, FS_AddElement
        <4> QED  BY <3>2, <4>1, <4>2, <4>3, <4>4
      <3>3. CASE q = p /\ (dup \/ m.kind # "ok")
        <4>1. N(p) = U(p)  BY <1>9, <2>1, <2>2, <3>3, UncountedChange
        <4>2. processedIds'[p] = processedIds[p]  BY <1>2, <1>8, <1>11, <3>3
        <4> QED  BY <3>3, <4>1, <4>2
      <3> QED  BY <3>1, <3>2, <3>3
    <2>5. ASSUME NEW k \in Handlers
          PROVE  /\ handler'[k].pc \in {"called", "delete", "load"} => handler'[k].message.kind = "ok"
                 /\ handler'[k].pc = "load" => ~handler'[k].dup
      BY <1>7, <1>8, <1>9 DEF CountsAreCovered
    <2>6. ASSUME NEW q \in Pipelines
          PROVE  processedCount[q] + Cardinality(N(q)) <= J(q)
      <3>1. processedCount[q] + Cardinality(U(q)) <= I(q)  BY DEF CountsAreCovered
      <3> HIDE DEF U, N, I, J
      <3> QED  BY <2>3, <2>4, <3>1
    <2>7. ASSUME NEW k \in Handlers, handler'[k].pc = "store"
          PROVE  handler'[k].count + Cardinality(Uncounted(handler'[k].pipeline, handler'))
                   <= Cardinality(processedIds'[handler'[k].pipeline])
      <3>1. k # h /\ handler'[k] = handler[k]  BY <1>6, <1>9, <2>7
      <3>2. PICK q, n : q = handler[k].pipeline /\ n = handler[k].count  OBVIOUS
      <3>3. q \in Pipelines /\ n \in Nat  BY <2>7, <3>1, <3>2, HandlerCases DEF Handling
      <3>4. n + Cardinality(U(q)) <= I(q)  BY <2>7, <3>1, <3>2 DEF CountsAreCovered
      <3> HIDE DEF U, N, I, J
      <3>5. n + Cardinality(N(q)) <= J(q)  BY <2>3, <2>4, <3>3, <3>4
      <3> QED  BY <3>1, <3>2, <3>5 DEF N, J
    <2>8. ASSUME NEW q \in Pipelines, collector[q] \in {"joining", "ended"}
          PROVE  processedIds'[q] = Fragments[q]
      <3>1. processedIds[q] = Fragments[q]  BY <2>8 DEF CountsAreCovered
      <3> QED  BY <1>11, <3>1
    <2> QED  BY <1>1, <2>5, <2>6, <2>7, <2>8 DEF CountsAreCovered
  <1> QED  BY <1>12, <1>13, <1>14, <1>17, <1>18

(* A handler reports its message to the scheduler, or fails an assertion.  *)
LEMMA InvReport ==
    ASSUME ExecutorInv, failures \in Nat, NEW h \in Handlers, Report(h)
    PROVE  ExecutorInv'
  <1> USE DEF ExecutorInv
  <1>1. /\ handler[h].pc = "report"
        /\ UNCHANGED <<invocations, attempts, running, produced, inbox, processedIds,
                       processedCount, collector>>
    BY DEF Report, workerVars, collectorVars
  <1>2. PICK p, m : p = handler[h].pipeline /\ m = handler[h].message  OBVIOUS
  <1>3. p \in Pipelines /\ handler[h] # Free  BY <1>1, <1>2, HandlerCases DEF Handling
  <1>4. CASE m.kind = "malformed"
    <2>1. UNCHANGED <<taskState, reported, failures, handler>>
      BY <1>2, <1>4 DEF Report, planVars
    <2>2. ExecutorTypeOK'  BY <1>1, <2>1 DEF ExecutorTypeOK
    <2>3. WorkIsSubmitted'  BY <1>1, <2>1 DEF WorkIsSubmitted
    <2>4. MessagesAreGenuine'  BY <1>1, <2>1 DEF MessagesAreGenuine
    <2>5. SuccessesAreUnique'  BY <1>1, <2>1 DEF SuccessesAreUnique
    <2>6. CountsAreCovered'  BY <1>1, <2>1 DEF CountsAreCovered
    <2> QED  BY <2>2, <2>3, <2>4, <2>5, <2>6
  <1>5. CASE m.kind # "malformed"
    <2> DEFINE ok == m.kind = "ok"
    <2>1. /\ taskState' = taskState
          /\ reported' = IF ok THEN reported \cup {<<p, m.fragment>>} ELSE reported
          /\ failures' = IF ok THEN failures ELSE failures + 1
          /\ handler' = [handler EXCEPT ![h].pc = "called"]
      BY <1>2, <1>5 DEF Report, Scheduler!BeginCallback, Scheduler!schedulerVars
    <2>2. /\ handler' \in [Handlers -> {Free} \cup Iterating \cup Holding \cup Storing]
          /\ \A k \in Handlers \ {h} : handler'[k] = handler[k]
          /\ handler'[h] # Free /\ handler'[h].pc = "called"
          /\ handler'[h].pipeline = p /\ handler'[h].messages = handler[h].messages
          /\ handler'[h].message = m /\ handler'[h].dup = handler[h].dup
      BY <1>1, <1>2, <2>1, HandlerAdvanced DEF Handling
    <2>3. Genuine(p, m, produced)  BY <1>1, <1>2 DEF MessagesAreGenuine, Handling
    <2>4. Reporting(handler[h]) <=> ok  BY <1>1, <1>2 DEF Reporting
    <2>5. ExecutorTypeOK'  BY <1>1, <2>2 DEF ExecutorTypeOK
    <2>6. WorkIsSubmitted'  BY <1>1, <1>2, <1>3, <2>1, <2>2 DEF WorkIsSubmitted
    <2>7. MessagesAreGenuine'
      BY <1>1, <1>2, <1>3, <2>2, <2>3 DEF MessagesAreGenuine
    <2>8. SuccessesAreUnique'
      <3>1. ASSUME NEW r \in reported' PROVE r[2] \in processedIds[r[1]] /\ r \in produced
        <4>1. CASE r \in reported  BY <4>1 DEF SuccessesAreUnique
        <4>2. CASE r = <<p, m.fragment>> /\ ok
          BY <1>2, <2>3, <2>4, <4>2 DEF SuccessesAreUnique, Genuine
        <4> QED  BY <2>1, <3>1, <4>1, <4>2
      <3>2. \A k \in Handlers : Reporting(handler'[k]) => k # h /\ handler'[k] = handler[k]
        BY <2>2 DEF Reporting
      <3>3. ASSUME NEW k \in Handlers, Reporting(handler'[k])
            PROVE  /\ handler'[k].message.fragment \in processedIds[handler'[k].pipeline]
                   /\ <<handler'[k].pipeline, handler'[k].message.fragment>> \notin reported'
        <4>1. k # h /\ handler'[k] = handler[k]  BY <3>2, <3>3
        <4>2. ok => <<handler[k].pipeline, handler[k].message.fragment>> # <<p, m.fragment>>
          BY <1>2, <2>4, <3>3, <4>1 DEF SuccessesAreUnique
        <4> QED  BY <2>1, <3>3, <4>1, <4>2 DEF SuccessesAreUnique
      <3>4. ASSUME NEW j \in Handlers, NEW k \in Handlers, j # k, Reporting(handler'[j]),
                   Reporting(handler'[k])
            PROVE  <<handler'[j].pipeline, handler'[j].message.fragment>>
                     # <<handler'[k].pipeline, handler'[k].message.fragment>>
        BY <3>2, <3>4 DEF SuccessesAreUnique
      <3> QED  BY <1>1, <3>1, <3>3, <3>4 DEF SuccessesAreUnique
    <2>9. CountsAreCovered'
      <3> SUFFICES ASSUME failures' = 0 PROVE CountsAreCovered'  BY DEF CountsAreCovered
      <3>1. ok /\ failures = 0  BY <2>1
      <3>2. \A q : Owes(handler[h], q) <=> Owes(handler'[h], q)
        BY <1>1, <1>2, <2>2 DEF Owes, Handling
      <3>3. \A q : Uncounted(q, handler') = Uncounted(q, handler)  BY <2>2, <3>2, UncountedChange
      <3>4. ASSUME NEW k \in Handlers
            PROVE  /\ handler'[k].pc \in {"called", "delete", "load"} => handler'[k].message.kind = "ok"
                   /\ handler'[k].pc = "load" => ~handler'[k].dup
        BY <2>2, <3>1 DEF CountsAreCovered
      <3>5. ASSUME NEW k \in Handlers, handler'[k].pc = "store"
            PROVE  handler'[k].count + Cardinality(Uncounted(handler'[k].pipeline, handler'))
                     <= Cardinality(processedIds[handler'[k].pipeline])
        BY <2>2, <3>1, <3>3, <3>5 DEF CountsAreCovered
      <3> QED  BY <1>1, <3>1, <3>3, <3>4, <3>5 DEF CountsAreCovered
    <2> QED  BY <2>5, <2>6, <2>7, <2>8, <2>9
  <1> QED  BY <1>4, <1>5

-----------------------------------------------------------------------------
(* SP and Scheduler instantiate the same module, one with and one without  *)
(* its theorems.                                                           *)
LEMMA SameSets ==
    /\ \A S : SP!IsFiniteSet(S) <=> IsFiniteSet(S)
    /\ \A S : SP!Cardinality(S) = Scheduler!Cardinality(S)
  <1>1. \A S : SP!IsFiniteSet(S) <=> IsFiniteSet(S)  BY DEF SP!IsFiniteSet, IsFiniteSet
  <1>2. \A S : SP!Cardinality(S) = Scheduler!Cardinality(S)
    BY DEF SP!Cardinality, Scheduler!Cardinality
  <1> QED  BY <1>1, <1>2

(* The scheduler's assumptions follow from those of the executor.          *)
LEMMA SPAssumption ==
    /\ SP!IsFiniteSet(Pipelines)
    /\ Predecessors \in [Pipelines -> SUBSET Pipelines]
    /\ \A p \in Pipelines : SP!IsFiniteSet(Fragments[p]) /\ Fragments[p] # {}
    /\ MaxFailures \in Nat
    /\ AwsMayThrow \in BOOLEAN
  BY PlanAssumption, SameSets

(* The two instances of the scheduler agree: initial states,               *)
LEMMA SameInit == SP!Init <=> Scheduler!Init
  BY SameSets, Zenon DEF SP!Init, Scheduler!Init, SP!Idle, Scheduler!Idle

(* the steps of the main thread,                                           *)
LEMMA SameMainStep == SP!MainStep <=> Scheduler!MainStep
  BY Zenon DEF SP!MainStep, Scheduler!MainStep, SP!StartExecution, Scheduler!StartExecution,
     SP!StartExecutionThrows, Scheduler!StartExecutionThrows, SP!ExecutionDone,
     Scheduler!ExecutionDone, SP!Respond, Scheduler!Respond, SP!Submitted, Scheduler!Submitted,
     SP!Ready, Scheduler!Ready, SP!AllTasksFinished, Scheduler!AllTasksFinished,
     SP!schedulerVars, Scheduler!schedulerVars, SP!mainVars, Scheduler!mainVars

(* the steps of a callback,                                                *)
LEMMA SameCallbackStep ==
    ASSUME NEW c
    PROVE  SP!CallbackStep(c) <=> Scheduler!CallbackStep(c)
  <1> USE DEF SP!schedulerVars, Scheduler!schedulerVars, SP!mainVars, Scheduler!mainVars,
              SP!Idle, Scheduler!Idle, SP!Successors, Scheduler!Successors
  <1>1. SP!SetError(c) <=> Scheduler!SetError(c)  BY Zenon DEF SP!SetError, Scheduler!SetError
  <1>2. SP!CountFragment(c) <=> Scheduler!CountFragment(c)
    BY Zenon DEF SP!CountFragment, Scheduler!CountFragment, SP!Submitted, Scheduler!Submitted,
       SP!Ready, Scheduler!Ready
  <1>3. SP!SubmitThrows(c) <=> Scheduler!SubmitThrows(c)
    BY Zenon DEF SP!SubmitThrows, Scheduler!SubmitThrows
  <1>4. SP!UseAfterDestruction(c) <=> Scheduler!UseAfterDestruction(c)
    BY Zenon DEF SP!UseAfterDestruction, Scheduler!UseAfterDestruction
  <1> QED  BY <1>1, <1>2, <1>3, <1>4 DEF SP!CallbackStep, Scheduler!CallbackStep

(* and so the next-state relation.                                         *)
LEMMA SameNext == SP!Next <=> Scheduler!Next
  <1>1. \A c : SP!ExecutorReports(c) <=> Scheduler!ExecutorReports(c)
    BY Zenon DEF SP!ExecutorReports, Scheduler!ExecutorReports, SP!BeginCallback,
       Scheduler!BeginCallback, SP!schedulerVars, Scheduler!schedulerVars, SP!mainVars,
       Scheduler!mainVars, SP!Idle, Scheduler!Idle
  <1>2. SP!ExecutorThrows <=> Scheduler!ExecutorThrows
    BY Zenon DEF SP!ExecutorThrows, Scheduler!ExecutorThrows, SP!schedulerVars,
       Scheduler!schedulerVars, SP!mainVars, Scheduler!mainVars
  <1>3. SP!Terminated <=> Scheduler!Terminated
    BY Zenon DEF SP!Terminated, Scheduler!Terminated, SP!Idle, Scheduler!Idle, SP!vars,
       Scheduler!vars, SP!schedulerVars, Scheduler!schedulerVars, SP!mainVars, Scheduler!mainVars
  <1>4. \A c : SP!CallbackStep(c) <=> Scheduler!CallbackStep(c)  BY SameCallbackStep
  <1> QED  BY <1>1, <1>2, <1>3, <1>4, SameMainStep, Zenon DEF SP!Next, Scheduler!Next

-----------------------------------------------------------------------------
(* The inductive invariant: the scheduler's and the executor's.            *)
Inv == SP!TypeOK /\ SP!SchedulerInv /\ ExecutorInv

(* Every step of the query is one of the scheduler or leaves its state     *)
(* alone.  A handler's report is one that the contract allows: the         *)
(* pipeline is submitted, and a success is new.                            *)
LEMMA StepSimulation ==
    ASSUME Inv, [Next]_vars
    PROVE  [Scheduler!Next]_Scheduler!vars
  <1> USE DEF Scheduler!vars, Scheduler!schedulerVars, Scheduler!mainVars
  <1>1. CASE MainStep  BY <1>1 DEF MainStep, Scheduler!Next
  <1>2. ASSUME NEW h \in Handlers, CallbackStep(h) PROVE Scheduler!Next
    BY <1>2 DEF CallbackStep, Scheduler!Next
  <1>3. ASSUME NEW h \in Handlers, ~crashed, Report(h) PROVE Scheduler!Next
    <2>1. PICK p, m : p = handler[h].pipeline /\ m = handler[h].message  OBVIOUS
    <2>2. handler[h].pc = "report"  BY <1>3 DEF Report
    <2>3. p \in Pipelines /\ handler[h] # Free
      BY <2>1, <2>2, HandlerCases DEF Inv, ExecutorInv, Handling
    <2>4. taskState[p] # "kWaiting" /\ m.fragment \in Fragments[p]
      BY <2>1, <2>2, <2>3
         DEF Inv, ExecutorInv, WorkIsSubmitted, MessagesAreGenuine, Genuine, Handling
    <2>5. m.kind = "ok" => <<p, m.fragment>> \notin reported
      BY <2>1, <2>2 DEF Inv, ExecutorInv, SuccessesAreUnique, Reporting
    <2>6. CASE m.kind = "malformed"
      <3>1. /\ crashed' = TRUE
            /\ UNCHANGED <<taskState, fragmentsLeft, predsLeft, results, error, main, response,
                           call, reported, failures, dangling>>
        BY <1>3, <2>1, <2>6 DEF Report, planVars, mainVars
      <3>2. Scheduler!ExecutorThrows  BY <3>1 DEF Scheduler!ExecutorThrows
      <3> QED  BY <1>3, <3>2 DEF Scheduler!Next
    <2>7. CASE m.kind # "malformed"
      <3>1. /\ m.kind = "ok" \/ failures < MaxFailures
            /\ Scheduler!BeginCallback(h, p, m.fragment, m.kind = "ok")
        BY <1>3, <2>1, <2>7 DEF Report
      <3>2. PICK ok \in BOOLEAN : ok = (m.kind = "ok")  OBVIOUS
      <3>3. /\ IF ok THEN <<p, m.fragment>> \notin reported ELSE failures < MaxFailures
            /\ Scheduler!BeginCallback(h, p, m.fragment, ok)
        BY <2>5, <3>1, <3>2
      <3>4. Scheduler!ExecutorReports(h)  BY <2>3, <2>4, <3>3 DEF Scheduler!ExecutorReports
      <3> QED  BY <1>3, <3>4 DEF Scheduler!Next
    <2> QED  BY <2>6, <2>7
  <1>4. CASE UNCHANGED schedulerVars
    BY <1>4 DEF schedulerVars, planVars, mainVars
  <1>5. ASSUME NEW h \in Handlers, HandlerStep(h), ~Report(h) PROVE UNCHANGED schedulerVars
    BY <1>5 DEF HandlerStep, Dedup, CallbackReturned, DeleteMessage, LoadCount, StoreCount, BatchDone
  <1>6. ASSUME NEW p \in Pipelines, CollectorStep(p) PROVE UNCHANGED schedulerVars
    BY <1>6 DEF CollectorStep, Receive, StopPolling, JoinHandlers
  <1>7. ASSUME NEW w \in Work, WorkerStep(w) \/ LoseInvocation(w) \/ RetryInvocation(w)
        PROVE  UNCHANGED schedulerVars
    BY <1>7 DEF WorkerStep, StartWorker, FinishWorker, LoseInvocation, RetryInvocation
  <1>8. CASE UNCHANGED vars  BY <1>4, <1>8 DEF vars
  <1> QED  BY <1>1, <1>2, <1>3, <1>4, <1>5, <1>6, <1>7, <1>8 DEF Next, Terminated

(* Every step keeps the invariant.                                         *)
LEMMA InvNext == Inv /\ [Next]_vars => Inv'
  <1> SUFFICES ASSUME Inv, [Next]_vars PROVE Inv'  OBVIOUS
  <1> USE DEF Inv
  <1>1. SP!TypeOK' /\ SP!SchedulerInv'
    <2>1. [SP!Next]_SP!vars
      <3>1. UNCHANGED Scheduler!vars => UNCHANGED SP!vars
        BY DEF SP!vars, Scheduler!vars, SP!schedulerVars, Scheduler!schedulerVars, SP!mainVars,
           Scheduler!mainVars
      <3> QED  BY <3>1, StepSimulation, SameNext
    <2> QED  BY <2>1, SPAssumption, SP!InvNext
  <1>2. ExecutorInv'
    <2>1. ASSUME MainStep \/ \E h \in Handlers : CallbackStep(h) PROVE ExecutorInv'
      <3>1. SP!MainStep \/ \E h \in Handlers : SP!CallbackStep(h)
        BY <2>1, SameMainStep, SameCallbackStep DEF MainStep, CallbackStep
      <3>2. \A p \in Pipelines : taskState[p] # "kWaiting" => taskState'[p] # "kWaiting"
        BY <3>1, SPAssumption, SP!SubmittedStays
      <3>3. UNCHANGED <<reported, failures>>
        BY <2>1 DEF MainStep, CallbackStep, Scheduler!MainStep, Scheduler!StartExecution,
           Scheduler!StartExecutionThrows, Scheduler!ExecutionDone, Scheduler!Respond,
           Scheduler!CallbackStep, Scheduler!SetError, Scheduler!CountFragment,
           Scheduler!SubmitThrows, Scheduler!UseAfterDestruction
      <3>4. /\ LaunchSubmitted
            /\ UNCHANGED <<attempts, running, produced, processedIds, processedCount, handler>>
            /\ inbox' = inbox \/ inbox' = [p \in Pipelines |-> {}]
        BY <2>1 DEF MainStep, CallbackStep, DeleteQueues
      <3> QED  BY <3>2, <3>3, <3>4, InvSchedulerStep
    <2>2. ASSUME NEW h \in Handlers, HandlerStep(h) PROVE ExecutorInv'
      <3>1. failures \in Nat  BY DEF SP!TypeOK
      <3>2. CASE Report(h)  BY <3>1, <3>2, InvReport
      <3>3. CASE Dedup(h)  BY <3>3, InvDedup
      <3>4. CASE LoadCount(h)  BY <3>4, InvLoadCount
      <3>5. CASE StoreCount(h)  BY <3>5, InvStoreCount
      <3>6. CASE CallbackReturned(h) \/ DeleteMessage(h) \/ BatchDone(h)
        BY <3>6, InvHandlerMoves
      <3> QED  BY <2>2, <3>2, <3>3, <3>4, <3>5, <3>6 DEF HandlerStep
    <2>3. ASSUME NEW p \in Pipelines, CollectorStep(p) PROVE ExecutorInv'
      BY <2>3, InvReceive, InvCollector DEF CollectorStep
    <2>4. ASSUME NEW w \in Work, WorkerStep(w) \/ LoseInvocation(w) \/ RetryInvocation(w)
          PROVE  ExecutorInv'
      BY <2>4, InvInvocation, InvFinishWorker DEF WorkerStep
    <2>5. ASSUME UNCHANGED vars PROVE ExecutorInv'
      <3>1. UNCHANGED <<taskState, reported, failures, invocations, attempts, running, produced,
                        inbox, processedIds, processedCount, collector, handler>>
        BY <2>5 DEF vars, schedulerVars, planVars, workerVars, collectorVars
      <3>2. ExecutorTypeOK'  BY <3>1 DEF ExecutorInv, ExecutorTypeOK
      <3>3. WorkIsSubmitted'  BY <3>1 DEF ExecutorInv, WorkIsSubmitted
      <3>4. MessagesAreGenuine'  BY <3>1 DEF ExecutorInv, MessagesAreGenuine
      <3>5. SuccessesAreUnique'  BY <3>1 DEF ExecutorInv, SuccessesAreUnique
      <3>6. CountsAreCovered'  BY <3>1 DEF ExecutorInv, CountsAreCovered
      <3> QED  BY <3>2, <3>3, <3>4, <3>5, <3>6 DEF ExecutorInv
    <2> QED  BY <2>1, <2>2, <2>3, <2>4, <2>5 DEF Next, Terminated
  <1> QED  BY <1>1, <1>2

(* The inductive invariant holds in every reachable state.                 *)
THEOREM ExecutorInvariant == Spec => []Inv
  <1>1. Init => Inv
    <2>1. ASSUME Init PROVE SP!TypeOK /\ SP!SchedulerInv
      <3>1. SP!Init  BY <2>1, SameInit DEF Init
      <3> QED  BY <3>1, SPAssumption, SP!InvInit
    <2> QED  BY <2>1, ExecutorInvInit DEF Inv
  <1> QED  BY <1>1, InvNext, PTL DEF Spec

-----------------------------------------------------------------------------
(* The executor keeps the contract the scheduler relies on: the query is   *)
(* an execution of PqpPipelineScheduler, however often Lambda runs a       *)
(* worker, SQS delivers its response and handlers race to deduplicate it.  *)
THEOREM ExecutorKeepsContract == Spec => KeepsContract
  <1>1. Init => Scheduler!Init  BY DEF Init
  <1>2. Inv /\ [Next]_vars => [Scheduler!Next]_Scheduler!vars  BY StepSimulation
  <1> QED  BY <1>1, <1>2, ExecutorInvariant, PTL DEF Spec, KeepsContract, Scheduler!Spec

(* The output behind every success that the scheduler counted was written. *)
LEMMA SucceededIsProduced ==
    ASSUME Inv, NEW q \in Pipelines, SP!Succeeded(q) = Fragments[q]
    PROVE  {q} \X Fragments[q] \subseteq produced
  <1>1. \A f \in SP!Succeeded(q) : <<q, f>> \in reported
    BY DEF Inv, SP!SchedulerInv, SP!ReportsAreUnique
  <1>2. \A r \in reported : r \in produced  BY DEF Inv, ExecutorInv, SuccessesAreUnique
  <1> QED  BY <1>1, <1>2

(* A result is returned only after every worker has written its output.    *)
THEOREM ResultsAreProduced == Spec => []ResultIsProduced
  <1>1. Inv => ResultIsProduced
    <2> SUFFICES ASSUME Inv, response = "result" PROVE produced = Work
      BY DEF ResultIsProduced
    <2>1. \A q \in Pipelines : SP!Succeeded(q) = Fragments[q]
      BY DEF Inv, SP!SchedulerInv, SP!ResponseIsJustified
    <2>2. \A q \in Pipelines : {q} \X Fragments[q] \subseteq produced
      BY <2>1, SucceededIsProduced
    <2>3. Work \subseteq produced  BY <2>2 DEF Work
    <2> QED  BY <2>3 DEF Inv, ExecutorInv, ExecutorTypeOK
  <1> QED  BY <1>1, ExecutorInvariant, PTL

(* As long as the query has no error, a worker runs only after everything  *)
(* its pipeline reads has been written, recursive and repeated invocations *)
(* included.                                                               *)
THEOREM ConsumersFollowProducers == Spec => []ConsumerAfterProducer
  <1>1. Inv => ConsumerAfterProducer
    <2> SUFFICES ASSUME Inv, ~error, NEW w \in running, NEW q \in Predecessors[w[1]]
                 PROVE  {q} \X Fragments[q] \subseteq produced
      BY DEF ConsumerAfterProducer
    <2>1. w[1] \in Pipelines /\ taskState[w[1]] # "kWaiting"
      BY WorkPairs DEF Inv, ExecutorInv, ExecutorTypeOK, WorkIsSubmitted
    <2>2. q \in Pipelines  BY <2>1, PlanAssumption
    <2>3. taskState[q] = "kFinished"
      BY <2>1 DEF Inv, SP!SchedulerInv, SP!CountsAreExact, SP!Unfinished
    <2>4. SP!Succeeded(q) = Fragments[q]
      BY <2>2, <2>3, SPAssumption, SP!FinishedIsComplete DEF Inv
    <2> QED  BY <2>2, <2>4, SucceededIsProduced
  <1> QED  BY <1>1, ExecutorInvariant, PTL

(* Unless a worker failed, a collector stops polling only after the id of  *)
(* every worker was inserted, although updates of processed_count get      *)
(* lost.                                                                   *)
THEOREM CollectorsDrain == Spec => []CollectorDrains
  <1>1. Inv => CollectorDrains
    BY DEF Inv, ExecutorInv, CountsAreCovered, CollectorDrains
  <1> QED  BY <1>1, ExecutorInvariant, PTL
=============================================================================

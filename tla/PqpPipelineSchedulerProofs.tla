--------------------- MODULE PqpPipelineSchedulerProofs ---------------------
(* Proofs about PqpPipelineScheduler for every plan, every executor that   *)
(* keeps the contract and any number of its threads.                       *)
EXTENDS PqpPipelineScheduler, FiniteSetTheorems, TLAPS

Unfinished(p, st) == {q \in Predecessors[p] : st[q] # "kFinished"}

(* The counters are exact: fragments not yet counted, predecessors not yet *)
(* finished.  A pipeline is submitted when it has none of the latter, and  *)
(* finished when it has none of the former.                                *)
CountsAreExact ==
    /\ \A p \in Pipelines : fragmentsLeft[p] = Cardinality(Fragments[p]) - Len(results[p])
    /\ \A p \in Pipelines : taskState[p] = "kFinished" <=> fragmentsLeft[p] <= 0
    /\ \A p \in Pipelines : predsLeft[p] = Cardinality(Unfinished(p, taskState))
    /\ \A p \in Pipelines : taskState[p] # "kWaiting" => Unfinished(p, taskState) = {}

(* Only submitted pipelines are reported, and a success at most once: it   *)
(* is counted already, under way to be counted, or not reported at all.    *)
ReportsAreUnique ==
    /\ \A c \in Callers : call[c] # Idle =>
          /\ taskState[call[c].pipeline] # "kWaiting"
          /\ call[c].fragment \in Fragments[call[c].pipeline]
          /\ call[c].ok => /\ <<call[c].pipeline, call[c].fragment>> \in reported
                           /\ call[c].fragment \notin Succeeded(call[c].pipeline)
    /\ \A p \in Pipelines : \A f \in Succeeded(p) : <<p, f>> \in reported
    /\ \A c, d \in Callers :
          c # d /\ call[c] # Idle /\ call[d] # Idle /\ call[c].ok /\ call[d].ok =>
             <<call[c].pipeline, call[c].fragment>> # <<call[d].pipeline, call[d].fragment>>

(* Without an error every counted fragment succeeded; a failure is only    *)
(* counted by a caller that has set the error.                             *)
FailuresAreNoted ==
    /\ ~error => \A p \in Pipelines : Cardinality(Succeeded(p)) = Len(results[p])
    /\ \A c \in Callers : call[c] # Idle =>
          /\ call[c].pc = "error" => ~call[c].ok
          /\ ~call[c].ok => failures > 0
          /\ call[c].pc = "count" /\ ~call[c].ok => error
    /\ error => failures > 0

(* What the main thread has seen before it goes on.                        *)
ResponseIsJustified ==
    /\ response # "none" => main = "responded"
    /\ main = "responded" => response # "none"
    /\ main \in {"returned", "responded"} /\ response # "empty" => AllTasksFinished \/ error
    /\ response = "result" => \A p \in Pipelines : Succeeded(p) = Fragments[p]
    /\ dangling => failures > 0 \/ response = "empty"

SchedulerInv == CountsAreExact /\ ReportsAreUnique /\ FailuresAreNoted /\ ResponseIsJustified

-----------------------------------------------------------------------------
(* A call is idle or has all its fields.                                   *)
LEMMA CallCases ==
    ASSUME TypeOK, NEW c \in Callers
    PROVE  \/ call[c] = Idle /\ call[c].pc = "idle"
           \/ /\ call[c] # Idle /\ call[c] \in Calls
              /\ call[c].pc \in {"error", "count"} /\ call[c].ok \in BOOLEAN
              /\ call[c].pipeline \in Pipelines /\ call[c].fragment \in AnyFragment
  <1>1. call[c] \in Calls \cup {Idle}  BY DEF TypeOK
  <1>2. CASE call[c] = Idle  BY <1>2 DEF Idle
  <1>3. CASE call[c] \in Calls  BY <1>3 DEF Calls, Idle
  <1> QED  BY <1>1, <1>2, <1>3

(* Predecessors are finitely many.                                         *)
LEMMA UnfinishedFinite ==
    ASSUME NEW p \in Pipelines, NEW st
    PROVE  /\ IsFiniteSet(Unfinished(p, st))
           /\ Cardinality(Unfinished(p, st)) \in Nat
           /\ Cardinality(Unfinished(p, st)) = 0 => Unfinished(p, st) = {}
  <1>1. Unfinished(p, st) \in SUBSET Pipelines  BY PipelineAssumption DEF Unfinished
  <1>2. IsFiniteSet(Unfinished(p, st))  BY <1>1, PipelineAssumption, FS_Subset
  <1> QED  BY <1>2, FS_CardinalityType, FS_EmptySet

(* A pipeline has fragments, finitely many.                                *)
LEMMA FragmentsFinite ==
    ASSUME NEW p \in Pipelines
    PROVE  IsFiniteSet(Fragments[p]) /\ Cardinality(Fragments[p]) \in Nat \ {0}
  <1>1. IsFiniteSet(Fragments[p]) /\ Fragments[p] # {}  BY PipelineAssumption
  <1> QED  BY <1>1, FS_CardinalityType, FS_EmptySet

(* The counts of predecessors fit the states.                              *)
PredecessorCounts(st, left) ==
    /\ \A p \in Pipelines : left[p] = Cardinality(Unfinished(p, st))
    /\ \A p \in Pipelines : st[p] # "kWaiting" => Unfinished(p, st) = {}

(* They still do when pipelines without unfinished ones are submitted.     *)
LEMMA SubmitKeepsCounts ==
    ASSUME NEW st, NEW left, PredecessorCounts(st, left), NEW batch \in SUBSET Ready(st, left)
    PROVE  PredecessorCounts(Submitted(st, batch), left)
  <1> DEFINE nst == Submitted(st, batch)
  <1>1. \A p \in Pipelines : nst[p] = "kFinished" <=> st[p] = "kFinished"
    BY DEF Submitted, Ready
  <1>2. \A p \in Pipelines : Unfinished(p, nst) = Unfinished(p, st)
    <2> SUFFICES ASSUME NEW p \in Pipelines PROVE Unfinished(p, nst) = Unfinished(p, st)
      OBVIOUS
    <2>1. Predecessors[p] \subseteq Pipelines  BY PipelineAssumption
    <2> HIDE DEF nst
    <2> QED  BY <1>1, <2>1 DEF Unfinished
  <1>3. ASSUME NEW p \in Pipelines, nst[p] # "kWaiting" PROVE Unfinished(p, st) = {}
    <2>1. CASE p \in batch
      <3>1. left[p] = 0  BY <2>1 DEF Ready
      <3> QED  BY <3>1, UnfinishedFinite DEF PredecessorCounts
    <2>2. CASE p \notin batch
      <3>1. st[p] # "kWaiting"  BY <1>3, <2>2 DEF Submitted
      <3> QED  BY <3>1 DEF PredecessorCounts
    <2> QED  BY <2>1, <2>2
  <1> HIDE DEF nst
  <1>4. PredecessorCounts(nst, left)  BY <1>2, <1>3 DEF PredecessorCounts
  <1> QED  BY <1>4 DEF nst

(* They still do when a pipeline finishes and its successors are counted   *)
(* down.                                                                   *)
LEMMA FinishKeepsCounts ==
    ASSUME NEW st \in [Pipelines -> {"kWaiting", "kRunning", "kFinished"}],
           NEW left, PredecessorCounts(st, left),
           NEW p \in Pipelines, st[p] = "kRunning",
           NEW nst, nst = [st EXCEPT ![p] = "kFinished"],
           NEW nleft, nleft = [q \in Pipelines |->
                                 IF q \in Successors(p) THEN left[q] - 1 ELSE left[q]]
    PROVE  PredecessorCounts(nst, nleft)
  <1>1. ASSUME NEW q \in Pipelines
        PROVE  Unfinished(q, nst) = Unfinished(q, st) \ {p}
    <2>1. Predecessors[q] \subseteq Pipelines  BY PipelineAssumption
    <2> QED  BY <2>1 DEF Unfinished
  <1>2. ASSUME NEW q \in Pipelines
        PROVE  nleft[q] = Cardinality(Unfinished(q, nst))
    <2>1. p \in Unfinished(q, st) <=> q \in Successors(p)  BY DEF Unfinished, Successors
    <2>2. IsFiniteSet(Unfinished(q, st)) /\ left[q] = Cardinality(Unfinished(q, st))
      BY UnfinishedFinite DEF PredecessorCounts
    <2>3. Cardinality(Unfinished(q, st) \ {p})
            = IF p \in Unfinished(q, st) THEN left[q] - 1 ELSE left[q]
      BY <2>2, FS_RemoveElement
    <2> QED  BY <1>1, <2>1, <2>3
  <1>3. ASSUME NEW q \in Pipelines, nst[q] # "kWaiting"
        PROVE  Unfinished(q, nst) = {}
    <2>1. st[q] # "kWaiting"  BY <1>3
    <2> QED  BY <1>1, <2>1 DEF PredecessorCounts
  <1> QED  BY <1>2, <1>3 DEF PredecessorCounts

-----------------------------------------------------------------------------
(* The initial state.                                                      *)
LEMMA InvInit == Init => TypeOK /\ SchedulerInv
  <1> SUFFICES ASSUME Init PROVE TypeOK /\ SchedulerInv  OBVIOUS
  <1>1. ASSUME NEW p \in Pipelines
        PROVE  /\ predsLeft[p] = Cardinality(Unfinished(p, taskState))
               /\ predsLeft[p] \in Nat
               /\ taskState[p] = "kWaiting" /\ results[p] = <<>> /\ Len(results[p]) = 0
               /\ Succeeded(p) = {}
    <2>1. Predecessors[p] \subseteq Pipelines  BY PipelineAssumption
    <2>2. Unfinished(p, taskState) = Predecessors[p]  BY <2>1 DEF Init, Unfinished
    <2> QED  BY <2>2, UnfinishedFinite DEF Init, Succeeded
  <1>2. ASSUME NEW p \in Pipelines
        PROVE  fragmentsLeft[p] = Cardinality(Fragments[p]) /\ fragmentsLeft[p] \in Nat \ {0}
    BY FragmentsFinite DEF Init
  <1>3. TypeOK
    <2>1. predsLeft \in [Pipelines -> Nat]  BY <1>1 DEF Init
    <2>2. fragmentsLeft \in [Pipelines -> Int]  BY <1>2 DEF Init
    <2>3. results \in [Pipelines -> Seq(AnyFragment \X BOOLEAN)]  BY DEF Init
    <2> QED  BY <2>1, <2>2, <2>3 DEF Init, TypeOK
  <1>4. CountsAreExact  BY <1>1, <1>2 DEF CountsAreExact
  <1>5. ReportsAreUnique  BY <1>1 DEF Init, ReportsAreUnique
  <1>6. FailuresAreNoted  BY <1>1, FS_EmptySet DEF Init, FailuresAreNoted
  <1>7. ResponseIsJustified  BY DEF Init, ResponseIsJustified
  <1> QED  BY <1>3, <1>4, <1>5, <1>6, <1>7 DEF SchedulerInv

(* Without an error, a finished pipeline has an output of every fragment:  *)
(* as many successes were counted as it has fragments.                     *)
LEMMA FinishedIsComplete ==
    ASSUME TypeOK, SchedulerInv, ~error, NEW p \in Pipelines, taskState[p] = "kFinished"
    PROVE  Succeeded(p) = Fragments[p]
  <1>1. IsFiniteSet(Fragments[p]) /\ Cardinality(Fragments[p]) \in Nat  BY FragmentsFinite
  <1>2. Succeeded(p) \in SUBSET Fragments[p]  BY DEF Succeeded
  <1>3. Cardinality(Succeeded(p)) \in Nat /\ Cardinality(Succeeded(p)) <= Cardinality(Fragments[p])
    BY <1>1, <1>2, FS_Subset, FS_CardinalityType
  <1>4. Len(results[p]) = Cardinality(Succeeded(p))
    BY DEF SchedulerInv, FailuresAreNoted
  <1>5. Cardinality(Fragments[p]) - Len(results[p]) <= 0
    BY DEF SchedulerInv, CountsAreExact
  <1>6. Cardinality(Fragments[p]) = Cardinality(Succeeded(p))  BY <1>1, <1>3, <1>4, <1>5
  <1> QED  BY <1>1, <1>2, <1>6, FS_Subset

(* A step that submits ready pipelines and changes nothing else of the     *)
(* scheduler keeps its counters exact.                                     *)
LEMMA SubmitStep ==
    ASSUME TypeOK, CountsAreExact, NEW batch \in SUBSET Ready(taskState, predsLeft),
           taskState' = Submitted(taskState, batch),
           UNCHANGED <<fragmentsLeft, predsLeft, results>>
    PROVE  /\ CountsAreExact'
           /\ taskState' \in [Pipelines -> {"kWaiting", "kRunning", "kFinished"}]
           /\ \A p \in Pipelines : taskState[p] # "kWaiting" => taskState'[p] # "kWaiting"
  <1>1. PredecessorCounts(taskState, predsLeft)  BY DEF CountsAreExact, PredecessorCounts
  <1>2. PredecessorCounts(taskState', predsLeft)  BY <1>1, SubmitKeepsCounts
  <1>3. taskState' \in [Pipelines -> {"kWaiting", "kRunning", "kFinished"}]
    BY DEF TypeOK, Submitted
  <1>4. \A p \in Pipelines : taskState'[p] = "kFinished" <=> taskState[p] = "kFinished"
    BY DEF Submitted, Ready
  <1>5. \A p \in Pipelines : taskState[p] # "kWaiting" => taskState'[p] # "kWaiting"
    BY DEF Submitted
  <1>6. CountsAreExact'  BY <1>2, <1>4 DEF CountsAreExact, PredecessorCounts
  <1> QED  BY <1>3, <1>5, <1>6

(* The main thread keeps the invariant.                                    *)
LEMMA InvMainStep ==
    ASSUME TypeOK, SchedulerInv, MainStep
    PROVE  TypeOK' /\ SchedulerInv'
  <1> USE DEF SchedulerInv
  <1>1. ASSUME NEW batch \in SUBSET Ready(taskState, predsLeft),
               taskState' = Submitted(taskState, batch),
               UNCHANGED <<fragmentsLeft, predsLeft, results, error, call, reported, failures,
                           dangling, crashed>>,
               \/ main' = "waiting" /\ response' = response /\ response = "none"
               \/ main' = "responded" /\ response' = "empty"
        PROVE  TypeOK' /\ SchedulerInv'
    <2>1. /\ CountsAreExact'
          /\ taskState' \in [Pipelines -> {"kWaiting", "kRunning", "kFinished"}]
          /\ \A p \in Pipelines : taskState[p] # "kWaiting" => taskState'[p] # "kWaiting"
      BY <1>1, SubmitStep
    <2>2. TypeOK'  BY <1>1, <2>1 DEF TypeOK
    <2>3. \A p \in Pipelines : Succeeded(p)' = Succeeded(p)  BY <1>1 DEF Succeeded
    <2>4. ReportsAreUnique'
      <3>1. \A c \in Callers : call[c] # Idle => call[c].pipeline \in Pipelines  BY CallCases
      <3> QED  BY <1>1, <2>1, <2>3, <3>1 DEF ReportsAreUnique
    <2>5. FailuresAreNoted'  BY <1>1, <2>3 DEF FailuresAreNoted
    <2>6. ResponseIsJustified'  BY <1>1 DEF ResponseIsJustified
    <2> QED  BY <2>1, <2>2, <2>4, <2>5, <2>6
  <1>2. CASE StartExecution
    <2>1. response = "none"  BY <1>2 DEF StartExecution, ResponseIsJustified
    <2> QED  BY <1>1, <1>2, <2>1 DEF StartExecution
  <1>3. CASE StartExecutionThrows  BY <1>1, <1>3 DEF StartExecutionThrows
  <1>4. CASE ExecutionDone
    <2>1. TypeOK'  BY <1>4 DEF ExecutionDone, TypeOK, schedulerVars
    <2>2. CountsAreExact'  BY <1>4 DEF ExecutionDone, CountsAreExact, schedulerVars
    <2>3. \A p \in Pipelines : Succeeded(p)' = Succeeded(p)
      BY <1>4 DEF ExecutionDone, Succeeded, schedulerVars
    <2>4. ReportsAreUnique'
      <3>1. \A c \in Callers : call[c] # Idle => call[c].pipeline \in Pipelines  BY CallCases
      <3> QED  BY <1>4, <2>3, <3>1 DEF ExecutionDone, ReportsAreUnique, schedulerVars
    <2>5. FailuresAreNoted'  BY <1>4, <2>3 DEF ExecutionDone, FailuresAreNoted, schedulerVars
    <2>6. ResponseIsJustified'
      BY <1>4, <2>3 DEF ExecutionDone, ResponseIsJustified, AllTasksFinished, schedulerVars
    <2> QED  BY <2>1, <2>2, <2>4, <2>5, <2>6
  <1>5. CASE Respond
    <2>1. TypeOK'  BY <1>5 DEF Respond, TypeOK, schedulerVars
    <2>2. CountsAreExact'  BY <1>5 DEF Respond, CountsAreExact, schedulerVars
    <2>3. \A p \in Pipelines : Succeeded(p)' = Succeeded(p)
      BY <1>5 DEF Respond, Succeeded, schedulerVars
    <2>4. ReportsAreUnique'
      <3>1. \A c \in Callers : call[c] # Idle => call[c].pipeline \in Pipelines  BY CallCases
      <3> QED  BY <1>5, <2>3, <3>1 DEF Respond, ReportsAreUnique, schedulerVars
    <2>5. FailuresAreNoted'  BY <1>5, <2>3 DEF Respond, FailuresAreNoted, schedulerVars
    <2>6. ResponseIsJustified'
      <3>1. AllTasksFinished \/ error  BY <1>5 DEF Respond, ResponseIsJustified
      <3>2. ~error => \A p \in Pipelines : Succeeded(p) = Fragments[p]
        BY <3>1, FinishedIsComplete DEF AllTasksFinished
      <3> QED
        BY <1>5, <2>3, <3>1, <3>2 DEF Respond, ResponseIsJustified, AllTasksFinished, schedulerVars
    <2> QED  BY <2>1, <2>2, <2>4, <2>5, <2>6
  <1> QED  BY <1>2, <1>3, <1>4, <1>5 DEF MainStep

(* A report of the executor keeps the invariant, if it is one the contract *)
(* allows.                                                                 *)
LEMMA InvBeginCallback ==
    ASSUME TypeOK, SchedulerInv, NEW c \in Callers, NEW p \in Pipelines,
           NEW f \in Fragments[p], NEW ok \in BOOLEAN,
           taskState[p] # "kWaiting", ok => <<p, f>> \notin reported,
           BeginCallback(c, p, f, ok)
    PROVE  TypeOK' /\ SchedulerInv'
  <1> USE DEF SchedulerInv
  <1> DEFINE new == [pc |-> IF ok THEN "count" ELSE "error", pipeline |-> p, fragment |-> f,
                     ok |-> ok]
  <1>1. /\ call[c] = Idle /\ call' = [call EXCEPT ![c] = new]
        /\ reported' = IF ok THEN reported \cup {<<p, f>>} ELSE reported
        /\ failures' = IF ok THEN failures ELSE failures + 1
        /\ UNCHANGED <<taskState, fragmentsLeft, predsLeft, results, error, main, response,
                       dangling, crashed>>
    BY DEF BeginCallback, schedulerVars, mainVars
  <1>2. new \in Calls /\ new # Idle  BY DEF Calls, AnyFragment, Idle
  <1>3. call'[c] = new /\ \A d \in Callers \ {c} : call'[d] = call[d]  BY <1>1 DEF TypeOK
  <1>4. \A q \in Pipelines : Succeeded(q)' = Succeeded(q)  BY <1>1 DEF Succeeded
  <1>5. failures \in Nat /\ failures' \in Nat /\ failures' >= failures /\ (~ok => failures' > 0)
    BY <1>1 DEF TypeOK
  <1>6. \A d \in Callers : call[d] # Idle => call[d].pipeline \in Pipelines  BY CallCases
  <1> HIDE DEF new
  <1>7. TypeOK'
    <2>1. call' \in [Callers -> Calls \cup {Idle}]  BY <1>1, <1>2 DEF TypeOK
    <2>2. \A r \in reported' : r[1] \in Pipelines /\ r[2] \in Fragments[r[1]]
      BY <1>1 DEF TypeOK
    <2> QED  BY <1>1, <1>5, <2>1, <2>2 DEF TypeOK
  <1>8. CountsAreExact'  BY <1>1 DEF CountsAreExact
  <1>9. ReportsAreUnique'
    <2>1. new.pipeline = p /\ new.fragment = f /\ new.ok = ok  BY DEF new
    <2>2. \A q \in Pipelines : \A g \in Succeeded(q) : <<q, g>> \in reported'
      BY <1>1 DEF ReportsAreUnique
    <2>3. ok => f \notin Succeeded(p)  BY DEF ReportsAreUnique
    <2>4. ASSUME NEW d \in Callers, call'[d] # Idle
          PROVE  /\ taskState[call'[d].pipeline] # "kWaiting"
                 /\ call'[d].fragment \in Fragments[call'[d].pipeline]
                 /\ call'[d].ok => /\ <<call'[d].pipeline, call'[d].fragment>> \in reported'
                                   /\ call'[d].fragment \notin Succeeded(call'[d].pipeline)
                 /\ call'[d].pipeline \in Pipelines
      <3>1. CASE d = c  BY <1>1, <1>3, <2>1, <2>3, <3>1
      <3>2. CASE d # c  BY <1>1, <1>3, <1>6, <2>4, <3>2 DEF ReportsAreUnique
      <3> QED  BY <3>1, <3>2
    <2>5. ASSUME NEW d \in Callers \ {c}, call[d] # Idle, call[d].ok, ok
          PROVE  <<call[d].pipeline, call[d].fragment>> # <<p, f>>
      BY <2>5 DEF ReportsAreUnique
    <2>6. ASSUME NEW d \in Callers, NEW e \in Callers, d # e, call'[d] # Idle, call'[e] # Idle,
                 call'[d].ok, call'[e].ok
          PROVE  <<call'[d].pipeline, call'[d].fragment>> # <<call'[e].pipeline, call'[e].fragment>>
      <3>1. CASE d = c  BY <1>3, <2>1, <2>5, <2>6, <3>1
      <3>2. CASE e = c  BY <1>3, <2>1, <2>5, <2>6, <3>2
      <3>3. CASE d # c /\ e # c  BY <1>3, <2>6, <3>3 DEF ReportsAreUnique
      <3> QED  BY <3>1, <3>2, <3>3
    <2> QED  BY <1>1, <1>4, <2>2, <2>4, <2>6 DEF ReportsAreUnique
  <1>10. FailuresAreNoted'
    <2>1. /\ new.pc = "error" => ~new.ok
          /\ ~new.ok => failures' > 0
          /\ new.pc = "count" => new.ok
      BY <1>5 DEF new
    <2>2. ASSUME NEW d \in Callers, call'[d] # Idle
          PROVE  /\ call'[d].pc = "error" => ~call'[d].ok
                 /\ ~call'[d].ok => failures' > 0
                 /\ call'[d].pc = "count" /\ ~call'[d].ok => error
      <3>1. CASE d = c  BY <1>3, <2>1, <3>1
      <3>2. CASE d # c  BY <1>3, <1>5, <2>2, <3>2 DEF FailuresAreNoted
      <3> QED  BY <3>1, <3>2
    <2>3. error => failures' > 0  BY <1>5 DEF FailuresAreNoted
    <2>4. ~error => \A q \in Pipelines : Cardinality(Succeeded(q)) = Len(results[q])
      BY DEF FailuresAreNoted
    <2> QED  BY <1>1, <1>4, <2>2, <2>3, <2>4 DEF FailuresAreNoted
  <1>11. ResponseIsJustified'
    BY <1>1, <1>4, <1>5 DEF ResponseIsJustified, AllTasksFinished
  <1> QED  BY <1>7, <1>8, <1>9, <1>10, <1>11

(* The elements of a sequence that one more was appended to.               *)
LEMMA AppendedElements ==
    ASSUME NEW S, NEW s \in Seq(S), NEW e \in S, NEW x
    PROVE  (\E i \in DOMAIN Append(s, e) : Append(s, e)[i] = x)
             <=> (\E i \in DOMAIN s : s[i] = x) \/ e = x
  <1>1. /\ DOMAIN s = 1 .. Len(s) /\ Len(s) \in Nat
        /\ DOMAIN Append(s, e) = 1 .. Len(s) + 1
        /\ \A i \in 1 .. Len(s) : Append(s, e)[i] = s[i]
        /\ Append(s, e)[Len(s) + 1] = e
    OBVIOUS
  <1> DEFINE t == Append(s, e)
  <1> HIDE DEF t
  <1>2. ASSUME NEW i \in DOMAIN t, t[i] = x PROVE (i \in DOMAIN s /\ s[i] = x) \/ e = x
    BY <1>1, <1>2 DEF t
  <1>3. ASSUME NEW i \in DOMAIN s, s[i] = x PROVE i \in DOMAIN t /\ t[i] = x
    BY <1>1, <1>3 DEF t
  <1>4. e = x => Len(s) + 1 \in DOMAIN t /\ t[Len(s) + 1] = x  BY <1>1 DEF t
  <1> QED  BY <1>2, <1>3, <1>4 DEF t

(* What counting one fragment does to the successes of a pipeline.         *)
LEMMA CountedSuccess ==
    ASSUME TypeOK, NEW p \in Pipelines, NEW f \in Fragments[p], NEW ok \in BOOLEAN,
           results' = [results EXCEPT ![p] = Append(@, <<f, ok>>)]
    PROVE  /\ results' \in [Pipelines -> Seq(AnyFragment \X BOOLEAN)]
           /\ Len(results'[p]) = Len(results[p]) + 1
           /\ \A q \in Pipelines \ {p} : results'[q] = results[q] /\ Succeeded(q)' = Succeeded(q)
           /\ Succeeded(p)' = IF ok THEN Succeeded(p) \cup {f} ELSE Succeeded(p)
  <1>1. f \in AnyFragment /\ <<f, ok>> \in AnyFragment \X BOOLEAN  BY DEF AnyFragment
  <1>2. results[p] \in Seq(AnyFragment \X BOOLEAN)  BY DEF TypeOK
  <1>3. /\ results'[p] = Append(results[p], <<f, ok>>)
        /\ \A q \in Pipelines \ {p} : results'[q] = results[q]
    BY DEF TypeOK
  <1>4. Len(results'[p]) = Len(results[p]) + 1  BY <1>1, <1>2, <1>3
  <1>5. results' \in [Pipelines -> Seq(AnyFragment \X BOOLEAN)]  BY <1>1, <1>2 DEF TypeOK
  <1>6. \A q \in Pipelines \ {p} : Succeeded(q)' = Succeeded(q)  BY <1>3 DEF Succeeded
  <1>7. ASSUME NEW g \in Fragments[p]
        PROVE  (\E i \in DOMAIN results'[p] : results'[p][i] = <<g, TRUE>>)
                 <=> (\E i \in DOMAIN results[p] : results[p][i] = <<g, TRUE>>) \/ (ok /\ g = f)
    <2> DEFINE x == <<g, TRUE>>
               e == <<f, ok>>
               t == results[p]
               S == AnyFragment \X BOOLEAN
    <2>0. t \in Seq(S) /\ e \in S /\ results'[p] = Append(t, e)  BY <1>1, <1>2, <1>3
    <2>1. e = x <=> ok /\ g = f  OBVIOUS
    <2> HIDE DEF x, e, t, S
    <2>2. (\E i \in DOMAIN Append(t, e) : Append(t, e)[i] = x) <=> (\E i \in DOMAIN t : t[i] = x) \/ e = x
      BY <2>0, AppendedElements, SMTT(30)
    <2>3. (\E i \in DOMAIN results'[p] : results'[p][i] = x) <=> (\E i \in DOMAIN t : t[i] = x) \/ e = x
      BY <2>0, <2>2, Zenon
    <2> QED  BY <2>1, <2>3 DEF x, t
  <1>8. Succeeded(p)' = {g \in Fragments[p] : \E i \in DOMAIN results'[p] : results'[p][i] = <<g, TRUE>>}
    BY DEF Succeeded
  <1>9. Succeeded(p)' = IF ok THEN Succeeded(p) \cup {f} ELSE Succeeded(p)
    BY <1>7, <1>8 DEF Succeeded
  <1> QED  BY <1>3, <1>4, <1>5, <1>6, <1>9

(* Counting a fragment keeps the counters exact, the last one of a         *)
(* pipeline and late ones included.                                        *)
LEMMA CountKeepsCounts ==
    ASSUME TypeOK, SchedulerInv, NEW c \in Callers, CountFragment(c)
    PROVE  /\ CountsAreExact'
           /\ taskState' \in [Pipelines -> {"kWaiting", "kRunning", "kFinished"}]
           /\ fragmentsLeft' \in [Pipelines -> Int]
           /\ predsLeft' \in [Pipelines -> Nat]
           /\ \A q \in Pipelines : taskState[q] # "kWaiting" => taskState'[q] # "kWaiting"
           /\ \A q \in Pipelines : taskState[q] = "kFinished" => taskState'[q] = "kFinished"
  <1> DEFINE p == call[c].pipeline
             last == fragmentsLeft[p] = 1
             left == [q \in Pipelines |->
                        IF last /\ q \in Successors(p) THEN predsLeft[q] - 1 ELSE predsLeft[q]]
             st == [taskState EXCEPT ![p] = IF last THEN "kFinished" ELSE @]
             States == {"kWaiting", "kRunning", "kFinished"}
  <1>1. /\ call[c].pc = "count"
        /\ results' = [results EXCEPT ![p] = Append(@, <<call[c].fragment, call[c].ok>>)]
        /\ fragmentsLeft' = [fragmentsLeft EXCEPT ![p] = @ - 1]
        /\ predsLeft' = left
        /\ taskState' = IF last THEN Submitted(st, Ready(st, left)) ELSE st
    BY DEF CountFragment
  <1>2. p \in Pipelines /\ call[c].ok \in BOOLEAN /\ call[c].fragment \in Fragments[p]
    BY <1>1, CallCases DEF SchedulerInv, ReportsAreUnique
  <1>3. taskState[p] # "kWaiting"
    BY <1>1, CallCases DEF SchedulerInv, ReportsAreUnique
  <1>4. /\ Len(results'[p]) = Len(results[p]) + 1
        /\ \A q \in Pipelines \ {p} : results'[q] = results[q]
    BY <1>1, <1>2, CountedSuccess
  <1>5. /\ \A q \in Pipelines : Len(results[q]) \in Nat /\ Cardinality(Fragments[q]) \in Nat
        /\ taskState \in [Pipelines -> States]
        /\ fragmentsLeft \in [Pipelines -> Int] /\ predsLeft \in [Pipelines -> Nat]
    BY FragmentsFinite DEF TypeOK
  <1>6. PredecessorCounts(taskState, predsLeft)
    BY DEF SchedulerInv, CountsAreExact, PredecessorCounts
  <1>7. /\ \A q \in Pipelines : fragmentsLeft[q] = Cardinality(Fragments[q]) - Len(results[q])
        /\ \A q \in Pipelines : taskState[q] = "kFinished" <=> fragmentsLeft[q] <= 0
    BY DEF SchedulerInv, CountsAreExact
  <1>8. /\ fragmentsLeft' \in [Pipelines -> Int]
        /\ fragmentsLeft'[p] = fragmentsLeft[p] - 1
        /\ \A q \in Pipelines \ {p} : fragmentsLeft'[q] = fragmentsLeft[q]
    BY <1>1, <1>2, <1>5
  <1>9. \A q \in Pipelines : fragmentsLeft'[q] = Cardinality(Fragments[q]) - Len(results'[q])
    <2> SUFFICES ASSUME NEW q \in Pipelines
                 PROVE fragmentsLeft'[q] = Cardinality(Fragments[q]) - Len(results'[q])
      OBVIOUS
    <2> HIDE DEF p
    <2>1. CASE q = p  BY <1>2, <1>4, <1>5, <1>7, <1>8, <2>1
    <2>2. CASE q # p  BY <1>4, <1>7, <1>8, <2>2
    <2> QED  BY <2>1, <2>2
  <1>10. CASE ~last
    <2>1. taskState' = taskState /\ predsLeft' = predsLeft  BY <1>1, <1>2, <1>5, <1>10
    <2>2. \A q \in Pipelines : taskState'[q] = "kFinished" <=> fragmentsLeft'[q] <= 0
      <3> SUFFICES ASSUME NEW q \in Pipelines
                   PROVE  taskState'[q] = "kFinished" <=> fragmentsLeft'[q] <= 0
        OBVIOUS
      <3>0. fragmentsLeft[q] \in Int /\ fragmentsLeft[p] # 1  BY <1>5, <1>10
      <3> HIDE DEF p
      <3>1. CASE q = p  BY <1>7, <1>8, <2>1, <3>0, <3>1
      <3>2. CASE q # p  BY <1>7, <1>8, <2>1, <3>2
      <3> QED  BY <3>1, <3>2
    <2>3. PredecessorCounts(taskState', predsLeft')  BY <1>6, <2>1
    <2>4. CountsAreExact'  BY <1>9, <2>2, <2>3 DEF CountsAreExact, PredecessorCounts
    <2> QED  BY <1>5, <1>8, <2>1, <2>4
  <1>11. CASE last
    <2>1. taskState[p] = "kRunning"  BY <1>2, <1>3, <1>5, <1>7, <1>11
    <2>2. /\ st = [taskState EXCEPT ![p] = "kFinished"]
          /\ left = [q \in Pipelines |->
                       IF q \in Successors(p) THEN predsLeft[q] - 1 ELSE predsLeft[q]]
          /\ taskState' = Submitted(st, Ready(st, left))
      BY <1>1, <1>11
    <2> HIDE DEF p, last, left, st
    <2>3. PredecessorCounts(st, left)
      BY <1>2, <1>5, <1>6, <2>1, <2>2, FinishKeepsCounts
    <2>4. PredecessorCounts(taskState', left)
      BY <2>2, <2>3, SubmitKeepsCounts
    <2>5. st \in [Pipelines -> States] /\ st[p] = "kFinished"
          /\ \A q \in Pipelines \ {p} : st[q] = taskState[q]
      BY <1>2, <1>5, <2>2
    <2>6. /\ taskState' \in [Pipelines -> States]
          /\ \A q \in Pipelines : taskState'[q] = "kFinished" <=> st[q] = "kFinished"
          /\ \A q \in Pipelines : st[q] # "kWaiting" => taskState'[q] # "kWaiting"
      BY <2>2, <2>5 DEF Submitted, Ready
    <2>7. \A q \in Pipelines : taskState'[q] = "kFinished" <=> fragmentsLeft'[q] <= 0
      <3> SUFFICES ASSUME NEW q \in Pipelines
                   PROVE  taskState'[q] = "kFinished" <=> fragmentsLeft'[q] <= 0
        OBVIOUS
      <3>1. CASE q = p  BY <1>8, <1>11, <2>5, <2>6, <3>1 DEF last
      <3>2. CASE q # p  BY <1>7, <1>8, <2>5, <2>6, <3>2
      <3> QED  BY <3>1, <3>2
    <2>8. CountsAreExact'  BY <1>1, <1>9, <2>4, <2>7 DEF CountsAreExact, PredecessorCounts
    <2>9. predsLeft' \in [Pipelines -> Nat]
      <3>1. \A q \in Pipelines : left[q] \in Nat
        BY <2>3, UnfinishedFinite DEF PredecessorCounts
      <3> QED  BY <1>1, <3>1 DEF left
    <2>10. \A q \in Pipelines : taskState[q] # "kWaiting" => taskState'[q] # "kWaiting"
      BY <2>5, <2>6
    <2>11. \A q \in Pipelines : taskState[q] = "kFinished" => taskState'[q] = "kFinished"
      BY <2>5, <2>6
    <2> QED  BY <1>8, <2>6, <2>8, <2>9, <2>10, <2>11
  <1> QED  BY <1>10, <1>11

(* Counting a fragment keeps the rest of the invariant.                    *)
LEMMA InvCountFragment ==
    ASSUME TypeOK, SchedulerInv, NEW c \in Callers, CountFragment(c)
    PROVE  TypeOK' /\ SchedulerInv'
  <1> USE DEF SchedulerInv
  <1> PICK p, f, ok : p = call[c].pipeline /\ f = call[c].fragment /\ ok = call[c].ok
    OBVIOUS
  <1>1. /\ call[c].pc = "count"
        /\ results' = [results EXCEPT ![p] = Append(@, <<f, ok>>)]
        /\ call' = [call EXCEPT ![c] = Idle]
        /\ main # "responded"
        /\ UNCHANGED <<error, main, response, reported, failures, dangling, crashed>>
    BY DEF CountFragment, mainVars
  <1>2. p \in Pipelines /\ ok \in BOOLEAN /\ f \in Fragments[p] /\ call[c] # Idle
    BY <1>1, CallCases DEF ReportsAreUnique
  <1>3. /\ CountsAreExact'
        /\ taskState' \in [Pipelines -> {"kWaiting", "kRunning", "kFinished"}]
        /\ fragmentsLeft' \in [Pipelines -> Int]
        /\ predsLeft' \in [Pipelines -> Nat]
        /\ \A q \in Pipelines : taskState[q] # "kWaiting" => taskState'[q] # "kWaiting"
        /\ \A q \in Pipelines : taskState[q] = "kFinished" => taskState'[q] = "kFinished"
    BY CountKeepsCounts
  <1>4. ok => <<p, f>> \in reported /\ f \notin Succeeded(p)  BY <1>2 DEF ReportsAreUnique
  <1>5. ~ok => error  BY <1>1, <1>2 DEF FailuresAreNoted
  <1>6. ok => \A d \in Callers \ {c} : call[d] # Idle /\ call[d].ok =>
                 <<call[d].pipeline, call[d].fragment>> # <<p, f>>
    BY <1>2 DEF ReportsAreUnique
  <1>7. \A d \in Callers : call[d] # Idle => call[d].pipeline \in Pipelines  BY CallCases
  <1>8. /\ results' \in [Pipelines -> Seq(AnyFragment \X BOOLEAN)]
        /\ Len(results'[p]) = Len(results[p]) + 1
        /\ \A q \in Pipelines \ {p} : results'[q] = results[q] /\ Succeeded(q)' = Succeeded(q)
        /\ Succeeded(p)' = IF ok THEN Succeeded(p) \cup {f} ELSE Succeeded(p)
    BY <1>1, <1>2, CountedSuccess
  <1>9. call'[c] = Idle /\ \A d \in Callers \ {c} : call'[d] = call[d]  BY <1>1 DEF TypeOK
  <1>10. TypeOK'
    <2>1. call' \in [Callers -> Calls \cup {Idle}]  BY <1>1 DEF TypeOK
    <2> QED  BY <1>1, <1>3, <1>8, <2>1 DEF TypeOK
  <1>11. ReportsAreUnique'
    <2>1. ASSUME NEW q \in Pipelines, NEW g \in Succeeded(q)' PROVE <<q, g>> \in reported
      <3>1. CASE q # p  BY <1>8, <2>1, <3>1 DEF ReportsAreUnique
      <3>2. CASE q = p /\ g = f /\ ok  BY <1>4, <3>2
      <3>3. CASE q = p /\ g \in Succeeded(q)  BY <3>3 DEF ReportsAreUnique
      <3> QED  BY <1>8, <2>1, <3>1, <3>2, <3>3
    <2>2. ASSUME NEW d \in Callers \ {c}, call[d] # Idle
          PROVE  /\ taskState'[call[d].pipeline] # "kWaiting"
                 /\ call[d].fragment \in Fragments[call[d].pipeline]
                 /\ call[d].ok => <<call[d].pipeline, call[d].fragment>> \in reported
                 /\ \A q \in Pipelines : call[d].ok /\ q = call[d].pipeline =>
                       call[d].fragment \notin Succeeded(q)'
                 /\ call[d].pipeline \in Pipelines
      <3> PICK q, g : q = call[d].pipeline /\ g = call[d].fragment  OBVIOUS
      <3>1. /\ q \in Pipelines /\ taskState[q] # "kWaiting" /\ g \in Fragments[q]
            /\ call[d].ok => <<q, g>> \in reported /\ g \notin Succeeded(q)
        BY <1>7, <2>2 DEF ReportsAreUnique
      <3>2. call[d].ok /\ ok => <<q, g>> # <<p, f>>  BY <1>6, <2>2
      <3>3. call[d].ok => g \notin Succeeded(q)'
        <4>1. CASE q # p  BY <1>8, <3>1, <4>1
        <4>2. CASE q = p  BY <1>8, <3>1, <3>2, <4>2
        <4> QED  BY <4>1, <4>2
      <3>4. taskState'[q] # "kWaiting"  BY <1>3, <3>1
      <3> QED  BY <3>1, <3>3, <3>4
    <2>3. \A d \in Callers : call'[d] # Idle => d \in Callers \ {c} /\ call'[d] = call[d]  BY <1>9
    <2>4. ASSUME NEW d \in Callers, NEW e \in Callers, d # e, call'[d] # Idle, call'[e] # Idle,
                 call'[d].ok, call'[e].ok
          PROVE  <<call'[d].pipeline, call'[d].fragment>> # <<call'[e].pipeline, call'[e].fragment>>
      BY <2>3, <2>4 DEF ReportsAreUnique
    <2>5. \A d \in Callers : call'[d] # Idle =>
            /\ taskState'[call'[d].pipeline] # "kWaiting"
            /\ call'[d].fragment \in Fragments[call'[d].pipeline]
            /\ call'[d].ok => <<call'[d].pipeline, call'[d].fragment>> \in reported'
            /\ \A q \in Pipelines : call'[d].ok /\ q = call'[d].pipeline =>
                  call'[d].fragment \notin Succeeded(q)'
            /\ call'[d].pipeline \in Pipelines
      BY <1>1, <2>2, <2>3
    <2> QED  BY <1>1, <2>1, <2>4, <2>5 DEF ReportsAreUnique
  <1>12. FailuresAreNoted'
    <2>1. ASSUME NEW q \in Pipelines, ~error
          PROVE  Cardinality(Succeeded(q)') = Len(results'[q])
      <3>1. Cardinality(Succeeded(q)) = Len(results[q])  BY <2>1 DEF FailuresAreNoted
      <3>2. CASE q # p  BY <1>8, <3>1, <3>2
      <3>3. CASE q = p
        <4>1. ok /\ f \notin Succeeded(p)  BY <1>2, <1>4, <1>5, <2>1
        <4>2. IsFiniteSet(Succeeded(p))
          BY <1>2, FragmentsFinite, FS_Subset DEF Succeeded
        <4>3. Cardinality(Succeeded(p) \cup {f}) = Cardinality(Succeeded(p)) + 1
          BY <4>1, <4>2, FS_AddElement
        <4> QED  BY <1>8, <3>1, <3>3, <4>1, <4>3
      <3> QED  BY <3>2, <3>3
    <2>2. \A d \in Callers : call'[d] # Idle => call'[d] = call[d]  BY <1>9
    <2>3. ASSUME NEW d \in Callers, call'[d] # Idle
          PROVE  /\ call'[d].pc = "error" => ~call'[d].ok
                 /\ ~call'[d].ok => failures > 0
                 /\ call'[d].pc = "count" /\ ~call'[d].ok => error
      BY <2>2, <2>3 DEF FailuresAreNoted
    <2>4. error => failures > 0  BY DEF FailuresAreNoted
    <2> QED  BY <1>1, <2>1, <2>3, <2>4 DEF FailuresAreNoted
  <1>13. ResponseIsJustified'
    BY <1>1, <1>3 DEF ResponseIsJustified, AllTasksFinished
  <1> QED  BY <1>3, <1>10, <1>11, <1>12, <1>13

(* So does the first section of a callback for a failed fragment.          *)
LEMMA InvSetError ==
    ASSUME TypeOK, SchedulerInv, NEW c \in Callers, SetError(c)
    PROVE  TypeOK' /\ SchedulerInv'
  <1> USE DEF SchedulerInv
  <1> DEFINE new == [pc |-> "count", pipeline |-> call[c].pipeline,
                     fragment |-> call[c].fragment, ok |-> call[c].ok]
  <1>1. /\ call[c].pc = "error" /\ error' = TRUE /\ main # "responded"
        /\ call' = [call EXCEPT ![c].pc = "count"]
        /\ UNCHANGED <<taskState, fragmentsLeft, predsLeft, results, main, response, reported,
                       failures, dangling, crashed>>
    BY DEF SetError, mainVars
  <1>2. /\ call[c] # Idle /\ call[c] \in Calls
        /\ ~call[c].ok /\ failures > 0
    BY <1>1, CallCases DEF FailuresAreNoted
  <1>3. /\ new \in Calls /\ new.pc = "count" /\ new.ok = call[c].ok
        /\ new.pipeline = call[c].pipeline /\ new.fragment = call[c].fragment
    BY <1>2, CallCases DEF Calls
  <1>4. new # Idle  BY <1>3 DEF Idle
  <1>5. /\ call' \in [Callers -> Calls \cup {Idle}]
        /\ call'[c] = new /\ \A d \in Callers \ {c} : call'[d] = call[d]
    <2>1. [call[c] EXCEPT !.pc = "count"] = new  BY <1>2 DEF Calls
    <2>2. call' = [call EXCEPT ![c] = new]  BY <1>1, <2>1
    <2> HIDE DEF new
    <2> QED  BY <1>3, <2>2 DEF TypeOK
  <1> HIDE DEF new
  <1>6. \A d \in Callers : call[d] # Idle => call[d].pipeline \in Pipelines  BY CallCases
  <1>7. \A q \in Pipelines : Succeeded(q)' = Succeeded(q)  BY <1>1 DEF Succeeded
  <1>8. TypeOK'  BY <1>1, <1>5 DEF TypeOK
  <1>9. CountsAreExact'  BY <1>1 DEF CountsAreExact
  <1>10. ReportsAreUnique'
    <2>1. \A d \in Callers : call'[d] # Idle =>
            /\ call[d] # Idle /\ call'[d].pipeline = call[d].pipeline
            /\ call'[d].fragment = call[d].fragment /\ call'[d].ok = call[d].ok
      BY <1>2, <1>3, <1>5
    <2>2. ASSUME NEW d \in Callers, call'[d] # Idle
          PROVE  /\ taskState[call'[d].pipeline] # "kWaiting"
                 /\ call'[d].fragment \in Fragments[call'[d].pipeline]
                 /\ call'[d].ok => /\ <<call'[d].pipeline, call'[d].fragment>> \in reported
                                   /\ call'[d].fragment \notin Succeeded(call'[d].pipeline)
                 /\ call'[d].pipeline \in Pipelines
      BY <1>6, <2>1, <2>2 DEF ReportsAreUnique
    <2>3. ASSUME NEW d \in Callers, NEW e \in Callers, d # e, call'[d] # Idle, call'[e] # Idle,
                 call'[d].ok, call'[e].ok
          PROVE  <<call'[d].pipeline, call'[d].fragment>> # <<call'[e].pipeline, call'[e].fragment>>
      BY <2>1, <2>3 DEF ReportsAreUnique
    <2>4. \A q \in Pipelines : \A g \in Succeeded(q) : <<q, g>> \in reported  BY DEF ReportsAreUnique
    <2> QED  BY <1>1, <1>7, <2>2, <2>3, <2>4 DEF ReportsAreUnique
  <1>11. FailuresAreNoted'
    <2>1. ASSUME NEW d \in Callers, call'[d] # Idle
          PROVE  (call'[d].pc = "error" => ~call'[d].ok) /\ (~call'[d].ok => failures > 0)
      BY <1>2, <1>3, <1>5, <2>1 DEF FailuresAreNoted
    <2> QED  BY <1>1, <1>2, <2>1 DEF FailuresAreNoted
  <1>12. ResponseIsJustified'
    BY <1>1, <1>7 DEF ResponseIsJustified, AllTasksFinished
  <1> QED  BY <1>8, <1>9, <1>10, <1>11, <1>12

(* A callback finds the scheduler destroyed only after a failure, or after *)
(* an exception ended OnHandleRequest early: when every fragment has been  *)
(* counted, a success that is still to be counted would be one too many.   *)
LEMMA InvUseAfterDestruction ==
    ASSUME TypeOK, SchedulerInv, NEW c \in Callers, UseAfterDestruction(c)
    PROVE  TypeOK' /\ SchedulerInv'
  <1> USE DEF SchedulerInv
  <1>1. /\ call[c] # Idle /\ main = "responded" /\ dangling' = TRUE
        /\ call' = [call EXCEPT ![c] = Idle]
        /\ UNCHANGED <<taskState, fragmentsLeft, predsLeft, results, error, main, response,
                       reported, failures, crashed>>
    BY DEF UseAfterDestruction, mainVars, schedulerVars
  <1>2. call'[c] = Idle /\ \A d \in Callers \ {c} : call'[d] = call[d]  BY <1>1 DEF TypeOK
  <1>3. \A q \in Pipelines : Succeeded(q)' = Succeeded(q)  BY <1>1 DEF Succeeded
  <1>4. \A d \in Callers : call'[d] # Idle =>
          /\ call'[d] = call[d] /\ call[d] # Idle /\ call[d].pipeline \in Pipelines
    BY <1>2, CallCases
  <1>5. TypeOK'
    <2>1. call' \in [Callers -> Calls \cup {Idle}]  BY <1>1 DEF TypeOK
    <2> QED  BY <1>1, <2>1 DEF TypeOK
  <1>6. CountsAreExact'  BY <1>1 DEF CountsAreExact
  <1>7. ReportsAreUnique'
    <2>1. ASSUME NEW d \in Callers, call'[d] # Idle
          PROVE  /\ taskState[call'[d].pipeline] # "kWaiting"
                 /\ call'[d].fragment \in Fragments[call'[d].pipeline]
                 /\ call'[d].ok => /\ <<call'[d].pipeline, call'[d].fragment>> \in reported
                                   /\ call'[d].fragment \notin Succeeded(call'[d].pipeline)
                 /\ call'[d].pipeline \in Pipelines
      BY <1>4, <2>1 DEF ReportsAreUnique
    <2>2. ASSUME NEW d \in Callers, NEW e \in Callers, d # e, call'[d] # Idle, call'[e] # Idle,
                 call'[d].ok, call'[e].ok
          PROVE  <<call'[d].pipeline, call'[d].fragment>> # <<call'[e].pipeline, call'[e].fragment>>
      BY <1>4, <2>2 DEF ReportsAreUnique
    <2>3. \A q \in Pipelines : \A g \in Succeeded(q) : <<q, g>> \in reported  BY DEF ReportsAreUnique
    <2> QED  BY <1>1, <1>3, <2>1, <2>2, <2>3 DEF ReportsAreUnique
  <1>8. FailuresAreNoted'
    <2>1. ASSUME NEW d \in Callers, call'[d] # Idle
          PROVE  /\ call'[d].pc = "error" => ~call'[d].ok
                 /\ ~call'[d].ok => failures > 0
                 /\ call'[d].pc = "count" /\ ~call'[d].ok => error
      BY <1>4, <2>1 DEF FailuresAreNoted
    <2> QED  BY <1>1, <1>3, <2>1 DEF FailuresAreNoted
  <1>9. failures > 0 \/ response = "empty"
    <2>1. CASE error  BY <2>1 DEF FailuresAreNoted
    <2>2. CASE ~error /\ response # "empty"
      <3> PICK p : p = call[c].pipeline  OBVIOUS
      <3>1. p \in Pipelines /\ call[c].fragment \in Fragments[p]
        BY <1>1, CallCases DEF ReportsAreUnique
      <3>2. taskState[p] = "kFinished"
        BY <1>1, <2>2, <3>1 DEF ResponseIsJustified, AllTasksFinished
      <3>3. Succeeded(p) = Fragments[p]  BY <2>2, <3>1, <3>2, FinishedIsComplete
      <3>4. ~call[c].ok  BY <1>1, <3>1, <3>3 DEF ReportsAreUnique
      <3> QED  BY <1>1, <3>4 DEF FailuresAreNoted
    <2> QED  BY <2>1, <2>2 DEF TypeOK
  <1>10. ResponseIsJustified'
    BY <1>1, <1>3, <1>9 DEF ResponseIsJustified, AllTasksFinished
  <1> QED  BY <1>5, <1>6, <1>7, <1>8, <1>10

(* The end of the process and steps that change nothing.                   *)
LEMMA InvCrash ==
    ASSUME TypeOK, SchedulerInv, crashed' \in BOOLEAN,
           UNCHANGED <<schedulerVars, mainVars, call, reported, failures, dangling>>
    PROVE  TypeOK' /\ SchedulerInv'
  <1> USE DEF SchedulerInv, schedulerVars, mainVars
  <1>1. \A q \in Pipelines : Succeeded(q)' = Succeeded(q)  BY DEF Succeeded
  <1>2. TypeOK'  BY DEF TypeOK
  <1>3. CountsAreExact'  BY DEF CountsAreExact
  <1>4. ReportsAreUnique'
    <2>1. \A d \in Callers : call[d] # Idle => call[d].pipeline \in Pipelines  BY CallCases
    <2> QED  BY <1>1, <2>1 DEF ReportsAreUnique
  <1>5. FailuresAreNoted'  BY <1>1 DEF FailuresAreNoted
  <1>6. ResponseIsJustified'  BY <1>1 DEF ResponseIsJustified, AllTasksFinished
  <1> QED  BY <1>2, <1>3, <1>4, <1>5, <1>6

(* Every step keeps the invariant.                                         *)
LEMMA InvNext == TypeOK /\ SchedulerInv /\ [Next]_vars => TypeOK' /\ SchedulerInv'
  <1> SUFFICES ASSUME TypeOK, SchedulerInv, [Next]_vars
               PROVE  TypeOK' /\ SchedulerInv'
    OBVIOUS
  <1>1. CASE MainStep  BY <1>1, InvMainStep
  <1>2. ASSUME NEW c \in Callers, CallbackStep(c) PROVE TypeOK' /\ SchedulerInv'
    <2>1. CASE SetError(c)  BY <2>1, InvSetError
    <2>2. CASE CountFragment(c)  BY <2>2, InvCountFragment
    <2>3. CASE SubmitThrows(c)  BY <2>3, InvCrash DEF SubmitThrows
    <2>4. CASE UseAfterDestruction(c)  BY <2>4, InvUseAfterDestruction
    <2> QED  BY <1>2, <2>1, <2>2, <2>3, <2>4 DEF CallbackStep
  <1>3. ASSUME NEW c \in Callers, ExecutorReports(c) PROVE TypeOK' /\ SchedulerInv'
    <2>1. PICK p \in Pipelines : \E f \in Fragments[p] : \E ok \in BOOLEAN :
            /\ taskState[p] # "kWaiting"
            /\ IF ok THEN <<p, f>> \notin reported ELSE failures < MaxFailures
            /\ BeginCallback(c, p, f, ok)
      BY <1>3 DEF ExecutorReports
    <2>2. PICK f \in Fragments[p], ok \in BOOLEAN :
            /\ taskState[p] # "kWaiting"
            /\ IF ok THEN <<p, f>> \notin reported ELSE failures < MaxFailures
            /\ BeginCallback(c, p, f, ok)
      BY <2>1
    <2> QED  BY <2>2, InvBeginCallback
  <1>4. CASE ExecutorThrows  BY <1>4, InvCrash DEF ExecutorThrows
  <1>5. CASE UNCHANGED vars  BY <1>5, InvCrash DEF vars, TypeOK
  <1> QED  BY <1>1, <1>2, <1>3, <1>4, <1>5 DEF Next, Terminated

(* The inductive invariant holds in every reachable state.                 *)
THEOREM SchedulerInvariant == Spec => [](TypeOK /\ SchedulerInv)
  BY InvInit, InvNext, PTL DEF Spec

(* A submitted pipeline never goes back to waiting.                        *)
LEMMA SubmittedStays ==
    ASSUME TypeOK, SchedulerInv, NEW p \in Pipelines, taskState[p] # "kWaiting",
           MainStep \/ \E c \in Callers : CallbackStep(c)
    PROVE  taskState'[p] # "kWaiting"
  <1>1. CASE MainStep
    <2>1. CASE taskState' = taskState  BY <2>1
    <2>2. ASSUME NEW batch, taskState' = Submitted(taskState, batch)
          PROVE  taskState'[p] # "kWaiting"
      BY <2>2 DEF Submitted
    <2> QED  BY <1>1, <2>1, <2>2 DEF MainStep, StartExecution, StartExecutionThrows, ExecutionDone,
                Respond, schedulerVars
  <1>2. ASSUME NEW c \in Callers, CallbackStep(c) PROVE taskState'[p] # "kWaiting"
    <2>1. CASE CountFragment(c)  BY <2>1, CountKeepsCounts
    <2>2. CASE ~CountFragment(c)
      BY <1>2, <2>2 DEF CallbackStep, SetError, SubmitThrows, UseAfterDestruction, schedulerVars
    <2> QED  BY <2>1, <2>2
  <1> QED  BY <1>1, <1>2

-----------------------------------------------------------------------------
(* Every variable keeps its type: in particular no count of predecessors   *)
(* is taken below zero, so no pipeline finishes twice, whatever late       *)
(* failures the executor reports.                                          *)
THEOREM TypeCorrect == Spec => []TypeOK
  BY SchedulerInvariant, PTL

(* As long as no error was set, a submitted pipeline finds the output of   *)
(* every fragment of its predecessors.                                     *)
THEOREM InputsAreComplete == Spec => []InputsComplete
  <1>1. TypeOK /\ SchedulerInv => InputsComplete
    <2> SUFFICES ASSUME TypeOK, SchedulerInv, ~error, NEW p \in Pipelines,
                        taskState[p] # "kWaiting", NEW q \in Predecessors[p]
                 PROVE  Succeeded(q) = Fragments[q]
      BY DEF InputsComplete
    <2>1. q \in Pipelines  BY PipelineAssumption
    <2>2. taskState[q] = "kFinished"  BY DEF SchedulerInv, CountsAreExact, Unfinished
    <2> QED  BY <2>1, <2>2, FinishedIsComplete
  <1> QED  BY <1>1, SchedulerInvariant, PTL

(* OnHandleRequest answers with a result only if every fragment of every   *)
(* pipeline succeeded.                                                     *)
THEOREM ResultsAreComplete == Spec => []ResultIsComplete
  <1>1. TypeOK /\ SchedulerInv => ResultIsComplete
    BY DEF SchedulerInv, ResponseIsJustified, ResultIsComplete
  <1> QED  BY <1>1, SchedulerInvariant, PTL

(* No callback uses the scheduler after OnHandleRequest has returned,      *)
(* unless a fragment failed or an exception ended the request.             *)
THEOREM SchedulerOutlivesCallbacks == Spec => []NoUseAfterDestruction
  <1>1. TypeOK /\ SchedulerInv => NoUseAfterDestruction
    BY DEF TypeOK, SchedulerInv, ResponseIsJustified, NoUseAfterDestruction
  <1> QED  BY <1>1, SchedulerInvariant, PTL
=============================================================================

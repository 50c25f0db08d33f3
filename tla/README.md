# A TLA+ model of Skyrise

Skyrise is a serverless query engine. A coordinator, itself a cloud function,
compiles a query into a graph of *pipelines*; each pipeline is executed by many
*workers* (cloud functions) that each run one *fragment* of it, read their input
from object storage and write their output back. Workers answer through a message
queue. Inside a worker, a fragment is a graph of operator tasks on a thread pool.

This directory models the parts of the program where order, concurrency and
failure decide whether a query result is right: the task engine inside a worker,
the pipeline scheduler inside the coordinator, the executor that connects the two
through Lambda and SQS, the import operator that runs on the task engine, the
relational operators with the expressions they evaluate, the way of an object through
a storage backend and a file format and back, and the plans that the compiler makes,
from the request to the result.
Paths below are relative to `src/src/`.

## 1. Inventory

| component | state | operations | interacts with |
|---|---|---|---|
| Task engine (`lib/scheduler/worker`) | `state_`, `pending_predecessors_`, `exception_ptr_` of each task; `num_scheduled_tasks_`; the job queue; the threads' loops | Schedule, Submit, Execute, OnTaskFinished, Join, WaitForTasks, WaitForAllTasks, ~TaskExecutor | operators (nested waits), worker function |
| Concurrent queue (`lib/utils/concurrent`) | a deque, `closed_` | Push, Pop, TryPop, Close | task executor |
| Pipeline scheduler (`lib/scheduler/coordinator/pqp_pipeline_scheduler.cpp`) | state and two counters per pipeline, `error_message_` | Execute, Submit, OnFragmentExecutionFinishedCallback | executor (calls and callbacks), coordinator function |
| Lambda executor (`lib/scheduler/coordinator/lambda_executor.cpp`) | per pipeline: `processed_worker_ids`, `processed_count`, the handler threads | Execute, CollectSqsMessages, ~LambdaExecutor | Lambda, SQS, pipeline scheduler |
| Worker function (`bin/function/worker_function.cpp`) | none between invocations | OnHandleRequest, InvokeRecursive | Lambda, SQS, task engine |
| Coordinator function (`bin/function/coordinator_function.cpp`) | none between invocations | OnHandleRequest | pipeline scheduler, Lambda executor |
| Import path (`lib/operator/import_operator.cpp`, `lib/storage/io_handle`) | map of opened objects, queue of readers, chunks, `reader_error`, `bytes_read`; byte buffers by range | InitializeObjectReaders, CreateBufferedFormatReaders, OnExecute | task engine, storage |
| Export (`lib/operator/export_operator.cpp`, `output_handler.cpp`) | the error of the output handler | OnExecute, ProcessChunk, Finalize, Close | storage, file formats |
| Storage backends (`lib/storage/backend`) | parts of an upload with their counter; buffers and counters of running requests | Read, ReadObjectAsync, Write, Close, List, Delete | import, export, plan generators (List) |
| File formats (`lib/storage/formats`) | the position in the object, the read buffer, the schema | HasNext, Next, ProcessChunk, the byte ranges of columns | import, export |
| Tables (`lib/storage/table`) | chunks of typed segments | append, access | all operators |
| Operators (`lib/operator`) | hash tables, sort order | OnExecute | tables |
| Expressions (`lib/expression`) | none | evaluate, serialise | filter, projection, joins |
| Plan generators (`lib/compiler/pqp_generator`) | the pipelines under construction, the objects they announce | GeneratePqp, AddPipelineInput | coordinator function, storage |
| Physical plans (`lib/compiler/physical_query_plan`) | proxies, templates, fragment definitions | ToJson and FromJson of each, GenerateFragmentPlan, GetOrCreateOperatorInstance | coordinator and worker function |
| Catalog (`lib/metadata/schema`) | cached table schemas | lookup, registration | compiler |
| Metering and monitoring (`lib/metering`, `lib/monitoring`) | counters, traces | registration, statistics | all clients |
| Warm-up, clients, costs, profiling, utilities, benchmarks | none that a query depends on | | |

**What is hard.** Tasks are submitted from two sides, by whoever schedules them and
by whoever finishes their last predecessor. Threads that wait inside a task run
other tasks. Exceptions of tasks are carried to a waiting thread, if that thread
looks. The scheduler is shared by reference counting between the handler and the
tasks it runs. Lambda runs invocations at least once, SQS delivers at least once,
both in any order; the coordinator's handler threads are detached and may outlive
the objects they call. Parts of an upload end in callbacks of the SDK which share
counters with the writing thread, and a read may be repeated into memory that already
holds a part of it. Pipelines only agree by convention on the objects, partitions and
columns they hand on, and a plan crosses JSON twice. `PROJECT.json` lists each of these
hazards at its line.

**What makes each part correct.**

* Task engine: predecessors before successors; every scheduled task is run, exactly
  once; an operator's input exists while it is read; waiting ends, and when it ends
  normally everything is over and nothing failed.
* Pipeline scheduler: producers before consumers; a result only if every fragment
  succeeded; an answer in any case; nobody calls a destroyed scheduler.
* Executor: no response counts twice; a collector does not stop early; together
  with the workers it keeps the contract the scheduler relies on.
* Import: every chunk of every object exactly once, or a failure.
* Storage: what `Close` reports as stored is all there; no callback meets a destroyed
  writer; lines and column chunks come back whole, and ranges as the interface documents
  them, also after repeated requests; an export ends.
* Plans: the result is what SQL answers; the rows of an input reach the fragments that
  need them exactly once; a worker runs the plan that was generated; a failure has a
  cause in the request, the data or the configuration.
* Operators: whatever an operator returns is what SQL says of its input; a column that
  holds NULLs is declared nullable; when a pipeline ends without a result, there is a
  known cause. The code does not keep all NULLs: partitionings, joins and projections
  that split a chunk copy values without their flags. Of these the properties say that
  a NULL becomes the value below it and that nothing else changes.

## 2. Modules

| module | models |
|---|---|
| `FragmentScheduler` | the task engine and its client, the worker's handler thread |
| `FragmentSchedulerProofs`, `FragmentReturnProofs` | theorems about it: order and submission of tasks; waiting, inputs and aborts |
| `PqpPipelineScheduler` | the pipeline scheduler against the contract of an executor; also the abstract specification the next module implements |
| `PqpPipelineSchedulerProofs` | theorems about it |
| `LambdaExecutor` | pipeline scheduler, executor, workers, Lambda and SQS composed |
| `LambdaExecutorProofs` | theorems about it, the refinement among them |
| `ImportOperator` | the three rounds of subtasks of an import |
| `ImportOperatorProofs` | theorems about it |
| `Expressions` | segments, chunks, tables; the expression evaluator; SQL's reading of an expression |
| `AggregateHash` | grouping and aggregation, with the keys and result caches of the operator |
| `JoinOperators` | the hash join and the sorted merge join, all modes |
| `Operators` | a pipeline of operators on one table, filters and projections with their jobs |
| `OperatorsProofs` | theorems about it: the evaluator against SQL, filters, projections, declared NULLs |
| `ObjectUpload` | the export operator and the writers of S3, DynamoDB and the file system |
| `ByteBuffers` | the memory a read fills, and the stream through which the S3 client fills it |
| `ObjectFormats` | `ObjectBuffer`, the CSV writer and reader, the byte ranges of Parquet columns; extends `ByteBuffers` |
| `ObjectStorage` | an object from its export to its import: the three modules above with the readers of the backends |
| `ObjectUploadProofs`, `ObjectStorageProofs` | theorems about it: the export; ranges, buffers and column chunks of the import |
| `PlanExpressions` | the expressions of plans, through JSON and evaluated on a row |
| `ImportOptions` | options of the format readers through JSON, predicates pushed down to Arrow |
| `PhysicalPlans` | operator proxies, templates, fragment definitions, their serialization |
| `TpchPlans` | the generators of TPC-H 1, 3, 5, 6, 12 and of the ETL copy, the listing of a prefix |
| `QueryExecution` | a query from the request to its result |
| `MC...` | instances for TLC: task graphs, pipelines, tables, objects, queries |

Definitions named `... Mutant: ...` in a comment are deliberately wrong variants of
the definition that follows them. Nothing refers to them; substituting one for its
original shows that a property notices that kind of mistake.

### FragmentScheduler

An *activity* is a sequential flow of control: the handler thread (`Client`) or the
job of a task. `pc`, `cur`, `todo` and `rest` are the program counter and locals of
each activity. A thread's `stack` holds the jobs it is in, innermost first, because
`WorkerProcessSingleItemNoWait` runs a job inside another. Every access to an atomic
variable is a step; what happens under one lock is one step.

* `Schedule`, `CountScheduled`, `CheckReady` are the lines of
  `FragmentScheduler::Schedule`; the recursion over predecessors becomes `todo`,
  visited in any order, which contains the code's order.
* `TryEnqueue` and `PushJob` are `Submit`. They are shared by activities that schedule
  and activities that finish a task.
* `Execute` to `WakeJoiner` are `AbstractTask::Execute` with
  `OperatorTask::OnExecute` inside; `DecrementSuccessor` to `NotifyAllDone` are
  `OnTaskFinished`.
* `WorkerMain`, `WorkerProcessSingleItem` and `WorkerProcessSingleItemNoWait` are the
  executor's loops; `StopRunning`, `CloseQueue`, `JoinThreads` its destructor.
* `StartWaiting` to `AllJoined` are `WaitForTasks` on the handler thread,
  `CheckAllDone` and `BlockUntilNotified` are `WaitForAllTasks`, split where a
  notification can be lost.
* `holders` is the reference count of the scheduler: the handler and the tasks inside
  `ScheduleAndWaitForTasks`. Whoever removes the last one runs the destructor.
* `aborted` stands for a terminated process: an Assert outside the try block, an
  exception other than `AssertionFailedException`, a read of a missing input in a
  release build, a thread that joins itself.

`num_scheduled_tasks_` is an integer: its 64 bits are compared with zero only, and a
negative value stands for a wrapped one.

### PqpPipelineScheduler

The main thread (`MainStep`) submits the pipelines without predecessors, waits, and
responds. A caller of the callback goes through two critical sections, `SetError` and
`CountFragment`; between them the main thread may already respond, after which the
scheduler is gone and a section is a `UseAfterDestruction`. `ExecutorReports` is what
the scheduler may expect of `AbstractPqpPipelineFragmentExecutor`: reports only for
submitted pipelines, and a success for a fragment at most once. `AwsMayThrow` lets the
scheduler's and the handler's own calls into AWS end in exceptions, on the main thread (an
empty response) or on a callback's thread (`crashed`). `ExecutorThrows` is an exception on
a thread of the executor, which has reasons of its own for it (a response that names
neither worker nor pipeline), so it does not depend on `AwsMayThrow`.

### LambdaExecutor

Instantiates `PqpPipelineScheduler` and shares its state. A scheduler step that
submits pipelines also launches them (`LaunchSubmitted`): one invocation per leader,
the other fragments travelling with it (`Followers`). `StartWorker`, `FinishWorker`,
`LoseInvocation` and `RetryInvocation` are Lambda and the worker; a worker ends with a
success, a failure, a response that names neither worker nor pipeline, or a crash.
`inbox` is a set of messages that stay until deleted: redelivery is receiving again.
Equal responses of two runs of one worker are one message of that set, which is
received as often as two would be. Two runs of one worker do not overlap; their
responses may still be received in any order and at the same time. `Receive` hands a
batch to a handler thread; `Dedup` to `StoreCount` are `handle_message`, with the
load and the store of `processed_count` apart.

### ImportOperator

One import on the task engine, from which it needs only what
`ScheduleAndWaitForTasks` does on an executor thread: all tasks run in any
interleaving, the wait ends when all are done, exceptions of subtasks are dropped
(`FragmentScheduler` shows that they are). The three rounds are `OpenObject`, the two
read tasks and `ReaderJob`. Invalid column metadata throws a `std::logic_error` while
byte ranges are computed, which ends the process (`PrecomputeByteRanges`). `bytes_read` is loaded and stored in two steps because it
is not synchronised. `size_and_reader_map` is keyed by identifier.

### Expressions, AggregateHash, JoinOperators, Operators

A table is a record of column definitions and chunks; a chunk is a sequence of
segments; a segment holds raw values and, if it is nullable, one flag per row. The raw
value under a NULL is `Default`, as `ValueSegment::Append` leaves it. Rows are
identified by chunk and offset.

`Expressions` writes an expression as the sequence of its nodes, operands first, so
that evaluating it goes through the sequence once, as a recursive function over its
positions. `IsTable` and `IsExpression` say what tables and expressions the compiler and
the import make: segments of equal lengths in a chunk, operands of AND and OR and the
condition of a CASE that are truth values. The two entry points of the
evaluator are kept apart, because they do not agree on everything:
`EvaluateExpressionToSegment` works on series with null flags of length none, one or
all, `EvaluateExpressionToPositionList` on sets of positions. `UndefinedSegment` and
`UndefinedPositionList` say when the code reads past the end of a vector;
`SegmentFails` and `PositionListFails` when an Assert fails, because an expression is
NULL and has no type or because a NULL literal stands for a truth value. `SqlValue` is the
reference.

`AggregateHash` keeps the order of the code: keys per row (identifiers in order of
appearance, or the shifted integer itself), the shortcut that uses a key as an index,
the result cache, the contexts of the aggregates, the output. `JoinOperators` yields
pairs of rows from either algorithm and one output builder. The iteration order of the
hash join's multimap is not specified, hence any permutation of the build side.
A string is a number too, with 0 for the empty one; the result of `STRING_AGG` is a
sequence of such numbers and of `Delimiter`, and a pipeline ends with it.

In `Operators`, `table` is what the last operator returned, `input` what it was given
and `op` its parameters; `Execute` runs an operator of one step. A filter has one job
per chunk, which appends to the output under a mutex (`FilterChunk`), a projection has
one job per chunk which evaluates its expressions in order; the store into the flag
`nullable_columns` is `flag = flag || nullable`, so load (`EvaluateAndLoad`) and store
(`Store`) are separate and one can overwrite the other (`overlap` remembers that jobs
met there). A job in which an Assert fails ends unnoticed: a filter then has no rows of its
chunk, a projection no segments. `status` is `assert` when the task catches an assertion, `crashed` when an
exception or signal ends the process, and `undefined` when memory outside of what there
is would be read. `undefined` absorbs: nothing is claimed of what follows. Properties
are stated for `ready` pipelines, and `CrashNeedsCause` lists what may lead to the
others.

### ObjectUpload, ByteBuffers, ObjectFormats, ObjectStorage

`ObjectUpload` has the thread of the export operator (`main`) and one callback per part
of a multipart upload. The writer cuts its data into parts, hands each to the SDK and
goes on; a callback counts its part down and stores its tag under the mutex. The writer
increments `in_process_parts_count_` and grows `parts_` without it, so its load and its
store are two steps, and a resize that moves the vector under a callback's store loses
the tag. `Finalize` waits for the count, completes or aborts the upload; `Close` reports.
The writers of DynamoDB (one item, at most `kDynamoDbMaxItemSizeBytes`) and of the file
system are actions of their own. A file is there from the construction of its writer on
(`Opened`) and grows with each write; a write that fails leaves a part of its data in it.

`ByteBuffers` has a buffer around memory of the caller, or with memory of its own, and
`DelegateStreamBuffer` with its put position. The S3 client is external: an attempt
writes its body in pieces, one that fails may have written a part or an error message,
and each attempt asks the factory of `CreateGetObjectRequest` for its stream.

`ObjectFormats` is made of pure operators: `ObjectBuffer` with reads out of one buffer or
merged from several, the CSV reader with its read buffer and type guessing, the byte
ranges of column chunks with padding and merging. `ObjectStorage` reads an exported
object back: its size, its tail, ranges in any order of their answers, then chunk by
chunk through the format reader. `size_t` is a number modulo `kLastByteInFile + 1`. A
separate `Read` of any range, into memory of any kind, is compared with what
`abstract_storage.hpp:64` documents and the typed tests expect, both ends included
(`DocumentedRead`). `RangesAreRead` names the two departures of the code: S3 leaves out
the last byte of a range that ends inside the object, and returns the whole object for a
range of one byte (`S3CutsRange`); a file cannot be read from the middle to
`kLastByteInFile` (`FilesystemWraps`).

### PlanExpressions to QueryExecution

A plan is a map of proxies by identity, with the attributes that matter to execution.
`ToJson` and `FromJson` of expressions, proxies, templates and definitions are functions
between plans and what JSON keeps of them: a predicate's class becomes its condition,
several objects share one prefix, an option may be dropped. Booleans are read back with
`GetBool` of the AWS SDK, of which the source says at `aggregate_operator_proxy.cpp:93`
and `import_options.cpp:168` that it always returns false, and which it uses at
`partition_operator_proxy.cpp:68`, `export_operator_proxy.cpp:62` and
`import_options.cpp:277`. The SDK is not part of the repository, so both are modelled:
`run.getsBool` says whether it works. The generators of `TpchPlans`
follow the source pipeline by pipeline, with `AddPipelineInput` for each way of sharing an
input between fragments. A key is `<<prefix, directory, number, format>>`.

In `QueryExecution`, a request is validated and compiled (`Compile`), then a pipeline
whose predecessors have finished is executed in one step: each of its fragments is
instantiated from template and definition, both through JSON, and run on the store, a
map from keys to objects, each a schema with row groups. A table is a sequence of chunks
of rows and says of each column what it declares (type, nullable) and what its segments
have (type, null flags), which need not be the same: an import takes the schema from the
object and the segments from the reader, which never sets flags. The operators are those
of `Operators` on rows, with the Asserts on nullable and differing key columns, the walk
of the partitioning that does not get past an empty chunk, the schemas of several objects
that have to agree, and the writer, which casts segments to the declared type. Reading
flags that are not there and writing a nullable column without definition levels are
undefined; `run.strict` chooses between an end of the process and going on. The
types of columns in a plan are taken to be those of the tables. Values of the inputs are
never NULL; the NULL of a sum over no rows is. A projection that splits a chunk is beyond
the bounds (128 rows) and left to `Operators`. That pipelines and tasks run
in the right order is the subject of `PqpPipelineScheduler` and `FragmentScheduler`, and
fragments write different objects, so their interleaving is left to those modules.
`run.plan` holds a hand-made plan, which is how reader options that no generator sets
are executed.

`ResultIsAnswer` compares the stored result with the query over the rows of the input
objects. Its exemptions are conditions under which the code does give another result,
each of them a hazard or a finding: `MergesUnsorted` (Q5 with a sort-merge join in
pipeline 7, and any sort-merge join if `GetBool` returns false), `SplitsGroups` (Q3 with a broadcast join), `ExchangesNull` (a partial sum
without rows), `LosesPredicate` and `KeepsColumnOrder` (options of hand-made plans).
`FailureNeedsCause` lists with each failure what must have been in the request, in the
tables (OPTIONAL columns, objects with different schemas, an object without rows) or in
the configuration for it; every one of its causes occurs in the run.

## 3. Runs

| run | shows |
|---|---|
| `FragmentDiamond` | five tasks (a diamond with a subtask), two threads, any task may fail, either wait: all safety properties of the task engine |
| `FragmentAnswers` | two threads, both of which may be in a nested wait at once: the handler is always answered |
| `PipelinesFailing` | a diamond of pipelines, two callers, two failures, exceptions: order, completeness, lifetime, and an answer in any case |
| `ExecutorDuplicates` | two pipelines, three workers each run up to twice, two handler threads: duplicates never harm a query without failures |
| `ExecutorContract` | everything that can fail, fails: the composition implements `PqpPipelineScheduler`, a result has its data, and the coordinator answers unless it crashed or a worker never answers |
| `ImportObjects` | three object references, two with the same identifier, faults in every round: completeness, and no crash without a fault |
| `OperatorPipelines` | two operators in a row, of every kind, on some 60 tables: each result against SQL's reading of its input |
| `QueryPlans` | every plan the generators make for small tables with several schemas, `GetBool` either way, and scans with every reader option: the result is the answer, inputs are shared, plans survive JSON, failures have causes |
| `ObjectStorage` | exports with failing requests, lost updates and callbacks in any order, and imports with failing and repeated requests: completeness of what is stored and read, lifetime of the writer, an end of the export |
| `FragmentSilentFailure` | *violation*: a failed subtask is forgotten and the handler reports success |
| `FragmentUnanswered` | *violation*: after a failed assertion the handler may wait for ever |
| `MergeUnsorted` | *violation*: a sort-merge join in pipeline 7 of Q5 gets unsorted customers |

The violations are disagreements between the code and what its comments say of it;
`PROJECT.json` quotes both. More were met on the way and have no run of their own. A
property states each of them as a condition, and TLC finds it when the condition is taken
out:

| what the code does | condition | property, run |
|---|---|---|
| S3 reads a range without its last byte (`s3_storage.cpp:489`); `abstract_storage.hpp:64` and `storage_test.cpp:104` include it | `S3CutsRange` | `RangesAreRead`, `ObjectStorage` |
| the tail of a file is not read (`filesystem_storage.cpp:190` wraps) | `FilesystemWraps` | `RangesAreRead`, `ObjectStorage` |
| one failed part keeps an upload waiting for ever (`s3_storage.cpp:351`) | `Failed` | `ExportEnds`, `ObjectStorage` |
| a callback meets a scheduler that a failed query has destroyed (`pqp_pipeline_scheduler.cpp:91`) | `failures = 0` | `NoUseAfterDestruction`, `PipelinesFailing` |
| NULLs become values in partitionings, joins and split projections (`projection_operator.cpp:47`) | `WithoutFlags` | `PartitionKeeps`, `JoinMatches`, `ProjectionComputes`, `OperatorPipelines` |
| if `GetBool` returns false, as `aggregate_operator_proxy.cpp:93` says, no worker sorts partitions or consolidates row groups | `run.getsBool` | `WorkerRunsThePlan`, `ResultIsAnswer`, `QueryPlans` |
| with a broadcast join the top groups of Q3 are chosen by parts of their sums (`tpch_pqp_generator.cpp:622`) | `SplitsGroups` | `ResultIsAnswer`, `QueryPlans` |
| the NULL of an empty partial sum is added as whatever lies in its place (`parquet_reader.cpp:249`) | `ExchangesNull` | `ResultIsAnswer`, `QueryPlans` |
| a fragment without chunks declares other columns nullable than its siblings (`projection_operator.cpp:92`) | `OptionalColumns` | `FailureNeedsCause`, `QueryPlans` |
| options of hand-made plans are dropped, all columns of an object keep their order | `LosesPredicate`, `KeepsColumnOrder` | `ResultIsAnswer`, `QueryPlans` |

Others are causes of a failure that a property lists: a release build reads a missing
input after a predecessor failed, an executor thread can be the one to destroy the
executor, joining itself. `WaitForAllTasks` can miss its notification (it is called by
tests only). `STRING_AGG` drops the delimiter behind strings of a group that are empty up
to there; `SqlStringAgg` leaves such groups out. If all aggregates of a query are ANY, the
context of the first is cast to one of another type (`aggregate_hash_operator.cpp:907`):
undefined for strings (`MisreadsContext`).

**Bounds.** The races of the task engine are between two activities and one task, so
two threads plus the handler produce them all; the diamond has a task with two
predecessors and one with two successors, and the subtask a nested wait. One failure
and one success per fragment exercise both callback paths, two callers their overlap.
In the executor two pipelines give a producer and a consumer, two fragments and a
threshold of one give recursive invocation, two attempts and redelivery give every
kind of duplicate, and two handlers the lost update; `MaxFailures`, `MaxBatch` and
`MaxAttempts` are bounds of the model. The operators see tables of two columns and up
to three rows, in one chunk or two, with and without NULLs, and a table without
chunks; three rows give a group of two, a tie in a sort and a chunk that is cut, and
the second operator (`MaxOps`) sees what the first one leaves behind: empty chunks,
missing flags, reordered rows. `ChunkDefaultSize` and `DesiredChunkSize` are 2 in place
of 65535 and 128, so that both limits are crossed; `MinInt` is a small stand-in for the
smallest integer; `DoubleScale` makes averages integers; `MaxJoinRows` and `MaxColumns`
keep a join of a join out. A pipeline ends after `MaxOps` operators, so that run does
not look for deadlocks. Uploads have about ten bytes in parts of 4
(`kMultipartSizeBytes`), so that an upload has several parts and a last one that is
short; a DynamoDB item has 7 bytes at most, so that some do not fit; CSV read buffers of
6 to 20 bytes end before, at and behind newlines; Parquet ranges of 24 bytes with paddings
of 4 and 6 make column ranges touch, overlap and stay apart; `kLastByteInFile` is 127. A
request to S3 fails or is repeated once, after a part of its body or an error; other reads
go into memory of the caller of 0, 2 or 9 bytes, or of the buffer. Exports and imports end, so that run does not look for deadlocks either.
The queries see two to six rows per table at the boundaries of what they select, in one
to three objects of one or two row groups, with one or two workers per scan and per join
and each join algorithm in each place; `TopRows` is 2 in place of 10, `EtlObjectCount` 2,
`Scale` makes quotients integers. A table may have one OPTIONAL column in one or in all of
its objects, a key of another type, or an object without rows before the others; a scan
may expect another schema, a shorter, longer or empty one. A partition that gets no row, a fragment without
matching row and a group with rows in two fragments all occur. Handler threads and executor threads are
interchangeable, hence the symmetry sets of the runs that check safety only.

**Fairness.** Threads that can run are run (weak fairness of the client, of each
executor thread, of the coordinator's main thread and of each handler), as the
operating system guarantees. Spurious wakeups are never fair. In `FairSpec` of
`PqpPipelineScheduler` the executor reports the success of a submitted fragment
eventually. In `LambdaExecutor` that is derived from the fairness of Lambda (accepted
invocations run and end) and of SQS (a message that is offered again and again is
received again and again, which is strong fairness per fragment). In `ObjectStorage` the
writing thread and the callbacks of the SDK are weakly fair; `ExportEnds` leaves out
uploads with a failed part, for which `Finalize` does wait for ever, and those whose
counter lost an update.

## 4. Proofs

The theorems hold for every value of the constants that satisfies the assumptions of the
modules: every task graph and plan, any number of threads, handlers, attempts, references,
parts and bytes. Each rests on an inductive invariant that TLC has checked before on the
instances of section 3. The invariants are needed because none of the properties is
inductive by itself: they speak of results, and a step depends on counters, locals and
labels.

**Task engine** (`FragmentSchedulerProofs`), from `FragmentAssumption`: finitely many
tasks, the client is not a task, the graph stays within the tasks.

* `TypeCorrect`: `TypeOK` is inductive. It says which labels belong to whom and that
  `cur` names a task where it is used as one.
* `PendingCountCorrect` and `DependenciesRespected`: `PendingIsExact` is strengthened
  to `DependencyInv`, which adds that only a done task has entered its
  `OnTaskFinished` (otherwise `rest` is untouched) and that whatever is about to be
  submitted, is in the queue or has started is ready. A ready task has
  `rest[p]` without it for all predecessors `p`, so they are done.
* `JobsAreUnique`: `JobInv` ties the position of a task's job to its state: not yet
  pushed, in the queue or on a stack, and never in two places. `TryEnqueue` admits one
  activity to `PushJob`.
* `NobodyIsStranded`: uses the two above. The transition to scheduled and the
  decrement are each followed by a look at the other's variable, so whichever comes
  second sees both.

**What the engine promises its client** (`FragmentReturnProofs`), on top of these
invariants and of `TaskGraphAssumption`, which is what `OperatorTask` builds: predecessors
of a root are roots, subtasks are no roots, have no predecessors and are not nested in a
circle.

* `InputsStayAvailable`: `OutputIsKept` adds that a task has its output from the end of
  its operator on; a successor clears an input only after it has used it itself and only
  if all the others are done.
* `ReturnsAreQuiet`: `ControlInv` says what an activity is about at each label,
  `SubtasksAreAwaited` that an unfinished subtask has a task that cannot get past it, and
  `CountInv` that `num_scheduled_tasks_` is the number of counted tasks minus those that
  finished before they were counted. The counter alone can be zero too early; that it is
  not when the client looks follows from the client having counted its own roots. Without
  the assumption that subtasks have no predecessors this is false, as TLC shows: a subtask
  that waits for a task nobody waits for may still be on its way.
* `AbortsHaveCauses` has a hypothesis, `OnlyAssertions`: operators fail only with the
  exception that `AbstractTask::Execute` catches. Any other exception is an abort
  immediately (a hazard, at `abstract_task.cpp:74`).

**Pipeline scheduler** (`PqpPipelineSchedulerProofs`), from `PipelineAssumption`.
`SchedulerInv` says that both counters are exact (fragments not yet counted, predecessors
not yet finished), that a success is reported once, that a failure is noted before it is
counted, and that a response has its reason. `TypeCorrect`, `InputsAreComplete`,
`ResultsAreComplete` and `SchedulerOutlivesCallbacks` follow from it.

**Executor** (`LambdaExecutorProofs`), from `PlanAssumption` and `ExecutorAssumption`.
`ExecutorKeepsContract` is the refinement: an initial state is one of
`PqpPipelineScheduler`, and every step is one of its steps or leaves its variables alone.
The step that needs an argument is a handler's report: the invariant says that a message
is about a submitted pipeline and sent after the output was written
(`MessagesAreGenuine`), and that the report of a success belongs to the one handler which
inserted the worker's id (`SuccessesAreUnique`). The invariants of the scheduler then hold
of the composition, and with them `ResultsAreProduced` and `ConsumersFollowProducers`.
`CollectorsDrain` needs that `processed_count` is never more than the number of ids
(`CountsAreCovered`): a lost update makes a collector poll too long, never too short. The
proof attempt found a mistake in the model: `ExecutorThrows` was possible only with
`AwsMayThrow`, while the executor also crashes on a malformed response without it; the
abstract action was wrong and has lost that guard.

**Import** (`ImportOperatorProofs`), from `ImportAssumption`: `ImportInv` says which
labels belong to a round, that a reference finds the object it names, that a reader in the
queue belongs to one reference and that the chunks taken are the first ones of each
object. `ImportsAreComplete` and `CrashesHaveCauses` follow.

**Export** (`ObjectUploadProofs`), from `UploadAssumption`: `DataInv` says that what was
sent in parts, what is in the current part and what is still to be cut are together what
was written; `OpenInv` that as long as S3 knows the upload, its parts are numbered as they
were sent and hold their bytes, and that an element of `parts_` is either right or was not
filled in (S3 then refuses to complete); `CountInv` that the counter is that of the
callbacks under way unless an update was lost. They give `StoredObjectsAreComplete` and
`WritersOutliveCallbacks`. `Concatenated` is a recursive function; what it computes is
derived from the two equations of a recursion over an initial segment, with an induction
over sets of natural numbers (`LeastMember`, `SetInduction`), which needs no operator
parameter and so is within reach.

**Storage** (`ObjectStorageProofs`), from these, `FormatsAssumption` (sizes of requests
and paddings) and `StorageAssumption`: an object has a `size_t` of bytes, the footer is the
end of a Parquet file, and `IsParquet` holds of what is imported. `IsParquet` says that
row groups have the same columns, that no column chunk is empty (it has the header of a
page) and that an import asks for at least one row group and for row groups in the order
of the file; `RemoveOverlaps` states the order as its precondition, and takes one off the
number of ranges without looking whether there are any.

* `RangesAreReadExactly`: lemmas about `ByteBuffers` say what resizing, copying, the put
  position of the stream and a repeated attempt leave in memory of either kind;
  `ReadIsSlice` that each backend's arithmetic on `size_t` denotes a slice of the object.
  It is the documented one but in the two cases above, for which the theorem says what
  comes instead.
* `ObjectsAreWhole`: an object of S3 or DynamoDB is all that the formatter wrote or not
  there, also if `Close` reported an error. A file is not: it has the writes so far, and
  all of them from `Close` on.
* `BuffersAreExact`: of an import that goes on, each buffer of a proper range is either
  exact or not answered yet, in any order of the answers.
* `ColumnsAreReadExactly`, in two halves. Reading from exact buffers, a single one or
  several that overlap, gives the bytes of the object wherever the buffers cover them
  (`CoveredColumnsAreRead`). And the buffers cover every column chunk asked for
  (`CoverageInv`), for every file, request size and padding: `ParquetIsLaidOut` derives the
  layout from the sums of the chunk lengths; for whole row groups, a byte is in a range that
  its successor does not cut before it (`HoldsUncut`), also when the padding of a row group
  reaches past the beginning of the next one, or its last piece even begins there
  (`AddRangesSafeFacts`, `RemoveOverlapsFacts`); for single columns, each new range keeps
  the bytes of the earlier ones, appended or merged, in whatever order the columns come
  (`ComputeByteRangeFacts`). Both computations are recursive functions over an initial
  segment, like `Concatenated`.

**Operators** (`OperatorsProofs`), from `NullAssumption` (NULL is no number),
`InputsAssumption` (pipelines start with tables that are well formed and declare their
NULLs) and `OperationsAssumption` (operators have the parameters that the compiler makes).

* `PredicateIsSql` and `SegmentIsSql`: the position list and the segment that the
  evaluator computes are those of SQL's three-valued logic, for every expression, table and
  chunk. The invariant of the evaluation (`Correct`) says that the result of each node has
  no flags, one or one per row, and reads as the value of the node at each row; a lemma per
  kind of node carries it on, and an induction over the positions (`SetInduction`) closes
  it. AND and OR of position lists are right because a row whose operand is NULL is on
  neither list. IN over a list of strings that has a NULL is excepted (`DropsNull`): the
  evaluator drops the NULL, SQL does not.
* `FiltersSelect`: `FilterInv` says that the output of a filter under way consists of one
  chunk for each job that has ended, in any order, with the matches of its input chunk
  (`From`); `OpInv` that the operator under way has the table it was given. The number of
  times a row occurs is then counted chunk by chunk.
* `ProjectionsCompute`: `ProjectionInv` says how far each job has come and that whatever it
  has passed is evaluated or forwarded. The rows it computes on are those of
  `ProjectionSource`: of the input, or, if that was split, of the input with values in
  place of its NULLs. `SplitKeepsRows` says that pieces of
  `DesiredChunkSize` rows, the last one shorter, put back together are the rows of the
  chunk that was cut.
* `NullsStayDeclared`: the flags are shared by the jobs, so `NullInv` has to speak of the
  moment between load and store: unless jobs overlapped, a job that has loaded a flag is
  alone with it and its store will raise the flag if its own segment has NULLs; every
  segment that is finished has its flag raised already (`FlagsInv`). There is one lemma for
  each of the other operators (`LimitDeclares`, `SortDeclares`, `PartitionDeclares`,
  `AliasDeclares`, `JoinDeclares`, `AggregateDeclares`, `FilterDeclares`).

The last three speak of operators whose input is well formed (`IsTable(input)`). Of the
first operator of a pipeline that is `InputsAssumption`; that each operator leaves a table
well formed for the next is a part of `CrashNeedsCause`, which TLC checks: it depends on
the sorts and folds mentioned below. Only a table with a result of `STRING_AGG` is not,
and a pipeline ends with it.

**Only model-checked:**

* all liveness (`Responds`, `ExportEnds`), which is out of the prover's reach;
* `LinesAreRead`, which is about parsing;
* `SortOrders`, `PartitionKeeps`, `JoinMatches` and `AggregateGroups`: they rest on sorting
  and folding operators of the library (`SortSeq`, `SelectSeq`, `FoldLeft`), whose
  parameters are operators, and there is no theorem to cite of what they compute;
* `CrashNeedsCause`, which is a list of causes for the operators of the instance. It is
  false of some others that `OperationsAssumption` admits, and rightly: each operator that
  is added may bring a cause of its own;
* the properties of `QueryExecution`: expressions and plans are trees there, and the modules
  below it use recursive operators, about which the prover cannot reason.

## 5. Plan

1. *Done:* task engine, pipeline scheduler, executor, import, operators and
   expressions, storage, plans; the safety properties of the first four, of the export and
   of the reading of ranges and Parquet columns proved, the refinement of the pipeline
   scheduler, and of the operators the evaluator, filters, projections and the declaration
   of NULLs.
2. That every operator leaves a well-formed table, which would remove the hypothesis
   `IsTable(input)`: sorting and grouping as recursive functions, like `Offsets`.
3. Request metering and the catalog, if a query should come to depend on them.

## 6. Not modelled

Calls into SDKs beyond their outcomes, formatting of requests and responses, logging,
tracing, statistics, costs and measurements, warm-up; the parsing and the encodings done
by third-party libraries; benchmarks. Memory reclaimed under a running thread is modelled
where the code's objects outlive their users (`dangling`), not for members of one object
that are destroyed in an order of their own.

*Operators and expressions:* checks of debug builds, names of columns, negative limits,
arithmetic overflow of column values, floating point; `STDDEV_SAMP`; the evaluation of
`CAST`, `EXTRACT`, `LIKE`, `SUBSTR` and `CONCAT` (nothing calls the last two).

*Storage:* Delete; the tables of DynamoDB; the stream over an object reader and seeking
in streams (tests use them); a file system that accepts a write and fails to flush it on
`Close`, which the code does not notice; NULLs in CSV; the two
flags for guessing types and header, which are one here; the ORC writer and the bytes of
ORC files; the threshold at which the consolidating Parquet writer starts a row group;
row groups in an order that is not ascending.

*Plans:* names of columns and aliases; declared types of columns that differ from those of
the tables; NULLs among the values of input tables; deep copies, descriptions
and hashes of proxies; chunks of several objects in another order than the objects'; large
objects, which `ObjectStorage` reads by ranges; the logical plan and functional
dependencies, which nothing uses (`FunctionalDependency::operator==` asks that the
dependents of the one are *not* among those of the other; no run is about it).

`PROJECT.json` lists every component with its reason.

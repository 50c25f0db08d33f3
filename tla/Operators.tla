------------------------------ MODULE Operators ------------------------------
(***************************************************************************)
(* The relational operators of a worker (src/lib/operator), run one after  *)
(* the other on the table that the previous one has left, as in a          *)
(* fragment.  Filter and Projection hand one job per chunk to the          *)
(* FragmentScheduler; the jobs run concurrently.  The other operators      *)
(* share nothing between their jobs, if they have any, and are one step.   *)
(*                                                                         *)
(* A pipeline ends early in one of three ways: an Assert fails ("assert",  *)
(* caught by the task), another exception or signal ends the process       *)
(* ("crashed"), or a step reads outside of what there is ("undefined",     *)
(* which stands for every outcome).                                        *)
(***************************************************************************)
EXTENDS AggregateHash, JoinOperators

CONSTANTS
    Inputs,            \* tables a fragment may start from
    Operations,        \* operators with their parameters
    MaxOps,            \* operators in a pipeline
    MaxJoinRows,       \* rows and ...
    MaxColumns,        \* ... columns that still enter a join
    ChunkDefaultSize,  \* kChunkDefaultSize, 65535
    DesiredChunkSize,  \* desired_chunk_size of ProjectionOperator, 128
    HashCombine(_, _)  \* boost::hash_combine

ASSUME OperatorsAssumption ==
    /\ {MaxOps, MaxJoinRows, MaxColumns} \subseteq Nat
    /\ {ChunkDefaultSize, DesiredChunkSize} \subseteq Nat \ {0}

ASSUME InputsAssumption == \A t \in Inputs : IsTable(t) /\ NullsDeclared(t)

(* Operators as plans have them: o.columns are the columns an expression   *)
(* reads, column 0 of an aggregate is that of COUNT( * ).                  *)
IsOperation(o) ==
    CASE o.kind = "Limit" -> o.rows \in Nat \cup {NULL}
      [] o.kind = "Filter" -> IsExpression(o.predicate, o.columns) /\ IsTruth(Last(o.predicate))
      [] o.kind = "Projection" ->
            /\ Len(o.expressions) \in Nat \ {0} /\ DOMAIN o.expressions = 1 .. Len(o.expressions)
            /\ \A c \in DOMAIN o.expressions : /\ IsExpression(o.expressions[c].nodes, o.columns)
                                               /\ o.expressions[c].type \in STRING
      [] o.kind = "Alias" -> o.columns \in Seq(Nat) /\ ToSet(o.columns) \subseteq DOMAIN o.columns
      [] o.kind \in {"HashJoin", "SortedMergeJoin"} -> IsTable(o.right) /\ o.mode \in Modes
      [] o.kind = "Aggregate" ->
            /\ o.groups \in Seq(Nat \ {0})
            /\ Len(o.aggregates) \in Nat /\ DOMAIN o.aggregates = 1 .. Len(o.aggregates)
            /\ \A a \in DOMAIN o.aggregates :
                  /\ o.aggregates[a].func \in Functions
                  /\ o.aggregates[a].column \in Nat
                  /\ o.aggregates[a].func # "kCount" => o.aggregates[a].column # 0
            /\ o.groups # <<>> \/ o.aggregates # <<>>
      [] OTHER -> o.kind \in {"Sort", "Partition"}

ASSUME OperationsAssumption == \A o \in Operations : IsOperation(o)

VARIABLES
    table,     \* the output of the last operator
    input,     \* its input
    op,        \* the last operator, finished or not
    status,    \* ready, filtering, projecting, assert, crashed or undefined
    steps,     \* operators started
    pending,   \* chunks whose job has not run (Filter)
    jobs,      \* per chunk: the next expression and the flag loaded for it (Projection)
    out,       \* output_chunks of Filter, output_segments_by_chunk of Projection
    nullable,  \* nullable_columns of Projection
    overlap    \* two jobs were between load and store of one flag

jobVars == <<pending, jobs, out, nullable, overlap>>
vars == <<table, input, op, status, steps, jobVars>>

NoOperator == [kind |-> "None"]

Init ==
    /\ table \in Inputs
    /\ input = table
    /\ op = NoOperator
    /\ status = "ready"
    /\ steps = 0
    /\ pending = {}
    /\ jobs = <<>>
    /\ out = <<>>
    /\ nullable = <<>>
    /\ overlap = FALSE

(***************************************************************************)
(* Operators in one step.  Outcomes(o) are the ways operator o may end.    *)
(***************************************************************************)
Returns(t)   == [status |-> "ready", table |-> t]
FailsWith(s) == [status |-> s, table |-> table]

(* A bound: no operator follows STRING_AGG.                                *)
Concatenated ==
    op.kind = "Aggregate" /\ \E a \in DOMAIN op.aggregates : op.aggregates[a].func = "kStringAgg"

Starts(o) ==
    /\ status = "ready"
    /\ steps < MaxOps
    /\ ~Concatenated
    /\ op' = o
    /\ input' = table
    /\ steps' = steps + 1

Of(kind) == {o \in Operations : o.kind = kind}

Execute(o, outcomes) ==
    /\ Starts(o)
    /\ \E outcome \in outcomes : status' = outcome.status /\ table' = outcome.table
    /\ UNCHANGED jobVars

WithChunks(t, chunks) == [columns |-> t.columns, chunks |-> chunks]

Count(s, x) == Cardinality({i \in DOMAIN s : s[i] = x})

HasColumns(t, columns) == columns \subseteq DOMAIN t.columns

(* Expressions and sums are of numbers.                                    *)
HasNumbers(t, columns) == HasColumns(t, columns) /\ \A c \in columns : t.columns[c].type # "string"

(***************************************************************************)
(* LimitOperator: the chunk that crosses the limit is cut and copied with  *)
(* flags for its NULLs, the chunks after it are dropped.                   *)
(***************************************************************************)
SliceChunk(chunk, n) ==
    [c \in DOMAIN chunk |->
        LET null(i) == SegmentIsNull(chunk[c], i)
        IN Nullable([i \in 1 .. n |-> IF null(i) THEN Default ELSE chunk[c].values[i]],
                    [i \in 1 .. n |-> null(i)])]

RowsBefore(chunks, k) ==
    LET before[m \in DOMAIN chunks] ==
            IF m = 1 THEN 0 ELSE before[m - 1] + ChunkSize(chunks[m - 1])
    IN before[k]

LimitChunks(chunks, n) ==
    LET tooLong == {k \in DOMAIN chunks : RowsBefore(chunks, k) + ChunkSize(chunks[k]) > n}
        k == Min(tooLong)
    IN IF tooLong = {} THEN chunks
       ELSE Append(SubSeq(chunks, 1, k - 1), SliceChunk(chunks[k], n - RowsBefore(chunks, k)))

LimitOutcomes(o) ==
    {IF o.rows = NULL THEN FailsWith("assert")
     ELSE Returns(WithChunks(table, LimitChunks(table.chunks, o.rows)))}

Limit == \E o \in Of("Limit") : Execute(o, LimitOutcomes(o))

(***************************************************************************)
(* SortOperator: sorted by the last definition first, each time stably.    *)
(***************************************************************************)
Ascending(a, b) == a < b

(* SortImplementation::Sort; rows where the key is NULL come first.        *)
SortStep(t, ids, definition) ==
    LET key(n) == Get(t.chunks[ids[n][1]][definition.column], ids[n][2])
        less(a, b) == IF definition.descending THEN key(a) > key(b) ELSE key(a) < key(b)
        before(a, b) == less(a, b) \/ (~less(b, a) /\ a < b)
        nulls == {n \in DOMAIN ids : key(n) = NULL}
        order == SetToSortSeq(nulls, Ascending) \o SetToSortSeq(DOMAIN ids \ nulls, before)
    IN [n \in DOMAIN order |-> ids[order[n]]]

(* Mutant: the most significant definition is applied first.               *)
SortedFromFirst(t, definitions) ==
    FoldLeft(LAMBDA ids, definition : SortStep(t, ids, definition), RowIds(t), definitions)

SortedPositions(t, definitions) ==
    FoldLeft(LAMBDA ids, definition : SortStep(t, ids, definition), RowIds(t), Reverse(definitions))

MaterializeChunk(t, ids) ==
    [c \in DOMAIN t.columns |->
        LET values == [n \in DOMAIN ids |-> Raw(t, c, ids[n])]
        IN IF ColumnIsNullable(t, c) THEN Nullable(values, [n \in DOMAIN ids |-> FALSE])
           ELSE Plain(values)]

MaterializeOutputTable(t, ids, size) ==
    WithChunks(t, [k \in 1 .. (Len(ids) + size - 1) \div size |->
        MaterializeChunk(t, SubSeq(ids, (k - 1) * size + 1, Smaller(k * size, Len(ids))))])

SortOutcomes(o) ==
    {IF ~HasColumns(table, {o.by[n].column : n \in DOMAIN o.by}) THEN FailsWith("assert")
     ELSE IF RowCount(table) = 0 THEN Returns(table)
     ELSE IF NullsOf(table) # {} THEN FailsWith("crashed")
     ELSE Returns(MaterializeOutputTable(table, SortedPositions(table, o.by), ChunkDefaultSize))}

Sort == \E o \in Of("Sort") : Execute(o, SortOutcomes(o))

(***************************************************************************)
(* PartitionOperator with a HashPartitioningFunction.  The walk that turns *)
(* row numbers into RowIds does not leave a chunk without rows.            *)
(***************************************************************************)
Hash(t, columns, id) ==
    FoldLeft(LAMBDA h, c : HashCombine(h, Raw(t, c, id)), 0, columns)

PositionLists(t, columns, count) ==
    [p \in 1 .. count |->
        SelectSeq(RowIds(t), LAMBDA id : Hash(t, columns, id) % count = p - 1)]

WalkSticks(t) ==
    \E k, m \in DOMAIN t.chunks :
        k < m /\ ChunkSize(t.chunks[k]) = 0 /\ ChunkSize(t.chunks[m]) > 0

(* Mutant: the columns are sorted by in the order of SortOperator.         *)
SortPartitionByFirst(t, chunk, columns) ==
    LET partition == WithChunks(t, <<chunk>>)
        by == [n \in DOMAIN columns |-> [column |-> columns[n], descending |-> FALSE]]
    IN MaterializeChunk(partition, SortedPositions(partition, by))

(* The columns are sorted by in their own order, the last one decides.     *)
SortPartition(t, chunk, columns) ==
    LET partition == WithChunks(t, <<chunk>>)
        by == [n \in DOMAIN columns |-> [column |-> columns[n], descending |-> FALSE]]
    IN MaterializeChunk(partition, SortedPositions(partition, Reverse(by)))

PartitionChunks(t, o) ==
    LET lists == PositionLists(t, o.columns, o.count)
    IN [p \in DOMAIN lists |->
           IF o.sorted THEN SortPartition(t, Copied(t, lists[p]), o.columns) ELSE Copied(t, lists[p])]

(* Mutant: partitions that are not sorted are materialized in the same way.*)
DividesAlways(t, o) == \E p \in 1 .. o.count : PositionLists(t, o.columns, o.count)[p] = <<>>

(* Materializing a sorted partition divides by its number of rows.         *)
DividesByZero(t, o) ==
    o.sorted /\ \E p \in 1 .. o.count : PositionLists(t, o.columns, o.count)[p] = <<>>

PartitionOutcomes(o) ==
    {IF ~HasColumns(table, ToSet(o.columns)) \/ \E c \in ToSet(o.columns) : ColumnIsNullable(table, c)
     THEN FailsWith("assert")
     ELSE IF WalkSticks(table) THEN FailsWith("undefined")
     ELSE IF DividesByZero(table, o) THEN FailsWith("crashed")
     ELSE Returns(WithChunks(table, PartitionChunks(table, o)))}

Partition == \E o \in Of("Partition") : Execute(o, PartitionOutcomes(o))

(***************************************************************************)
(* AliasOperator (names are left out, columns are reordered).              *)
(***************************************************************************)
AliasOutcomes(o) ==
    {IF Len(table.columns) # Len(o.columns) THEN FailsWith("assert")
     ELSE Returns([columns |-> [n \in DOMAIN o.columns |-> table.columns[o.columns[n]]],
                   chunks |-> [k \in DOMAIN table.chunks |->
                       [n \in DOMAIN o.columns |-> table.chunks[k][o.columns[n]]]]])}

Alias == \E o \in Of("Alias") : Execute(o, AliasOutcomes(o))

(***************************************************************************)
(* The joins.  The order of the build side is the multimap's.              *)
(***************************************************************************)
WithinJoinBounds(o) ==
    /\ HasColumns(table, {o.on.l})
    /\ RowCount(table) <= MaxJoinRows
    /\ Len(table.columns) + Len(o.right.columns) <= MaxColumns

HashJoinOutcomes(o) ==
    IF ~WithinJoinBounds(o) THEN {}
    ELSE IF ~JoinIsSupported(table, o.right, o.on) THEN {FailsWith("assert")}
    ELSE LET build == BuildSide(table, o.right, o.mode)
         IN {Returns(JoinOutput(table, o.right, o.mode,
                                HashPairs(table, o.right, o.on, o.mode, order))) :
                order \in SetToSeqs(ToSet(RowIds(build)))}

HashJoin == \E o \in Of("HashJoin") : Execute(o, HashJoinOutcomes(o))

SortedMergeJoinOutcomes(o) ==
    IF ~WithinJoinBounds(o) THEN {}
    ELSE {IF ~JoinIsSupported(table, o.right, o.on) THEN FailsWith("assert")
          ELSE IF MergeThrows(table, o.right) THEN FailsWith("crashed")
          ELSE Returns(JoinOutput(table, o.right, o.mode, MergePairs(table, o.right, o.on)))}

SortedMergeJoin == \E o \in Of("SortedMergeJoin") : Execute(o, SortedMergeJoinOutcomes(o))

(***************************************************************************)
(* AggregateHashOperator.                                                  *)
(***************************************************************************)
AggregateColumns(o) ==
    ToSet(o.groups) \cup ({o.aggregates[a].column : a \in DOMAIN o.aggregates} \ {0})

SummedColumns(o) ==
    {o.aggregates[a].column : a \in {b \in DOMAIN o.aggregates : o.aggregates[b].func \in {"kSum", "kAvg"}}}

AggregateOutcomes(o) ==
    IF ~HasColumns(table, AggregateColumns(o)) \/ ~HasNumbers(table, SummedColumns(o)) THEN {}
    ELSE {IF StringAggFails(table, o.aggregates) THEN FailsWith("assert")
          ELSE IF GroupsUnwritten(o.aggregates) THEN FailsWith("crashed")
          ELSE IF MisreadsContext(table, o.groups, o.aggregates) THEN FailsWith("undefined")
          ELSE Returns(AggregateOutput(table, o.groups, o.aggregates))}

Aggregate == \E o \in Of("Aggregate") : Execute(o, AggregateOutcomes(o))

(***************************************************************************)
(* FilterOperator: a job per chunk, which appends its chunk of matches to  *)
(* the output under a mutex.  A NULL among the matches throws, unless the  *)
(* whole chunk matches.  A job in which an Assert fails appends nothing,   *)
(* and as it was scheduled by a task nobody looks at its exception: the    *)
(* operator goes on as if no row had matched.                              *)
(***************************************************************************)
StartFilter ==
    \E o \in Of("Filter") :
        /\ HasNumbers(table, o.columns)
        /\ Starts(o)
        /\ status' = "filtering"
        /\ pending' = DOMAIN table.chunks
        /\ out' = <<>>
        /\ UNCHANGED <<table, jobs, nullable, overlap>>

(* The rows of a position list, in the order in which they are scanned.    *)
Offsets(matches, size) ==
    LET offsets[i \in 0 .. size] ==
            IF i = 0 THEN <<>>
            ELSE IF i \in matches THEN Append(offsets[i - 1], i) ELSE offsets[i - 1]
    IN offsets[size]

Matching(chunk, matches) ==
    LET offsets == Offsets(matches, ChunkSize(chunk))
    IN [c \in DOMAIN chunk |-> Plain([n \in DOMAIN offsets |-> chunk[c].values[offsets[n]]])]

MatchesNull(chunk, matches) ==
    \E c \in DOMAIN chunk, i \in matches : SegmentIsNull(chunk[c], i)

JobMatches(e, t, chunk) ==
    IF PositionListFails(e) THEN {} ELSE EvaluateExpressionToPositionList(e, t, chunk)

FilterChunk(k) ==
    LET chunk == table.chunks[k]
        whole(matches) == Cardinality(matches) = ChunkSize(chunk)
    IN \E matches \in {JobMatches(op.predicate, table, chunk)} :
       /\ status = "filtering" /\ k \in pending
       /\ pending' = pending \ {k}
       /\ \/ /\ UndefinedPositionList(op.predicate, table, chunk)
             /\ status' = "undefined"
             /\ UNCHANGED out
          \/ /\ ~UndefinedPositionList(op.predicate, table, chunk)
             /\ matches = {}
             /\ UNCHANGED <<status, out>>
          \/ /\ ~UndefinedPositionList(op.predicate, table, chunk)
             /\ matches # {} /\ ~whole(matches) /\ MatchesNull(chunk, matches)
             /\ status' = "crashed"
             /\ UNCHANGED out
          \/ /\ ~UndefinedPositionList(op.predicate, table, chunk)
             /\ matches # {} /\ (whole(matches) \/ ~MatchesNull(chunk, matches))
             /\ out' = Append(out, IF whole(matches) THEN chunk ELSE Matching(chunk, matches))
             /\ UNCHANGED status
       /\ UNCHANGED <<table, input, op, steps, jobs, nullable, overlap>>

FinishFilter ==
    /\ status = "filtering" /\ pending = {}
    /\ status' = "ready"
    /\ table' = WithChunks(table, out)
    /\ out' = <<>>
    /\ UNCHANGED <<input, op, steps, pending, jobs, nullable, overlap>>

(***************************************************************************)
(* ProjectionOperator.  Columns are forwarded by the operator itself, the  *)
(* other expressions are evaluated by a job per chunk, which then loads    *)
(* and stores the atomic nullable flag of its expression in two steps.  A  *)
(* job in which an Assert fails ends there, unnoticed, and the segments it *)
(* did not get to stay null pointers: whoever is given the table reads     *)
(* through them.                                                           *)
(***************************************************************************)
Forwards(e) == Len(e.nodes) = 1 /\ e.nodes[1].kind = "Column"

(* Mutant: rows after the last full piece are forgotten.                   *)
SplitFullPieces(t) ==
    IF Len(t.chunks) # 1 \/ RowCount(t) <= DesiredChunkSize THEN t
    ELSE WithChunks(t, [k \in 1 .. RowCount(t) \div DesiredChunkSize |->
             Copied(t, [i \in 1 .. DesiredChunkSize |-> <<1, (k - 1) * DesiredChunkSize + i>>])])

(* A single chunk that is too large is copied piece by piece with Get.     *)
Split(t) ==
    LET rows == ChunkSize(t.chunks[1])
        pieces == (rows + DesiredChunkSize - 1) \div DesiredChunkSize
        offset(k) == (k - 1) * DesiredChunkSize
        ids(k) == [i \in 1 .. Smaller(DesiredChunkSize, rows - offset(k)) |-> <<1, offset(k) + i>>]
    IN IF Len(t.chunks) # 1 \/ rows <= DesiredChunkSize THEN t
       ELSE WithChunks(t, [k \in 1 .. pieces |-> Copied(t, ids(k))])

(* The first expression from column c on that a job has to evaluate.       *)
NextEvaluated(o, c) ==
    LET columns == DOMAIN o.expressions
    IN Min({d \in columns : d >= c /\ ~Forwards(o.expressions[d])} \cup {Len(o.expressions) + 1})

ForwardedSegments(o, chunk) ==
    [c \in DOMAIN o.expressions |->
        IF Forwards(o.expressions[c]) THEN chunk[o.expressions[c].nodes[1].column] ELSE Plain(<<>>)]

(* The flag that a job has loaded is a set of at most one element.         *)
NotLoaded == {}
Job(at, flag) == [at |-> at, flag |-> flag]

StartProjection ==
    \E o \in Of("Projection") :
        LET source == Split(table)
        IN /\ HasNumbers(table, o.columns)
           /\ Starts(o)
           /\ status' = "projecting"
           /\ out' = [k \in DOMAIN source.chunks |-> ForwardedSegments(o, source.chunks[k])]
           /\ nullable' = [c \in DOMAIN o.expressions |->
                 /\ source.chunks # <<>> /\ Forwards(o.expressions[c])
                 /\ ColumnIsNullable(source, o.expressions[c].nodes[1].column)]
           /\ jobs' = [k \in DOMAIN source.chunks |-> Job(NextEvaluated(o, 1), NotLoaded)]
           /\ UNCHANGED <<table, pending, overlap>>

(* The expression that the job of chunk k is at, and the segment it gets.  *)
Running(k) == status = "projecting" /\ jobs[k].at <= Len(op.expressions)
Current(k) == jobs[k].at
Evaluation(k) == EvaluateExpressionToSegment(op.expressions[Current(k)].nodes, Split(input),
                                             Split(input).chunks[k])

EvaluateAndLoad(k) ==
    LET fails == SegmentFails(op.expressions[Current(k)].nodes)
        undefined == UndefinedSegment(op.expressions[Current(k)].nodes, Split(input),
                                      Split(input).chunks[k])
        racing == \E m \in DOMAIN jobs \ {k} : jobs[m].at = jobs[k].at /\ jobs[m].flag # NotLoaded
    IN /\ Running(k) /\ jobs[k].flag = NotLoaded
       /\ \/ /\ undefined
             /\ status' = "undefined"
             /\ UNCHANGED <<jobs, overlap>>
          \/ /\ ~undefined /\ fails
             /\ jobs' = [jobs EXCEPT ![k].at = Len(op.expressions) + 1]
             /\ UNCHANGED <<status, overlap>>
          \/ /\ ~undefined /\ ~fails
             /\ jobs' = [jobs EXCEPT ![k].flag = {nullable[Current(k)] \/ Evaluation(k).nullable}]
             /\ overlap' = (overlap \/ racing)
             /\ UNCHANGED status
       /\ UNCHANGED <<table, input, op, steps, pending, out, nullable>>

Store(k) ==
    /\ Running(k) /\ jobs[k].flag # NotLoaded
    /\ nullable' = [nullable EXCEPT ![Current(k)] = TRUE \in jobs[k].flag]
    /\ out' = [out EXCEPT ![k][Current(k)] = Evaluation(k)]
    /\ jobs' = [jobs EXCEPT ![k] = Job(NextEvaluated(op, @.at + 1), NotLoaded)]
    /\ UNCHANGED <<table, input, op, status, steps, pending, overlap>>

(* The definitions of the output columns need the type of every            *)
(* expression.                                                             *)
LacksType(o) == \E c \in DOMAIN o.expressions : HasNoType(o.expressions[c].nodes)

LacksSegments(o) ==
    jobs # <<>> /\ \E c \in DOMAIN o.expressions : SegmentFails(o.expressions[c].nodes)

ProjectionOutput ==
    [columns |-> [c \in DOMAIN op.expressions |->
                     [type |-> op.expressions[c].type, nullable |-> nullable[c]]],
     chunks |-> out]

FinishProjection ==
    /\ status = "projecting"
    /\ \A k \in DOMAIN jobs : ~Running(k)
    /\ \/ /\ LacksType(op)
          /\ status' = "assert"
          /\ UNCHANGED table
       \/ /\ ~LacksType(op) /\ LacksSegments(op)
          /\ status' = "undefined"
          /\ UNCHANGED table
       \/ /\ ~LacksType(op) /\ ~LacksSegments(op)
          /\ status' = "ready"
          /\ table' = ProjectionOutput
    /\ jobs' = <<>>
    /\ out' = <<>>
    /\ nullable' = <<>>
    /\ UNCHANGED <<input, op, steps, pending, overlap>>

Next ==
    \/ Limit \/ Sort \/ Partition \/ Alias \/ HashJoin \/ SortedMergeJoin \/ Aggregate
    \/ StartFilter \/ FinishFilter \/ StartProjection \/ FinishProjection
    \/ \E k \in pending : FilterChunk(k)
    \/ \E k \in DOMAIN jobs : EvaluateAndLoad(k)
    \/ \E k \in DOMAIN jobs : Store(k)

Spec == Init /\ [][Next]_vars

(***************************************************************************)
(* Properties.  They relate the input and the output of the operator that  *)
(* has just finished.                                                      *)
(***************************************************************************)
Finished(kind) == status = "ready" /\ op.kind = kind

SameRows(s, t) == \A x \in ToSet(s) \cup ToSet(t) : Count(s, x) = Count(t, x)

(* Columns declared nullable have flags in every chunk.                    *)
FlagsPresent(t) ==
    \A k \in DOMAIN t.chunks, c \in DOMAIN t.columns :
        ColumnIsNullable(t, c) => t.chunks[k][c].nullable

(* IN with a NULL in a list of strings is FALSE where SQL says NULL, and   *)
(* NOT IN is TRUE.                                                         *)
DropsNull(e, negations) ==
    \E n \in DOMAIN e :
        e[n].kind = "In" /\ e[n].string /\ NULL \in ToSet(e[n].list) /\ e[n].negated \in negations

(* A filter that returns keeps exactly the rows for which its predicate is *)
(* TRUE in SQL's three-valued logic, whatever the order of its jobs and    *)
(* whether chunks are skipped, passed on or copied.  Two predicates are    *)
(* not SQL's, and the property says so: NOT IN a list of strings with a    *)
(* NULL is left out, and a predicate that is a NULL literal, or has one    *)
(* below AND or OR, fails in every job and keeps no row at all.            *)
FilterSelects ==
    Finished("Filter") /\ NullsDeclared(input) /\ ~DropsNull(op.predicate, {TRUE}) =>
        \A row \in ToSet(Rows(table)) \cup ToSet(Rows(input)) :
            Count(Rows(table), row) =
                IF ~PositionListFails(op.predicate) /\ SqlValue(op.predicate, row) = 1
                THEN Count(Rows(input), row) ELSE 0

(* A table whose segments were copied by their values alone: no flag is    *)
(* left, and a NULL has become the raw value below it.                     *)
WithoutFlags(t) ==
    WithChunks(t, [k \in DOMAIN t.chunks |->
                      [c \in DOMAIN t.chunks[k] |-> Plain(t.chunks[k][c].values)]])

(* What the jobs of a projection read: splitting a chunk loses its NULLs.  *)
ProjectionSource(t) == IF Split(t) = t THEN t ELSE WithoutFlags(t)

(* A projection that returns has computed each of its expressions on each  *)
(* row, in the order of the rows, however its jobs were interleaved and    *)
(* whether or not it had split its input.  If it has not, the row is that  *)
(* of the input; if it has, every NULL of the input has silently become    *)
(* the value below it, and the expressions are computed on that.  IN with  *)
(* a NULL in a list of strings is left out.                                *)
ProjectionComputes ==
    /\ Finished("Projection")
    /\ NullsDeclared(input)
    /\ \A c \in DOMAIN op.expressions : ~DropsNull(op.expressions[c].nodes, BOOLEAN)
    => LET rows == Rows(ProjectionSource(input))
       IN Rows(table) = [i \in DOMAIN rows |->
                            [c \in DOMAIN op.expressions |->
                                SqlValue(op.expressions[c].nodes, rows[i])]]

(* Unless two projection jobs overlap between load and store of a flag, no *)
(* operator leaves a NULL in a column that it declares not nullable.       *)
(* Whoever reads such a column ignores its flags and sees the default.     *)
NullsAreDeclared == status = "ready" /\ ~overlap => NullsDeclared(table)

Precedes(a, b, by) ==
    \E n \in DOMAIN by :
        /\ \A m \in 1 .. n - 1 : a[by[m].column] = b[by[m].column]
        /\ IF by[n].descending THEN a[by[n].column] > b[by[n].column]
           ELSE a[by[n].column] < b[by[n].column]

Keys(row, columns) == [n \in DOMAIN columns |-> row[columns[n]]]

(* Sorting column by column from the least significant one gives the       *)
(* lexicographic order of all of them, and rows that are equal in them     *)
(* stay in the order of the input, across chunks.                          *)
SortOrders ==
    Finished("Sort") =>
        LET columns == [n \in DOMAIN op.by |-> op.by[n].column]
            have(rows, keys) == SelectSeq(rows, LAMBDA row : Keys(row, columns) = keys)
            old == Rows(input)
            new == Rows(table)
        IN /\ \A i, j \in DOMAIN new : i < j => ~Precedes(new[j], new[i], op.by)
           /\ \A keys \in {Keys(row, columns) : row \in ToSet(old) \cup ToSet(new)} :
                 have(old, keys) = have(new, keys)

SortedBy(rows, by) == \A i, j \in DOMAIN rows : i < j => ~Precedes(rows[j], rows[i], by)

(* A partitioning that returns has the number of partitions it was asked   *)
(* for, keeps every row, keeps rows with equal keys together and sorts     *)
(* each partition if it has to (its last column first).  Keys are never    *)
(* NULL, but the other columns may be: rows are copied by their values, so *)
(* that a NULL arrives as the value below it.                              *)
PartitionKeeps ==
    Finished("Partition") =>
        LET parts == [p \in DOMAIN table.chunks |-> ChunkRows(table.chunks[p])]
            by == Reverse([n \in DOMAIN op.columns |->
                              [column |-> op.columns[n], descending |-> FALSE]])
        IN /\ Len(parts) = op.count
           /\ SameRows(Rows(table), Rows(WithoutFlags(input)))
           /\ \A p, q \in DOMAIN parts : p # q =>
                 \A i \in DOMAIN parts[p], j \in DOMAIN parts[q] :
                     Keys(parts[p][i], op.columns) # Keys(parts[q][j], op.columns)
           /\ op.sorted => \A p \in DOMAIN parts : SortedBy(parts[p], by)

ChunksSorted(t, c) ==
    \A k \in DOMAIN t.chunks :
        SortedBy(ChunkRows(t.chunks[k]), <<[column |-> c, descending |-> FALSE]>>)

(* Both joins return the rows of SQL's equi-join in each of the four       *)
(* modes, on either build side and for any order of equal build rows; the  *)
(* merge join, if the chunks of both inputs are sorted.  Keys are never    *)
(* NULL; a NULL in another column is lost on the way, as rows are copied   *)
(* by their values.                                                        *)
JoinMatches ==
    Finished("HashJoin") \/ Finished("SortedMergeJoin") =>
       LET left == WithoutFlags(input)
           right == WithoutFlags(op.right)
       IN (op.kind = "SortedMergeJoin" => ChunksSorted(left, op.on.l) /\ ChunksSorted(right, op.on.r))
          => SameRows(Rows(table), SqlJoin(left, right, op.on, op.mode))

(* An aggregation that returns has one row per group, NULL being a group   *)
(* of its own, with SQL's aggregates over the group, for every way in      *)
(* which keys are turned into result positions: direct indexes, cached     *)
(* indexes and lookups.                                                    *)
AggregateGroups ==
    Finished("Aggregate") /\ NullsDeclared(input) =>
        IsAggregation(Rows(input), op.groups, op.aggregates, Rows(table))

HasEmptyChunk(t) == \E k \in DOMAIN t.chunks : ChunkSize(t.chunks[k]) = 0

HasLiteralCase(e) ==
    \E n \in DOMAIN e : e[n].kind = "Case" /\ \A m \in {e[n].when, e[n].l, e[n].r} : e[m].kind = "Value"

LacksPartition(t, o) ==
    Cardinality({Hash(t, o.columns, id) % o.count : id \in ToSet(RowIds(t))}) < o.count

(* An operator ends the process only on a NULL, on a chunk without rows,   *)
(* on a sorted partition without rows and on ANY before the first          *)
(* function; and it reads what is not there only for a chunk without rows, *)
(* a column that is declared nullable without having flags, a CASE over    *)
(* literals, an expression of type NULL and ANY of strings without a       *)
(* function.  On other tables and plans it never does.  If it returns      *)
(* it leaves a table whose segments agree on the rows of their chunk.      *)
CrashNeedsCause ==
    /\ status = "ready" => Concatenated \/ IsTable(table)
    /\ status = "crashed" =>
         \/ op.kind \in {"Filter", "Sort"} /\ NullsOf(input) # {}
         \/ op.kind = "SortedMergeJoin" /\ HasEmptyChunk(input)
         \/ op.kind = "Partition" /\ op.sorted /\ LacksPartition(input, op)
         \/ op.kind = "Aggregate" /\ op.aggregates[1].func = "kAny"
    /\ status = "undefined" =>
         \/ op.kind = "Partition" /\ HasEmptyChunk(input)
         \/ op.kind \in {"Filter", "Projection"} /\ ~FlagsPresent(Split(input))
         \/ op.kind = "Projection"
                /\ \E c \in DOMAIN op.expressions : \/ HasLiteralCase(op.expressions[c].nodes)
                                                    \/ SegmentFails(op.expressions[c].nodes)
         \/ op.kind = "Aggregate"
                /\ \A a \in DOMAIN op.aggregates : op.aggregates[a].func = "kAny"
                /\ input.columns[op.aggregates[1].column].type = "string"
=============================================================================

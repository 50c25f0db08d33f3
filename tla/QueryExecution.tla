--------------------------- MODULE QueryExecution ---------------------------
(***************************************************************************)
(* A query from its compilation to its result: the generator makes the     *)
(* pipelines, and the fragments of a pipeline, once its predecessors have  *)
(* finished, read objects of the object store and write one each.          *)
(*                                                                         *)
(* A table is a sequence of chunks, a chunk a sequence of rows.  An object *)
(* is a schema and row groups.  The operators are those of Operators, on   *)
(* rows; the order in which workers and tasks run is that of               *)
(* PqpPipelineScheduler and FragmentScheduler, so that the fragments of a  *)
(* pipeline are one step here.  They write different objects.              *)
(***************************************************************************)
EXTENDS TpchPlans

CONSTANTS
    NULL,
    Runs,       \* what is run: a request or a plan, on which objects
    Hash(_)     \* the hash of a partitioning column, without its width

VARIABLES
    run,       \* the member of Runs
    plan,      \* GeneratePqp, None before
    store,     \* object key -> schema and row groups
    finished,  \* pipelines whose fragments have all succeeded
    status,    \* compile, running, done or failed
    cause      \* why it failed

vars == <<run, plan, store, finished, status, cause>>

Merge == INSTANCE JoinOperators

(***************************************************************************)
(* Operators.  A result is a failure or a table: chunks, and per column    *)
(* what the table declares (data_type, nullable) and what the segments     *)
(* have (their type, and whether they have flags for NULLs), which is not  *)
(* always the same.                                                        *)
(***************************************************************************)
Table(columns, chunks) == [failure |-> "", columns |-> columns, chunks |-> chunks]
Failure(why) == [failure |-> why, columns |-> <<>>, chunks |-> <<>>]

Column(type, nullable, flagged) ==
    [data_type |-> type, nullable |-> nullable, segment |-> type, flagged |-> flagged]
Flagless(columns) == [c \in DOMAIN columns |-> [columns[c] EXCEPT !.flagged = FALSE]]
FlaggedAsDeclared(columns) == [c \in DOMAIN columns |-> [columns[c] EXCEPT !.flagged = columns[c].nullable]]

AllRows(chunks) == FlattenSeq(chunks)
WithRows(chunks) == SelectSeq(chunks, LAMBDA chunk : chunk # <<>>)
Project(row, columns) == [c \in DOMAIN columns |-> row[columns[c] + 1]]

(***************************************************************************)
(* Import.  A reader yields the row groups of an object, all or the chosen *)
(* ones, that have rows; arrow may hand out one batch without rows for an  *)
(* object that has none.  A NULL is not looked at: whatever is in its      *)
(* place is the value.  A CSV reader yields all columns of all lines.      *)
(***************************************************************************)
ReadValue(v) == IF v = NULL THEN run.garbage ELSE v

ReaderColumns(row, columns) == IF columns = None THEN row ELSE Project(row, columns[1])

ReadGroup(group, columns) ==
    [i \in DOMAIN group |-> LET row == ReaderColumns(group[i], columns)
                            IN [c \in DOMAIN row |-> ReadValue(row[c])]]

ReadParquet(options, groups) ==
    LET selected == IF options.row_group_ids = None THEN groups
                    ELSE [n \in DOMAIN options.row_group_ids[1] |-> groups[options.row_group_ids[1][n] + 1]]
        kept(group) == IF options.arrow_expression = None THEN group
                       ELSE SelectSeq(group, LAMBDA row : Compute(options.arrow_expression, row))
    IN WithRows([n \in DOMAIN selected |-> ReadGroup(kept(selected[n]), options.include_columns)])

ReadOrc(options, groups) == WithRows([n \in DOMAIN groups |-> ReadGroup(groups[n], options.include_columns)])

(* As many cells of a line as the schema has columns.                      *)
ReadCsv(schema, groups) ==
    LET rows == AllRows(groups)
    IN WithRows(<<[i \in DOMAIN rows |-> SubSeq(rows[i], 1, Len(schema))]>>)

(***************************************************************************)
(* The schema of a reader is that of the whole object; a CSV reader        *)
(* believes the one that is expected.  Its segments have the types of the  *)
(* columns that are read.                                                  *)
(***************************************************************************)
ReaderSchema(options, object) ==
    IF options.format # "kCsv" THEN object.schema
    ELSE IF options.expected_schema # None THEN options.expected_schema[1]
    ELSE [c \in DOMAIN object.schema |-> [object.schema[c] EXCEPT !.nullable = FALSE]]

SegmentTypes(options, object) ==
    LET schema == ReaderSchema(options, object)
        types == [c \in DOMAIN schema |-> schema[c].data_type]
    IN IF options.format = "kCsv" THEN types ELSE ReaderColumns(types, options.include_columns)

(* A cell of a CSV object of one type, read as another.                    *)
Converts(from, to) == to = "kString" \/ (from # "kString" /\ (from = to \/ from = "kInt" \/ to = "kDouble"))
ConvertsAll(schema, object) ==
    AllRows(object.groups) # <<>> =>
        /\ Len(schema) =< Len(object.schema)
        /\ \A c \in DOMAIN schema : Converts(object.schema[c].data_type, schema[c].data_type)

CreateReader(options, object) ==
    LET chunks == CASE options.format = "kParquet" -> ReadParquet(options, object.groups)
                    [] options.format = "kOrc" -> ReadOrc(options, object.groups)
                    [] options.format = "kCsv" -> ReadCsv(ReaderSchema(options, object), object.groups)
    IN IF chunks = <<>> /\ run.emptyBatch THEN <<<<>>>> ELSE chunks

(* What has as many columns as are imported is taken as it is.             *)
ExtractSchema(schema, columns) == IF Len(schema) = Len(columns) THEN schema ELSE Project(schema, columns)
GetNextChunk(chunk, columns) ==
    [i \in DOMAIN chunk |-> IF Len(chunk[i]) = Len(columns) THEN chunk[i] ELSE Project(chunk[i], columns)]

ImportTable(a) ==
    LET options == ReaderOptions(a)
        object(i) == store[a.objects[i].key]
        schema(i) == ReaderSchema(options, object(i))
        imported(i) == LET chunks == CreateReader(options, object(i))
                       IN [n \in DOMAIN chunks |-> GetNextChunk(chunks[n], a.columns)]
        declared == ExtractSchema(schema(1), a.columns)
        types == GetNextChunk(<<SegmentTypes(options, object(1))>>, a.columns)[1]
        columns == [c \in DOMAIN declared |->
                       [data_type |-> declared[c].data_type, nullable |-> declared[c].nullable,
                        segment |-> types[c], flagged |-> FALSE]]
    IN IF \E i \in DOMAIN a.objects : a.objects[i].key \notin DOMAIN store THEN Failure("object missing")
       ELSE IF options.format = "kParquet" /\ options.row_group_ids # None
               /\ \E i \in DOMAIN a.objects : \E g \in ToSet(options.row_group_ids[1]) : g >= Len(object(i).groups)
       THEN Failure("row group missing")
       ELSE IF Len(schema(1)) < Len(a.columns) THEN Failure("too many columns")
       ELSE IF \E i \in DOMAIN a.objects : schema(i) # schema(1) THEN Failure("schemas differ")
       ELSE IF options.format # "kCsv" /\ options.expected_schema # None /\ options.expected_schema[1] # schema(1)
       THEN Failure("unexpected schema")
       ELSE IF options.format = "kCsv" /\ \E i \in DOMAIN a.objects : ~ConvertsAll(schema(1), object(i))
       THEN Failure("not convertible")
       ELSE Table(columns, FlattenSeq([i \in DOMAIN a.objects |-> imported(i)]))

(***************************************************************************)
(* An expression reads the flags of a column that is declared nullable,    *)
(* and the segments of an import have none.  The result has flags if such  *)
(* a column has, and for a CASE and a quotient in any case.                *)
(***************************************************************************)
FlagsMissing(expressions, t) ==
    /\ run.strict /\ t.chunks # <<>>
    /\ \E e \in expressions : \E c \in ColumnsRead(e) : t.columns[c + 1].nullable /\ ~t.columns[c + 1].flagged

RECURSIVE Flagged(_, _)
Flagged(e, columns) ==
    \/ e.class = "PqpColumn" /\ columns[e.attr + 1].nullable /\ columns[e.attr + 1].flagged
    \/ e.class = "Case"
    \/ e.class = "Arithmetic" /\ e.attr = "kDivision"
    \/ \E i \in DOMAIN e.args : Flagged(e.args[i], columns)

(* The chunks that are filtered come from readers and joins: without flags *)
FilterTable(a, t) ==
    IF FlagsMissing({a.predicate}, t) THEN Failure("flags missing")
    ELSE Table(t.columns, WithRows([k \in DOMAIN t.chunks |->
                             SelectSeq(t.chunks[k], LAMBDA row : Evaluate(a.predicate, row))]))

(***************************************************************************)
(* A column is found to be nullable while its chunks are projected, hence  *)
(* never if there is none.  The arithmetic of the plans is on kDouble, and *)
(* a column is declared by them as it is in the table.                     *)
(***************************************************************************)
ProjectedColumn(e, t) ==
    IF e.class = "PqpColumn"
    THEN [t.columns[e.attr + 1] EXCEPT !.nullable = @ /\ t.chunks # <<>>]
    ELSE Column(IF e.class = "Case" THEN "kInt" ELSE "kDouble",
                Flagged(e, t.columns) /\ t.chunks # <<>>, Flagged(e, t.columns))

ProjectTable(a, t) ==
    IF FlagsMissing({e \in ToSet(a.expressions) : e.class # "PqpColumn"}, t) THEN Failure("flags missing")
    ELSE Table([n \in DOMAIN a.expressions |-> ProjectedColumn(a.expressions[n], t)],
               [k \in DOMAIN t.chunks |-> [i \in DOMAIN t.chunks[k] |->
                   [n \in DOMAIN a.expressions |-> Evaluate(a.expressions[n], t.chunks[k][i])]]])

(* AbstractJoinOperator's Asserts on its key columns, and its output.      *)
JoinError(a, left, right) ==
    LET l == left.columns[a.primary.l + 1]
        r == right.columns[a.primary.r + 1]
    IN IF l.nullable \/ r.nullable THEN "nullable key"
       ELSE IF l.data_type # r.data_type THEN "key types differ" ELSE ""
JoinedColumns(left, right) == Flagless(left.columns \o right.columns)

(* One chunk of matches; the order in it is not modelled for a hash join.  *)
HashJoinTable(a, left, right) ==
    LET l == AllRows(left.chunks)
        r == AllRows(right.chunks)
        matches(row) == SelectSeq(r, LAMBDA other : row[a.primary.l + 1] = other[a.primary.r + 1])
        rows == FlattenSeq([i \in DOMAIN l |-> LET m == matches(l[i]) IN [n \in DOMAIN m |-> l[i] \o m[n]]])
    IN IF JoinError(a, left, right) # "" THEN Failure(JoinError(a, left, right))
       ELSE Table(JoinedColumns(left, right), <<rows>>)

Values(chunk, c) == [i \in DOMAIN chunk |-> chunk[i][c + 1]]

SortedMergeJoinTable(a, left, right) ==
    LET l == left.chunks
        r == right.chunks
        joined(k, m) == LET pairs == Merge!MergeChunks(Values(l[k], a.primary.l), Values(r[m], a.primary.r))
                        IN [n \in DOMAIN pairs |-> l[k][pairs[n][1]] \o r[m][pairs[n][2]]]
        rows == FlattenSeq([m \in DOMAIN r |-> FlattenSeq([k \in DOMAIN l |-> joined(k, m)])])
    IN IF JoinError(a, left, right) # "" THEN Failure(JoinError(a, left, right))
       ELSE IF <<>> \in ToSet(l) /\ WithRows(r) # <<>> THEN Failure("empty chunk")
       ELSE Table(JoinedColumns(left, right), <<rows>>)

(* Rows in the order of the definitions, those that are equal as before.   *)
Before(definitions, a, b) ==
    \E d \in DOMAIN definitions :
        /\ \A e \in 1 .. d - 1 : a[definitions[e].column + 1] = b[definitions[e].column + 1]
        /\ IF definitions[d].descending
           THEN a[definitions[d].column + 1] > b[definitions[d].column + 1]
           ELSE a[definitions[d].column + 1] < b[definitions[d].column + 1]

Sorted(rows, definitions) ==
    LET place(i) == Cardinality({j \in DOMAIN rows :
                        \/ Before(definitions, rows[j], rows[i])
                        \/ j =< i /\ ~Before(definitions, rows[i], rows[j])})
    IN [p \in DOMAIN rows |-> rows[CHOOSE i \in DOMAIN rows : place(i) = p]]

SortTable(a, t) ==
    IF AllRows(t.chunks) = <<>> THEN t
    ELSE Table(FlaggedAsDeclared(t.columns), <<Sorted(AllRows(t.chunks), a.definitions)>>)

(* Groups in the order of their first rows.                                *)
SumOf(s) == FoldLeft(LAMBDA x, y : x + y, 0, s)

Aggregated(aggregate, rows) ==
    LET column == aggregate.args[1].attr
    IN IF aggregate.attr = "kCount" THEN Len(rows)
       ELSE IF rows = <<>> THEN NULL ELSE SumOf([i \in DOMAIN rows |-> rows[i][column + 1]])

(* A sum has flags, a count has none.                                      *)
AggregatedColumn(aggregate, columns) ==
    IF aggregate.attr = "kCount" THEN Column("kLong", FALSE, FALSE)
    ELSE Column(IF columns[aggregate.args[1].attr + 1].data_type = "kDouble" THEN "kDouble" ELSE "kLong", TRUE, TRUE)

AggregateTable(a, t) ==
    LET rows == AllRows(t.chunks)
        keys == [i \in DOMAIN rows |-> Project(rows[i], a.groups)]
        groups == IF a.groups = <<>> THEN <<<<>>>>
                  ELSE FoldLeft(LAMBDA s, k : IF k \in ToSet(s) THEN s ELSE Append(s, k), <<>>, keys)
        members(g) == SelectSeq(rows, LAMBDA row : Project(row, a.groups) = g)
        line(g) == g \o [n \in DOMAIN a.aggregates |-> Aggregated(a.aggregates[n], members(g))]
        columns == FlaggedAsDeclared(Project(t.columns, a.groups))
                   \o [n \in DOMAIN a.aggregates |-> AggregatedColumn(a.aggregates[n], t.columns)]
    IN Table(columns, IF groups = <<>> THEN <<>> ELSE <<[n \in DOMAIN groups |-> line(groups[n])]>>)

(***************************************************************************)
(* A chunk per partition.  HashPartitioningFunction takes no nullable      *)
(* column, and walking over the rows it does not get past a chunk without  *)
(* any; SortOperator divides by the rows of a partition.                   *)
(***************************************************************************)
PartitionTable(a, t) ==
    LET column == a.columns[1]
        part(p) == SelectSeq(AllRows(t.chunks), LAMBDA row : Hash(row[column + 1]) % a.count = p - 1)
    IN IF t.columns[column + 1].nullable THEN Failure("nullable key")
       ELSE IF \E k, m \in DOMAIN t.chunks : k < m /\ t.chunks[k] = <<>> /\ t.chunks[m] # <<>>
       THEN Failure("outside a chunk")
       ELSE IF ~a.sorted THEN Table(Flagless(t.columns), [p \in 1 .. a.count |-> part(p)])
       ELSE IF \E p \in 1 .. a.count : part(p) = <<>> THEN Failure("empty partition sorted")
       ELSE Table(FlaggedAsDeclared(t.columns),
                  [p \in 1 .. a.count |-> Sorted(part(p), <<SortColumn(column, FALSE)>>)])

(* The chunk that is cut is made anew, with flags.                         *)
RECURSIVE LimitChunks(_, _)
LimitChunks(chunks, n) ==
    IF chunks = <<>> THEN <<>>
    ELSE IF n >= Len(chunks[1]) THEN <<chunks[1]>> \o LimitChunks(Tail(chunks), n - Len(chunks[1]))
    ELSE <<SubSeq(chunks[1], 1, n)>>

LimitTable(a, t) ==
    LET n == Evaluate(a.rows, <<>>)
        cut == n < Len(AllRows(t.chunks))
    IN Table([c \in DOMAIN t.columns |-> [t.columns[c] EXCEPT !.flagged = @ \/ cut]], LimitChunks(t.chunks, n))

AliasTable(a, t) ==
    Table(Project(t.columns, a.columns),
          [k \in DOMAIN t.chunks |-> [i \in DOMAIN t.chunks[k] |-> Project(t.chunks[k][i], a.columns)]])

(***************************************************************************)
(* Export.  The Parquet writer casts segment and column writer each to     *)
(* their own type, and of a segment without flags it hands no definition   *)
(* levels to the writer of a column that has them, but for strings.        *)
(***************************************************************************)
ExportTable(a, t) ==
    IF a.format # "kParquet" \/ t.chunks = <<>> THEN t
    ELSE IF \E c \in DOMAIN t.columns : t.columns[c].segment # t.columns[c].data_type
    THEN Failure("segment of another type")
    ELSE IF run.strict /\ \E c \in DOMAIN t.columns :
                t.columns[c].nullable /\ ~t.columns[c].flagged /\ t.columns[c].data_type # "kString"
    THEN Failure("no definition levels")
    ELSE t

RunOperator(type, a, left, right) ==
    CASE type = "kImport" -> ImportTable(a)
      [] type = "kFilter" -> FilterTable(a, left)
      [] type = "kProjection" -> ProjectTable(a, left)
      [] type = "kHashJoin" -> HashJoinTable(a, left, right)
      [] type = "kSortMergeJoin" -> SortedMergeJoinTable(a, left, right)
      [] type = "kAggregate" -> AggregateTable(a, left)
      [] type = "kSort" -> SortTable(a, left)
      [] type = "kLimit" -> LimitTable(a, left)
      [] type = "kAlias" -> AliasTable(a, left)
      [] type = "kPartition" -> PartitionTable(a, left)
      [] type = "kExport" -> ExportTable(a, left)

(* The output of a proxy of a plan, after those of its inputs.             *)
RECURSIVE Output(_, _)
Output(p, id) ==
    LET node == p.nodes[id]
        inputs == [n \in DOMAIN node.inputs |-> Output(p, node.inputs[n])]
        failed == SelectSeq(inputs, LAMBDA r : r.failure # "")
        input(n) == IF n \in DOMAIN inputs THEN inputs[n] ELSE Table(<<>>, <<>>)
    IN IF failed # <<>> THEN failed[1] ELSE RunOperator(node.type, node.attributes, input(1), input(2))

(***************************************************************************)
(* What is written: Parquet has a row group per chunk, or one for all of   *)
(* them if they are consolidated; CSV is one sequence of rows, with the    *)
(* names of the columns and not their types.                               *)
(***************************************************************************)
Written(t, a) ==
    [schema |-> [c \in DOMAIN t.columns |->
                    IF a.format = "kParquet"
                    THEN [name |-> c, data_type |-> t.columns[c].data_type, nullable |-> t.columns[c].nullable]
                    ELSE [name |-> c, data_type |-> "kString", nullable |-> FALSE]],
     groups |-> IF a.format = "kParquet" /\ ~a.consolidate THEN t.chunks
                ELSE IF a.format = "kParquet" /\ t.chunks = <<>> THEN <<>>
                ELSE <<AllRows(t.chunks)>>]

(***************************************************************************)
(* A fragment, by the plan that its worker makes.                          *)
(***************************************************************************)
RunFragment(pipeline, f) ==
    LET p == WorkerPlan(pipeline.template, pipeline.fragments[f], run.getsBool)
        attributes == p.nodes[p.root].attributes
        fits == /\ DefinitionFits(pipeline.template, pipeline.fragments[f]) /\ Bound(p)
                /\ \A x \in DOMAIN p.nodes : CreatesOperator(p.nodes[x])
        result == IF \E x \in DOMAIN p.nodes : ExpectsNoColumns(p.nodes[x]) THEN Failure("empty schema")
                  ELSE IF \E x \in DOMAIN p.nodes : ~PushesDown(p.nodes[x]) THEN Failure("unsupported predicate")
                  ELSE IF fits THEN Output(p, p.root) ELSE Failure("plan incomplete")
    IN [failure |-> result.failure, key |-> attributes.target.key, object |-> Written(result, attributes)]

-----------------------------------------------------------------------------
Init ==
    /\ run \in Runs
    /\ plan = run.plan
    /\ store = run.store
    /\ finished = {}
    /\ status = IF run.plan = None THEN "compile" ELSE "running"
    /\ cause = ""

Fail(why) == status' = "failed" /\ cause' = why

(***************************************************************************)
(* The coordinator: what is wrong with a request, in the order in which    *)
(* the code finds out.  A request with a query string instead of a plan is *)
(* accepted, and the plan read nevertheless.                               *)
(***************************************************************************)
RequiredKeys == {"compiler_name", "scale_factor", "shuffle_storage", "worker_function", "query_configuration"}
ValidateRequest(request) ==
    /\ RequiredKeys \subseteq request
    /\ {"query_plan", "query_string"} \cap request # {}

CompilerConfigFromJson(r) ==
    IF "query_plan" \notin r.request THEN "bad optional access"
    ELSE IF r.compiler \notin {"kEtl", "kTpch"} THEN "compiler not implemented" ELSE ""

CompileError(r) ==
    IF ~ValidateRequest(r.request) THEN "invalid parameters"
    ELSE IF CompilerConfigFromJson(r) # "" THEN CompilerConfigFromJson(r)
    ELSE IF r.query \notin (IF r.compiler = "kTpch" THEN TpchQueries ELSE {"kEtlCopyTpchOrders"}) THEN "unknown query"
    ELSE IF r.compiler = "kTpch" /\ \E t \in TablesOf(r.query) : List(r.q.objects[t]).error THEN "listing failed"
    ELSE ""

(* An exception or an Assert of the generator ends the query.              *)
CompileFails ==
    /\ status = "compile" /\ CompileError(run) # ""
    /\ Fail(CompileError(run))
    /\ UNCHANGED <<run, plan, store, finished>>

Compile ==
    /\ status = "compile" /\ CompileError(run) = ""
    /\ plan' = GeneratePqp(run.query, run.q)
    /\ \/ /\ \A i \in DOMAIN plan'.pipelines : plan'.pipelines[i].valid
          /\ status' = "running"
          /\ UNCHANGED cause
       \/ /\ \E i \in DOMAIN plan'.pipelines : ~plan'.pipelines[i].valid
          /\ Fail("too few objects")
    /\ UNCHANGED <<run, store, finished>>

Predecessors(id) == {e[1] : e \in {e \in plan.edges : e[2] = id}}

Ready(i) ==
    /\ plan.pipelines[i].id \notin finished
    /\ Predecessors(plan.pipelines[i].id) \subseteq finished

RunPipeline(i) ==
    /\ status = "running"
    /\ Ready(i)
    /\ LET pipeline == plan.pipelines[i]
           results == [f \in DOMAIN pipeline.fragments |-> RunFragment(pipeline, f)]
           failed == SelectSeq(results, LAMBDA r : r.failure # "")
           written == {results[f].key : f \in DOMAIN results}
       IN \/ /\ failed # <<>>
             /\ Fail(failed[1].failure)
             /\ UNCHANGED <<store, finished>>
          \/ /\ failed = <<>>
             /\ store' = [k \in written |-> results[CHOOSE f \in DOMAIN results : results[f].key = k].object] @@ store
             /\ finished' = finished \cup {pipeline.id}
             /\ status' = IF Cardinality(finished') = Len(plan.pipelines) THEN "done" ELSE status
             /\ UNCHANGED cause
    /\ UNCHANGED <<run, plan>>

Ended == status \in {"done", "failed"} /\ UNCHANGED vars

Next ==
    \/ CompileFails
    \/ Compile
    \/ status = "running" /\ \E i \in DOMAIN plan.pipelines : RunPipeline(i)
    \/ Ended

Spec == Init /\ [][Next]_vars

-----------------------------------------------------------------------------
(***************************************************************************)
(* The answers of SQL, on the whole tables.  A row of an answer is in the  *)
(* order of the columns of the result; the groups of an answer differ.     *)
(***************************************************************************)
TableRows(name) ==
    LET keys == SetToSortSeq({k \in DOMAIN run.store : k[2] = name}, LAMBDA a, b : a[3] < b[3])
    IN FlattenSeq([i \in DOMAIN keys |-> AllRows(run.store[keys[i]].groups)])

Col(row, c) == row[c + 1]
SumOver(S, value(_)) == MapThenSumSet(value, S)
Revenue(l) == Col(l, 5) * (100 - Col(l, 6))

(* One row per value of key on S.                                          *)
SqlGroupBy(S, key(_), line(_)) == {g \o line({x \in S : key(x) = g}) : g \in {key(x) : x \in S}}

AnswerQ1 ==
    LET L == TableRows("lineitem")
        charge(i) == Revenue(L[i]) * (100 + Col(L[i], 7))
        line(S) ==
            LET n == Cardinality(S)
                sum(c) == SumOver(S, LAMBDA i : Col(L[i], c))
                avg(c) == (sum(c) * Scale) \div n
            IN <<SumOver(S, LAMBDA i : Revenue(L[i])), sum(4), sum(5), n, SumOver(S, charge), avg(4), avg(5), avg(6)>>
    IN SqlGroupBy({i \in DOMAIN L : Col(L[i], 10) =< 19980902}, LAMBDA i : Project(L[i], <<8, 9>>), line)

AnswerQ3 ==
    LET C == TableRows("customer")
        O == TableRows("orders")
        L == TableRows("lineitem")
        J == {x \in (DOMAIN C) \X (DOMAIN O) \X (DOMAIN L) :
                /\ Col(C[x[1]], 6) = BUILDING.attr /\ Col(C[x[1]], 0) = Col(O[x[2]], 1)
                /\ Col(L[x[3]], 0) = Col(O[x[2]], 0)
                /\ Col(O[x[2]], 4) < 19950315 /\ Col(L[x[3]], 10) > 19950315}
    IN SqlGroupBy(J, LAMBDA x : Project(O[x[2]], <<0, 4, 7>>), LAMBDA S : <<SumOver(S, LAMBDA x : Revenue(L[x[3]]))>>)

AnswerQ5 ==
    LET C == TableRows("customer")
        O == TableRows("orders")
        L == TableRows("lineitem")
        S == TableRows("supplier")
        N == TableRows("nation")
        R == TableRows("region")
        CO == {x \in (DOMAIN C) \X (DOMAIN O) :
                  Col(C[x[1]], 0) = Col(O[x[2]], 1) /\ Col(O[x[2]], 4) \in 19940101 .. 19950100}
        COL == {x \in CO \X (DOMAIN L) : Col(L[x[2]], 0) = Col(O[x[1][2]], 0)}
        SN == {y \in (DOMAIN S) \X (DOMAIN N) \X (DOMAIN R) :
                  /\ Col(S[y[1]], 3) = Col(N[y[2]], 0) /\ Col(N[y[2]], 2) = Col(R[y[3]], 0)
                  /\ Col(R[y[3]], 1) = ASIA.attr}
        J == {z \in COL \X SN : /\ Col(L[z[1][2]], 2) = Col(S[z[2][1]], 0)
                                /\ Col(C[z[1][1][1]], 3) = Col(S[z[2][1]], 3)}
    IN SqlGroupBy(J, LAMBDA z : <<Col(N[z[2][2]], 1)>>, LAMBDA G : <<SumOver(G, LAMBDA z : Revenue(L[z[1][2]]))>>)

AnswerQ6 ==
    LET L == TableRows("lineitem")
        S == {i \in DOMAIN L : /\ Col(L[i], 10) \in 19940101 .. 19950100
                               /\ Col(L[i], 6) \in 5 .. 7 /\ Col(L[i], 4) < 2400}
    IN {<<IF S = {} THEN NULL ELSE SumOver(S, LAMBDA i : Col(L[i], 5) * Col(L[i], 6))>>}

AnswerQ12 ==
    LET O == TableRows("orders")
        L == TableRows("lineitem")
        isHigh(x) == Col(O[x[1]], 5) \in {URGENT.attr, HIGH.attr}
        J == {x \in (DOMAIN O) \X (DOMAIN L) :
                /\ Col(O[x[1]], 0) = Col(L[x[2]], 0) /\ Col(L[x[2]], 14) \in {MAIL, SHIP}
                /\ Col(L[x[2]], 10) < Col(L[x[2]], 11) /\ Col(L[x[2]], 11) < Col(L[x[2]], 12)
                /\ Col(L[x[2]], 12) \in 19940101 .. 19950100}
        line(S) == <<Cardinality({x \in S : isHigh(x)}), Cardinality({x \in S : ~isHigh(x)})>>
    IN SqlGroupBy(J, LAMBDA x : <<Col(L[x[2]], 14)>>, line)

(* result lists the first rows of the answer in the order of the query.    *)
Lists(result, answer, order, limit) ==
    /\ IsInjective(result) /\ ToSet(result) \subseteq answer
    /\ Len(result) = Min({limit, Cardinality(answer)})
    /\ \A i, j \in DOMAIN result : i < j => ~Before(order, result[j], result[i])
    /\ \A i \in DOMAIN result : \A row \in answer \ ToSet(result) : ~Before(order, row, result[i])

CopiesOrders ==
    \A i \in DOMAIN plan.result :
        LET rows == AllRows(run.store[<<"tpc-h", "orders", i, "kParquet">>].groups)
        IN AllRows(store[plan.result[i].key].groups) = [n \in DOMAIN rows |-> Project(rows[n], <<0, 1, 2, 3, 4, 5, 7>>)]

(* The rows of the chosen row groups that satisfy the predicate of a scan. *)
ImportsOf(pipeline) == {pipeline.template.nodes[x].attributes : x \in Leaves(pipeline.template)}

ScannedObjects == plan.pipelines[1].fragments[1].inputs[ImportIdentity("pipeline", "import")]

ScanReturns ==
    LET a == CHOOSE a \in ImportsOf(plan.pipelines[1]) : TRUE
        isParquet == a.options.format = "kParquet"
        chosen(g) == isParquet /\ a.options.row_group_ids # None => g - 1 \in ToSet(a.options.row_group_ids[1])
        satisfies(row) ==
            isParquet => /\ a.options.skyrise_expression # None => Evaluate(a.options.skyrise_expression, row)
                         /\ a.options.arrow_expression # None => Compute(a.options.arrow_expression, row)
        groups(key) == store[key].groups
        rows(key) == FlattenSeq([g \in DOMAIN groups(key) |-> IF chosen(g) THEN groups(key)[g] ELSE <<>>])
        kept == SelectSeq(FlattenSeq([i \in DOMAIN ScannedObjects |-> rows(ScannedObjects[i].key)]), satisfies)
    IN AllRows(groups(plan.result[1].key)) = [n \in DOMAIN kept |-> Project(kept[n], a.columns)]

IsAnswer ==
    LET result == AllRows(store[plan.result[1].key].groups)
    IN CASE run.query = "kTpchQ1" -> Lists(result, AnswerQ1, <<SortColumn(0, FALSE), SortColumn(1, FALSE)>>, 100)
         [] run.query = "kTpchQ3" -> Lists(result, AnswerQ3, <<SortColumn(3, TRUE), SortColumn(1, FALSE)>>, TopRows)
         [] run.query = "kTpchQ5" -> Lists(result, AnswerQ5, <<SortColumn(1, TRUE)>>, 100)
         [] run.query = "kTpchQ6" -> Lists(result, AnswerQ6, <<>>, 100)
         [] run.query = "kTpchQ12" -> Lists(result, AnswerQ12, <<SortColumn(0, FALSE)>>, 100)
         [] run.query = "kEtlCopyTpchOrders" -> CopiesOrders
         [] run.query = "scan" -> ScanReturns

(***************************************************************************)
(* Configurations with which a query is known to go wrong: pipeline 6 of   *)
(* Q5 never sorts what pipeline 7 may merge, the groups of Q3 are spread   *)
(* over the fragments of pipeline 5 if it reads lineitems by file, and a   *)
(* sum over no rows is a NULL, which the Parquet reader does not see.  An  *)
(* Arrow expression that is set by hand does not get to the worker, and    *)
(* all columns of an object in another order stay in their own.  If        *)
(* GetBool returns false, no worker sorts what any join may merge.         *)
(***************************************************************************)
Merges == \E id \in DOMAIN run.q.algorithm : IsSortMerge(run.q, id)

MergesUnsorted ==
    \/ run.query = "kTpchQ5" /\ IsSortMerge(run.q, "pipeline-7")
    \/ ~run.getsBool /\ Merges

SplitsGroups ==
    run.query = "kTpchQ3" /\ IsBroadcast(run.q, "pipeline-5") /\ GetWorkerCount(run.q, "pipeline-5") > 1

LosesPredicate ==
    run.query = "scan" /\ \E a \in ImportsOf(plan.pipelines[1]) :
        a.options.format = "kParquet" /\ a.options.arrow_expression # None

PermutesAllOf(columns, schema) == Len(columns) = Len(schema) /\ columns # [c \in DOMAIN schema |-> c - 1]

(* The columns do not reach the reader, and no projection follows.  A CSV  *)
(* reader has those of the schema that it expects.                         *)
KeepsColumnOrder ==
    run.query = "scan" /\ \E a \in ImportsOf(plan.pipelines[1]) :
        /\ \/ a.options.format = "kCsv"
           \/ a.options.include_columns = None
           \/ a.options.format = "kOrc" /\ a.options.expected_schema # None
        /\ PermutesAllOf(a.columns, ReaderSchema(a.options, run.store[ScannedObjects[1].key]))

ExchangesNull ==
    \E k \in DOMAIN store :
        k[2] = "pipeline-1" /\ \E row \in ToSet(AllRows(store[k].groups)) : NULL \in ToSet(row)

(***************************************************************************)
(* A query that is done has the answer of SQL, whatever the number of      *)
(* workers, the join algorithms and the spread of the rows over objects    *)
(* and row groups: the partial aggregates, the two-phase LIMIT and the     *)
(* shuffles of tpch_pqp_generator.cpp compute what one worker would.       *)
(***************************************************************************)
ResultIsAnswer ==
    status = "done" /\ ~MergesUnsorted /\ ~SplitsGroups /\ ~ExchangesNull
                    /\ ~LosesPredicate /\ ~KeepsColumnOrder => IsAnswer

RequestIsWrong ==
    \/ ~(RequiredKeys \cup {"query_plan"} \subseteq run.request)
    \/ run.query \notin (CASE run.compiler = "kTpch" -> TpchQueries
                            [] run.compiler = "kEtl" -> {"kEtlCopyTpchOrders"}
                            [] OTHER -> {})

(* What there is about the tables that a query cannot cope with: a join or *)
(* partitioning key or any other column that may be NULL (OPTIONAL), and   *)
(* objects of a table that declare different columns.                      *)
KeyColumns(table) ==
    CASE table = "lineitem" -> {0, 2}
      [] table = "orders" -> {0, 1}
      [] table = "customer" -> {0}
      [] table = "supplier" -> {0, 3}
      [] table = "nation" -> {0, 2}
      [] table = "region" -> {0}

SchemaAt(key) == run.store[key].schema
OptionalColumns(key) == {c \in DOMAIN SchemaAt(key) : SchemaAt(key)[c].nullable}
ObjectsDiffer == \E k, m \in DOMAIN run.store : k[2] = m[2] /\ SchemaAt(k) # SchemaAt(m)
KeysDiffer ==
    \E k, m \in DOMAIN run.store : \E c \in KeyColumns(k[2]), d \in KeyColumns(m[2]) :
        SchemaAt(k)[c + 1].data_type # SchemaAt(m)[d + 1].data_type
HasObjectWithoutRows == \E k \in DOMAIN run.store : AllRows(run.store[k].groups) = <<>>

(* The schema that a scan expects, as it gets to the worker.               *)
SchemaExpected(a) ==
    [c \in DOMAIN a.options.expected_schema[1] |->
        [a.options.expected_schema[1][c] EXCEPT !.nullable = run.getsBool /\ @]]

ScanFailureNeedsCause(a, schema) ==
    \/ /\ cause = "unexpected schema" /\ a.options.format # "kCsv"
       /\ SchemaExpected(a) # schema
    \/ cause = "empty schema" /\ a.options.expected_schema = Some(<<>>)
    \/ cause = "too many columns" /\ a.options.format = "kCsv" /\ Len(a.columns) > Len(SchemaExpected(a))
    \/ /\ cause = "not convertible" /\ a.options.format = "kCsv"
       /\ \E c \in DOMAIN SchemaExpected(a) :
             c \in DOMAIN schema => schema[c].data_type = "kString" /\ SchemaExpected(a)[c].data_type # "kString"
    \/ cause = "segment of another type" /\ PermutesAllOf(a.columns, schema)
    \/ cause = "unsupported predicate" /\ a.options.skyrise_expression.class = "In"

(***************************************************************************)
(* A query fails for one of these reasons only: a request that is not for  *)
(* this coordinator, a listing that breaks off, more workers than objects  *)
(* to read, the unwritten outputs of pipeline 1 of Q5, a partition without *)
(* rows on the way to a merge join, an object without rows from which      *)
(* arrow makes an empty batch, tables with nullable columns or different   *)
(* types where the code has Asserts or reads flags that are not there, and *)
(* for a scan another schema than that of the object, all columns of it in *)
(* another order, or a predicate that Arrow does not have.  In particular  *)
(* every row group that a fragment asks for exists, every plan that        *)
(* reaches a worker is complete, and what one pipeline writes the next can *)
(* read, unless a column of a table is nullable.                           *)
(***************************************************************************)
FailureNeedsCause ==
    status = "failed" =>
        \/ /\ cause \in {"invalid parameters", "bad optional access", "compiler not implemented", "unknown query"}
           /\ RequestIsWrong
        \/ /\ cause = "listing failed"
           /\ \E t \in DOMAIN run.q.objects : \E p \in DOMAIN run.q.objects[t] : ~run.q.objects[t][p].success
        \/ /\ cause = "too few objects"
           /\ \E id \in DOMAIN run.q.workers : GetWorkerCount(run.q, id) > 1
        \/ /\ cause = "object missing"
           /\ run.query = "kTpchQ5" /\ GetWorkerCount(run.q, "pipeline-1") > 1
        \/ cause = "empty partition sorted" /\ Merges /\ run.getsBool
        \/ cause = "empty chunk" /\ Merges /\ run.emptyBatch
        \/ cause = "outside a chunk" /\ run.emptyBatch /\ HasObjectWithoutRows
        \/ /\ cause = "nullable key"
           /\ \E k \in DOMAIN run.store : \E c \in KeyColumns(k[2]) : c + 1 \in OptionalColumns(k)
        \/ cause = "key types differ" /\ KeysDiffer
        \/ /\ cause = "schemas differ"
           /\ ObjectsDiffer \/ \E k \in DOMAIN run.store : OptionalColumns(k) # {}
        \/ /\ cause \in {"flags missing", "no definition levels"}
           /\ run.strict /\ \E k \in DOMAIN run.store : OptionalColumns(k) # {}
        \/ /\ run.query = "scan"
           /\ \E a \in ImportsOf(plan.pipelines[1]), i \in DOMAIN ScannedObjects :
                 ScanFailureNeedsCause(a, SchemaAt(ScannedObjects[i].key))

(***************************************************************************)
(* What the fragments of a pipeline that is ready read.  A row is named by *)
(* its object, row group and position.                                     *)
(***************************************************************************)
GroupsOf(key) == store[key].groups

RowsIn(key, groups) == UNION {{<<key, g, n>> : n \in DOMAIN GroupsOf(key)[g]} : g \in groups}

RowsRead(objects) ==
    UNION {RowsIn(objects[i].key,
                  IF objects[i].partitions = None THEN DOMAIN GroupsOf(objects[i].key)
                  ELSE {x + 1 : x \in ToSet(objects[i].partitions)}) :
           i \in {i \in DOMAIN objects : objects[i].key \in DOMAIN store}}

RowsToRead(pipeline, x) ==
    LET directories == {pipeline.fragments[f].inputs[x][1].key[2] : f \in DOMAIN pipeline.fragments}
    IN UNION {RowsIn(k, DOMAIN GroupsOf(k)) : k \in {k \in DOMAIN store : k[2] \in directories}}

RowsReadBy(pipeline, x) == [f \in DOMAIN pipeline.fragments |-> RowsRead(pipeline.fragments[f].inputs[x])]

RowAt(id, column) == GroupsOf(id[1])[id[2]][id[3]][column + 1]

ReadsEveryRowOnce(pipeline, x) ==
    LET read == RowsReadBy(pipeline, x)
    IN \A id \in RowsToRead(pipeline, x) : Cardinality({f \in DOMAIN read : id \in read[f]}) = 1

MatchesMeetOnceAt(pipeline, join) ==
    LET node == pipeline.template.nodes[join]
        left == node.inputs[1]
        right == node.inputs[2]
        columns(x) == pipeline.template.nodes[x].attributes.columns
        readLeft == RowsReadBy(pipeline, left)
        readRight == RowsReadBy(pipeline, right)
        matches(l, r) == RowAt(l, columns(left)[node.attributes.primary.l + 1])
                         = RowAt(r, columns(right)[node.attributes.primary.r + 1])
    IN \A l \in RowsToRead(pipeline, left), r \in RowsToRead(pipeline, right) :
          matches(l, r) => Cardinality({f \in DOMAIN readLeft : l \in readLeft[f] /\ r \in readRight[f]}) = 1

JoinsOfImports(template) ==
    {x \in DOMAIN template.nodes : template.nodes[x].type \in Joins /\ ToSet(template.nodes[x].inputs) \subseteq Leaves(template)}

(***************************************************************************)
(* GeneratePipeline and BuildPipelineFragmentsInputsMap spread the input   *)
(* so that nothing is lost or counted twice: every row that a scan or a    *)
(* final pipeline shall read is read by one fragment, and two rows that a  *)
(* join shall match are read together by exactly one fragment.             *)
(***************************************************************************)
InputsAreShared ==
    status = "running" =>
        \A i \in DOMAIN plan.pipelines : Ready(i) =>
            LET pipeline == plan.pipelines[i]
                leaves == Leaves(pipeline.template)
            IN /\ Cardinality(leaves) = 1 => \A x \in leaves : ReadsEveryRowOnce(pipeline, x)
               /\ \A join \in JoinsOfImports(pipeline.template) : MatchesMeetOnceAt(pipeline, join)

WithoutOptions(p) ==
    [p EXCEPT !.nodes = [x \in DOMAIN @ |-> IF @[x].type = "kImport" THEN SetImportOptions(@[x], None) ELSE @[x]]]

WithoutFlags(p) ==
    [p EXCEPT !.nodes = [x \in DOMAIN @ |->
        CASE @[x].type = "kPartition" -> [@[x] EXCEPT !.attributes.sorted = FALSE]
          [] @[x].type = "kExport" -> [@[x] EXCEPT !.attributes.consolidate = FALSE]
          [] OTHER -> @[x]]]

(***************************************************************************)
(* If GetBool works, the worker runs the plan that the coordinator has     *)
(* made for it: template and definition come through JSON (SerializePqp,   *)
(* DeserializePqp, PipelineFragmentDefinition) as they were, although a    *)
(* definition keeps prefix and partitions of the first object of an import *)
(* only.  If GetBool always returns false, as aggregate_operator_proxy.cpp *)
(* and import_options.cpp say, the worker runs another plan: it sorts no   *)
(* partition and consolidates no row groups (partition_operator_proxy.cpp, *)
(* export_operator_proxy.cpp), and all else is as it was.  Import options  *)
(* do change; what they select does not, which ResultIsAnswer has.         *)
(***************************************************************************)
WorkerRunsThePlan ==
    status = "running" /\ finished = {} =>
        \A i \in DOMAIN plan.pipelines : \A f \in DOMAIN plan.pipelines[i].fragments :
            LET template == plan.pipelines[i].template
                definition == plan.pipelines[i].fragments[f]
                made == GenerateFragmentPlan(template, definition)
            IN WithoutOptions(WorkerPlan(template, definition, run.getsBool))
               = WithoutOptions(IF run.getsBool THEN made ELSE WithoutFlags(made))

(***************************************************************************)
(* SortedMergeJoinOperator joins chunks whose rows are sorted by the join  *)
(* columns, as its header demands of the plan.                             *)
(***************************************************************************)
ChunksSorted(result, c) ==
    \A k \in DOMAIN result.chunks : \A i, j \in DOMAIN result.chunks[k] :
        i < j => result.chunks[k][i][c + 1] =< result.chunks[k][j][c + 1]

MergeInputsSorted ==
    status = "running" =>
        \A i \in DOMAIN plan.pipelines : Ready(i) =>
            \A f \in DOMAIN plan.pipelines[i].fragments :
                LET p == WorkerPlan(plan.pipelines[i].template, plan.pipelines[i].fragments[f], run.getsBool)
                IN \A x \in DOMAIN p.nodes : p.nodes[x].type = "kSortMergeJoin" =>
                      LET a == p.nodes[x].attributes
                      IN /\ ChunksSorted(Output(p, p.nodes[x].inputs[1]), a.primary.l)
                         /\ ChunksSorted(Output(p, p.nodes[x].inputs[2]), a.primary.r)
=============================================================================

-------------------------- MODULE MCQueryExecution --------------------------
(***************************************************************************)
(* The queries on a handful of rows per table: matching and other rows,    *)
(* boundaries of the dates, keys out of order, and tables without any      *)
(* matching row; spread over one to three objects of one or two row        *)
(* groups; with one or two workers per scan and per join, and with each    *)
(* join algorithm in each place.  Most runs have tables whose columns are  *)
(* REQUIRED and a GetBool that works; some have OPTIONAL columns, objects  *)
(* of different schemas, or a GetBool that returns false.                  *)
(***************************************************************************)
EXTENDS QueryExecution

MCHash(v) == v

Lineitem(order, supp, qty, price, disc, flag, ship, commit, receipt, mode) ==
    <<order, 0, supp, 0, qty, price, disc, 8, flag, 0, ship, commit, receipt, 0, mode, 0>>
OrderRow(key, cust, date, priority) == <<key, cust, 0, 0, date, priority, 0, 0, 0>>
Customer(key, nation, segment) == <<key, 0, 0, nation, 0, 0, segment, 0>>
Supplier(key, nation) == <<key, 0, 0, nation, 0, 0, 0>>

Customers == <<Customer(3, 2, 1), Customer(5, 1, 1), Customer(2, 1, 1), Customer(4, 2, 1), Customer(1, 1, 2)>>
OrderRows == <<OrderRow(4, 2, 19941231, 2), OrderRow(2, 3, 19940101, 1), OrderRow(3, 3, 19950314, 4),
               OrderRow(1, 2, 19940601, 1)>>
Suppliers == <<Supplier(2, 2), Supplier(1, 1)>>
Nations == <<<<1, 7, 1, 0>>, <<2, 5, 1, 0>>>>
Regions == <<<<2, 2, 0>>, <<1, 1, 0>>>>

(* Rows for Q3 and Q5: shipped late, suppliers and orders mixed.           *)
LateItems == <<Lineitem(4, 1, 100, 300, 10, 1, 19950316, 0, 0, 1), Lineitem(2, 2, 100, 200, 0, 1, 19960101, 0, 0, 1),
               Lineitem(3, 1, 100, 500, 50, 1, 19950320, 0, 0, 1), Lineitem(2, 1, 100, 100, 5, 1, 19950315, 0, 0, 1),
               Lineitem(4, 1, 100, 250, 4, 1, 19970101, 0, 0, 1), Lineitem(1, 2, 100, 50, 0, 1, 19970101, 0, 0, 1)>>
(* Rows for Q1, Q6 and Q12, at the boundaries of what is selected.         *)
MixedItems == <<Lineitem(2, 1, 2300, 300, 5, 2, 19940101, 19940102, 19940103, 3),
                Lineitem(4, 1, 100, 200, 7, 1, 19941231, 19950101, 19950102, 6),
                Lineitem(2, 1, 2400, 100, 6, 2, 19980902, 19940105, 19940106, 6),
                Lineitem(1, 1, 500, 700, 6, 1, 19940203, 19940204, 19941231, 6),
                Lineitem(3, 1, 500, 900, 8, 1, 19980903, 19940204, 19940204, 3)>>

Types ==
    LET I == "kInt" D == "kDouble" S == "kString"
    IN [lineitem |-> <<I, I, I, I, D, D, D, D, S, S, S, S, S, S, S, S>>, orders |-> <<I, I, S, D, S, S, S, I, S>>,
        customer |-> <<I, S, S, I, S, D, S, S>>, supplier |-> <<I, S, S, I, S, D, S>>,
        nation |-> <<I, S, I, S>>, region |-> <<I, S, S>>]

TableSchema(table, optional) ==
    [c \in DOMAIN Types[table] |-> [name |-> c, data_type |-> Types[table][c], nullable |-> c - 1 \in optional]]

(* The rows in n objects, row i in object i modulo n, by one or two groups *)
Spread(table, rows, n, split) ==
    [k \in {<<"tpc-h", table, i, "kParquet">> : i \in 1 .. n} |->
        LET part == EveryNth(rows, k[3] - 1, n)
        IN [schema |-> TableSchema(table, {}),
            groups |-> IF split /\ Len(part) > 1
                       THEN <<SubSeq(part, 1, 1), SubSeq(part, 2, Len(part))>> ELSE <<part>>]]

(* A table of a store with other columns, or with them in object n only.   *)
WithOptional(objects, table, optional) ==
    [k \in DOMAIN objects |->
        IF k[2] = table THEN [objects[k] EXCEPT !.schema = TableSchema(table, optional)] ELSE objects[k]]
WithType(objects, table, c, type, numbers) ==
    [k \in DOMAIN objects |->
        IF k[2] = table /\ k[3] \in numbers THEN [objects[k] EXCEPT !.schema[c + 1].data_type = type] ELSE objects[k]]

Store(lineitems, orders, n, split) ==
    Spread("lineitem", lineitems, n, split) @@ Spread("orders", orders, 2, split)
    @@ Spread("customer", Customers, 2, split) @@ Spread("supplier", Suppliers, 1, split)
    @@ Spread("nation", Nations, 1, FALSE) @@ Spread("region", Regions, 1, FALSE)

Page(n) == [success |-> TRUE, contents |-> n]
NoPage == [success |-> FALSE, contents |-> 0]
Objects(n) ==
    [lineitem |-> IF n = 3 THEN <<Page(2), Page(1)>> ELSE <<Page(n)>>, orders |-> <<Page(2)>>,
     customer |-> <<Page(1), Page(1)>>, supplier |-> <<Page(1)>>, nation |-> <<Page(1)>>, region |-> <<Page(1)>>]

Pipelines == {"pipeline-1", "pipeline-2", "pipeline-3", "pipeline-4", "pipeline-5", "pipeline-6", "pipeline-7"}
Algorithms == {"kPartitionedHashJoin", "kSortMergeJoin", "kBroadcastHashJoin"}

Q5Joins == {"pipeline-3", "pipeline-5", "pipeline-7"}

(* s workers for a scan and j for a join, but for Q5's pipeline 1.         *)
Workers(joins, s, j) ==
    [id \in Pipelines |-> CASE id \in joins -> j
                            [] joins = Q5Joins /\ id = "pipeline-1" -> 1
                            [] OTHER -> s]

Run(query, workers, algorithm, n, store_, emptyBatch, garbage) ==
    [query |-> query, compiler |-> IF query \in TpchQueries THEN "kTpch" ELSE "kEtl",
     request |-> RequiredKeys \cup {"query_plan"}, plan |-> None, q |-> [workers |-> workers, algorithm |-> algorithm, objects |-> Objects(n)],
     store |-> store_, emptyBatch |-> emptyBatch, garbage |-> garbage, getsBool |-> TRUE, strict |-> TRUE]

JoinRuns(query, joins, items, sizes, splits) ==
    {Run(query, Workers(joins, w[1], w[2]), algorithm, n, Store(items, OrderRows, n, split), FALSE, 0) :
        w \in {1, 2} \X {1, 2}, algorithm \in [joins -> Algorithms], n \in sizes, split \in splits}

ScanRuns(query, itemses, sizes) ==
    {Run(query, [id \in {"pipeline-1"} |-> w], <<>>, n, Store(items, OrderRows, n, split), FALSE, garbage) :
        w \in {1, 2}, n \in sizes, split \in BOOLEAN, items \in itemses, garbage \in {0, 77}}

Q3Runs == JoinRuns("kTpchQ3", {"pipeline-4", "pipeline-5"}, LateItems, {2, 3}, BOOLEAN)
Q5Runs == JoinRuns("kTpchQ5", Q5Joins, LateItems, {3}, {TRUE})
Q12Runs == JoinRuns("kTpchQ12", {"pipeline-3"}, MixedItems, {2, 3}, BOOLEAN)

(* Tables without rows or without matching rows, and too many workers.     *)
OddRuns ==
    {Run("kTpchQ12", Workers({"pipeline-3"}, w[1], w[2]), [id \in {"pipeline-3"} |-> algorithm], 1,
         Store(items, orders, 1, FALSE), emptyBatch, 0) :
        w \in {1, 2} \X {1, 2}, algorithm \in Algorithms \cup {"kNestedLoopJoin"},
        items \in {MixedItems, LateItems, <<>>}, orders \in {OrderRows, <<>>}, emptyBatch \in BOOLEAN}
    \cup {Run("kTpchQ5", [id \in {"pipeline-1"} |-> 2], <<>>, 1, Store(LateItems, OrderRows, 1, FALSE), FALSE, 0),
          Run("kTpchQ5", [id \in {"pipeline-7"} |-> 2], [id \in {"pipeline-7"} |-> "kSortMergeJoin"], 1,
              Spread("customer", <<Customer(3, 2, 1), Customer(5, 1, 1)>>, 2, FALSE)
              @@ Store(LateItems, OrderRows, 1, FALSE), TRUE, 0)}

(* Runs of a set in which GetBool returns false.                           *)
GetsFalse(runs) == {[r EXCEPT !.getsBool = FALSE] : r \in runs}

(* OPTIONAL columns, which may be keys, be read by an expression or only   *)
(* be handed on, where what is not defined fails or does not; a key of     *)
(* another type in one table or in one object of it.  In Q12 no lineitem   *)
(* of the second object is selected.                                       *)
OddSchemas ==
    LET Q12(algorithm) ==
            Run("kTpchQ12", Workers({"pipeline-3"}, 2, 2), [id \in {"pipeline-3"} |-> algorithm], 2,
                Store(SubSeq(MixedItems, 1, 3), OrderRows, 2, FALSE), FALSE, 0)
        Q3(algorithm) ==
            Run("kTpchQ3", Workers({"pipeline-4", "pipeline-5"}, 2, 2),
                [id \in {"pipeline-4", "pipeline-5"} |-> algorithm], 3, Store(LateItems, OrderRows, 3, FALSE), FALSE, 0)
        Q5(algorithm) ==
            Run("kTpchQ5", Workers(Q5Joins, 1, 2), [id \in Q5Joins |-> algorithm], 3,
                Store(LateItems, OrderRows, 3, FALSE), FALSE, 0)
        bases == UNION {{Q12(a), Q3(a), Q5(a)} : a \in Algorithms}
        optional == {<<"lineitem", {0}>>, <<"lineitem", {2}>>, <<"lineitem", {5}>>, <<"lineitem", {10}>>,
                     <<"lineitem", {14}>>, <<"orders", {0}>>, <<"orders", {1}>>, <<"orders", {5}>>, <<"orders", {7}>>,
                     <<"customer", {0}>>, <<"customer", {3}>>, <<"nation", {1}>>, <<"supplier", {3}>>}
        optionalIn(b) == {o \in optional : o[1] \in TablesOf(b.query)}
        types == {<<"orders", 0, "kLong", {1, 2}>>, <<"orders", 0, "kLong", {2}>>, <<"customer", 0, "kLong", {1, 2}>>}
    IN UNION {{[b EXCEPT !.store = WithOptional(@, o[1], o[2]), !.strict = strict] :
                  o \in optionalIn(b), strict \in BOOLEAN} : b \in bases}
       \cup {[b EXCEPT !.store = WithType(@, t[1], t[2], t[3], t[4])] : b \in bases, t \in types}

(* The first object of a table that is partitioned has no rows.            *)
EmptyFirst ==
    {[Run("kTpchQ12", Workers({"pipeline-3"}, w, 2), [id \in {"pipeline-3"} |-> algorithm], 1,
          Store(MixedItems, OrderRows, 1, FALSE), TRUE, 0)
        EXCEPT !.store[<<"tpc-h", "orders", 1, "kParquet">>].groups = groups] :
        w \in {1}, algorithm \in Algorithms, groups \in {<<>>, <<<<>>>>}}

(* Requests that go wrong, and a listing whose second page does not come.  *)
WrongRequests ==
    LET right == Run("kTpchQ6", <<>>, <<>>, 1, Store(MixedItems, OrderRows, 1, FALSE), FALSE, 0)
    IN {[right EXCEPT !.request = @ \ {key}] : key \in RequiredKeys}
       \cup {[right EXCEPT !.request = RequiredKeys \cup {"query_string"}],
             [right EXCEPT !.query = "kTpchQ2"],
             [right EXCEPT !.q.objects.lineitem = <<Page(1), NoPage>>]}
       \cup {[right EXCEPT !.compiler = compiler] : compiler \in {"kEtl", "kProcessMining", "kSql", "kTpcxbb"}}

(* Scans of the orders by hand-made plans.                                 *)
Longs == [c \in 1 .. 9 |-> [name |-> c, data_type |-> "kLong", nullable |-> FALSE]]
ShortSchema(n) == SubSeq(TableSchema("orders", {}), 1, n)
LongSchema == Append(TableSchema("orders", {}), [name |-> 10, data_type |-> "kString", nullable |-> FALSE])
AllColumns == [c \in 1 .. 9 |-> c - 1]
ScanPredicates ==
    {Predicate(p, PqpColumn_(0), Value_(2)) : p \in BinaryConditions}
    \cup {Between(p, PqpColumn_(0), Value_(1), Value_(3)) : p \in BetweenConditions}
    \cup {In_("kIn", PqpColumn_(0), List_(<<1, 3>>)), NotEquals_(PqpColumn_(5), PqpColumn_(0))}
Conjunction == And_(Predicate("kLessThan", PqpColumn_(0), Value_(4)), Predicate("kGreaterThan", PqpColumn_(0), Value_(1)))

ParquetScans(columns) ==
    {ParquetOptions(included, schema, groups, predicate) :
        included \in {None, Some(columns)}, schema \in {None, Some(TableSchema("orders", {}))},
        groups \in {None, Some(<<0>>), Some(<<1>>)}, predicate \in ScanPredicates \cup {None}}
    \cup {[ParquetOptions(None, None, None, None) EXCEPT !.arrow_expression = CreateArrowExpression(Conjunction)],
          ParquetOptions(Some(columns), Some(<<>>), None, None), ParquetOptions(Some(columns), Some(Longs), None, None)}
OrcScans(columns) ==
    {OrcOptions(included, schema) :
        included \in {None, Some(columns)}, schema \in {None} \cup {Some(TableSchema("orders", o)) : o \in {{}, 0 .. 8}}}
CsvScans ==
    {CsvOptions(CsvDefaults, schema) :
        schema \in {None, Some(Longs), Some(<<>>), Some(LongSchema)} \cup {Some(ShortSchema(n)) : n \in {2, 6, 9}}}

(* Arrow finds the columns of an ORC object nullable.                      *)
Scan(columns, options) ==
    LET inputs == [i \in 1 .. 2 |-> ObjectReference(<<"tpc-h", "orders", i, options.format>>, 0, None)]
        output == ObjectReference(<<"shuffle", "scan", 1, "kParquet">>, 0, None)
        pipeline == Pipeline("pipeline", <<SetImportOptions(Import("import", columns), options), Export(1, "kParquet", TRUE)>>,
                             <<Definition(ImportIdentity("pipeline", "import") :> inputs, output, "kParquet")>>, TRUE)
        parquet == WithOptional(Spread("orders", OrderRows, 2, TRUE), "orders", IF options.format = "kOrc" THEN 0 .. 8 ELSE {})
        objects == {[k EXCEPT ![4] = options.format] : k \in DOMAIN parquet}
    IN [Run("scan", <<>>, <<>>, 1, [k \in objects |-> parquet[[k EXCEPT ![4] = "kParquet"]]], FALSE, 0)
          EXCEPT !.plan = Query(<<PipelineData(<<output>>, pipeline, <<>>)>>, {})]

ScannedColumns == {<<0, 5>>, <<5, 1, 0>>, AllColumns, Reverse(AllColumns)}
OrcRuns == UNION {{Scan(columns, options) : options \in OrcScans(columns)} : columns \in ScannedColumns}
Scans ==
    UNION {{Scan(columns, options) : options \in ParquetScans(columns) \cup CsvScans} : columns \in ScannedColumns}
    \cup {[r EXCEPT !.strict = strict] : r \in OrcRuns \cup GetsFalse(OrcRuns), strict \in BOOLEAN}

MCRuns ==
    Scans \cup WrongRequests \cup Q3Runs \cup Q5Runs \cup Q12Runs \cup OddRuns
    \cup OddSchemas \cup EmptyFirst \cup GetsFalse({r \in Q3Runs : r.q.workers["pipeline-1"] = 2} \cup Q12Runs)
    \cup ScanRuns("kTpchQ1", {MixedItems, LateItems, <<>>}, {2, 3})
    \cup ScanRuns("kTpchQ6", {MixedItems, LateItems}, {2, 3})
    \cup ScanRuns("kEtlCopyTpchOrders", {LateItems}, {1})
=============================================================================

------------------------------ MODULE TpchPlans ------------------------------
(***************************************************************************)
(* The plans of the TPC-H queries 1, 3, 5, 6 and 12 and of the ETL copy    *)
(* (src/lib/compiler/pqp_generator): per query its pipelines, who reads    *)
(* which part of which object, and which pipeline waits for which.         *)
(*                                                                         *)
(* q is what a generator is made with: per pipeline a number of workers    *)
(* and a join algorithm (or neither), and the objects of each table.  A    *)
(* generator returns the objects that it announces, the pipeline, or None, *)
(* and the columns that the successor shall read.                          *)
(*                                                                         *)
(* Columns are ids of the TPC-H schema.  A date is a number such as        *)
(* 19950315, a decimal is in hundredths, a string is a number in the order *)
(* of the strings; a name of a column or of an alias is left out.          *)
(***************************************************************************)
EXTENDS PhysicalPlans

CONSTANTS
    TopRows,         \* the row count of the two LIMITs of Q3, 10
    EtlObjectCount   \* object_count of the ETL copy, by the scale factor

kIntermediateResultsExportFormat == "kParquet"
kFinalResultsExportFormat == "kCsv"

One == Value_(100)
BUILDING == Value_(1)
ASIA == Value_(1)
URGENT == Value_(1)
HIGH == Value_(2)
MAIL == 3
SHIP == 6
CountStar == Aggregate_("kCount", -1)   \* kInvalidColumnId
Sum_(c) == Aggregate_("kSum", c)
Sub_(a, b) == Arithmetic("kSubtraction", a, b)
Add_(a, b) == Arithmetic("kAddition", a, b)
Div_(a, b) == Arithmetic("kDivision", a, b)
Or_(a, b)  == Logical("kOr", a, b)
And_(a, b) == Logical("kAnd", a, b)
Equals_(a, b) == Predicate("kEquals", a, b)
NotEquals_(a, b) == Predicate("kNotEquals", a, b)
SortColumn(c, descending) == [column |-> c, descending |-> descending]
Columns(cs) == [i \in DOMAIN cs |-> PqpColumn_(cs[i])]

-----------------------------------------------------------------------------
GetWorkerCount(q, id) == IF id \in DOMAIN q.workers THEN q.workers[id] ELSE 1

(* A name that is none of the three algorithms counts as the default.      *)
GetJoinAlgorithmForPipeline(q, id) ==
    IF id \in DOMAIN q.algorithm /\ q.algorithm[id] \in {"kSortMergeJoin", "kBroadcastHashJoin"}
    THEN q.algorithm[id] ELSE "kPartitionedHashJoin"

IsBroadcast(q, id) == GetJoinAlgorithmForPipeline(q, id) = "kBroadcastHashJoin"
IsSortMerge(q, id) == GetJoinAlgorithmForPipeline(q, id) = "kSortMergeJoin"

(* S3Storage::List: page by page, up to one that cannot be had.            *)
List(pages) ==
    LET failed == {p \in DOMAIN pages : ~pages[p].success}
        read == IF failed = {} THEN pages ELSE SubSeq(pages, 1, Min(failed) - 1)
    IN [count |-> FoldLeft(LAMBDA n, page : n + page.contents, 0, read), error |-> failed # {}]

ListTableObjects(q, table) ==
    [i \in 1 .. List(q.objects[table]).count |-> ObjectReference(<<"tpc-h", table, i, "kParquet">>, 1, None)]

GenerateOutputObjectIds(count, id, format) ==
    [i \in 1 .. count |-> ObjectReference(<<"shuffle", id, i, format>>, 0, None)]

(* A pipeline; valid is that the Asserts of its generator hold.            *)
Pipeline(id, proxies, fragments, valid) ==
    [id |-> id, template |-> FragmentTemplate(PrefixOperatorProxyIdentities(id, proxies)),
     fragments |-> fragments, valid |-> valid]
PipelineData(objects, pipeline, columns) ==
    [objects |-> objects, pipeline |-> pipeline, columns |-> columns]
ImportIdentity(id, import) == <<id, import, 0>>

(* Element i of s for every i that is f modulo n, counting from 0.         *)
EveryNth(s, f, n) ==
    [k \in 1 .. Len(s) \div n + (IF f < Len(s) % n THEN 1 ELSE 0) |-> s[f + n * (k - 1) + 1]]

GeneratePipeline(id, import, proxies, format, inputs, outputs) ==
    Pipeline(id, proxies,
             [f \in DOMAIN outputs |->
                 Definition(ImportIdentity(id, import) :> EveryNth(inputs, f - 1, Len(outputs)),
                            outputs[f], format)],
             Len(inputs) >= Len(outputs))

-----------------------------------------------------------------------------
(* pqp_utils: the objects of fragment f out of n.                          *)
Input(import, share, objects) == [import |-> import, share |-> share, objects |-> objects]

(* Mutant: the last fragment gets the rest, by blocks of rounded size.     *)
AddPipelineInputByBlocks(input, f, n) ==
    LET size == Len(input.objects) \div n
    IN CASE input.share = "kBroadcastedRead" -> input.objects
         [] input.share = "kPartitionedRead" ->
               [i \in DOMAIN input.objects |-> ObjectReference(input.objects[i].key, 0, <<f - 1>>)]
         [] input.share = "kPartitionedByFileRead" ->
               SubSeq(input.objects, (f - 1) * size + 1, f * size)

AddPipelineInputToMap(input, f, n) ==
    CASE input.share = "kBroadcastedRead" -> input.objects
      [] input.share = "kPartitionedRead" ->
            [i \in DOMAIN input.objects |-> ObjectReference(input.objects[i].key, 0, <<f - 1>>)]
      [] input.share = "kPartitionedByFileRead" -> EveryNth(input.objects, f - 1, n)

EveryFragmentGetsAFile(input, n) ==
    input.share = "kPartitionedByFileRead" => Len(input.objects) >= n

BuildPipelineFragmentsInputsMap(id, inputs, n) ==
    [f \in 1 .. n |->
        [x \in {ImportIdentity(id, inputs[i].import) : i \in DOMAIN inputs} |->
            LET i == CHOOSE i \in DOMAIN inputs : ImportIdentity(id, inputs[i].import) = x
            IN AddPipelineInputToMap(inputs[i], f, n)]]

(***************************************************************************)
(* What the generators repeat: the end of a pipeline whose output the      *)
(* join of pipeline `successor' reads, and the fragments of a join, whose  *)
(* table `small' is broadcast.                                             *)
(*                                                                         *)
(* Mutant: the partitions are consolidated as a broadcast table is.        *)
(***************************************************************************)
ShuffledConsolidated(q, proxies, columns, successor, sorted) ==
    LET n == Len(proxies)
    IN IF IsBroadcast(q, successor)
       THEN Append(proxies, Export(n, kIntermediateResultsExportFormat, TRUE))
       ELSE proxies \o <<Partition(n, columns, GetWorkerCount(q, successor), sorted),
                         Export(n + 1, kIntermediateResultsExportFormat, TRUE)>>

Shuffled(q, proxies, columns, successor, sorted) ==
    LET n == Len(proxies)
    IN IF IsBroadcast(q, successor)
       THEN Append(proxies, Export(n, kIntermediateResultsExportFormat, TRUE))
       ELSE proxies \o <<Partition(n, columns, GetWorkerCount(q, successor), sorted),
                         Export(n + 1, kIntermediateResultsExportFormat, FALSE)>>

JoinImplementation(q, id) == IF IsSortMerge(q, id) THEN "kSortMergeJoin" ELSE "kHashJoin"

Share(q, id, small) ==
    CASE ~IsBroadcast(q, id) -> "kPartitionedRead"
      [] small -> "kBroadcastedRead"
      [] OTHER -> "kPartitionedByFileRead"

JoinFragments(q, id, proxies, left, right, leftIsSmall) ==
    LET n == GetWorkerCount(q, id)
        outputs == GenerateOutputObjectIds(n, id, kIntermediateResultsExportFormat)
        inputs == <<Input("left_import", Share(q, id, leftIsSmall), left),
                    Input("right_import", Share(q, id, ~leftIsSmall), right)>>
        fragmentToInputs == BuildPipelineFragmentsInputsMap(id, inputs, n)
    IN Pipeline(id, proxies,
                [f \in 1 .. n |-> Definition(fragmentToInputs[f], outputs[f], "kParquet")],
                \A i \in 1 .. 2 : EveryFragmentGetsAFile(inputs[i], n))

(* A pipeline over one import that pipeline `successor' joins.             *)
ScanData(q, id, proxies, inputs, columns) ==
    LET outputs == GenerateOutputObjectIds(GetWorkerCount(q, id), id, kIntermediateResultsExportFormat)
    IN PipelineData(outputs,
                    GeneratePipeline(id, "left_import", proxies, kIntermediateResultsExportFormat,
                                     inputs, outputs),
                    columns)

JoinData(q, id, proxies, left, right, leftIsSmall, columns) ==
    PipelineData(GenerateOutputObjectIds(GetWorkerCount(q, id), id, kIntermediateResultsExportFormat),
                 JoinFragments(q, id, proxies, left, right, leftIsSmall), columns)

(* The last pipeline of a query, with one worker.                          *)
FinalData(id, import, proxies, inputs, columns) ==
    LET outputs == GenerateOutputObjectIds(1, id, kFinalResultsExportFormat)
    IN PipelineData(outputs, GeneratePipeline(id, import, proxies, kFinalResultsExportFormat, inputs, outputs),
                    columns)

DiscountedPrice(price, discount) == Mul_(PqpColumn_(price), Sub_(One, PqpColumn_(discount)))

-----------------------------------------------------------------------------
(* Query 1.                                                                *)
GenerateQ1Pipeline1(q, inputs) ==
    LET outputs == GenerateOutputObjectIds(GetWorkerCount(q, "pipeline-1"), "pipeline-1", kIntermediateResultsExportFormat)
        charge == Mul_(PqpColumn_(1), Mul_(Sub_(One, PqpColumn_(2)), Add_(One, PqpColumn_(6))))
    IN PipelineData(outputs,
         GeneratePipeline("pipeline-1", "import",
           <<Import("import", <<4, 5, 6, 8, 9, 10, 7>>),
             Filter(1, Predicate("kLessThanEquals", PqpColumn_(5), Value_(19980902))),
             Projection(2, <<DiscountedPrice(1, 2)>> \o Columns(<<0, 1, 2, 3, 4>>) \o <<charge>>),
             Aggregate(3, <<4, 5>>, <<Sum_(0), Sum_(1), Sum_(2), Sum_(3), CountStar, Sum_(6)>>),
             Export(4, kIntermediateResultsExportFormat, FALSE)>>,
           kIntermediateResultsExportFormat, inputs, outputs), <<>>)

GenerateQ1Pipeline2(q, inputs) ==
    LET average(c) == Div_(PqpColumn_(c), PqpColumn_(5))
    IN FinalData("pipeline-2", "import",
         <<Import("import", <<0, 1, 2, 3, 4, 5, 6, 7>>),
           Aggregate(1, <<0, 1>>, <<Sum_(2), Sum_(3), Sum_(4), Sum_(6), Sum_(7), Sum_(5)>>),
           Projection(2, Columns(<<0, 1, 2, 3, 4, 5, 6>>) \o <<average(3), average(4), average(7)>>),
           Sort(3, <<SortColumn(0, FALSE), SortColumn(1, FALSE)>>),
           Alias(4, <<0, 1, 2, 3, 4, 5, 6, 7, 8, 9>>),
           Export(5, "kCsv", FALSE)>>, inputs, <<>>)

(* Pipelines that exist, and the edges between them.                       *)
FilterNonEmptyPipelines(datas) ==
    LET given == SelectSeq(datas, LAMBDA d : d.pipeline # None)
    IN [i \in DOMAIN given |-> given[i].pipeline]

SetAsPredecessorOf(datas, edges) ==
    {<<datas[e[1]].pipeline.id, datas[e[2]].pipeline.id>> :
        e \in {e \in edges : datas[e[1]].pipeline # None /\ datas[e[2]].pipeline # None}}

Query(datas, edges) ==
    [pipelines |-> FilterNonEmptyPipelines(datas), edges |-> SetAsPredecessorOf(datas, edges),
     result |-> datas[Len(datas)].objects]

GenerateQ1(q) ==
    LET p1 == GenerateQ1Pipeline1(q, ListTableObjects(q, "lineitem"))
        p2 == GenerateQ1Pipeline2(q, p1.objects)
    IN Query(<<p1, p2>>, {<<1, 2>>})

-----------------------------------------------------------------------------
(* Query 3.                                                                *)
GenerateQ3Pipeline1(q, inputs) ==
    ScanData(q, "pipeline-1",
      Shuffled(q, <<Import("left_import", <<0, 1, 4, 7>>),
                    Filter(1, Predicate("kLessThan", PqpColumn_(2), Value_(19950315)))>>,
               <<1>>, "pipeline-4", IsSortMerge(q, "pipeline-4")), inputs, <<>>)

GenerateQ3Pipeline2(q, inputs) ==
    ScanData(q, "pipeline-2",
      Shuffled(q, <<Import("left_import", <<0, 6>>),
                    Filter(1, Equals_(PqpColumn_(1), BUILDING)),
                    Projection(2, Columns(<<0>>))>>,
               <<0>>, "pipeline-4", IsSortMerge(q, "pipeline-4")), inputs, <<>>)

GenerateQ3Pipeline3(q, inputs) ==
    ScanData(q, "pipeline-3",
      Shuffled(q, <<Import("left_import", <<0, 5, 6, 10>>),
                    Filter(1, Predicate("kGreaterThan", PqpColumn_(3), Value_(19950315))),
                    Projection(2, Columns(<<0, 1, 2>>))>>,
               <<0>>, "pipeline-5", IsSortMerge(q, "pipeline-5")), inputs, <<>>)

GenerateQ3Pipeline4(q, left, right) ==
    JoinData(q, "pipeline-4",
      Shuffled(q, <<Import("left_import", <<0>>),
                    Import("right_import", <<0, 1, 2, 3>>),
                    Join(1, 2, JoinImplementation(q, "pipeline-4"), 0, 1),
                    Projection(3, Columns(<<1, 3, 4>>))>>,
               <<0>>, "pipeline-5", IsSortMerge(q, "pipeline-5")), left, right, TRUE, <<>>)

GenerateQ3Pipeline5(q, left, right) ==
    JoinData(q, "pipeline-5",
      <<Import("left_import", <<0, 1, 2>>),
        Import("right_import", <<0, 1, 2>>),
        Join(1, 2, JoinImplementation(q, "pipeline-5"), 0, 0),
        Projection(3, Columns(<<0, 1, 2>>) \o <<DiscountedPrice(4, 5)>>),
        Aggregate(4, <<0, 1, 2>>, <<Sum_(3)>>),
        Sort(5, <<SortColumn(3, TRUE), SortColumn(1, FALSE)>>),
        Limit(6, TopRows),
        Export(7, kIntermediateResultsExportFormat, FALSE)>>, left, right, TRUE, <<>>)

(* Mutant: the first rows of the fragments are taken as they come.         *)
GenerateQ3Pipeline6Unsorted(q, inputs) ==
    FinalData("pipeline-6", "left_import",
      <<Import("left_import", <<0, 1, 2, 3>>),
        Limit(1, TopRows),
        Alias(2, <<0, 1, 2, 3>>),
        Export(3, kFinalResultsExportFormat, FALSE)>>, inputs, <<>>)

GenerateQ3Pipeline6(q, inputs) ==
    FinalData("pipeline-6", "left_import",
      <<Import("left_import", <<0, 1, 2, 3>>),
        Sort(1, <<SortColumn(3, TRUE), SortColumn(1, FALSE)>>),
        Limit(2, TopRows),
        Alias(3, <<0, 1, 2, 3>>),
        Export(4, kFinalResultsExportFormat, FALSE)>>, inputs, <<>>)

GenerateQ3(q) ==
    LET p1 == GenerateQ3Pipeline1(q, ListTableObjects(q, "orders"))
        p2 == GenerateQ3Pipeline2(q, ListTableObjects(q, "customer"))
        p3 == GenerateQ3Pipeline3(q, ListTableObjects(q, "lineitem"))
        p4 == GenerateQ3Pipeline4(q, p2.objects, p1.objects)
        p5 == GenerateQ3Pipeline5(q, p4.objects, p3.objects)
        p6 == GenerateQ3Pipeline6(q, p5.objects)
    IN Query(<<p1, p2, p3, p4, p5, p6>>, {<<1, 4>>, <<2, 4>>, <<4, 5>>, <<3, 5>>, <<5, 6>>})

-----------------------------------------------------------------------------
(* Query 5.  Pipeline 1 has one fragment however many workers it is given; *)
(* the pipelines 2 and 6 hand their table on when it is not shuffled.      *)
GenerateQ5Pipeline1(q, region, nation, supplier) ==
    LET id == "pipeline-1"
        outputs == GenerateOutputObjectIds(GetWorkerCount(q, id), id, kIntermediateResultsExportFormat)
        inputs == (ImportIdentity(id, "left_import") :> region)
                  @@ (ImportIdentity(id, "right_import") :> nation)
                  @@ (ImportIdentity(id, "supplier_import") :> supplier)
    IN PipelineData(outputs,
         Pipeline(id,
           Shuffled(q, <<Import("left_import", <<0, 1>>),
                         Filter(1, Equals_(PqpColumn_(1), ASIA)),
                         Import("right_import", <<0, 1, 2>>),
                         Join(2, 3, "kHashJoin", 0, 2),
                         Import("supplier_import", <<0, 3>>),
                         Join(4, 5, "kHashJoin", 2, 1),
                         Projection(6, Columns(<<3, 5, 6>>))>>,
                    <<1>>, "pipeline-3", IsSortMerge(q, "pipeline-3")),
           <<Definition(inputs, outputs[1], kIntermediateResultsExportFormat)>>, TRUE),
         <<0, 1, 2>>)

GenerateQ5Pipeline2(q, inputs) ==
    IF IsBroadcast(q, "pipeline-3") THEN PipelineData(inputs, None, <<0, 2, 5, 6>>)
    ELSE ScanData(q, "pipeline-2",
           Shuffled(q, <<Import("left_import", <<0, 2, 5, 6>>)>>,
                    <<1>>, "pipeline-3", IsSortMerge(q, "pipeline-3")), inputs, <<0, 1, 2, 3>>)

GenerateQ5Pipeline3(q, suppliers, lineitems) ==
    JoinData(q, "pipeline-3",
      Shuffled(q, <<Import("left_import", suppliers.columns),
                    Import("right_import", lineitems.columns),
                    Join(1, 2, JoinImplementation(q, "pipeline-3"), 1, 1),
                    Projection(3, Columns(<<0, 3, 5, 6, 2>>))>>,
               <<1>>, "pipeline-5", IsSortMerge(q, "pipeline-5")),
      suppliers.objects, lineitems.objects, TRUE, <<0, 1, 2, 3, 4>>)

GenerateQ5Pipeline4(q, inputs) ==
    ScanData(q, "pipeline-4",
      Shuffled(q, <<Import("left_import", <<0, 1, 4>>),
                    Filter(1, Between("kBetweenUpperExclusive", PqpColumn_(2),
                                      Value_(19940101), Value_(19950101))),
                    Projection(2, Columns(<<0, 1>>))>>,
               <<0>>, "pipeline-5", IsSortMerge(q, "pipeline-5")), inputs, <<0, 1>>)

GenerateQ5Pipeline5(q, orders, lineitems) ==
    JoinData(q, "pipeline-5",
      Shuffled(q, <<Import("left_import", <<0, 1>>),
                    Import("right_import", <<0, 1, 2, 3, 4>>),
                    Join(1, 2, JoinImplementation(q, "pipeline-5"), 0, 1),
                    Projection(3, Columns(<<1, 2, 4, 5, 6>>))>>,
               <<0>>, "pipeline-7", IsSortMerge(q, "pipeline-7")), orders, lineitems, TRUE, <<0, 1, 2, 3, 4>>)

(* Never sorted within a partition.                                        *)
GenerateQ5Pipeline6(q, inputs) ==
    IF IsBroadcast(q, "pipeline-7") THEN PipelineData(inputs, None, <<0, 3>>)
    ELSE ScanData(q, "pipeline-6",
           Shuffled(q, <<Import("left_import", <<0, 3>>)>>, <<0>>, "pipeline-7", FALSE), inputs, <<0, 1>>)

GenerateQ5Pipeline7(q, customers, lineitems) ==
    JoinData(q, "pipeline-7",
      <<Import("left_import", customers.columns),
        Import("right_import", lineitems.columns),
        Join(1, 2, JoinImplementation(q, "pipeline-7"), 0, 0),
        Filter(3, Equals_(PqpColumn_(1), PqpColumn_(6))),
        Projection(4, Columns(<<3>>) \o <<DiscountedPrice(4, 5)>>),
        Aggregate(5, <<0>>, <<Sum_(1)>>),
        Export(6, kIntermediateResultsExportFormat, FALSE)>>,
      customers.objects, lineitems.objects, TRUE, <<0, 1>>)

GenerateQ5Pipeline8(q, inputs) ==
    FinalData("pipeline-8", "left_import",
      <<Import("left_import", <<0, 1>>),
        Aggregate(1, <<0>>, <<Sum_(1)>>),
        Sort(2, <<SortColumn(1, TRUE)>>),
        Export(3, kFinalResultsExportFormat, FALSE)>>, inputs, <<0, 1>>)

GenerateQ5(q) ==
    LET p1 == GenerateQ5Pipeline1(q, ListTableObjects(q, "region"), ListTableObjects(q, "nation"),
                                  ListTableObjects(q, "supplier"))
        p2 == GenerateQ5Pipeline2(q, ListTableObjects(q, "lineitem"))
        p3 == GenerateQ5Pipeline3(q, p1, p2)
        p4 == GenerateQ5Pipeline4(q, ListTableObjects(q, "orders"))
        p5 == GenerateQ5Pipeline5(q, p4.objects, p3.objects)
        p6 == GenerateQ5Pipeline6(q, ListTableObjects(q, "customer"))
        p7 == GenerateQ5Pipeline7(q, p6, p5)
        p8 == GenerateQ5Pipeline8(q, p7.objects)
    IN Query(<<p1, p2, p3, p4, p5, p6, p7, p8>>,
             {<<1, 3>>, <<2, 3>>, <<4, 5>>, <<3, 5>>, <<5, 7>>, <<6, 7>>, <<7, 8>>})

-----------------------------------------------------------------------------
(* Query 6.                                                                *)
GenerateQ6Pipeline1(q, inputs) ==
    LET outputs == GenerateOutputObjectIds(GetWorkerCount(q, "pipeline-1"), "pipeline-1", kIntermediateResultsExportFormat)
    IN PipelineData(outputs,
         GeneratePipeline("pipeline-1", "import",
           <<Import("import", <<4, 5, 6, 10>>),
             Filter(1, Between("kBetweenUpperExclusive", PqpColumn_(3), Value_(19940101), Value_(19950101))),
             Filter(2, Between("kBetweenInclusive", PqpColumn_(2), Value_(5), Value_(7))),
             Filter(3, Predicate("kLessThan", PqpColumn_(0), Value_(2400))),
             Projection(4, <<Mul_(PqpColumn_(1), PqpColumn_(2))>>),
             Aggregate(5, <<>>, <<Sum_(0)>>),
             Export(6, kIntermediateResultsExportFormat, FALSE)>>,
           kIntermediateResultsExportFormat, inputs, outputs), <<>>)

GenerateQ6Pipeline2(q, inputs) ==
    FinalData("pipeline-2", "import",
      <<Import("import", <<0>>), Aggregate(1, <<>>, <<Sum_(0)>>), Alias(2, <<0>>), Export(3, "kCsv", FALSE)>>,
      inputs, <<>>)

GenerateQ6(q) ==
    LET p1 == GenerateQ6Pipeline1(q, ListTableObjects(q, "lineitem"))
        p2 == GenerateQ6Pipeline2(q, p1.objects)
    IN Query(<<p1, p2>>, {<<1, 2>>})

-----------------------------------------------------------------------------
(* Query 12.                                                               *)
GenerateQ12Pipeline1(q, inputs) ==
    ScanData(q, "pipeline-1",
      Shuffled(q, <<Import("left_import", <<0, 10, 11, 12, 14>>),
                    Filter(1, Between("kBetweenUpperExclusive", PqpColumn_(3),
                                      Value_(19940101), Value_(19950101))),
                    Filter(2, In_("kIn", PqpColumn_(4), List_(<<MAIL, SHIP>>))),
                    Filter(3, Predicate("kLessThan", PqpColumn_(1), PqpColumn_(2))),
                    Filter(4, Predicate("kLessThan", PqpColumn_(2), PqpColumn_(3))),
                    Projection(5, Columns(<<0, 4>>))>>,
               <<0>>, "pipeline-3", IsSortMerge(q, "pipeline-3")), inputs, <<0, 1>>)

GenerateQ12Pipeline2(q, inputs) ==
    IF IsBroadcast(q, "pipeline-3") THEN PipelineData(inputs, None, <<0, 5>>)
    ELSE ScanData(q, "pipeline-2",
           Shuffled(q, <<Import("left_import", <<0, 5>>)>>,
                    <<0>>, "pipeline-3", IsSortMerge(q, "pipeline-3")), inputs, <<0, 1>>)

(* The right side is the one that is broadcast.                            *)
GenerateQ12Pipeline3(q, lineitems, orders) ==
    LET isUrgent == Equals_(PqpColumn_(3), URGENT)
        isHigh == Equals_(PqpColumn_(3), HIGH)
        isLow == And_(NotEquals_(PqpColumn_(3), URGENT), NotEquals_(PqpColumn_(3), HIGH))
    IN JoinData(q, "pipeline-3",
         <<Import("left_import", lineitems.columns),
           Import("right_import", orders.columns),
           Join(1, 2, JoinImplementation(q, "pipeline-3"), 0, 0),
           Projection(3, <<PqpColumn_(1), Case_(Or_(isUrgent, isHigh), 1, 0), Case_(isLow, 1, 0)>>),
           Aggregate(4, <<0>>, <<Sum_(1), Sum_(2)>>),
           Export(5, kIntermediateResultsExportFormat, FALSE)>>,
         lineitems.objects, orders.objects, FALSE, <<0, 1, 2>>)

(* The format of the proxy is not that of the fragment, which decides.     *)
GenerateQ12Pipeline4(q, counts) ==
    FinalData("pipeline-4", "left_import",
      <<Import("left_import", counts.columns),
        Aggregate(1, <<0>>, <<Sum_(1), Sum_(2)>>),
        Sort(2, <<SortColumn(0, FALSE)>>),
        Alias(3, <<0, 1, 2>>),
        Export(4, kIntermediateResultsExportFormat, FALSE)>>, counts.objects, <<0, 1, 2>>)

GenerateQ12(q) ==
    LET p1 == GenerateQ12Pipeline1(q, ListTableObjects(q, "lineitem"))
        p2 == GenerateQ12Pipeline2(q, ListTableObjects(q, "orders"))
        p3 == GenerateQ12Pipeline3(q, p1, p2)
        p4 == GenerateQ12Pipeline4(q, p3)
    IN Query(<<p1, p2, p3, p4>>, {<<1, 3>>, <<2, 3>>, <<3, 4>>})

-----------------------------------------------------------------------------
(* EtlPqpGenerator: object i of the orders becomes the CSV object i.  The  *)
(* objects are counted by the scale factor and not listed.                 *)
GenerateEtl(q) ==
    LET id == "pipeline"
        outputs == [i \in 1 .. EtlObjectCount |-> ObjectReference(<<"shuffle", "", i, "kCsv">>, 0, None)]
        fragment(i) == Definition(ImportIdentity(id, "import") :>
                                      <<ObjectReference(<<"tpc-h", "orders", i, "kParquet">>, 0, None)>>,
                                  outputs[i], "kCsv")
        pipeline == Pipeline(id, <<Import("import", <<0, 1, 2, 3, 4, 5, 7>>), Export(1, "kCsv", FALSE)>>,
                             [i \in 1 .. EtlObjectCount |-> fragment(i)], TRUE)
    IN Query(<<PipelineData(outputs, pipeline, <<>>)>>, {})

TpchQueries == {"kTpchQ1", "kTpchQ3", "kTpchQ5", "kTpchQ6", "kTpchQ12"}
TablesOf(query) ==
    CASE query \in {"kTpchQ1", "kTpchQ6"} -> {"lineitem"}
      [] query = "kTpchQ3" -> {"orders", "customer", "lineitem"}
      [] query = "kTpchQ5" -> {"region", "nation", "supplier", "lineitem", "orders", "customer"}
      [] query = "kTpchQ12" -> {"lineitem", "orders"}

GeneratePqp(query, q) ==
    CASE query = "kTpchQ1" -> GenerateQ1(q)
      [] query = "kTpchQ3" -> GenerateQ3(q)
      [] query = "kTpchQ5" -> GenerateQ5(q)
      [] query = "kTpchQ6" -> GenerateQ6(q)
      [] query = "kTpchQ12" -> GenerateQ12(q)
      [] query = "kEtlCopyTpchOrders" -> GenerateEtl(q)
=============================================================================

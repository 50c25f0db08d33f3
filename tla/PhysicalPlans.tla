---------------------------- MODULE PhysicalPlans ----------------------------
(***************************************************************************)
(* Physical plans (src/lib/compiler/physical_query_plan): operator         *)
(* proxies, the pipelines that the coordinator cuts them into, and the way *)
(* of a pipeline to the workers: as a template and one definition per      *)
(* fragment, both through JSON, put together again by the worker.          *)
(*                                                                         *)
(* A plan is [root, nodes]: nodes maps the identity of a proxy to its      *)
(* type, the identities of its inputs and its attributes.                  *)
(***************************************************************************)
EXTENDS ImportOptions

(***************************************************************************)
(* ObjectReference.  A key is <<prefix, directory, number, extension>>;    *)
(* the etag stands for any checksum of a listing, 0 for none.              *)
(***************************************************************************)
ObjectReference(key, etag, partitions) == [key |-> key, etag |-> etag, partitions |-> partitions]
Placeholder == ObjectReference(<<"Placeholder", "", 0, "">>, 0, None)

(***************************************************************************)
(* The proxies, as generators build them: a sequence of nodes whose inputs *)
(* are earlier positions.  Identities are set for imports and default to   *)
(* the name and the address of the proxy, here its position.               *)
(***************************************************************************)
Proxy(type, name, inputs, attributes) ==
    [type |-> type, name |-> name, inputs |-> inputs, attributes |-> attributes]

Import(name, columns) ==
    Proxy("kImport", name, <<>>, [columns |-> columns, objects |-> <<>>, options |-> None])
SetImportOptions(import, options) == [import EXCEPT !.attributes.options = options]
Filter(input, predicate) == Proxy("kFilter", "", <<input>>, [predicate |-> predicate])
Projection(input, expressions) == Proxy("kProjection", "", <<input>>, [expressions |-> expressions])
Aggregate(input, groups, aggregates) ==
    Proxy("kAggregate", "", <<input>>, [groups |-> groups, aggregates |-> aggregates, breaker |-> TRUE])
Sort(input, definitions) == Proxy("kSort", "", <<input>>, [definitions |-> definitions])
Limit(input, rows) == Proxy("kLimit", "", <<input>>, [rows |-> Value_(rows)])
Alias(input, columns) == Proxy("kAlias", "", <<input>>, [columns |-> columns])
Partition(input, columns, count, sorted) ==
    Proxy("kPartition", "", <<input>>, [columns |-> columns, count |-> count, sorted |-> sorted])
Join(left, right, implementation, l, r) ==
    Proxy(implementation, "", <<left, right>>,
          [mode |-> "kInner", primary |-> [l |-> l, r |-> r, condition |-> "kEquals"], secondary |-> <<>>])
Export(input, format, consolidate) ==
    Proxy("kExport", "", <<input>>,
          [target |-> Placeholder, format |-> format, consolidate |-> consolidate])

Joins == {"kHashJoin", "kSortMergeJoin"}

(* Identity, with the prefix of PrefixIdentity.                            *)
Identity(pipeline, proxies, i) ==
    IF proxies[i].name # "" THEN <<pipeline, proxies[i].name, 0>>
    ELSE <<pipeline, proxies[i].type, i>>

(* PqpPipeline's constructor: every identity gets the prefix.              *)
PrefixOperatorProxyIdentities(pipeline, proxies) ==
    LET id(i) == Identity(pipeline, proxies, i)
        node(i) == [type |-> proxies[i].type, attributes |-> proxies[i].attributes,
                    inputs |-> [n \in DOMAIN proxies[i].inputs |-> id(proxies[i].inputs[n])]]
        ids == {id(i) : i \in DOMAIN proxies}
    IN [root |-> id(Len(proxies)),
        nodes |-> [x \in ids |-> node(CHOOSE i \in DOMAIN proxies : id(i) = x)]]

Leaves(plan) == {x \in DOMAIN plan.nodes : plan.nodes[x].inputs = <<>>}

WithTarget(plan, target, format) ==
    [plan EXCEPT !.nodes[plan.root].attributes.target = target,
                 !.nodes[plan.root].attributes.format = format]

WithObjects(plan, objects) ==
    [plan EXCEPT !.nodes = [x \in DOMAIN @ |->
        IF x \in DOMAIN objects THEN [@[x] EXCEPT !.attributes.objects = objects[x]] ELSE @[x]]]

(* PipelineFragmentTemplate: neither a target nor objects are left.        *)
FragmentTemplate(plan) ==
    WithObjects(WithTarget(plan, Placeholder, "kOrc"), [x \in Leaves(plan) |-> <<>>])

(***************************************************************************)
(* The proxies in JSON.  What an object of a table reads as is in its key, *)
(* so the partitions of an import are not among its attributes.            *)
(***************************************************************************)
ImportToJson(a) ==
    [columns |-> a.columns, options |-> IF a.options = None THEN None ELSE ImportOptionsToJson(a.options),
     objects |-> [i \in DOMAIN a.objects |-> [key |-> a.objects[i].key, etag |-> a.objects[i].etag]]]
ImportFromJson(j, getsBool) ==
    [columns |-> j.columns, options |-> IF j.options = None THEN None ELSE ImportOptionsFromJson(j.options, getsBool),
     objects |-> [i \in DOMAIN j.objects |-> ObjectReference(j.objects[i].key, j.objects[i].etag, None)]]

FilterToJson(a)   == [predicate |-> SerializeExpression(a.predicate)]
FilterFromJson(j) == [predicate |-> DeserializeExpression(j.predicate)]

SerializeAll(expressions)   == [i \in DOMAIN expressions |-> SerializeExpression(expressions[i])]
DeserializeAll(expressions) == [i \in DOMAIN expressions |-> DeserializeExpression(expressions[i])]

ProjectionToJson(a)   == [expressions |-> SerializeAll(a.expressions)]
ProjectionFromJson(j) == [expressions |-> DeserializeAll(j.expressions)]

AggregateToJson(a) ==
    [aggregates |-> SerializeAll(a.aggregates), group_by_column_ids |-> a.groups,
     is_pipeline_breaker |-> a.breaker]
AggregateFromJson(j) ==
    [aggregates |-> DeserializeAll(j.aggregates), groups |-> j.group_by_column_ids,
     breaker |-> j.is_pipeline_breaker]

SortToJson(a) ==
    [definitions |-> [i \in DOMAIN a.definitions |->
        [column_id |-> a.definitions[i].column,
         mode |-> IF a.definitions[i].descending THEN "kDescending" ELSE "kAscending"]]]
SortFromJson(j) ==
    [definitions |-> [i \in DOMAIN j.definitions |->
        [column |-> j.definitions[i].column_id, descending |-> j.definitions[i].mode = "kDescending"]]]

LimitToJson(a)   == [row_count |-> SerializeExpression(a.rows)]
LimitFromJson(j) == [rows |-> DeserializeExpression(j.row_count)]

AliasToJson(a)   == [column_ids |-> a.columns]
AliasFromJson(j) == [columns |-> j.column_ids]

(* The columns are a set, in JSON an array in their order.                 *)
HashPartitioningFunctionToJson(a) ==
    [type |-> "kHash", partition_count |-> a.count, partition_column_ids |-> a.columns]
PartitioningFunctionFromJson(j) ==
    [columns |-> SetToSortSeq(ToSet(j.partition_column_ids), <), count |-> j.partition_count]

(* Mutant: the flag is not written.                                        *)
PartitionToJsonUnsorted(a) ==
    [partitioning_function |-> HashPartitioningFunctionToJson(a), sort_within_partition |-> FALSE]
PartitionToJson(a) ==
    [partitioning_function |-> HashPartitioningFunctionToJson(a), sort_within_partition |-> a.sorted]
PartitionFromJson(j, getsBool) ==
    LET function == PartitioningFunctionFromJson(j.partitioning_function)
    IN [columns |-> function.columns, count |-> function.count,
        sorted |-> GetBool(getsBool, j.sort_within_partition)]

SerializePredicate(p) ==
    [column_id_left |-> p.l, column_id_right |-> p.r, predicate_condition |-> p.condition]
DeserializePredicate(j) ==
    [l |-> j.column_id_left, r |-> j.column_id_right, condition |-> j.predicate_condition]

JoinToJson(a) ==
    [join_mode |-> a.mode, primary_predicate |-> SerializePredicate(a.primary),
     secondary_predicates |-> [i \in DOMAIN a.secondary |-> SerializePredicate(a.secondary[i])]]
JoinFromJson(j) ==
    [mode |-> j.join_mode, primary |-> DeserializePredicate(j.primary_predicate),
     secondary |-> [i \in DOMAIN j.secondary_predicates |->
                       DeserializePredicate(j.secondary_predicates[i])]]

ExportToJson(a) ==
    [target |-> a.target.key, format |-> a.format, consolidate_row_groups |-> a.consolidate]
ExportFromJson(j, getsBool) ==
    [target |-> ObjectReference(j.target, 0, None), format |-> j.format,
     consolidate |-> GetBool(getsBool, j.consolidate_row_groups)]

AttributesToJson(type, a) ==
    CASE type = "kImport" -> ImportToJson(a)
      [] type = "kFilter" -> FilterToJson(a)
      [] type = "kProjection" -> ProjectionToJson(a)
      [] type = "kAggregate" -> AggregateToJson(a)
      [] type = "kSort" -> SortToJson(a)
      [] type = "kLimit" -> LimitToJson(a)
      [] type = "kAlias" -> AliasToJson(a)
      [] type = "kPartition" -> PartitionToJson(a)
      [] type \in Joins -> JoinToJson(a)
      [] type = "kExport" -> ExportToJson(a)

DeserializeOperatorProxy(json, getsBool) ==
    CASE json.type = "kImport" -> ImportFromJson(json.attributes, getsBool)
      [] json.type = "kFilter" -> FilterFromJson(json.attributes)
      [] json.type = "kProjection" -> ProjectionFromJson(json.attributes)
      [] json.type = "kAggregate" -> AggregateFromJson(json.attributes)
      [] json.type = "kSort" -> SortFromJson(json.attributes)
      [] json.type = "kLimit" -> LimitFromJson(json.attributes)
      [] json.type = "kAlias" -> AliasFromJson(json.attributes)
      [] json.type = "kPartition" -> PartitionFromJson(json.attributes, getsBool)
      [] json.type \in Joins -> JoinFromJson(json.attributes)
      [] json.type = "kExport" -> ExportFromJson(json.attributes, getsBool)

(* AbstractOperatorProxy::ToJson and the attributes of the type.           *)
ToJson(id, node) ==
    [operator_type |-> node.type, identity |-> id, inputs |-> node.inputs,
     attributes |-> AttributesToJson(node.type, node.attributes)]

SerializePqp(plan) ==
    [root |-> plan.root, operators |-> [x \in DOMAIN plan.nodes |-> ToJson(x, plan.nodes[x])]]

DeserializePqp(json, getsBool) ==
    [root |-> json.root,
     nodes |-> [x \in DOMAIN json.operators |->
         LET operator == json.operators[x]
         IN [type |-> operator.operator_type, inputs |-> operator.inputs,
             attributes |-> DeserializeOperatorProxy([type |-> operator.operator_type,
                                                      attributes |-> operator.attributes], getsBool)]]]

(* BindInputs finds every input, or an Assert fails.                       *)
Bound(plan) ==
    \A x \in DOMAIN plan.nodes : \A i \in DOMAIN plan.nodes[x].inputs :
        plan.nodes[x].inputs[i] \in DOMAIN plan.nodes

(***************************************************************************)
(* PipelineFragmentDefinition.  The bucket, the prefix and the partitions  *)
(* of an import are those of its first object, for all of them.            *)
(***************************************************************************)
Definition(inputs, target, format) == [inputs |-> inputs, target |-> target, format |-> format]

InputToJson(objects) ==
    [source_prefix |-> objects[1].key[1], source_partitions |-> objects[1].partitions,
     objects |-> [i \in DOMAIN objects |->
        [source_suffix |-> Tail(objects[i].key), etag |-> objects[i].etag]]]

InputFromJson(json) ==
    [i \in DOMAIN json.objects |->
        ObjectReference(<<json.source_prefix>> \o json.objects[i].source_suffix,
                        json.objects[i].etag, json.source_partitions)]

DefinitionToJson(d) ==
    [inputs |-> [x \in DOMAIN d.inputs |-> InputToJson(d.inputs[x])],
     target_object |-> d.target, target_format |-> d.format]
DefinitionFromJson(json) ==
    Definition([x \in DOMAIN json.inputs |-> InputFromJson(json.inputs[x])],
               json.target_object, json.target_format)

(* GenerateFragmentPlan, if its Asserts hold.                              *)
DefinitionFits(template, d) == DOMAIN d.inputs = Leaves(template)
GenerateFragmentPlan(template, d) ==
    WithObjects(WithTarget(template, d.target, d.format), d.inputs)

(***************************************************************************)
(* CreateOperatorInstanceRecursively, by its Asserts.  An import without   *)
(* options takes the format and the row groups of its first object.        *)
(***************************************************************************)
ReaderOptions(a) ==
    IF a.options # None THEN a.options
    ELSE LET first == a.objects[1]
         IN MakeImportOptions(first.key[4], a.columns,
                              IF first.partitions = None THEN None ELSE Some(first.partitions))

CreatesImport(a) ==
    a.objects # <<>> /\ a.columns # <<>> /\ (a.options # None \/ a.objects[1].key[4] \in Formats)
CreatesJoin(a, inputs) == a.secondary = <<>> /\ Len(inputs) = 2
CreatesAggregate(a, inputs) == Len(inputs) = 1 /\ a.aggregates # <<>>
CreatesAlias(a, inputs) == Len(inputs) = 1 /\ a.columns # <<>>
CreatesProjection(a, inputs) == Len(inputs) = 1 /\ a.expressions # <<>>
CreatesSort(a, inputs) == Len(inputs) = 1 /\ a.definitions # <<>>

CreatesOperator(node) ==
    LET a == node.attributes
        inputs == node.inputs
    IN CASE node.type = "kImport" -> CreatesImport(a)
         [] node.type \in Joins -> CreatesJoin(a, inputs)
         [] node.type = "kAggregate" -> CreatesAggregate(a, inputs)
         [] node.type = "kAlias" -> CreatesAlias(a, inputs)
         [] node.type = "kProjection" -> CreatesProjection(a, inputs)
         [] node.type = "kSort" -> CreatesSort(a, inputs)
         [] OTHER -> Len(inputs) = 1

(* DeserializePqp fails for a schema without columns, and for a predicate  *)
(* that has no Arrow expression.                                           *)
ExpectsNoColumns(node) ==
    node.type = "kImport" /\ node.attributes.options # None /\ HasEmptySchema(node.attributes.options)
PushesDown(node) ==
    node.type = "kImport" /\ node.attributes.options # None /\ node.attributes.options.format = "kParquet"
    /\ node.attributes.options.arrow_expression # None => Supported(node.attributes.options.arrow_expression)

(* What a worker is sent, and the plan that it runs.                       *)
WorkerPlan(template, d, getsBool) ==
    GenerateFragmentPlan(DeserializePqp(SerializePqp(template), getsBool),
                         DefinitionFromJson(DefinitionToJson(d)))
=============================================================================

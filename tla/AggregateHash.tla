---------------------------- MODULE AggregateHash ----------------------------
(***************************************************************************)
(* AggregateHashOperator (src/lib/operator/aggregate_hash_operator.cpp).   *)
(*                                                                         *)
(* Every row gets an AggregateKey, one entry per GROUP BY column.  The     *)
(* first entry of a key may have its most significant bit set: it then is  *)
(* an index into the vector of results, either because an earlier          *)
(* aggregate function has cached it there or because the values of a       *)
(* single int column are so dense that they are used as indexes            *)
(* themselves.  Vectors of results have gaps: elements without a RowId.    *)
(*                                                                         *)
(* aggregates is a sequence of records of func and column, where column 0  *)
(* is the invalid ColumnId of COUNT( * ); STRING_AGG has an order too, an  *)
(* optional, <<>> or <<definitions>>.  The bit patterns of short strings   *)
(* are, like the other types, numbered in order of appearance; a double is *)
(* a multiple of 1/DoubleScale.  A string is a number, 0 if it is empty,   *)
(* and what STRING_AGG makes of several is a sequence.                     *)
(***************************************************************************)
EXTENDS Expressions

CONSTANTS MinInt, DoubleScale

ASSUME AggregateAssumption == MinInt \in Int /\ DoubleScale \in Nat \ {0}

Functions == {"kMin", "kMax", "kSum", "kAvg", "kCount", "kCountDistinct", "kAny", "kStringAgg"}

NoRow == <<>>
Entry(cached, id) == [cached |-> cached, id |-> id]

ColumnValues(table, c) == LET rows == Rows(table) IN [i \in DOMAIN rows |-> rows[i][c]]

(***************************************************************************)
(* PartitionByGroupByKeys.                                                 *)
(***************************************************************************)
IntToUint(v) == v - MinInt

IntKey(v) == IF v = NULL THEN 0 ELSE IntToUint(v) + 1

IdMap(values) ==
    FoldLeft(LAMBDA ids, v : IF v = NULL \/ Contains(ids, v) THEN ids ELSE Append(ids, v),
             <<>>, values)

EntryOf(table, c, v) ==
    IF table.columns[c].type = "int" THEN Entry(FALSE, IntKey(v))
    ELSE IF v = NULL THEN Entry(FALSE, 0)
    ELSE LET ids == IdMap(ColumnValues(table, c))
         IN Entry(FALSE, CHOOSE k \in DOMAIN ids : ids[k] = v)

IntKeys(table, c) == {IntKey(v) : v \in ToSet(ColumnValues(table, c)) \ {NULL}}

UseImmediateKeyShortcut(table, groups) ==
    /\ Len(groups) = 1
    /\ table.columns[groups[1]].type = "int"
    /\ LET keys == IntKeys(table, groups[1])
       IN keys # {} /\ 10 * (Max(keys) - Min(keys)) < 12 * RowCount(table)

(* Mutant: the smallest key gets the index of NULL.                        *)
ImmediateFromZero(table, c, v) ==
    Entry(TRUE, IF v = NULL THEN 0 ELSE IntKey(v) - Min(IntKeys(table, c)))

ImmediateEntry(table, c, v) ==
    IF v = NULL THEN Entry(TRUE, 0)
    ELSE Entry(TRUE, IntKey(v) - Min(IntKeys(table, c)) + 1)

(* Enough for the smallest and the largest key, what lies between, NULL.   *)
ExpectedResultSize(table, groups) ==
    IF UseImmediateKeyShortcut(table, groups)
    THEN LET keys == IntKeys(table, groups[1]) IN Max(keys) - Min(keys) + 2
    ELSE Max({0} \cup {Len(IdMap(ColumnValues(table, groups[g]))) :
                          g \in {h \in DOMAIN groups : table.columns[groups[h]].type # "int"}})

KeyOf(table, groups, row) ==
    IF UseImmediateKeyShortcut(table, groups)
    THEN <<ImmediateEntry(table, groups[1], row[groups[1]])>>
    ELSE [g \in DOMAIN groups |-> EntryOf(table, groups[g], row[groups[g]])]

PartitionByGroupByKeys(table, groups) ==
    [k \in DOMAIN table.chunks |->
        LET rows == ChunkRows(table.chunks[k])
        IN [i \in DOMAIN rows |-> KeyOf(table, groups, rows[i])]]

(***************************************************************************)
(* GetOrAddResult.  Returns the context with the result of the key in it,  *)
(* the key as it is left behind, and the position of the result.           *)
(***************************************************************************)
EmptyResult(func) ==
    [row |-> NoRow, count |-> 0,
     acc |-> CASE func = "kCountDistinct" -> {} [] func = "kStringAgg" -> <<>> [] OTHER -> 0]

Resized(results, func, n) == results \o [k \in 1 .. n - Len(results) |-> EmptyResult(func)]

NewContext(func, size) == [func |-> func, results |-> Resized(<<>>, func, size), ids |-> <<>>]

Cache(key, caching, id) == IF caching THEN [key EXCEPT ![1] = Entry(TRUE, id)] ELSE key

ByIndex(context, key, row) ==
    LET id == key[1].id
        grown == IF id >= Len(context.results)
                 THEN Resized(context.results, context.func, ((id + 1) * 3) \div 2)
                 ELSE context.results
    IN [context |-> [context EXCEPT !.results = [grown EXCEPT ![id + 1].row = row]],
        key |-> key, at |-> id + 1]

ByLookup(context, key, row, caching) ==
    IF key \in DOMAIN context.ids
    THEN [context |-> context, key |-> Cache(key, caching, context.ids[key]),
          at |-> context.ids[key] + 1]
    ELSE LET id == Len(context.results)
             added == Append(context.results, [EmptyResult(context.func) EXCEPT !.row = row])
         IN [context |-> [context EXCEPT !.results = added, !.ids = @ @@ (key :> id)],
             key |-> Cache(key, caching, id), at |-> id + 1]

WithoutKey(context, row) ==
    LET results == IF context.results # <<>> THEN context.results
                   ELSE <<[EmptyResult(context.func) EXCEPT !.row = row]>>
    IN [context |-> [context EXCEPT !.results = results], key |-> <<>>, at |-> Len(results)]

GetOrAddResult(context, key, row, caching) ==
    IF key = <<>> THEN WithoutKey(context, row)
    ELSE IF caching /\ key[1].cached THEN ByIndex(context, key, row)
    ELSE ByLookup(context, key, row, caching)

(***************************************************************************)
(* Aggregate: chunk by chunk, aggregate by aggregate, row by row.          *)
(***************************************************************************)
Accumulate(func, result, v, row) ==
    CASE func = "kMin" -> IF result.count = 0 \/ v < result.acc THEN v ELSE result.acc
      [] func = "kMax" -> IF result.count = 0 \/ v > result.acc THEN v ELSE result.acc
      [] func \in {"kSum", "kAvg"} -> result.acc + v
      [] func = "kCountDistinct" -> result.acc \cup {v}
      [] func = "kStringAgg" -> Append(result.acc, [row |-> row, value |-> v])
      [] func = "kCount" -> result.acc

HasAggregateFunctions(aggregates) ==
    \E a \in DOMAIN aggregates : aggregates[a].func # "kAny"

(* The context of a query without functions is a dummy: it is appended     *)
(* to those of ANY, but the first one is used.                             *)
Contexts(table, groups, aggregates) ==
    LET size == ExpectedResultSize(table, groups)
        own == [a \in DOMAIN aggregates |-> NewContext(aggregates[a].func, size)]
    IN IF HasAggregateFunctions(aggregates) THEN own ELSE Append(own, NewContext("kMin", size))

(* A step <<chunk, aggregate, offset>>; an ungrouped COUNT( * ) takes one  *)
(* per chunk, at offset 0.                                                 *)
ChunkSteps(table, k, groups, aggregates) ==
    LET rowsOf(a) == [i \in 1 .. ChunkSize(table.chunks[k]) |-> <<k, a, i>>]
        stepsOf(a) == CASE aggregates[a].func = "kAny" -> <<>>
                        [] aggregates[a].column = 0 /\ groups = <<>> -> <<<<k, a, 0>>>>
                        [] OTHER -> rowsOf(a)
    IN IF HasAggregateFunctions(aggregates)
       THEN FlattenSeq([a \in DOMAIN aggregates |-> stepsOf(a)])
       ELSE rowsOf(1)

Steps(table, groups, aggregates) ==
    FlattenSeq([k \in DOMAIN table.chunks |-> ChunkSteps(table, k, groups, aggregates)])

CountChunk(context, size) ==
    LET results == Resized(context.results, "kCount", 1)
    IN [context EXCEPT !.results = [results EXCEPT ![1].count = @ + size, ![1].row = <<1, 1>>]]

(* NULL changes nothing; COUNT( * ) counts the row whatever it holds.      *)
Update(func, column, result, v, row) ==
    IF column = 0 THEN [result EXCEPT !.count = @ + 1]
    ELSE IF v = NULL THEN result
    ELSE [result EXCEPT !.acc = Accumulate(func, result, v, row), !.count = @ + 1]

AggregateStep(table, aggregates, caching, state, step) ==
    LET k == step[1]
        a == step[2]
        i == step[3]
        distinct == ~HasAggregateFunctions(aggregates)
        context == state.contexts[a]
        found == GetOrAddResult(context, state.keys[k][i], <<k, i>>, caching)
        column == aggregates[a].column
        value == IF column = 0 THEN NULL ELSE Get(table.chunks[k][column], i)
        updated == [found.context EXCEPT !.results[found.at] =
                       Update(context.func, column, @, value, <<k, i>>)]
    IN IF i = 0
       THEN [state EXCEPT !.contexts[a] = CountChunk(context, ChunkSize(table.chunks[k]))]
       ELSE [state EXCEPT !.contexts[a] = IF distinct THEN found.context ELSE updated,
                          !.keys[k][i] = found.key]

AggregateContexts(table, groups, aggregates) ==
    LET immediate == UseImmediateKeyShortcut(table, groups)
        contexts == Contexts(table, groups, aggregates)
        caching == immediate \/ (HasAggregateFunctions(aggregates) /\ Len(contexts) > 1)
        start == [keys |-> PartitionByGroupByKeys(table, groups), contexts |-> contexts]
        step(state, s) == AggregateStep(table, aggregates, caching, state, s)
    IN FoldLeft(step, start, Steps(table, groups, aggregates)).contexts

(***************************************************************************)
(* OnExecute: the group columns are written with the first aggregate.      *)
(***************************************************************************)
Filled(context) == SelectSeq(context.results, LAMBDA result : result.row # NoRow)

WriteGroupByOutput(table, c, filled) ==
    LET value(k) == Get(table.chunks[filled[k].row[1]][c], filled[k].row[2])
        raw == [k \in DOMAIN filled |-> IF value(k) = NULL THEN Default ELSE value(k)]
    IN IF ColumnIsNullable(table, c)
       THEN Nullable(raw, [k \in DOMAIN filled |-> value(k) = NULL]) ELSE Plain(raw)

(***************************************************************************)
(* STRING_AGG, in the order of the rows or in one of its own: the sort     *)
(* columns are read without their flags, and a delimiter is written unless *)
(* the string is still empty.                                              *)
(***************************************************************************)
Delimiter == -1
Characters(s) == IF s = Default THEN <<>> ELSE <<s>>

Concatenate(strings) ==
    FoldLeft(LAMBDA all, s : (IF all = <<>> THEN all ELSE Append(all, Delimiter)) \o Characters(s),
             <<>>, strings)

SortColumn(table, ids, definition) ==
    LET key(n) == Raw(table, definition.column, ids[n])
        before(a, b) == IF key(a) = key(b) THEN a < b ELSE (key(a) < key(b)) # definition.descending
        order == SetToSortSeq(DOMAIN ids, before)
    IN [n \in DOMAIN order |-> ids[order[n]]]

OrderWithinGroup(table, ids, definitions) ==
    FoldLeft(LAMBDA sorted, d : SortColumn(table, IF sorted = <<>> THEN ids ELSE sorted, d),
             <<>>, Reverse(definitions))

StringAgg(table, aggregate, acc) ==
    LET ids == [n \in DOMAIN acc |-> acc[n].row]
        sorted == OrderWithinGroup(table, ids, aggregate.order[1])
    IN Concatenate(IF aggregate.order = <<>> THEN [n \in DOMAIN acc |-> acc[n].value]
                   ELSE [n \in DOMAIN sorted |-> Raw(table, aggregate.column, sorted[n])])

AggregateValue(table, aggregate, result) ==
    CASE aggregate.func = "kAvg" -> (result.acc * DoubleScale) \div result.count
      [] aggregate.func = "kStringAgg" -> StringAgg(table, aggregate, result.acc)
      [] OTHER -> result.acc

WriteAggregateValues(table, aggregate, filled, ungrouped) ==
    LET func == aggregate.func
        none == ungrouped /\ filled = <<>>
        count == CASE func = "kCount" -> [k \in DOMAIN filled |-> filled[k].count]
                   [] OTHER -> [k \in DOMAIN filled |-> Cardinality(filled[k].acc)]
        values == [k \in DOMAIN filled |->
                      IF filled[k].count > 0 THEN AggregateValue(table, aggregate, filled[k]) ELSE Default]
        nulls == [k \in DOMAIN filled |-> filled[k].count = 0]
    IN IF func \in {"kCount", "kCountDistinct"} THEN Plain(IF none THEN <<0>> ELSE count)
       ELSE IF none THEN Nullable(<<Default>>, <<TRUE>>) ELSE Nullable(values, nulls)

AggregateDefinition(table, aggregate) ==
    CASE aggregate.func \in {"kCount", "kCountDistinct"} -> [type |-> "long", nullable |-> FALSE]
      [] aggregate.func = "kSum" ->
            [type |-> IF table.columns[aggregate.column].type = "double" THEN "double" ELSE "long",
             nullable |-> TRUE]
      [] aggregate.func = "kAvg" -> [type |-> "double", nullable |-> TRUE]
      [] aggregate.func = "kStringAgg" -> [type |-> "string", nullable |-> TRUE]
      [] aggregate.func = "kAny" -> table.columns[aggregate.column]
      [] OTHER -> [type |-> table.columns[aggregate.column].type, nullable |-> TRUE]

(* With ANY before the first function nobody writes the group columns, and *)
(* the operator reads the size of a segment that does not exist.           *)
GroupsUnwritten(aggregates) == HasAggregateFunctions(aggregates) /\ aggregates[1].func = "kAny"

(* Without a function the first context, that of an ANY, is read as one of *)
(* numbers; its results are larger if the column is of strings.            *)
MisreadsContext(table, groups, aggregates) ==
    /\ aggregates # <<>> /\ ~HasAggregateFunctions(aggregates)
    /\ table.columns[aggregates[1].column].type = "string"
    /\ RowCount(table) > 0 \/ ExpectedResultSize(table, groups) > 0

(* STRING_AGG fails on the first value that is not a string.               *)
StringAggFails(table, aggregates) ==
    \E a \in DOMAIN aggregates :
        /\ aggregates[a].func = "kStringAgg"
        /\ table.columns[aggregates[a].column].type # "string"
        /\ \E v \in ToSet(ColumnValues(table, aggregates[a].column)) : v # NULL

AggregateOutput(table, groups, aggregates) ==
    LET contexts == AggregateContexts(table, groups, aggregates)
        first == Filled(contexts[1])
        segment(a) == IF aggregates[a].func = "kAny"
                      THEN WriteGroupByOutput(table, aggregates[a].column, first)
                      ELSE WriteAggregateValues(table, aggregates[a], Filled(contexts[a]), groups = <<>>)
        segments == [g \in DOMAIN groups |-> WriteGroupByOutput(table, groups[g], first)]
                       \o [a \in DOMAIN aggregates |-> segment(a)]
    IN [columns |-> [g \in DOMAIN groups |-> table.columns[groups[g]]]
                       \o [a \in DOMAIN aggregates |-> AggregateDefinition(table, aggregates[a])],
        chunks |-> IF Len(segments[1].values) > 0 THEN <<segments>> ELSE <<>>]

(***************************************************************************)
(* The reference: SQL's GROUP BY over rows.                                *)
(***************************************************************************)
SqlGroups(rows, groups, aggregates) ==
    IF groups = <<>> /\ HasAggregateFunctions(aggregates) THEN {<<>>}
    ELSE {[g \in DOMAIN groups |-> rows[i][groups[g]]] : i \in DOMAIN rows}

SqlMembers(rows, groups, group) ==
    {i \in DOMAIN rows : \A g \in DOMAIN groups : rows[i][groups[g]] = group[g]}

(* The strings of a group, sorted stably.                                  *)
SqlStrings(aggregate, rows, members) ==
    LET by == IF aggregate.order = <<>> THEN <<>> ELSE aggregate.order[1]
        key(i, n) == rows[i][by[n].column]
        before(i, j) ==
            \/ i < j /\ \A n \in DOMAIN by : key(i, n) = key(j, n)
            \/ \E n \in DOMAIN by :
                  /\ \A m \in 1 .. n - 1 : key(i, m) = key(j, m)
                  /\ IF by[n].descending THEN key(i, n) > key(j, n) ELSE key(i, n) < key(j, n)
        order == SetToSortSeq(members, before)
    IN [n \in DOMAIN order |-> rows[order[n]][aggregate.column]]

(* All of them, with delimiters between, if the first one is not empty.    *)
SqlStringAgg(strings, v) ==
    strings[1] # Default =>
        v = FlattenSeq([n \in DOMAIN strings |->
                (IF n = 1 THEN <<>> ELSE <<Delimiter>>) \o Characters(strings[n])])

SqlAggregate(aggregate, rows, members, v) ==
    LET c == aggregate.column
        nonNull == {i \in members : c = 0 \/ rows[i][c] # NULL}
        values == {rows[i][c] : i \in nonNull}
        sum == FoldSet(LAMBDA i, n : n + rows[i][c], 0, nonNull)
    IN CASE aggregate.func = "kCount" -> v = Cardinality(nonNull)
         [] aggregate.func = "kCountDistinct" -> v = Cardinality(values)
         [] aggregate.func = "kAny" -> \E i \in members : rows[i][c] = v
         [] values = {} -> v = NULL
         [] aggregate.func = "kStringAgg" -> SqlStringAgg(SqlStrings(aggregate, rows, nonNull), v)
         [] aggregate.func = "kMin" -> v = Min(values)
         [] aggregate.func = "kMax" -> v = Max(values)
         [] aggregate.func = "kSum" -> v = sum
         [] aggregate.func = "kAvg" -> v * Cardinality(nonNull) = sum * DoubleScale

IsAggregation(rows, groups, aggregates, out) ==
    LET expected == SqlGroups(rows, groups, aggregates)
        matches(group, row) ==
            /\ \A g \in DOMAIN groups : row[g] = group[g]
            /\ \A a \in DOMAIN aggregates :
                  SqlAggregate(aggregates[a], rows, SqlMembers(rows, groups, group),
                               row[Len(groups) + a])
    IN /\ Len(out) = Cardinality(expected)
       /\ \A group \in expected : \E o \in DOMAIN out : matches(group, out[o])
=============================================================================

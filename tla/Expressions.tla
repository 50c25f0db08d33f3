----------------------------- MODULE Expressions -----------------------------
(***************************************************************************)
(* Segments, tables and the ExpressionEvaluator that filters and           *)
(* projections run on them (src/lib/storage/table,                         *)
(* src/lib/expression/evaluation).                                         *)
(*                                                                         *)
(* A ValueSegment keeps raw values and, only if it is nullable, a vector   *)
(* of null flags beside them; the raw value below a NULL is the default    *)
(* value of the type.  An ExpressionResult has values and nulls of lengths *)
(* that need not agree.  An expression is the sequence of its nodes in     *)
(* evaluation order: the operands of a node are earlier nodes, and an      *)
(* operand used twice is evaluated once (cached_expression_results_).      *)
(* Numbers stand for the values of every data type.                        *)
(***************************************************************************)
EXTENDS Integers, Sequences, SequencesExt

CONSTANT NULL

ASSUME NullAssumption == NULL \notin Int

Default == 0

Smaller(a, b) == IF a < b THEN a ELSE b
Larger(a, b)  == IF a < b THEN b ELSE a

(***************************************************************************)
(* Segments, chunks and tables.                                            *)
(***************************************************************************)
Plain(values) == [values |-> values, nullable |-> FALSE, nulls |-> <<>>]
Nullable(values, nulls) == [values |-> values, nullable |-> TRUE, nulls |-> nulls]

SegmentIsNull(s, i) == s.nullable /\ s.nulls[i]
Get(s, i) == IF SegmentIsNull(s, i) THEN NULL ELSE s.values[i]

(* ValueSegment::Get: the value of a row, <<chunk, offset>>, without flags. *)
Raw(table, c, id) == table.chunks[id[1]][c].values[id[2]]

ChunkSize(chunk) == IF chunk = <<>> THEN 0 ELSE Len(chunk[1].values)

RowCount(table) == FoldLeft(LAMBDA n, chunk : n + ChunkSize(chunk), 0, table.chunks)

ColumnIsNullable(table, c) == table.columns[c].nullable

(* Segments of one chunk have the same number of rows, and flags for them  *)
(* if they are nullable.  Strings are numbers, unless STRING_AGG made them. *)
Definitions == [type : STRING, nullable : BOOLEAN]
Segments    == [values : Seq(Int), nullable : BOOLEAN, nulls : Seq(BOOLEAN)]

HasRows(s, n) == Len(s.values) = n /\ Len(s.nulls) = (IF s.nullable THEN n ELSE 0)

IsTable(table) ==
    /\ table \in [columns : Seq(Definitions), chunks : Seq(Seq(Segments))]
    /\ \A k \in DOMAIN table.chunks :
          /\ DOMAIN table.chunks[k] = DOMAIN table.columns
          /\ \A c \in DOMAIN table.columns : HasRows(table.chunks[k][c], ChunkSize(table.chunks[k]))

NullsOf(t) ==
    {n \in UNION {{k} \X DOMAIN t.chunks[k] : k \in DOMAIN t.chunks} :
        LET segment == t.chunks[n[1]][n[2]]
        IN \E i \in DOMAIN segment.values : SegmentIsNull(segment, i)}

(* Every NULL of a table is in a column that is declared nullable.         *)
NullsDeclared(t) == \A n \in NullsOf(t) : ColumnIsNullable(t, n[2])

(* The rows of a chunk and of a table, as a reader of the table sees them. *)
ChunkRows(chunk) ==
    [i \in 1 .. ChunkSize(chunk) |-> [c \in DOMAIN chunk |-> Get(chunk[c], i)]]
Rows(table) == FlattenSeq([k \in DOMAIN table.chunks |-> ChunkRows(table.chunks[k])])

(***************************************************************************)
(* Expressions.  Operands are earlier nodes; those of AND and OR and the   *)
(* condition of CASE are truth values.                                     *)
(***************************************************************************)
Operands(node) ==
    CASE node.kind \in {"Column", "Value"} -> {}
      [] node.kind \in {"Minus", "IsNull", "In"} -> {node.l}
      [] node.kind \in {"Arithmetic", "Compare", "And", "Or"} -> {node.l, node.r}
      [] node.kind = "Between" -> {node.l, node.lower, node.upper}
      [] node.kind = "Case" -> {node.when, node.l, node.r}

IsTruth(node) ==
    \/ node.kind \in {"Compare", "Between", "IsNull", "In", "And", "Or"}
    \/ node.kind = "Value" /\ node.value \in {0, 1, NULL}

IsNode(node, columns) ==
    CASE node.kind = "Column" -> node.column \in columns
      [] node.kind = "Value" -> node.value \in Int \cup {NULL}
      [] node.kind = "Arithmetic" -> node.op \in {"+", "-", "*", "/", "%"}
      [] node.kind = "Compare" -> node.op \in {"=", "#", "<", "<=", ">", ">="}
      [] node.kind = "IsNull" -> node.negated \in BOOLEAN
      [] node.kind = "In" -> /\ node.list \in Seq(Int \cup {NULL})
                             /\ {node.negated, node.string} \subseteq BOOLEAN
      [] node.kind = "Between" -> {node.lowerInclusive, node.upperInclusive} \subseteq BOOLEAN
      [] node.kind \in {"Minus", "Case", "And", "Or"} -> TRUE
      [] OTHER -> FALSE

IsExpression(e, columns) ==
    /\ Len(e) \in Nat \ {0} /\ DOMAIN e = 1 .. Len(e)
    /\ \A n \in DOMAIN e :
          /\ IsNode(e[n], columns)
          /\ Operands(e[n]) \subseteq 1 .. n - 1
          /\ e[n].kind \in {"And", "Or"} => IsTruth(e[e[n].l]) /\ IsTruth(e[e[n].r])
          /\ e[n].kind = "Case" => IsTruth(e[e[n].when])

(***************************************************************************)
(* GetDataType, as far as it tells NULL ("null") from the types that have  *)
(* values ("value").  Two NULLs have no common type: an Assert fails       *)
(* ("none").                                                               *)
(***************************************************************************)
ExpressionCommonType(a, b) ==
    IF "none" \in {a, b} \/ {a, b} = {"null"} THEN "none" ELSE "value"

NodeType(node, types) ==
    CASE node.kind = "Value" -> IF node.value = NULL THEN "null" ELSE "value"
      [] node.kind = "Minus" -> types[node.l]
      [] node.kind \in {"Arithmetic", "Case"} -> ExpressionCommonType(types[node.l], types[node.r])
      [] OTHER -> "value"

DataTypes(e) ==
    LET types[n \in 0 .. Len(e)] ==
            IF n = 0 THEN <<>> ELSE Append(types[n - 1], NodeType(e[n], types[n - 1]))
    IN types[Len(e)]

HasNoType(e) == Last(DataTypes(e)) = "none"

(* Every node is evaluated by its type.                                    *)
EvaluationFails(e) == "none" \in ToSet(DataTypes(e))

(* EvaluateExpressionToSegment makes no segment of type NULL.              *)
SegmentFails(e) == EvaluationFails(e) \/ Last(DataTypes(e)) = "null"

(***************************************************************************)
(* ExpressionResult.  AsView turns a result of one value, or one that is   *)
(* NULL throughout, into a literal.                                        *)
(***************************************************************************)
Series(values, nulls) == [values |-> values, nulls |-> nulls]
Size(r)       == Len(r.values)
Value(r, i)   == r.values[Smaller(i, Size(r))]
IsNull(r, i)  == r.nulls # <<>> /\ r.nulls[Smaller(i, Len(r.nulls))]

Literal(value, null) == Series(<<value>>, IF null THEN <<TRUE>> ELSE <<>>)

AsView(r) ==
    IF Size(r) = 1 THEN Literal(r.values[1], r.nulls # <<>> /\ r.nulls[1])
    ELSE IF r.nulls = <<TRUE>> THEN Literal(Default, TRUE)
    ELSE r

(* A view with one flag that is FALSE for many values: the view indexes    *)
(* its flags without bounds.                                               *)
Overrun(r) == r.nulls = <<FALSE>> /\ Size(r) > 1

ResultSize(sizes) == IF 0 \in sizes THEN 0 ELSE Max(sizes)

EvaluateDefaultNullLogic(l, r) ==
    CASE Len(l) = Len(r) -> [i \in DOMAIN l |-> l[i] \/ r[i]]
      [] Len(l) > Len(r) -> IF r # <<>> /\ r[1] THEN <<TRUE>> ELSE l
      [] Len(l) < Len(r) -> IF l # <<>> /\ l[1] THEN <<TRUE>> ELSE r

(***************************************************************************)
(* The functors.                                                           *)
(***************************************************************************)
Bit(b) == IF b THEN 1 ELSE 0

Abs(a) == IF a < 0 THEN -a ELSE a
Quotient(a, b) == (IF (a < 0) = (b < 0) THEN 1 ELSE -1) * (Abs(a) \div Abs(b))

DivisionEvaluator(a, aNull, b, bNull) ==
    IF b = 0 THEN <<Default, TRUE>> ELSE <<Quotient(a, b), aNull \/ bNull>>

ModuloEvaluator(a, aNull, b, bNull) ==
    IF aNull \/ bNull \/ b = 0 THEN <<Default, TRUE>> ELSE <<a - b * Quotient(a, b), FALSE>>

TernaryOrEvaluator(a, aNull, b, bNull) ==
    LET value == (~aNull /\ a # 0) \/ (~bNull /\ b # 0)
    IN <<Bit(value), (aNull \/ bNull) /\ ~value>>

TernaryAndEvaluator(a, aNull, b, bNull) ==
    <<Bit((~aNull /\ a # 0) /\ (~bNull /\ b # 0)),
      (aNull /\ bNull) \/ (a # 0 /\ bNull) \/ (b # 0 /\ aNull)>>

Compare(op, a, b) ==
    CASE op = "=" -> a = b
      [] op = "#" -> a # b
      [] op = "<" -> a < b
      [] op = "<=" -> a =< b

(* The functors that leave NULL to EvaluateDefaultNullLogic, and those     *)
(* that return a pair of a value and a null flag.                          *)
BinaryFunctor(op, a, b) ==
    CASE op = "+" -> a + b
      [] op = "-" -> a - b
      [] op = "*" -> a * b
      [] OTHER -> Bit(Compare(op, a, b))

NullFunctor(op, a, aNull, b, bNull) ==
    CASE op = "/" -> DivisionEvaluator(a, aNull, b, bNull)
      [] op = "%" -> ModuloEvaluator(a, aNull, b, bNull)
      [] op = "and" -> TernaryAndEvaluator(a, aNull, b, bNull)
      [] op = "or" -> TernaryOrEvaluator(a, aNull, b, bNull)

WithDefaultNullLogic(op, l, r) ==
    Series([i \in 1 .. ResultSize({Size(l), Size(r)}) |-> BinaryFunctor(op, Value(l, i), Value(r, i))],
           EvaluateDefaultNullLogic(l.nulls, r.nulls))

WithFunctorNullLogic(op, l, r) ==
    LET a == AsView(l)
        b == AsView(r)
        pairs == [i \in 1 .. ResultSize({Size(a), Size(b)}) |->
                     NullFunctor(op, Value(a, i), IsNull(a, i), Value(b, i), IsNull(b, i))]
    IN Series([i \in DOMAIN pairs |-> pairs[i][1]], [i \in DOMAIN pairs |-> pairs[i][2]])

(* > and >= are flipped to < and <= with the operands exchanged.           *)
Flipped(op) == op \in {">", ">="}
Unflipped(op) == CASE op = ">" -> "<" [] op = ">=" -> "<=" [] OTHER -> op

(***************************************************************************)
(* EvaluateExpressionToResult, node by node; r holds the results of the    *)
(* earlier nodes.                                                          *)
(***************************************************************************)
Comparison(op, l, r) ==
    LET a == IF Flipped(op) THEN r ELSE l
        b == IF Flipped(op) THEN l ELSE r
    IN WithDefaultNullLogic(Unflipped(op), a, b)

And(l, r) == WithFunctorNullLogic("and", l, r)
Or(l, r)  == WithFunctorNullLogic("or", l, r)

ArithmeticResult(node, l, r) ==
    IF node.op \in {"/", "%"} THEN WithFunctorNullLogic(node.op, l, r)
    ELSE WithDefaultNullLogic(node.op, l, r)

CaseResult(when, then, else) ==
    LET chosen(i) == IF Value(when, i) # 0 /\ ~IsNull(when, i) THEN then ELSE else
        indices == 1 .. ResultSize({Size(when), Size(then), Size(else)})
    IN Series([i \in indices |-> Value(chosen(i), i)], [i \in indices |-> IsNull(chosen(i), i)])

(* RewriteBetweenExpression: each bound is compared, inclusively or not,   *)
(* and the two comparisons are joined.                                     *)
LowerCondition(node) == IF node.lowerInclusive THEN ">=" ELSE ">"
UpperCondition(node) == IF node.upperInclusive THEN "<=" ELSE "<"

BetweenResult(node, value, lower, upper) ==
    And(Comparison(LowerCondition(node), value, lower), Comparison(UpperCondition(node), value, upper))

(* Elements of a list of strings that are NULL literals have another type  *)
(* and are dropped.                                                        *)
CompatibleElements(node) ==
    IF node.string /\ NULL \in ToSet(node.list) THEN SelectSeq(node.list, LAMBDA e : e # NULL)
    ELSE node.list

LiteralOf(v) == IF v = NULL THEN Literal(Default, TRUE) ELSE Literal(v, FALSE)

InByRewriting(node, l, elements) ==
    LET single(k) == Comparison(IF node.negated THEN "#" ELSE "=", l, LiteralOf(elements[k]))
        joined[k \in DOMAIN elements] ==
            IF k = 1 THEN single(1)
            ELSE IF node.negated THEN And(joined[k - 1], single(k)) ELSE Or(joined[k - 1], single(k))
    IN joined[Len(elements)]

InByScanning(node, l, elements) ==
    LET view == AsView(l)
        found(i) == \E k \in DOMAIN elements : elements[k] = Value(view, i)
        indices == 1 .. Size(view)
        nulls == [i \in indices |-> IsNull(view, i)]
    IN Series([i \in indices |-> Bit(IF IsNull(view, i) THEN node.negated
                                     ELSE found(i) # node.negated)],
              IF view.nulls = <<>> THEN <<>> ELSE nulls)

InResult(node, l) ==
    LET elements == CompatibleElements(node)
    IN IF elements = <<>> THEN Literal(Bit(node.negated), FALSE)
       ELSE IF \E k \in DOMAIN node.list : node.list[k] = NULL THEN InByRewriting(node, l, elements)
       ELSE InByScanning(node, l, elements)

IsNullResult(node, l) ==
    LET view == AsView(l)
    IN Series([i \in 1 .. Size(view) |-> Bit(IsNull(view, i) # node.negated)], <<>>)

UnaryMinusResult(l) == Series([i \in DOMAIN l.values |-> -l.values[i]], l.nulls)

(* MaterializeSegmentIfNotYetMaterialized: the declaration of the column,  *)
(* not the segment, decides whether the flags are read.                    *)
ColumnResult(node, table, chunk) ==
    LET segment == chunk[node.column]
    IN Series(segment.values,
              IF ColumnIsNullable(table, node.column) THEN segment.nulls ELSE <<>>)

NodeResult(node, r, table, chunk) ==
    CASE node.kind = "Column"     -> ColumnResult(node, table, chunk)
      [] node.kind = "Value"      -> LiteralOf(node.value)
      [] node.kind = "Arithmetic" -> ArithmeticResult(node, r[node.l], r[node.r])
      [] node.kind = "Minus"      -> UnaryMinusResult(r[node.l])
      [] node.kind = "Case"       -> CaseResult(r[node.when], r[node.l], r[node.r])
      [] node.kind = "Compare"    -> Comparison(node.op, r[node.l], r[node.r])
      [] node.kind = "Between"    -> BetweenResult(node, r[node.l], r[node.lower], r[node.upper])
      [] node.kind = "IsNull"     -> IsNullResult(node, r[node.l])
      [] node.kind = "In"         -> InResult(node, r[node.l])
      [] node.kind = "And"        -> And(r[node.l], r[node.r])
      [] node.kind = "Or"         -> Or(r[node.l], r[node.r])

EvaluateExpressionToResult(e, table, chunk) ==
    LET results[n \in 0 .. Len(e)] ==
            IF n = 0 THEN <<>>
            ELSE LET r == results[n - 1] IN Append(r, NodeResult(e[n], r, table, chunk))
    IN results[Len(e)]

EvaluateExpressionToSegment(e, table, chunk) ==
    LET view == AsView(Last(EvaluateExpressionToResult(e, table, chunk)))
        rows == 1 .. ChunkSize(chunk)
        values == [i \in rows |-> Value(view, i)]
    IN IF view.nulls = <<>> THEN Plain(values)
       ELSE Nullable(values, [i \in rows |-> IsNull(view, i)])

(***************************************************************************)
(* EvaluateExpressionToPositionList: predicates are scanned for rows that  *)
(* are TRUE, AND and OR are the intersection and the union of their        *)
(* operands' positions.  Nodes that are no predicates have no positions,   *)
(* and PositionListFails has those for which there is no list at all.      *)
(***************************************************************************)
(* Mutant: the null flags of the operands are not looked at.               *)
ComparedRaw(op, l, r, rows) ==
    {i \in rows : IF Flipped(op) THEN Compare(Unflipped(op), Value(r, i), Value(l, i))
                  ELSE Compare(op, Value(l, i), Value(r, i))}

Compared(op, l, r, rows) ==
    LET a == IF Flipped(op) THEN r ELSE l
        b == IF Flipped(op) THEN l ELSE r
    IN {i \in rows : /\ ~IsNull(a, i) /\ ~IsNull(b, i)
                     /\ Compare(Unflipped(op), Value(a, i), Value(b, i))}

NodePositions(node, r, p, rows) ==
    CASE node.kind = "Compare" -> Compared(node.op, r[node.l], r[node.r], rows)
      [] node.kind = "Between" -> Compared(LowerCondition(node), r[node.l], r[node.lower], rows)
                                     \cap Compared(UpperCondition(node), r[node.l], r[node.upper], rows)
      [] node.kind = "IsNull"  -> {i \in rows : IsNull(AsView(r[node.l]), i) # node.negated}
      [] node.kind = "In"      -> LET in == AsView(InResult(node, r[node.l]))
                                  IN {i \in rows : Value(in, i) # 0 /\ ~IsNull(in, i)}
      [] node.kind = "And"     -> p[node.l] \cap p[node.r]
      [] node.kind = "Or"      -> p[node.l] \cup p[node.r]
      [] node.kind = "Value"   -> {i \in rows : node.value \notin {0, NULL}}
      [] OTHER                 -> {}

EvaluateExpressionToPositionList(e, table, chunk) ==
    LET r == EvaluateExpressionToResult(e, table, chunk)
        rows == 1 .. ChunkSize(chunk)
        positions[n \in 0 .. Len(e)] ==
            IF n = 0 THEN <<>>
            ELSE LET p == positions[n - 1] IN Append(p, NodePositions(e[n], r, p, rows))
    IN Last(positions[Len(e)])

(* The Assert on a literal that is no Bool: a NULL, alone or below AND and *)
(* OR, which are taken apart.                                              *)
NodeFails(node, fails) ==
    CASE node.kind = "Value" -> node.value = NULL
      [] node.kind \in {"And", "Or"} -> fails[node.l] \/ fails[node.r]
      [] OTHER -> FALSE

PositionListFails(e) ==
    LET fails[n \in 0 .. Len(e)] ==
            IF n = 0 THEN <<>> ELSE Append(fails[n - 1], NodeFails(e[n], fails[n - 1]))
    IN EvaluationFails(e) \/ Last(fails[Len(e)])

(***************************************************************************)
(* What the evaluation may read that is not there: the flags of a segment  *)
(* that has none, though its column is declared nullable, and the flags of *)
(* a view beyond its only one.                                             *)
(***************************************************************************)
MissingNullValues(e, table, chunk) ==
    \E n \in DOMAIN e :
        /\ e[n].kind = "Column"
        /\ ColumnIsNullable(table, e[n].column) /\ ~chunk[e[n].column].nullable

(* Operands that the evaluation reads through a view.                      *)
Viewed(e) ==
    UNION {{e[n].l} : n \in {m \in DOMAIN e : e[m].kind \in {"IsNull", "In"}}}
    \cup UNION {{e[n].l, e[n].r} : n \in {m \in DOMAIN e :
                   e[m].kind = "Arithmetic" /\ e[m].op \in {"/", "%"}}}

ViewedForSegment(e) ==
    Viewed(e) \cup {Len(e)}
    \cup UNION {{e[n].l, e[n].r} : n \in {m \in DOMAIN e : e[m].kind \in {"And", "Or"}}}

ReadsTooFar(e, viewed, table, chunk) ==
    LET r == EvaluateExpressionToResult(e, table, chunk)
    IN \E n \in viewed : Overrun(r[n])

UndefinedPositionList(e, table, chunk) ==
    MissingNullValues(e, table, chunk) \/ ReadsTooFar(e, Viewed(e), table, chunk)

UndefinedSegment(e, table, chunk) ==
    MissingNullValues(e, table, chunk) \/ ReadsTooFar(e, ViewedForSegment(e), table, chunk)

(***************************************************************************)
(* SQL's three-valued reading of an expression on one row: the reference   *)
(* for the evaluator.  Truth values are 0, 1 and NULL.                     *)
(***************************************************************************)
SqlNot(a) == IF a = NULL THEN NULL ELSE 1 - a
SqlAnd(a, b) == IF 0 \in {a, b} THEN 0 ELSE IF NULL \in {a, b} THEN NULL ELSE 1
SqlOr(a, b) == SqlNot(SqlAnd(SqlNot(a), SqlNot(b)))
SqlCompare(op, a, b) ==
    IF NULL \in {a, b} THEN NULL
    ELSE Bit(CASE op = ">" -> a > b [] op = ">=" -> a >= b [] OTHER -> Compare(op, a, b))
SqlArithmetic(op, a, b) ==
    IF NULL \in {a, b} \/ (op \in {"/", "%"} /\ b = 0) THEN NULL
    ELSE CASE op = "+" -> a + b
           [] op = "-" -> a - b
           [] op = "*" -> a * b
           [] op = "/" -> Quotient(a, b)
           [] op = "%" -> a - b * Quotient(a, b)
SqlIn(a, list) ==
    IF \E k \in DOMAIN list : SqlCompare("=", a, list[k]) = 1 THEN 1
    ELSE IF \E k \in DOMAIN list : SqlCompare("=", a, list[k]) = NULL THEN NULL ELSE 0

SqlNode(node, v, row) ==
    CASE node.kind = "Column"     -> row[node.column]
      [] node.kind = "Value"      -> node.value
      [] node.kind = "Arithmetic" -> SqlArithmetic(node.op, v[node.l], v[node.r])
      [] node.kind = "Minus"      -> IF v[node.l] = NULL THEN NULL ELSE -v[node.l]
      [] node.kind = "Case"       -> IF v[node.when] = 1 THEN v[node.l] ELSE v[node.r]
      [] node.kind = "Compare"    -> SqlCompare(node.op, v[node.l], v[node.r])
      [] node.kind = "Between"    -> SqlAnd(SqlCompare(LowerCondition(node), v[node.l], v[node.lower]),
                                            SqlCompare(UpperCondition(node), v[node.l], v[node.upper]))
      [] node.kind = "IsNull"     -> Bit((v[node.l] = NULL) # node.negated)
      [] node.kind = "In"         -> LET in == SqlIn(v[node.l], node.list)
                                     IN IF node.negated THEN SqlNot(in) ELSE in
      [] node.kind = "And"        -> SqlAnd(v[node.l], v[node.r])
      [] node.kind = "Or"         -> SqlOr(v[node.l], v[node.r])

SqlValue(e, row) ==
    LET values[n \in 0 .. Len(e)] ==
            IF n = 0 THEN <<>>
            ELSE LET v == values[n - 1] IN Append(v, SqlNode(e[n], v, row))
    IN Last(values[Len(e)])
=============================================================================

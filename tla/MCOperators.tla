----------------------------- MODULE MCOperators -----------------------------
(***************************************************************************)
(* Operators on tables of two columns and at most three rows, in one chunk *)
(* or in two, with and without NULLs, and on a few special ones.           *)
(***************************************************************************)
EXTENDS Operators

MCMinInt == -20

MCHashCombine(h, v) == (3 * h + v) % 7

Def(type, isNullable) == [type |-> type, nullable |-> isNullable]

Segment(rows, c, isNullable) ==
    LET raw == [i \in DOMAIN rows |-> IF rows[i][c] = NULL THEN Default ELSE rows[i][c]]
    IN IF isNullable THEN Nullable(raw, [i \in DOMAIN rows |-> rows[i][c] = NULL]) ELSE Plain(raw)

(* chunks: sequences of rows *)
MakeTable(columns, chunks) ==
    [columns |-> columns,
     chunks |-> [k \in DOMAIN chunks |->
                    [c \in DOMAIN columns |-> Segment(chunks[k], c, columns[c].nullable)]]]

InOneChunk(rows)  == <<rows>>
InTwoChunks(rows) == <<SubSeq(rows, 1, 2), SubSeq(rows, 3, 3)>>

Triples(rows) == [1 .. 3 -> rows]
IntInt == <<Def("int", FALSE), Def("int", FALSE)>>
IntNull == <<Def("int", FALSE), Def("int", TRUE)>>
NullInt == <<Def("int", TRUE), Def("int", FALSE)>>
LongInt == <<Def("long", FALSE), Def("int", FALSE)>>
StringInt == <<Def("string", TRUE), Def("int", FALSE)>>

MCInputs ==
    {MakeTable(IntInt, InTwoChunks(rows)) : rows \in Triples({<<1, 2>>, <<2, 1>>, <<2, 2>>})}
    \cup {MakeTable(IntNull, InTwoChunks(rows)) : rows \in Triples({<<1, NULL>>, <<2, 1>>})}
    \cup {MakeTable(NullInt, InOneChunk(rows)) : rows \in Triples({<<NULL, 2>>, <<2, 1>>})}
    \cup {MakeTable(StringInt, InTwoChunks(rows)) : rows \in Triples({<<3, 1>>, <<NULL, 2>>})}
    \cup {MakeTable(StringInt, InTwoChunks(<<<<0, 2>>, <<4, 2>>, <<3, 1>>>>)),
          MakeTable(StringInt, InTwoChunks(<<<<0, 2>>, <<NULL, 2>>, <<0, 2>>>>)),
          MakeTable(StringInt, InTwoChunks(<<<<NULL, 2>>, <<3, 1>>, <<0, 2>>>>)),
          MakeTable(IntInt, <<>>),
          MakeTable(IntInt, InOneChunk(<<<<2, 3>>, <<1, 1>>, <<2, 0>>>>)),
          MakeTable(LongInt, InTwoChunks(<<<<9, 1>>, <<1, 0>>, <<9, 2>>>>)),
          MakeTable(IntInt, InTwoChunks(<<<<9, 1>>, <<1, 0>>, <<9, 2>>>>))}

(***************************************************************************)
(* Expressions.                                                            *)
(***************************************************************************)
Column(c)          == [kind |-> "Column", column |-> c]
Val(v)             == [kind |-> "Value", value |-> v]
Binary(o, l, r)    == [kind |-> "Arithmetic", op |-> o, l |-> l, r |-> r]
Cmp(o, l, r)       == [kind |-> "Compare", op |-> o, l |-> l, r |-> r]
In(l, list, negated) == [kind |-> "In", l |-> l, list |-> list, negated |-> negated, string |-> FALSE]

(* c1 > c2 OR c2 IS NULL;  c1 BETWEEN c2 AND 2, without or with the bounds;
   c2 NOT IN (0, 1) AND c1 <= 2;  NULL OR c1 < 2 *)
GreaterOrNull == <<Column(1), Column(2), Cmp(">", 1, 2),
                   [kind |-> "IsNull", l |-> 2, negated |-> FALSE],
                   [kind |-> "Or", l |-> 3, r |-> 4]>>
BetweenColumns(lower, upper) ==
    <<Column(1), Column(2), Val(2), [kind |-> "Between", l |-> 1, lower |-> 2, upper |-> 3,
                                     lowerInclusive |-> lower, upperInclusive |-> upper]>>
NullOrLess == <<Val(NULL), Column(1), Val(2), Cmp("<", 2, 3), [kind |-> "Or", l |-> 1, r |-> 4]>>
NotInList == <<Column(2), In(1, <<0, 1>>, TRUE), Column(1), Val(2), Cmp("<=", 3, 4),
               [kind |-> "And", l |-> 2, r |-> 5]>>
InStrings(negated) == <<Column(2), [In(1, <<2, NULL>>, negated) EXCEPT !.string = TRUE]>>
InWithNull == <<Column(2), In(1, <<1, NULL>>, FALSE)>>

(* c2 + 1;  c1 / (c2 - 1);  CASE WHEN c2 = 1 THEN c1 ELSE -c2 END;  (CASE WHEN 1 THEN 2 ELSE 3 END + c1) / c1;
   c1 < c2 AND (c2 IN (1, 2) OR NULL) *)
Successor == <<Column(2), Val(1), Binary("+", 1, 2)>>
Quotients == <<Column(1), Column(2), Val(1), Binary("-", 2, 3), Binary("/", 1, 4)>>
Cases == <<Column(1), Column(2), Val(1), Cmp("=", 2, 3), [kind |-> "Minus", l |-> 2],
           [kind |-> "Case", when |-> 4, l |-> 1, r |-> 5]>>
LiteralCase == <<Val(1), Val(2), Val(3), [kind |-> "Case", when |-> 1, l |-> 2, r |-> 3],
                 Column(1), Binary("+", 4, 5), Binary("/", 6, 5)>>
Logic == <<Column(1), Column(2), Cmp("<", 1, 2), In(2, <<1, 2>>, FALSE), Val(NULL),
           [kind |-> "Or", l |-> 4, r |-> 5], [kind |-> "And", l |-> 3, r |-> 6]>>

Expr(nodes, type) == [nodes |-> nodes, type |-> type]
Filter(e) == [kind |-> "Filter", predicate |-> e, columns |-> {1, 2}]
Project(expressions) == [kind |-> "Projection", expressions |-> expressions, columns |-> {1, 2}]
By(c, descending) == [column |-> c, descending |-> descending]

Right == MakeTable(IntInt, <<<<<<1, 7>>, <<2, 8>>, <<2, 9>>>>, <<<<4, 7>>>>>>)
SmallRight == MakeTable(IntInt, <<<<<<2, 8>>, <<3, 9>>>>>>)

Join(kind, right, mode) == [kind |-> kind, right |-> right, on |-> [l |-> 1, r |-> 1], mode |-> mode]
Agg(groups, aggregates) == [kind |-> "Aggregate", groups |-> groups, aggregates |-> aggregates]
Func(func, c) == [func |-> func, column |-> c]
StringAgg_(c, order) == [func |-> "kStringAgg", column |-> c, order |-> order]

MCOperations ==
    {Filter(e) : e \in {GreaterOrNull, BetweenColumns(TRUE, TRUE), BetweenColumns(FALSE, FALSE),
                         NotInList, InWithNull, InStrings(FALSE), InStrings(TRUE), NullOrLess}}
    \cup {Project(<<Expr(<<Column(2)>>, "int"), Expr(Quotients, "int")>>),
          Project(<<Expr(<<Column(1)>>, "int"), Expr(Successor, "int")>>),
          Project(<<Expr(Cases, "int"), Expr(Logic, "int")>>),
          Project(<<Expr(LiteralCase, "int"), Expr(<<Column(1)>>, "int")>>),
          Project(<<Expr(<<Val(NULL), [kind |-> "Minus", l |-> 1]>>, "int"), Expr(<<Column(1)>>, "int")>>),
          Project(<<Expr(<<Val(NULL), Val(NULL), Binary("+", 1, 2)>>, "int")>>)}
    \cup {[kind |-> "Limit", rows |-> n] : n \in {0, 2, NULL}}
    \cup {[kind |-> "Sort", by |-> <<By(1, FALSE), By(2, TRUE)>>],
          [kind |-> "Sort", by |-> <<By(2, FALSE)>>]}
    \cup {[kind |-> "Partition", columns |-> c, count |-> 2, sorted |-> s] :
             c \in {<<1>>, <<1, 2>>}, s \in BOOLEAN}
    \cup {[kind |-> "Alias", columns |-> <<2, 1>>]}
    \cup {Join("HashJoin", Right, mode) : mode \in Modes}
    \cup {Join("SortedMergeJoin", Right, mode) : mode \in Modes}
    \cup {Join("HashJoin", SmallRight, "kInner")}
    \cup {Agg(<<1>>, <<Func("kSum", 2), Func("kCount", 0)>>),
          Agg(<<1, 2>>, <<Func("kMin", 2), Func("kCountDistinct", 1)>>),
          Agg(<<>>, <<Func("kCount", 0), Func("kAvg", 2)>>),
          Agg(<<1>>, <<Func("kMax", 2)>>),
          Agg(<<2>>, <<Func("kAny", 1)>>),
          Agg(<<2>>, <<StringAgg_(1, <<>>)>>),
          Agg(<<>>, <<StringAgg_(1, <<<<By(2, FALSE), By(1, TRUE)>>>>)>>),
          Agg(<<1, 2>>, <<>>),
          Agg(<<1>>, <<Func("kAny", 2), Func("kCount", 0)>>)}
=============================================================================

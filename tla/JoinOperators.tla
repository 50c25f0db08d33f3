---------------------------- MODULE JoinOperators ----------------------------
(***************************************************************************)
(* HashJoinOperator, SortedMergeJoinOperator and what they share,          *)
(* AbstractJoinOperator (src/lib/operator).                                *)
(*                                                                         *)
(* Both fill position lists, pairs of a row of the left and a row of the   *)
(* right table, from which one chunk of matches and up to two chunks of    *)
(* dangling rows are materialized.  Rows are named by their RowId          *)
(* <<chunk, offset>>.  Values() is the raw vector of a segment: what is    *)
(* copied through it loses its NULLs.                                      *)
(***************************************************************************)
EXTENDS Expressions

Modes == {"kInner", "kLeftOuter", "kRightOuter", "kFullOuter"}

RowIds(table) ==
    FlattenSeq([k \in DOMAIN table.chunks |->
                   [i \in 1 .. ChunkSize(table.chunks[k]) |-> <<k, i>>]])

Pair(l, r) == [l |-> l, r |-> r]

(***************************************************************************)
(* HashJoinOperator::FillPositionLists.  The rows of the build side that   *)
(* have equal values come out of the multimap in an unspecified order,     *)
(* here the order of the sequence build.                                   *)
(***************************************************************************)
BuildSideIsLeft(left, right, mode) == ~(RowCount(left) > RowCount(right) /\ mode = "kInner")

BuildSide(left, right, mode) == IF BuildSideIsLeft(left, right, mode) THEN left ELSE right

HashPairs(left, right, on, mode, build) ==
    LET isLeft == BuildSideIsLeft(left, right, mode)
        value(b) == IF isLeft THEN Raw(left, on.l, b) ELSE Raw(right, on.r, b)
        probe == IF isLeft THEN RowIds(right) ELSE RowIds(left)
        probed(p) == IF isLeft THEN Raw(right, on.r, p) ELSE Raw(left, on.l, p)
        matches(p) == SelectSeq(build, LAMBDA b : value(b) = probed(p))
        pairs(p) == [n \in DOMAIN matches(p) |->
                        IF isLeft THEN Pair(matches(p)[n], p) ELSE Pair(p, matches(p)[n])]
    IN FlattenSeq([n \in DOMAIN probe |-> pairs(probe[n])])

(***************************************************************************)
(* SortedMergeJoinOperator::FillPositionLists, for one left and one right  *)
(* chunk.  index and first walk over the left values, which are expected   *)
(* to be sorted; the walk over the right values stops (over) once they     *)
(* have passed the last left value.                                        *)
(***************************************************************************)
Skip(left, from, value) ==
    Min({i \in from .. Len(left) : i = Len(left) \/ ~(left[i] < value)})

(* Mutant: the first row of the previous value is kept.                    *)
FirstStays(left, first, from, to) == first

FirstWithSameValue(left, first, from, to) ==
    Max({first} \cup {i \in from + 1 .. to : left[i - 1] # left[i]})

LastWithSameValue(left, from) ==
    Max({i \in from .. Len(left) : \A j \in from .. i : left[j] = left[from]})

MergeStep(left, right, walk, j) ==
    LET skipped == Skip(left, walk.index, right[j])
        first == FirstWithSameValue(left, walk.first, walk.index, skipped)
        last == LastWithSameValue(left, skipped)
    IN IF walk.over \/ left[skipped] < right[j] THEN [walk EXCEPT !.over = TRUE]
       ELSE [index |-> last, first |-> first, over |-> FALSE,
             pairs |-> walk.pairs \o IF left[last] # right[j] THEN <<>>
                                     ELSE [n \in 1 .. last - first + 1 |-> <<first + n - 1, j>>]]

MergeChunks(left, right) ==
    FoldLeft(LAMBDA walk, j : MergeStep(left, right, walk, j),
             [index |-> 1, first |-> 1, over |-> FALSE, pairs |-> <<>>],
             [j \in DOMAIN right |-> j]).pairs

(* The lists are kept per right chunk.                                     *)
MergePairs(left, right, on) ==
    LET found(k, m) == MergeChunks(left.chunks[k][on.l].values, right.chunks[m][on.r].values)
        pairs(k, m) == [n \in DOMAIN found(k, m) |->
                           Pair(<<k, found(k, m)[n][1]>>, <<m, found(k, m)[n][2]>>)]
    IN FlattenSeq([m \in DOMAIN right.chunks |->
                      FlattenSeq([k \in DOMAIN left.chunks |-> pairs(k, m)])])

(* left_segment_values.at(0) of a chunk without rows.                      *)
MergeThrows(left, right) ==
    /\ \E k \in DOMAIN left.chunks : ChunkSize(left.chunks[k]) = 0
    /\ RowCount(right) > 0

(***************************************************************************)
(* AbstractJoinOperator::OnExecute.                                        *)
(***************************************************************************)
JoinIsSupported(left, right, on) ==
    /\ ~ColumnIsNullable(left, on.l) /\ ~ColumnIsNullable(right, on.r)
    /\ left.columns[on.l].type = right.columns[on.r].type

MadeNullable(columns) == [c \in DOMAIN columns |-> [columns[c] EXCEPT !.nullable = TRUE]]

BuildLeftSchema(left, mode) ==
    IF mode \in {"kRightOuter", "kFullOuter"} THEN MadeNullable(left.columns) ELSE left.columns
(* Mutant: a full outer join is not taken to extend rows of the left.      *)
RightSchemaOfLeftOuter(right, mode) ==
    IF mode = "kLeftOuter" THEN MadeNullable(right.columns) ELSE right.columns
BuildRightSchema(right, mode) ==
    IF mode \in {"kLeftOuter", "kFullOuter"} THEN MadeNullable(right.columns) ELSE right.columns

Copied(table, ids) ==
    [c \in DOMAIN table.columns |-> Plain([n \in DOMAIN ids |-> Raw(table, c, ids[n])])]

NullFilledSegments(table, n) ==
    [c \in DOMAIN table.columns |->
        Nullable([i \in 1 .. n |-> Default], [i \in 1 .. n |-> TRUE])]

MaterializeMatches(left, right, pairs) ==
    Copied(left, [n \in DOMAIN pairs |-> pairs[n].l])
        \o Copied(right, [n \in DOMAIN pairs |-> pairs[n].r])

DanglingLeft(left, pairs) ==
    SelectSeq(RowIds(left), LAMBDA id : \A n \in DOMAIN pairs : pairs[n].l # id)
DanglingRight(right, pairs) ==
    SelectSeq(RowIds(right), LAMBDA id : \A n \in DOMAIN pairs : pairs[n].r # id)

MaterializeDanglingTuplesOfLeftTable(left, right, pairs) ==
    LET ids == DanglingLeft(left, pairs)
    IN Copied(left, ids) \o NullFilledSegments(right, Len(ids))

MaterializeDanglingTuplesOfRightTable(left, right, pairs) ==
    LET ids == DanglingRight(right, pairs)
    IN NullFilledSegments(left, Len(ids)) \o Copied(right, ids)

JoinOutput(left, right, mode, pairs) ==
    [columns |-> BuildLeftSchema(left, mode) \o BuildRightSchema(right, mode),
     chunks |->
        <<MaterializeMatches(left, right, pairs)>>
        \o (IF mode \in {"kLeftOuter", "kFullOuter"}
            THEN <<MaterializeDanglingTuplesOfLeftTable(left, right, pairs)>> ELSE <<>>)
        \o (IF mode \in {"kRightOuter", "kFullOuter"}
            THEN <<MaterializeDanglingTuplesOfRightTable(left, right, pairs)>> ELSE <<>>)]

(***************************************************************************)
(* The reference: the rows of SQL's equi-join.                             *)
(***************************************************************************)
SqlJoin(left, right, on, mode) ==
    LET l == Rows(left)
        r == Rows(right)
        nulls(table) == [c \in DOMAIN table.columns |-> NULL]
        match(i, j) == l[i][on.l] # NULL /\ l[i][on.l] = r[j][on.r]
        matchesOf(i) == SelectSeq([j \in DOMAIN r |-> j], LAMBDA j : match(i, j))
        joined(i) ==
            IF matchesOf(i) # <<>>
            THEN [n \in DOMAIN matchesOf(i) |-> l[i] \o r[matchesOf(i)[n]]]
            ELSE IF mode \in {"kLeftOuter", "kFullOuter"} THEN <<l[i] \o nulls(right)>> ELSE <<>>
        alone(j) ==
            IF mode \in {"kRightOuter", "kFullOuter"} /\ \A i \in DOMAIN l : ~match(i, j)
            THEN <<nulls(left) \o r[j]>> ELSE <<>>
    IN FlattenSeq([i \in DOMAIN l |-> joined(i)]) \o FlattenSeq([j \in DOMAIN r |-> alone(j)])
=============================================================================

--------------------------- MODULE OperatorsProofs ---------------------------
(***************************************************************************)
(* Proofs about Operators, for every table, expression and pipeline: what  *)
(* the ExpressionEvaluator computes is what SQL says, a filter keeps the   *)
(* rows it should, a projection computes its expressions, and the race for *)
(* the flags of a projection is the only way for a NULL into a column that *)
(* is declared not nullable.                                               *)
(***************************************************************************)
EXTENDS Operators, SequenceTheorems, FiniteSetTheorems, WellFoundedInduction, TLAPS

-----------------------------------------------------------------------------
(* Induction over the natural numbers, for sets.                           *)

(* A set of natural numbers has a least member.                            *)
LEMMA LeastMember ==
    ASSUME NEW T \in SUBSET Nat, T # {}
    PROVE  \E x \in T : \A y \in T : x <= y
<1> DEFINE Below(x) == {y \in T : y < x}
           C == {Below(x) : x \in T}
<1>1. \A x \in T : IsFiniteSet(Below(x))
  <2> SUFFICES ASSUME NEW x \in T PROVE IsFiniteSet(Below(x))
      OBVIOUS
  <2> QED BY FS_BoundedSetOfNaturals
<1>2. C \subseteq FiniteSubsetsOf(Nat)
  BY <1>1 DEF FiniteSubsetsOf
<1>3. C # {}
  OBVIOUS
<1>4. \E m \in C : \A k \in C : ~(<<k, m>> \in StrictSubsetOrdering(Nat))
  <2> HIDE DEF C
  <2> QED BY <1>2, <1>3, WFMin, FS_StrictSubsetOrderingWellFounded
<1>5. PICK x \in T : \A y \in T : ~(<<Below(y), Below(x)>> \in StrictSubsetOrdering(Nat))
  BY <1>4
<1>6. ASSUME NEW y \in T, y < x PROVE FALSE
  <2>0. x \in Nat /\ y \in Nat /\ \A z \in T : z \in Nat
    OBVIOUS
  <2>1. y \in Below(x) /\ y \notin Below(y) /\ \A z \in Below(y) : z \in Below(x)
    BY <1>6, <2>0
  <2>2. <<Below(y), Below(x)>> \in StrictSubsetOrdering(Nat)
    <3>1. Below(y) \subseteq Below(x) /\ Below(y) # Below(x) /\ Below(x) \subseteq Nat
      <4> HIDE DEF Below
      <4>1. Below(x) \subseteq Nat
        BY DEF Below
      <4> QED BY <2>1, <4>1
    <3> HIDE DEF Below
    <3> QED BY <3>1 DEF StrictSubsetOrdering
  <2> QED BY <2>2, <1>5
<1> QED BY <1>6

(* A set with 0 that is closed under successor has every natural number.   *)
LEMMA SetInduction ==
    ASSUME NEW S \in SUBSET Nat, 0 \in S, \A n \in S : n + 1 \in S
    PROVE  S = Nat
<1> DEFINE T == Nat \ S
<1>1. CASE T # {}
  <2>1. PICK x \in T : \A y \in T : x <= y
    BY <1>1, LeastMember
  <2>2. x # 0 /\ x \in Nat
    OBVIOUS
  <2>3. x - 1 \in Nat /\ x - 1 \notin T
    BY <2>1, <2>2
  <2>4. x - 1 + 1 \in S
    BY <2>3
  <2> QED BY <2>4, <2>2
<1> QED BY <1>1

(* Induction up to a bound.                                                *)
LEMMA BoundedInduction ==
    ASSUME NEW N \in Nat, NEW T,
           0 \in T, \A n \in 0 .. N - 1 : n \in T => n + 1 \in T
    PROVE  \A n \in 0 .. N : n \in T
<1> DEFINE S == {n \in Nat : n <= N => n \in T}
<1>1. 0 \in S
  OBVIOUS
<1>2. ASSUME NEW n \in S PROVE n + 1 \in S
  <2>1. n \in Nat /\ n + 1 \in Nat /\ (n <= N => n \in T)
    BY <1>2
  <2>2. ASSUME n + 1 <= N PROVE n + 1 \in T
    BY <2>1, <2>2
  <2> QED BY <2>1, <2>2
<1>3. S = Nat
  <2> HIDE DEF S
  <2>1. S \in SUBSET Nat
    BY DEF S
  <2> QED BY <1>1, <1>2, <2>1, SetInduction
<1> QED BY <1>3

(* Induction on all the smaller numbers.                                   *)
LEMMA CourseOfValues ==
    ASSUME NEW N \in Nat, NEW T,
           \A n \in 1 .. N : (\A m \in 1 .. n - 1 : m \in T) => n \in T
    PROVE  \A n \in 1 .. N : n \in T
<1> DEFINE S == {n \in Nat : n \in 1 .. N /\ n \notin T}
<1>1. CASE S # {}
  <2>0. S \in SUBSET Nat
    OBVIOUS
  <2>1. PICK x \in S : \A y \in S : x <= y
    <3> HIDE DEF S
    <3> QED BY <1>1, <2>0, LeastMember
  <2>2. x \in 1 .. N /\ x \notin T
    OBVIOUS
  <2>3. \A m \in 1 .. x - 1 : m \in T
    <3> SUFFICES ASSUME NEW m \in 1 .. x - 1 PROVE m \in T
      OBVIOUS
    <3>1. m \in Nat /\ m \in 1 .. N /\ ~(x <= m)
      BY <2>2
    <3> QED BY <3>1, <2>1
  <2> QED BY <2>2, <2>3
<1>2. CASE S = {}
  <2> SUFFICES ASSUME NEW n \in 1 .. N PROVE n \in T
    OBVIOUS
  <2>1. n \in Nat
    OBVIOUS
  <2> QED BY <1>2, <2>1
<1> QED BY <1>1, <1>2

-----------------------------------------------------------------------------
(* Sequences that grow by one element at a time.                           *)

(* A sequence with one more element, as a function.                        *)
LEMMA AppendedOne ==
    ASSUME NEW S, NEW s \in Seq(S), NEW x \in S
    PROVE  Append(s, x) = [j \in 1 .. Len(s) + 1 |-> IF j = Len(s) + 1 THEN x ELSE s[j]]
<1> DEFINE a == Append(s, x)
<1>1. a \in Seq(S) /\ Len(a) = Len(s) + 1 /\ a[Len(s) + 1] = x /\ \A j \in 1 .. Len(s) : a[j] = s[j]
  BY AppendProperties
<1>2. Len(s) \in Nat
  BY LenProperties
<1>3. a = [j \in 1 .. Len(s) + 1 |-> a[j]]
  <2> HIDE DEF a
  <2> QED BY <1>1, LenProperties
<1> HIDE DEF a
<1>4. \A j \in 1 .. Len(s) + 1 : a[j] = IF j = Len(s) + 1 THEN x ELSE s[j]
  BY <1>1, <1>2
<1>5. a = [j \in 1 .. Len(s) + 1 |-> IF j = Len(s) + 1 THEN x ELSE s[j]]
  BY <1>3, <1>4
<1> QED BY <1>5 DEF a

(* The sequences f[0], f[1], ..., f[N] grow by the elements of g.          *)
Grows(f, g, N) == f[0] = <<>> /\ \A n \in 1 .. N : f[n] = Append(f[n - 1], g[n])

(* What has been appended is there, in its order.                          *)
LEMMA Appended ==
    ASSUME NEW N \in Nat, NEW f, NEW g, Grows(f, g, N)
    PROVE  \A n \in 0 .. N : Len(f[n]) = n /\ \A j \in 1 .. n : f[n][j] = g[j]
<1> DEFINE S == {g[j] : j \in 1 .. N}
           T == {n \in 0 .. N : f[n] = [j \in 1 .. n |-> g[j]]}
<1>1. 0 \in T
  BY DEF Grows
<1>2. ASSUME NEW n \in 0 .. N - 1, n \in T PROVE n + 1 \in T
  <2>1. f[n] = [j \in 1 .. n |-> g[j]]
    BY <1>2
  <2>2. f[n] \in Seq(S) /\ Len(f[n]) = n
    <3>1. [j \in 1 .. n |-> g[j]] \in [1 .. n -> S]
      OBVIOUS
    <3>2. n \in Nat
      OBVIOUS
    <3> HIDE DEF S
    <3> QED BY <3>1, <3>2, <2>1
  <2>3. g[n + 1] \in S /\ n + 1 \in 1 .. N
    OBVIOUS
  <2>4. f[n + 1] = Append(f[n], g[n + 1])
    <3>1. n + 1 - 1 = n
      OBVIOUS
    <3> QED BY <2>3, <3>1 DEF Grows
  <2>5. f[n + 1] = [j \in 1 .. n + 1 |-> IF j = n + 1 THEN g[n + 1] ELSE f[n][j]]
    <3> HIDE DEF S
    <3>1. Append(f[n], g[n + 1]) = [j \in 1 .. Len(f[n]) + 1 |->
                                      IF j = Len(f[n]) + 1 THEN g[n + 1] ELSE f[n][j]]
      BY <2>2, <2>3, AppendedOne
    <3> QED BY <3>1, <2>2, <2>4
  <2>6. f[n + 1] = [j \in 1 .. n + 1 |-> g[j]]
    BY <2>5, <2>1
  <2> QED BY <2>6
<1>3. \A n \in 0 .. N : n \in T
  <2> HIDE DEF T
  <2> QED BY <1>1, <1>2, BoundedInduction
<1> SUFFICES ASSUME NEW n \in 0 .. N
             PROVE  Len(f[n]) = n /\ \A j \in 1 .. n : f[n][j] = g[j]
  OBVIOUS
<1>4. f[n] = [j \in 1 .. n |-> g[j]]
  BY <1>3
<1> QED BY <1>4

-----------------------------------------------------------------------------
(* The recursive functions of the evaluator.                               *)

(* The equations that define the results of the nodes of an expression,    *)
(* their positions and their values in SQL.                                *)
ResultsGrow(f, e, t, chunk) ==
    f = [n \in 0 .. Len(e) |-> IF n = 0 THEN <<>>
                               ELSE Append(f[n - 1], NodeResult(e[n], f[n - 1], t, chunk))]
PositionsGrow(f, e, r, rows) ==
    f = [n \in 0 .. Len(e) |-> IF n = 0 THEN <<>>
                               ELSE Append(f[n - 1], NodePositions(e[n], r, f[n - 1], rows))]
SqlGrow(f, e, row) ==
    f = [n \in 0 .. Len(e) |-> IF n = 0 THEN <<>>
                               ELSE Append(f[n - 1], SqlNode(e[n], f[n - 1], row))]

(* There are results for every expression.                                 *)
LEMMA ResultsExist ==
    ASSUME NEW e, NEW t, NEW chunk, Len(e) \in Nat
    PROVE  \E f : ResultsGrow(f, e, t, chunk)
<1> DEFINE N == Len(e)
           Element(n, r) == NodeResult(e[n], r, t, chunk)
           Grown(f, m) == f = [n \in 0 .. m |-> IF n = 0 THEN <<>>
                                               ELSE Append(f[n - 1], Element(n, f[n - 1]))]
           T == {m \in 0 .. N : \E f : Grown(f, m)}
<1> HIDE DEF Element, N
<1>0. N \in Nat
  BY DEF N
<1>1. 0 \in T
  <2>1. Grown([n \in 0 .. 0 |-> <<>>], 0)
    OBVIOUS
  <2>2. 0 \in 0 .. N
    BY <1>0
  <2> HIDE DEF Grown
  <2> QED BY <2>1, <2>2
<1>2. ASSUME NEW m \in 0 .. N - 1, m \in T PROVE m + 1 \in T
  <2>1. PICK f : Grown(f, m)
    BY <1>2
  <2> DEFINE g == [n \in 0 .. m + 1 |-> IF n <= m THEN f[n] ELSE Append(f[m], Element(m + 1, f[m]))]
  <2>2. ASSUME NEW n \in 0 .. m + 1
        PROVE  g[n] = IF n = 0 THEN <<>> ELSE Append(g[n - 1], Element(n, g[n - 1]))
    <3>1. CASE n = 0
      BY <2>1, <3>1, <1>0
    <3>2. CASE n \in 1 .. m
      <4>1. n - 1 \in 0 .. m + 1 /\ n - 1 <= m /\ n <= m /\ n # 0 /\ n \in 0 .. m
        BY <3>2
      <4>2. f[n] = Append(f[n - 1], Element(n, f[n - 1]))
        BY <2>1, <4>1
      <4>3. g[n] = f[n] /\ g[n - 1] = f[n - 1]
        BY <4>1, <3>2
      <4> HIDE DEF g
      <4> QED BY <4>1, <4>2, <4>3
    <3>3. CASE n = m + 1
      <4>1. n - 1 = m /\ m \in 0 .. m + 1 /\ n # 0 /\ ~(n <= m)
        BY <3>3, <1>0
      <4>2. g[n] = Append(f[m], Element(m + 1, f[m])) /\ g[m] = f[m]
        BY <4>1, <3>3
      <4> HIDE DEF g
      <4> QED BY <4>1, <4>2, <3>3
    <3> QED BY <3>1, <3>2, <3>3, <1>0
  <2>3. Grown(g, m + 1)
    <3>1. g = [n \in 0 .. m + 1 |-> g[n]]
      OBVIOUS
    <3> HIDE DEF g
    <3> QED BY <3>1, <2>2
  <2>4. m + 1 \in 0 .. N
    BY <1>0
  <2> HIDE DEF g, Grown
  <2> QED BY <2>3, <2>4
<1>3. N \in T
  <2> HIDE DEF T
  <2> QED BY <1>0, <1>1, <1>2, BoundedInduction, SMTT(60)
<1>4. PICK f : Grown(f, N)
  BY <1>3
<1> QED BY <1>4 DEF N, Element, ResultsGrow

(* There are positions for every expression.                               *)
LEMMA PositionsExist ==
    ASSUME NEW e, NEW results, NEW rows, Len(e) \in Nat
    PROVE  \E f : PositionsGrow(f, e, results, rows)
<1> DEFINE N == Len(e)
           Element(n, r) == NodePositions(e[n], results, r, rows)
           Grown(f, m) == f = [n \in 0 .. m |-> IF n = 0 THEN <<>>
                                               ELSE Append(f[n - 1], Element(n, f[n - 1]))]
           T == {m \in 0 .. N : \E f : Grown(f, m)}
<1> HIDE DEF Element, N
<1>0. N \in Nat
  BY DEF N
<1>1. 0 \in T
  <2>1. Grown([n \in 0 .. 0 |-> <<>>], 0)
    OBVIOUS
  <2>2. 0 \in 0 .. N
    BY <1>0
  <2> HIDE DEF Grown
  <2> QED BY <2>1, <2>2
<1>2. ASSUME NEW m \in 0 .. N - 1, m \in T PROVE m + 1 \in T
  <2>1. PICK f : Grown(f, m)
    BY <1>2
  <2> DEFINE g == [n \in 0 .. m + 1 |-> IF n <= m THEN f[n] ELSE Append(f[m], Element(m + 1, f[m]))]
  <2>2. ASSUME NEW n \in 0 .. m + 1
        PROVE  g[n] = IF n = 0 THEN <<>> ELSE Append(g[n - 1], Element(n, g[n - 1]))
    <3>1. CASE n = 0
      BY <2>1, <3>1, <1>0
    <3>2. CASE n \in 1 .. m
      <4>1. n - 1 \in 0 .. m + 1 /\ n - 1 <= m /\ n <= m /\ n # 0 /\ n \in 0 .. m
        BY <3>2
      <4>2. f[n] = Append(f[n - 1], Element(n, f[n - 1]))
        BY <2>1, <4>1
      <4>3. g[n] = f[n] /\ g[n - 1] = f[n - 1]
        BY <4>1, <3>2
      <4> HIDE DEF g
      <4> QED BY <4>1, <4>2, <4>3
    <3>3. CASE n = m + 1
      <4>1. n - 1 = m /\ m \in 0 .. m + 1 /\ n # 0 /\ ~(n <= m)
        BY <3>3, <1>0
      <4>2. g[n] = Append(f[m], Element(m + 1, f[m])) /\ g[m] = f[m]
        BY <4>1, <3>3
      <4> HIDE DEF g
      <4> QED BY <4>1, <4>2, <3>3
    <3> QED BY <3>1, <3>2, <3>3, <1>0
  <2>3. Grown(g, m + 1)
    <3>1. g = [n \in 0 .. m + 1 |-> g[n]]
      OBVIOUS
    <3> HIDE DEF g
    <3> QED BY <3>1, <2>2
  <2>4. m + 1 \in 0 .. N
    BY <1>0
  <2> HIDE DEF g, Grown
  <2> QED BY <2>3, <2>4
<1>3. N \in T
  <2> HIDE DEF T
  <2> QED BY <1>0, <1>1, <1>2, BoundedInduction, SMTT(60)
<1>4. PICK f : Grown(f, N)
  BY <1>3
<1> QED BY <1>4 DEF N, Element, PositionsGrow

(* There are values in SQL for every expression.                           *)
LEMMA SqlExist ==
    ASSUME NEW e, NEW row, Len(e) \in Nat
    PROVE  \E f : SqlGrow(f, e, row)
<1> DEFINE N == Len(e)
           Element(n, r) == SqlNode(e[n], r, row)
           Grown(f, m) == f = [n \in 0 .. m |-> IF n = 0 THEN <<>>
                                               ELSE Append(f[n - 1], Element(n, f[n - 1]))]
           T == {m \in 0 .. N : \E f : Grown(f, m)}
<1> HIDE DEF Element, N
<1>0. N \in Nat
  BY DEF N
<1>1. 0 \in T
  <2>1. Grown([n \in 0 .. 0 |-> <<>>], 0)
    OBVIOUS
  <2>2. 0 \in 0 .. N
    BY <1>0
  <2> HIDE DEF Grown
  <2> QED BY <2>1, <2>2
<1>2. ASSUME NEW m \in 0 .. N - 1, m \in T PROVE m + 1 \in T
  <2>1. PICK f : Grown(f, m)
    BY <1>2
  <2> DEFINE g == [n \in 0 .. m + 1 |-> IF n <= m THEN f[n] ELSE Append(f[m], Element(m + 1, f[m]))]
  <2>2. ASSUME NEW n \in 0 .. m + 1
        PROVE  g[n] = IF n = 0 THEN <<>> ELSE Append(g[n - 1], Element(n, g[n - 1]))
    <3>1. CASE n = 0
      BY <2>1, <3>1, <1>0
    <3>2. CASE n \in 1 .. m
      <4>1. n - 1 \in 0 .. m + 1 /\ n - 1 <= m /\ n <= m /\ n # 0 /\ n \in 0 .. m
        BY <3>2
      <4>2. f[n] = Append(f[n - 1], Element(n, f[n - 1]))
        BY <2>1, <4>1
      <4>3. g[n] = f[n] /\ g[n - 1] = f[n - 1]
        BY <4>1, <3>2
      <4> HIDE DEF g
      <4> QED BY <4>1, <4>2, <4>3
    <3>3. CASE n = m + 1
      <4>1. n - 1 = m /\ m \in 0 .. m + 1 /\ n # 0 /\ ~(n <= m)
        BY <3>3, <1>0
      <4>2. g[n] = Append(f[m], Element(m + 1, f[m])) /\ g[m] = f[m]
        BY <4>1, <3>3
      <4> HIDE DEF g
      <4> QED BY <4>1, <4>2, <3>3
    <3> QED BY <3>1, <3>2, <3>3, <1>0
  <2>3. Grown(g, m + 1)
    <3>1. g = [n \in 0 .. m + 1 |-> g[n]]
      OBVIOUS
    <3> HIDE DEF g
    <3> QED BY <3>1, <2>2
  <2>4. m + 1 \in 0 .. N
    BY <1>0
  <2> HIDE DEF g, Grown
  <2> QED BY <2>3, <2>4
<1>3. N \in T
  <2> HIDE DEF T
  <2> QED BY <1>0, <1>1, <1>2, BoundedInduction, SMTT(60)
<1>4. PICK f : Grown(f, N)
  BY <1>3
<1> QED BY <1>4 DEF N, Element, SqlGrow

(* Results are those of the nodes, in their order.                         *)
LEMMA ResultsInOrder ==
    ASSUME NEW e, NEW t, NEW chunk, Len(e) \in Nat, NEW f, ResultsGrow(f, e, t, chunk)
    PROVE  \A n \in 0 .. Len(e) : Len(f[n]) = n /\ \A j \in 1 .. n : f[n][j] = NodeResult(e[j], f[j - 1], t, chunk)
<1>0. PICK g : g = [j \in 1 .. Len(e) |-> NodeResult(e[j], f[j - 1], t, chunk)]
  OBVIOUS
<1>1. f[0] = <<>>
  BY DEF ResultsGrow
<1>2. ASSUME NEW n \in 1 .. Len(e) PROVE f[n] = Append(f[n - 1], g[n])
  <2>1. n \in 0 .. Len(e) /\ n # 0
    OBVIOUS
  <2> QED BY <2>1, <1>0 DEF ResultsGrow
<1>3. \A n \in 0 .. Len(e) : Len(f[n]) = n /\ \A j \in 1 .. n : f[n][j] = g[j]
  <2>1. PICK N \in Nat : N = Len(e)
    OBVIOUS
  <2>2. Grows(f, g, N)
    BY <1>1, <1>2, <2>1 DEF Grows
  <2>3. \A n \in 0 .. N : Len(f[n]) = n /\ \A j \in 1 .. n : f[n][j] = g[j]
    BY <2>2, Appended
  <2> QED BY <2>3, <2>1
<1> SUFFICES ASSUME NEW n \in 0 .. Len(e)
             PROVE  Len(f[n]) = n /\ \A j \in 1 .. n : f[n][j] = NodeResult(e[j], f[j - 1], t, chunk)
  OBVIOUS
<1>4. \A j \in 1 .. n : g[j] = NodeResult(e[j], f[j - 1], t, chunk)
  BY <1>0
<1> QED BY <1>3, <1>4

(* Positions are those of the nodes, in their order.                       *)
LEMMA PositionsInOrder ==
    ASSUME NEW e, NEW results, NEW rows, NEW f, Len(e) \in Nat, PositionsGrow(f, e, results, rows)
    PROVE  \A n \in 0 .. Len(e) : Len(f[n]) = n /\ \A j \in 1 .. n : f[n][j] = NodePositions(e[j], results, f[j - 1], rows)
<1>0. PICK g : g = [j \in 1 .. Len(e) |-> NodePositions(e[j], results, f[j - 1], rows)]
  OBVIOUS
<1>1. f[0] = <<>>
  BY DEF PositionsGrow
<1>2. ASSUME NEW n \in 1 .. Len(e) PROVE f[n] = Append(f[n - 1], g[n])
  <2>1. n \in 0 .. Len(e) /\ n # 0
    OBVIOUS
  <2> QED BY <2>1, <1>0 DEF PositionsGrow
<1>3. \A n \in 0 .. Len(e) : Len(f[n]) = n /\ \A j \in 1 .. n : f[n][j] = g[j]
  <2>1. PICK N \in Nat : N = Len(e)
    OBVIOUS
  <2>2. Grows(f, g, N)
    BY <1>1, <1>2, <2>1 DEF Grows
  <2>3. \A n \in 0 .. N : Len(f[n]) = n /\ \A j \in 1 .. n : f[n][j] = g[j]
    BY <2>2, Appended
  <2> QED BY <2>3, <2>1
<1> SUFFICES ASSUME NEW n \in 0 .. Len(e)
             PROVE  Len(f[n]) = n /\ \A j \in 1 .. n : f[n][j] = NodePositions(e[j], results, f[j - 1], rows)
  OBVIOUS
<1>4. \A j \in 1 .. n : g[j] = NodePositions(e[j], results, f[j - 1], rows)
  BY <1>0
<1> QED BY <1>3, <1>4

(* Values are those of the nodes, in their order.                          *)
LEMMA SqlInOrder ==
    ASSUME NEW e, NEW row, Len(e) \in Nat, NEW f, SqlGrow(f, e, row)
    PROVE  \A n \in 0 .. Len(e) : Len(f[n]) = n /\ \A j \in 1 .. n : f[n][j] = SqlNode(e[j], f[j - 1], row)
<1>0. PICK g : g = [j \in 1 .. Len(e) |-> SqlNode(e[j], f[j - 1], row)]
  OBVIOUS
<1>1. f[0] = <<>>
  BY DEF SqlGrow
<1>2. ASSUME NEW n \in 1 .. Len(e) PROVE f[n] = Append(f[n - 1], g[n])
  <2>1. n \in 0 .. Len(e) /\ n # 0
    OBVIOUS
  <2> QED BY <2>1, <1>0 DEF SqlGrow
<1>3. \A n \in 0 .. Len(e) : Len(f[n]) = n /\ \A j \in 1 .. n : f[n][j] = g[j]
  <2>1. PICK N \in Nat : N = Len(e)
    OBVIOUS
  <2>2. Grows(f, g, N)
    BY <1>1, <1>2, <2>1 DEF Grows
  <2>3. \A n \in 0 .. N : Len(f[n]) = n /\ \A j \in 1 .. n : f[n][j] = g[j]
    BY <2>2, Appended
  <2> QED BY <2>3, <2>1
<1> SUFFICES ASSUME NEW n \in 0 .. Len(e)
             PROVE  Len(f[n]) = n /\ \A j \in 1 .. n : f[n][j] = SqlNode(e[j], f[j - 1], row)
  OBVIOUS
<1>4. \A j \in 1 .. n : g[j] = SqlNode(e[j], f[j - 1], row)
  BY <1>0
<1> QED BY <1>3, <1>4

(* The kinds of nodes.                                                     *)
Kinds == {"Column", "Value", "Arithmetic", "Minus", "Case", "Compare", "Between", "IsNull", "In",
          "And", "Or"}

(* A node of an expression is of one of them.                              *)
LEMMA NodeKinds ==
    ASSUME NEW node, NEW columns, IsNode(node, columns)
    PROVE  node.kind \in Kinds
  BY DEF IsNode, Kinds

(* The result of a node depends on those of its operands only.             *)
LEMMA ResultOfOperands ==
    ASSUME NEW node, node.kind \in Kinds, NEW t, NEW chunk, NEW r, NEW q,
           \A m \in Operands(node) : r[m] = q[m]
    PROVE  NodeResult(node, r, t, chunk) = NodeResult(node, q, t, chunk)
<1>1. CASE node.kind \in {"Column", "Value"}
  BY <1>1 DEF NodeResult
<1>2. CASE node.kind \in {"Minus", "IsNull", "In"}
  <2>1. r[node.l] = q[node.l]
    BY <1>2 DEF Operands
  <2> QED BY <1>2, <2>1 DEF NodeResult
<1>3. CASE node.kind \in {"Arithmetic", "Compare", "And", "Or"}
  <2>1. r[node.l] = q[node.l] /\ r[node.r] = q[node.r]
    BY <1>3 DEF Operands
  <2> QED BY <1>3, <2>1 DEF NodeResult
<1>4. CASE node.kind = "Between"
  <2>1. r[node.l] = q[node.l] /\ r[node.lower] = q[node.lower] /\ r[node.upper] = q[node.upper]
    BY <1>4 DEF Operands
  <2> QED BY <1>4, <2>1 DEF NodeResult
<1>5. CASE node.kind = "Case"
  <2>1. r[node.l] = q[node.l] /\ r[node.r] = q[node.r] /\ r[node.when] = q[node.when]
    BY <1>5 DEF Operands
  <2> QED BY <1>5, <2>1 DEF NodeResult
<1> QED BY <1>1, <1>2, <1>3, <1>4, <1>5 DEF Kinds

(* So does its value in SQL,                                               *)
LEMMA SqlOfOperands ==
    ASSUME NEW node, node.kind \in Kinds, NEW row, NEW v, NEW w,
           \A m \in Operands(node) : v[m] = w[m]
    PROVE  SqlNode(node, v, row) = SqlNode(node, w, row)
<1>1. CASE node.kind \in {"Column", "Value"}
  BY <1>1 DEF SqlNode
<1>2. CASE node.kind \in {"Minus", "IsNull", "In"}
  <2>1. v[node.l] = w[node.l]
    BY <1>2 DEF Operands
  <2> QED BY <1>2, <2>1 DEF SqlNode
<1>3. CASE node.kind \in {"Arithmetic", "Compare", "And", "Or"}
  <2>1. v[node.l] = w[node.l] /\ v[node.r] = w[node.r]
    BY <1>3 DEF Operands
  <2> QED BY <1>3, <2>1 DEF SqlNode
<1>4. CASE node.kind = "Between"
  <2>1. v[node.l] = w[node.l] /\ v[node.lower] = w[node.lower] /\ v[node.upper] = w[node.upper]
    BY <1>4 DEF Operands
  <2> QED BY <1>4, <2>1 DEF SqlNode
<1>5. CASE node.kind = "Case"
  <2>1. v[node.l] = w[node.l] /\ v[node.r] = w[node.r] /\ v[node.when] = w[node.when]
    BY <1>5 DEF Operands
  <2> QED BY <1>5, <2>1 DEF SqlNode
<1> QED BY <1>1, <1>2, <1>3, <1>4, <1>5 DEF Kinds

(* and so do its positions.                                                *)
LEMMA PositionsOfOperands ==
    ASSUME NEW node, node.kind \in Kinds, NEW r, NEW rows, NEW p, NEW q,
           \A m \in Operands(node) : p[m] = q[m]
    PROVE  NodePositions(node, r, p, rows) = NodePositions(node, r, q, rows)
<1>1. CASE node.kind \notin {"And", "Or"}
  BY <1>1 DEF NodePositions, Kinds
<1>2. CASE node.kind \in {"And", "Or"}
  <2>1. p[node.l] = q[node.l] /\ p[node.r] = q[node.r]
    BY <1>2 DEF Operands
  <2> QED BY <1>2, <2>1 DEF NodePositions
<1> QED BY <1>1, <1>2

(* The results of an expression satisfy the equations of their nodes.      *)
LEMMA ResultsClosed ==
    ASSUME NEW e, NEW columns, IsExpression(e, columns), NEW t, NEW chunk,
           NEW r, r = EvaluateExpressionToResult(e, t, chunk)
    PROVE  Len(r) = Len(e) /\ \A n \in 1 .. Len(e) : r[n] = NodeResult(e[n], r, t, chunk)
<1>0. Len(e) \in Nat \ {0} /\ DOMAIN e = 1 .. Len(e)
  BY DEF IsExpression
<1>1. PICK f : ResultsGrow(f, e, t, chunk) /\ r = f[Len(e)]
  <2> DEFINE Equation(f) == f = [n \in 0 .. Len(e) |->
                IF n = 0 THEN <<>> ELSE Append(f[n - 1], NodeResult(e[n], f[n - 1], t, chunk))]
             f == CHOOSE f : Equation(f)
  <2>1. r = f[Len(e)]
    BY DEF EvaluateExpressionToResult
  <2>2. \E g : Equation(g)
    <3>1. PICK g : ResultsGrow(g, e, t, chunk)
      BY <1>0, ResultsExist
    <3>2. Equation(g)
      BY <3>1 DEF ResultsGrow
    <3> HIDE DEF Equation
    <3> QED BY <3>2
  <2>3. Equation(f)
    <3> HIDE DEF Equation
    <3> QED BY <2>2
  <2>4. ResultsGrow(f, e, t, chunk)
    <3> HIDE DEF f
    <3> QED BY <2>3 DEF ResultsGrow
  <2> HIDE DEF f
  <2> QED BY <2>1, <2>4
<1>2. \A n \in 0 .. Len(e) : Len(f[n]) = n /\ \A j \in 1 .. n : f[n][j] = NodeResult(e[j], f[j - 1], t, chunk)
  <2>1. ResultsGrow(f, e, t, chunk) /\ Len(e) \in Nat
    BY <1>0, <1>1
  <2> SUFFICES ASSUME NEW n \in 0 .. Len(e)
               PROVE  Len(f[n]) = n /\ \A j \in 1 .. n : f[n][j] = NodeResult(e[j], f[j - 1], t, chunk)
    OBVIOUS
  <2> QED BY <2>1, ResultsInOrder
<1>3. Len(r) = Len(e)
  BY <1>0, <1>1, <1>2
<1>4. ASSUME NEW n \in 1 .. Len(e) PROVE r[n] = NodeResult(e[n], r, t, chunk)
  <2>1. r[n] = NodeResult(e[n], f[n - 1], t, chunk)
    BY <1>0, <1>1, <1>2
  <2>2. IsNode(e[n], columns) /\ Operands(e[n]) \subseteq 1 .. n - 1
    BY <1>0 DEF IsExpression
  <2>3. ASSUME NEW m \in Operands(e[n]) PROVE f[n - 1][m] = r[m]
    <3>1. m \in 1 .. n - 1 /\ m \in 1 .. Len(e) /\ n - 1 \in 0 .. Len(e) /\ Len(e) \in 0 .. Len(e)
      BY <2>2, <1>0
    <3>2. f[n - 1][m] = NodeResult(e[m], f[m - 1], t, chunk)
      BY <1>2, <3>1
    <3>3. f[Len(e)][m] = NodeResult(e[m], f[m - 1], t, chunk)
      BY <1>2, <3>1
    <3> QED BY <3>2, <3>3, <1>1
  <2> QED BY <2>1, <2>2, <2>3, NodeKinds, ResultOfOperands
<1> QED BY <1>3, <1>4

(* The value of an expression in SQL is that of its last node, and the     *)
(* values of the nodes satisfy their equations.                            *)
LEMMA SqlClosed ==
    ASSUME NEW e, NEW columns, IsExpression(e, columns), NEW row
    PROVE  \E v : /\ \A n \in 1 .. Len(e) : v[n] = SqlNode(e[n], v, row)
                 /\ SqlValue(e, row) = v[Len(e)]
<1>0. Len(e) \in Nat \ {0} /\ DOMAIN e = 1 .. Len(e)
  BY DEF IsExpression
<1>1. PICK f : SqlGrow(f, e, row) /\ SqlValue(e, row) = Last(f[Len(e)])
  <2> DEFINE Equation(f) == f = [n \in 0 .. Len(e) |->
                IF n = 0 THEN <<>> ELSE Append(f[n - 1], SqlNode(e[n], f[n - 1], row))]
             f == CHOOSE f : Equation(f)
  <2>1. SqlValue(e, row) = Last(f[Len(e)])
    BY DEF SqlValue
  <2>2. \E g : Equation(g)
    <3>1. PICK g : SqlGrow(g, e, row)
      BY <1>0, SqlExist
    <3>2. Equation(g)
      BY <3>1 DEF SqlGrow
    <3> HIDE DEF Equation
    <3> QED BY <3>2
  <2>3. Equation(f)
    <3> HIDE DEF Equation
    <3> QED BY <2>2
  <2>4. SqlGrow(f, e, row)
    <3> HIDE DEF f
    <3> QED BY <2>3 DEF SqlGrow
  <2> HIDE DEF f
  <2> QED BY <2>1, <2>4
<1>2. \A n \in 0 .. Len(e) : Len(f[n]) = n /\ \A j \in 1 .. n : f[n][j] = SqlNode(e[j], f[j - 1], row)
  <2>1. SqlGrow(f, e, row) /\ Len(e) \in Nat
    BY <1>0, <1>1
  <2> SUFFICES ASSUME NEW n \in 0 .. Len(e)
               PROVE  Len(f[n]) = n /\ \A j \in 1 .. n : f[n][j] = SqlNode(e[j], f[j - 1], row)
    OBVIOUS
  <2> QED BY <2>1, SqlInOrder
<1>3. PICK v : v = f[Len(e)]
  OBVIOUS
<1>4. SqlValue(e, row) = v[Len(e)]
  BY <1>0, <1>1, <1>2, <1>3 DEF Last
<1>5. ASSUME NEW n \in 1 .. Len(e) PROVE v[n] = SqlNode(e[n], v, row)
  <2>1. v[n] = SqlNode(e[n], f[n - 1], row)
    BY <1>0, <1>3, <1>2
  <2>2. IsNode(e[n], columns) /\ Operands(e[n]) \subseteq 1 .. n - 1
    BY <1>0 DEF IsExpression
  <2>3. ASSUME NEW m \in Operands(e[n]) PROVE f[n - 1][m] = v[m]
    <3>1. m \in 1 .. n - 1 /\ m \in 1 .. Len(e) /\ n - 1 \in 0 .. Len(e) /\ Len(e) \in 0 .. Len(e)
      BY <2>2, <1>0
    <3>2. f[n - 1][m] = SqlNode(e[m], f[m - 1], row)
      BY <1>2, <3>1
    <3>3. f[Len(e)][m] = SqlNode(e[m], f[m - 1], row)
      BY <1>2, <3>1
    <3> QED BY <3>2, <3>3, <1>3
  <2> QED BY <2>1, <2>2, <2>3, NodeKinds, SqlOfOperands
<1> QED BY <1>4, <1>5

(* Positions that grow as their equation says are those of the nodes.      *)
LEMMA PositionsAt ==
    ASSUME NEW e, Len(e) \in Nat, NEW r, NEW rows, NEW f, PositionsGrow(f, e, r, rows),
           NEW n \in 0 .. Len(e)
    PROVE  Len(f[n]) = n /\ \A j \in 1 .. n : f[n][j] = NodePositions(e[j], r, f[j - 1], rows)
  BY PositionsInOrder, Z3T(60)

(* They satisfy the equations of the nodes.                                *)
LEMMA PositionsSettle ==
    ASSUME NEW e, NEW columns, IsExpression(e, columns), NEW r, NEW rows,
           NEW f, PositionsGrow(f, e, r, rows)
    PROVE  \E p : /\ p = f[Len(e)]
                 /\ Last(p) = p[Len(e)]
                 /\ \A n \in 1 .. Len(e) : p[n] = NodePositions(e[n], r, p, rows)
<1>0. Len(e) \in Nat \ {0} /\ DOMAIN e = 1 .. Len(e)
  BY DEF IsExpression
<1>2. \A n \in 0 .. Len(e) : Len(f[n]) = n /\ \A j \in 1 .. n : f[n][j] = NodePositions(e[j], r, f[j - 1], rows)
  <2> SUFFICES ASSUME NEW n \in 0 .. Len(e)
               PROVE  Len(f[n]) = n /\ \A j \in 1 .. n : f[n][j] = NodePositions(e[j], r, f[j - 1], rows)
    OBVIOUS
  <2>1. Len(e) \in Nat
    BY <1>0
  <2> QED BY <2>1, PositionsAt
<1>3. PICK p : p = f[Len(e)]
  OBVIOUS
<1>4. Last(p) = p[Len(e)]
  BY <1>0, <1>2, <1>3 DEF Last
<1>5. ASSUME NEW n \in 1 .. Len(e) PROVE p[n] = NodePositions(e[n], r, p, rows)
  <2>1. p[n] = NodePositions(e[n], r, f[n - 1], rows)
    BY <1>0, <1>2, <1>3
  <2>2. IsNode(e[n], columns) /\ Operands(e[n]) \subseteq 1 .. n - 1
    BY <1>0 DEF IsExpression
  <2>3. ASSUME NEW m \in Operands(e[n]) PROVE f[n - 1][m] = p[m]
    <3>1. m \in 1 .. n - 1 /\ m \in 1 .. Len(e) /\ n - 1 \in 0 .. Len(e) /\ Len(e) \in 0 .. Len(e)
      BY <2>2, <1>0
    <3>2. f[n - 1][m] = NodePositions(e[m], r, f[m - 1], rows)
      BY <1>2, <3>1
    <3>3. f[Len(e)][m] = NodePositions(e[m], r, f[m - 1], rows)
      BY <1>2, <3>1
    <3> QED BY <3>2, <3>3, <1>3
  <2> QED BY <2>1, <2>2, <2>3, NodeKinds, PositionsOfOperands
<1> QED BY <1>3, <1>4, <1>5

(* The positions of an expression are those of its last node, and the      *)
(* positions of the nodes satisfy their equations.                         *)
LEMMA PositionsClosed ==
    ASSUME NEW e, NEW columns, IsExpression(e, columns), NEW t, NEW chunk,
           NEW r, r = EvaluateExpressionToResult(e, t, chunk),
           NEW rows, rows = 1 .. ChunkSize(chunk)
    PROVE  \E p : /\ \A n \in 1 .. Len(e) : p[n] = NodePositions(e[n], r, p, rows)
                 /\ EvaluateExpressionToPositionList(e, t, chunk) = p[Len(e)]
<1>0. Len(e) \in Nat \ {0} /\ DOMAIN e = 1 .. Len(e)
  BY DEF IsExpression
<1>1. PICK f : PositionsGrow(f, e, r, rows) /\ EvaluateExpressionToPositionList(e, t, chunk) = Last(f[Len(e)])
  <2> DEFINE Equation(f) == f = [n \in 0 .. Len(e) |->
                IF n = 0 THEN <<>> ELSE Append(f[n - 1], NodePositions(e[n], r, f[n - 1], rows))]
             f == CHOOSE f : Equation(f)
  <2>1. EvaluateExpressionToPositionList(e, t, chunk) = Last(f[Len(e)])
    BY DEF EvaluateExpressionToPositionList
  <2>2. \E g : Equation(g)
    <3>1. PICK g : PositionsGrow(g, e, r, rows)
      BY <1>0, PositionsExist
    <3>2. Equation(g)
      BY <3>1 DEF PositionsGrow
    <3> HIDE DEF Equation
    <3> QED BY <3>2
  <2>3. Equation(f)
    <3> HIDE DEF Equation
    <3> QED BY <2>2
  <2>4. PositionsGrow(f, e, r, rows)
    <3> HIDE DEF f
    <3> QED BY <2>3 DEF PositionsGrow
  <2> HIDE DEF f
  <2> QED BY <2>1, <2>4
<1>2. PICK p : /\ p = f[Len(e)]
               /\ Last(p) = p[Len(e)]
               /\ \A n \in 1 .. Len(e) : p[n] = NodePositions(e[n], r, p, rows)
  BY <1>1, PositionsSettle
<1> QED BY <1>1, <1>2

(* The shape of a result on a chunk of n rows: one value or n of them,     *)
(* no flag, one or n of them, and n flags for n values only.               *)
Shaped(r, n) ==
    /\ r \in [values : Seq(Int), nulls : Seq(BOOLEAN)]
    /\ Len(r.values) \in {1, n}
    /\ Len(r.nulls) \in {0, 1, n}
    /\ Len(r.nulls) > 1 => Len(r.values) = n

(* A vector of flags read at a row.                                        *)
FlagAt(nulls, i) == nulls # <<>> /\ nulls[Smaller(i, Len(nulls))]

(* A result read at a row.                                                 *)
At(r, i) == IF IsNull(r, i) THEN NULL ELSE Value(r, i)

(* Results have integers and flags, at each row.                           *)
LEMMA ShapedTypes ==
    ASSUME NEW n \in Nat \ {0}, NEW r, Shaped(r, n), NEW i \in 1 .. n
    PROVE  /\ Value(r, i) \in Int /\ IsNull(r, i) \in BOOLEAN /\ Size(r) \in {1, n}
           /\ At(r, i) \in Int \cup {NULL}
           /\ (At(r, i) = NULL) <=> IsNull(r, i)
<1>1. r.values \in Seq(Int) /\ r.nulls \in Seq(BOOLEAN) /\ Len(r.values) \in {1, n} /\ Len(r.nulls) \in {0, 1, n}
  BY DEF Shaped
<1>2. Value(r, i) \in Int /\ Size(r) \in {1, n}
  BY <1>1, SMTT(60) DEF Value, Size, Smaller
<1>3. CASE r.nulls = <<>>
  BY <1>2, <1>3, NullAssumption DEF IsNull, At
<1>4. CASE r.nulls # <<>>
  <2>1. Smaller(i, Len(r.nulls)) \in 1 .. Len(r.nulls)
    BY <1>1, <1>4 DEF Smaller
  <2>2. r.nulls[Smaller(i, Len(r.nulls))] \in BOOLEAN
    BY <2>1, <1>1
  <2>3. IsNull(r, i) \in BOOLEAN
    BY <2>2, Zenon DEF IsNull
  <2> QED BY <2>3, <1>2, NullAssumption DEF At
<1> QED BY <1>3, <1>4

(* A result with fewer values than another reads the same at every row of  *)
(* that one.                                                               *)
LEMMA Clamped ==
    ASSUME NEW n \in Nat \ {0}, NEW r, Shaped(r, n), NEW i \in 1 .. n,
           NEW s \in {1, n}, s >= Size(r)
    PROVE  /\ Smaller(i, s) \in 1 .. s /\ Smaller(i, s) \in 1 .. n
           /\ Value(r, Smaller(i, s)) = Value(r, i)
           /\ IsNull(r, Smaller(i, s)) = IsNull(r, i)
<1>1. r.values \in Seq(Int) /\ r.nulls \in Seq(BOOLEAN) /\ Len(r.values) \in {1, n} /\ Len(r.nulls) \in {0, 1, n}
      /\ (Len(r.nulls) > 1 => Len(r.values) = n)
  BY DEF Shaped
<1>2. Smaller(i, s) \in 1 .. s /\ Smaller(i, s) \in 1 .. n
  BY DEF Smaller
<1>3. CASE s = n
  <2>1. Smaller(i, s) = i
    BY <1>3 DEF Smaller
  <2> QED BY <2>1, <1>2
<1>4. CASE s = 1 /\ n # 1
  <2>1. Size(r) = 1 /\ Len(r.nulls) \in {0, 1} /\ Smaller(i, s) = 1
    BY <1>1, <1>4 DEF Size, Smaller
  <2>2. Smaller(i, Size(r)) = 1 /\ Smaller(1, Size(r)) = 1
    BY <2>1 DEF Smaller
  <2>3. Len(r.nulls) = 1 => Smaller(i, Len(r.nulls)) = Smaller(1, Len(r.nulls))
    BY <2>1 DEF Smaller
  <2>4. Len(r.nulls) = 0 => r.nulls = <<>>
    BY <1>1
  <2> QED BY <2>1, <2>2, <2>3, <2>4, <1>2 DEF Value, IsNull
<1> QED BY <1>3, <1>4

(* The size of a result: the larger of its operands'.                      *)
LEMMA TwoSizes ==
    ASSUME NEW a \in Nat \ {0}, NEW b \in Nat \ {0}
    PROVE  ResultSize({a, b}) = Larger(a, b)
<1>1. 0 \notin {a, b}
  OBVIOUS
<1>2. Larger(a, b) \in {a, b} /\ \A y \in {a, b} : Larger(a, b) >= y
  BY DEF Larger
<1>3. \A x \in {a, b} : (\A y \in {a, b} : x >= y) => x = Larger(a, b)
  BY DEF Larger
<1>4. Max({a, b}) = Larger(a, b)
  BY <1>2, <1>3 DEF Max
<1> QED BY <1>1, <1>4 DEF ResultSize

(* So for three operands.                                                  *)
LEMMA ThreeSizes ==
    ASSUME NEW a \in Nat \ {0}, NEW b \in Nat \ {0}, NEW c \in Nat \ {0}
    PROVE  ResultSize({a, b, c}) = Larger(a, Larger(b, c))
<1>0. PICK m : m = Larger(a, Larger(b, c))
  OBVIOUS
<1>1. 0 \notin {a, b, c}
  OBVIOUS
<1>2. m \in {a, b, c} /\ \A y \in {a, b, c} : m >= y
  BY <1>0 DEF Larger
<1>3. \A x \in {a, b, c} : (\A y \in {a, b, c} : x >= y) => x = m
  BY <1>2
<1>4. Max({a, b, c}) = m
  BY <1>2, <1>3 DEF Max
<1> QED BY <1>0, <1>1, <1>4 DEF ResultSize

(* A result of two operands is at least as large as each of them.          *)
LEMMA SizeOfTwo ==
    ASSUME NEW n \in Nat \ {0}, NEW l, NEW r, Shaped(l, n), Shaped(r, n)
    PROVE  \E s \in {1, n} : /\ ResultSize({Size(l), Size(r)}) = s
                             /\ s >= Size(l) /\ s >= Size(r)
                             /\ s \in {Size(l), Size(r)}
<1>1. Size(l) \in {1, n} /\ Size(r) \in {1, n}
  BY DEF Shaped, Size
<1>2. Size(l) \in Nat \ {0} /\ Size(r) \in Nat \ {0}
  BY <1>1
<1>3. ResultSize({Size(l), Size(r)}) = Larger(Size(l), Size(r))
  BY <1>2, TwoSizes
<1> QED BY <1>1, <1>3 DEF Larger

(* Flags for s values on a chunk of n rows.                                *)
FlagsFor(g, s, n) == g \in Seq(BOOLEAN) /\ Len(g) \in {0, 1, n} /\ (Len(g) > 1 => s = n)

(* Results as a pair of vectors.                                           *)
LEMMA SeriesShaped ==
    ASSUME NEW n \in Nat \ {0}, NEW s \in {1, n}, NEW f \in [1 .. s -> Int],
           NEW g, FlagsFor(g, s, n)
    PROVE  /\ Shaped(Series(f, g), n) /\ Size(Series(f, g)) = s
           /\ \A i \in 1 .. n : /\ Value(Series(f, g), i) = f[Smaller(i, s)]
                                /\ IsNull(Series(f, g), i) = FlagAt(g, i)
<1>1. f \in Seq(Int) /\ Len(f) = s /\ s \in Nat
  OBVIOUS
<1>2. Series(f, g).values = f /\ Series(f, g).nulls = g
  BY DEF Series
<1>3. Shaped(Series(f, g), n)
  BY <1>1 DEF Shaped, Series, FlagsFor
<1>4. Size(Series(f, g)) = s
  BY <1>1, <1>2 DEF Size
<1> QED BY <1>2, <1>3, <1>4 DEF Value, IsNull, FlagAt

(* EvaluateDefaultNullLogic: NULL where one of the operands is.            *)
LEMMA DefaultNulls ==
    ASSUME NEW n \in Nat \ {0}, NEW l \in Seq(BOOLEAN), NEW r \in Seq(BOOLEAN),
           Len(l) \in {0, 1, n}, Len(r) \in {0, 1, n}
    PROVE  LET g == EvaluateDefaultNullLogic(l, r)
           IN /\ g \in Seq(BOOLEAN) /\ Len(g) \in {0, 1, n}
              /\ Len(g) > 1 => Len(l) = n \/ Len(r) = n
              /\ \A i \in 1 .. n : FlagAt(g, i) <=> FlagAt(l, i) \/ FlagAt(r, i)
<1>0. Len(l) \in Nat /\ Len(r) \in Nat
  OBVIOUS
<1>4. (Len(l) > 1 => Len(l) = n) /\ (Len(r) > 1 => Len(r) = n)
  <2>1. \A m \in {0, 1, n} : m > 1 => m = n
    OBVIOUS
  <2> QED BY <2>1, Zenon
<1> DEFINE g == EvaluateDefaultNullLogic(l, r)
<1>1. CASE Len(l) = Len(r)
  <2>1. g = [i \in DOMAIN l |-> l[i] \/ r[i]]
    BY <1>0, <1>1 DEF EvaluateDefaultNullLogic
  <2>2. g = [i \in 1 .. Len(l) |-> l[i] \/ r[i]]
    BY <2>1
  <2>3. g \in [1 .. Len(l) -> BOOLEAN]
    BY <2>2
  <2> HIDE DEF g
  <2>4. g \in Seq(BOOLEAN) /\ Len(g) = Len(l)
    BY <2>3, <1>0
  <2>5. ASSUME NEW i \in 1 .. n PROVE FlagAt(g, i) <=> FlagAt(l, i) \/ FlagAt(r, i)
    <3>1. CASE Len(l) = 0
      <4>1. l = <<>> /\ r = <<>> /\ g = <<>>
        BY <3>1, <1>1, <2>4
      <4> QED BY <4>1 DEF FlagAt
    <3>2. CASE Len(l) # 0
      <4>1. l # <<>> /\ r # <<>> /\ g # <<>>
        BY <3>2, <1>1, <2>4
      <4>2. Smaller(i, Len(l)) \in 1 .. Len(l)
        BY <3>2, <1>0 DEF Smaller
      <4>3. PICK j \in 1 .. Len(l) : j = Smaller(i, Len(l))
        BY <4>2
      <4>4. g[j] = (l[j] \/ r[j])
        BY <2>2
      <4> QED BY <4>1, <4>3, <4>4, <1>1, <2>4 DEF FlagAt
    <3> QED BY <3>1, <3>2
  <2>6. Len(g) \in {0, 1, n} /\ (Len(g) > 1 => Len(l) = n)
    BY <2>4, SMTT(60)
  <2> QED BY <2>4, <2>5, <2>6 DEF g
<1>2. CASE Len(l) > Len(r)
  <2>1. g = IF r # <<>> /\ r[1] THEN <<TRUE>> ELSE l
    BY <1>0, <1>2 DEF EvaluateDefaultNullLogic
  <2> HIDE DEF g
  <2>2. ASSUME NEW i \in 1 .. n PROVE FlagAt(g, i) <=> FlagAt(l, i) \/ FlagAt(r, i)
    <3>1. CASE r = <<>>
      BY <2>1, <3>1 DEF FlagAt
    <3>2. CASE r # <<>>
      <4>1. Len(r) = 1
        BY <3>2, <1>0, <1>2
      <4>2. FlagAt(r, i) <=> r[1]
        BY <3>2, <4>1 DEF FlagAt, Smaller
      <4>3. FlagAt(<<TRUE>>, i)
        <5>1. Len(<<TRUE>>) = 1 /\ Smaller(i, 1) = 1 /\ <<TRUE>>[1] = TRUE /\ <<TRUE>> # <<>>
          BY DEF Smaller
        <5> QED BY <5>1 DEF FlagAt
      <4> QED BY <2>1, <3>2, <4>2, <4>3
    <3> QED BY <3>1, <3>2
  <2>3. g \in Seq(BOOLEAN) /\ Len(g) \in {0, 1, n} /\ (Len(g) > 1 => Len(l) = n)
    <3>1. <<TRUE>> \in Seq(BOOLEAN) /\ Len(<<TRUE>>) = 1
      OBVIOUS
    <3>2. g = <<TRUE>> \/ g = l
      BY <2>1
    <3>3. CASE g = <<TRUE>>
      BY <3>1, <3>3
    <3>4. CASE g = l
      BY <3>4, <1>4
    <3> QED BY <3>2, <3>3, <3>4
  <2> QED BY <2>2, <2>3 DEF g
<1>3. CASE Len(l) < Len(r)
  <2>1. g = IF l # <<>> /\ l[1] THEN <<TRUE>> ELSE r
    BY <1>0, <1>3 DEF EvaluateDefaultNullLogic
  <2> HIDE DEF g
  <2>2. ASSUME NEW i \in 1 .. n PROVE FlagAt(g, i) <=> FlagAt(l, i) \/ FlagAt(r, i)
    <3>1. CASE l = <<>>
      BY <2>1, <3>1 DEF FlagAt
    <3>2. CASE l # <<>>
      <4>1. Len(l) = 1
        BY <3>2, <1>0, <1>3
      <4>2. FlagAt(l, i) <=> l[1]
        BY <3>2, <4>1 DEF FlagAt, Smaller
      <4>3. FlagAt(<<TRUE>>, i)
        <5>1. Len(<<TRUE>>) = 1 /\ Smaller(i, 1) = 1 /\ <<TRUE>>[1] = TRUE /\ <<TRUE>> # <<>>
          BY DEF Smaller
        <5> QED BY <5>1 DEF FlagAt
      <4> QED BY <2>1, <3>2, <4>2, <4>3
    <3> QED BY <3>1, <3>2
  <2>3. g \in Seq(BOOLEAN) /\ Len(g) \in {0, 1, n} /\ (Len(g) > 1 => Len(r) = n)
    <3>1. <<TRUE>> \in Seq(BOOLEAN) /\ Len(<<TRUE>>) = 1
      OBVIOUS
    <3>2. g = <<TRUE>> \/ g = r
      BY <2>1
    <3>3. CASE g = <<TRUE>>
      BY <3>1, <3>3
    <3>4. CASE g = r
      BY <3>4, <1>4
    <3> QED BY <3>2, <3>3, <3>4
  <2> QED BY <2>2, <2>3 DEF g
<1> QED BY <1>0, <1>1, <1>2, <1>3

(* The functors of arithmetic and of comparisons.                          *)
LEMMA Functors ==
    ASSUME NEW a \in Int, NEW b \in Int
    PROVE  /\ BinaryFunctor("+", a, b) = a + b
           /\ BinaryFunctor("-", a, b) = a - b
           /\ BinaryFunctor("*", a, b) = a * b
           /\ BinaryFunctor("=", a, b) = IF a = b THEN 1 ELSE 0
           /\ BinaryFunctor("#", a, b) = IF a # b THEN 1 ELSE 0
           /\ BinaryFunctor("<", a, b) = IF a < b THEN 1 ELSE 0
           /\ BinaryFunctor("<=", a, b) = IF a <= b THEN 1 ELSE 0
<1>1. /\ BinaryFunctor("+", a, b) = a + b
      /\ BinaryFunctor("-", a, b) = a - b
      /\ BinaryFunctor("*", a, b) = a * b
  BY DEF BinaryFunctor
<1>2. /\ BinaryFunctor("=", a, b) = IF Compare("=", a, b) THEN 1 ELSE 0
      /\ BinaryFunctor("#", a, b) = IF Compare("#", a, b) THEN 1 ELSE 0
      /\ BinaryFunctor("<", a, b) = IF Compare("<", a, b) THEN 1 ELSE 0
      /\ BinaryFunctor("<=", a, b) = IF Compare("<=", a, b) THEN 1 ELSE 0
  BY Zenon DEF BinaryFunctor, Bit
<1>3. /\ Compare("=", a, b) <=> a = b
      /\ Compare("#", a, b) <=> a # b
      /\ Compare("<", a, b) <=> a < b
      /\ Compare("<=", a, b) <=> a <= b
  BY DEF Compare
<1> QED BY <1>1, <1>2, <1>3, Zenon

(* The operators that leave NULL to EvaluateDefaultNullLogic.              *)
DefaultOperators == {"+", "-", "*", "=", "#", "<", "<="}

(* Their functors have integers.                                           *)
LEMMA FunctorType ==
    ASSUME NEW o \in DefaultOperators, NEW a \in Int, NEW b \in Int
    PROVE  BinaryFunctor(o, a, b) \in Int
<1>2. a + b \in Int /\ a - b \in Int /\ a * b \in Int
  OBVIOUS
<1>3. /\ BinaryFunctor("+", a, b) \in Int /\ BinaryFunctor("-", a, b) \in Int
      /\ BinaryFunctor("*", a, b) \in Int
  BY <1>2, Functors
<1>4. /\ BinaryFunctor("=", a, b) \in {0, 1} /\ BinaryFunctor("#", a, b) \in {0, 1}
      /\ BinaryFunctor("<", a, b) \in {0, 1} /\ BinaryFunctor("<=", a, b) \in {0, 1}
  BY Functors, Zenon
<1>5. \A x \in {0, 1} : x \in Int
  OBVIOUS
<1> QED BY <1>3, <1>4, <1>5, Zenon DEF DefaultOperators

(* NULL if an operand is NULL, the functor of both operands if not.        *)
Strictly(o, x, y) == IF x = NULL \/ y = NULL THEN NULL ELSE BinaryFunctor(o, x, y)

(* They are NULL where an operand is NULL and the functor of both operands *)
(* elsewhere.                                                              *)
LEMMA DefaultLogic ==
    ASSUME NEW n \in Nat \ {0}, NEW l, NEW r, Shaped(l, n), Shaped(r, n),
           NEW o \in DefaultOperators
    PROVE  /\ Shaped(WithDefaultNullLogic(o, l, r), n)
           /\ \A i \in 1 .. n :
                 At(WithDefaultNullLogic(o, l, r), i) = Strictly(o, At(l, i), At(r, i))
<1>1. PICK s \in {1, n} : /\ ResultSize({Size(l), Size(r)}) = s
                          /\ s >= Size(l) /\ s >= Size(r) /\ s \in {Size(l), Size(r)}
  BY SizeOfTwo
<1>2. PICK f : f = [i \in 1 .. s |-> BinaryFunctor(o, Value(l, i), Value(r, i))]
  OBVIOUS
<1>3. PICK g : g = EvaluateDefaultNullLogic(l.nulls, r.nulls)
  OBVIOUS
<1>4. WithDefaultNullLogic(o, l, r) = Series(f, g)
  BY <1>1, <1>2, <1>3 DEF WithDefaultNullLogic
<1>5. f \in [1 .. s -> Int]
  <2> SUFFICES ASSUME NEW i \in 1 .. s
               PROVE  BinaryFunctor(o, Value(l, i), Value(r, i)) \in Int
    BY <1>2
  <2>1. i \in 1 .. n
    BY <1>1
  <2>2. Value(l, i) \in Int /\ Value(r, i) \in Int
    BY <2>1, ShapedTypes
  <2> QED BY <2>2, FunctorType
<1>6. /\ l.nulls \in Seq(BOOLEAN) /\ r.nulls \in Seq(BOOLEAN)
      /\ Len(l.nulls) \in {0, 1, n} /\ Len(r.nulls) \in {0, 1, n}
      /\ (Len(l.nulls) > 1 => Size(l) = n) /\ (Len(r.nulls) > 1 => Size(r) = n)
  BY DEF Shaped, Size
<1>7. /\ g \in Seq(BOOLEAN) /\ Len(g) \in {0, 1, n}
      /\ (Len(g) > 1 => Len(l.nulls) = n \/ Len(r.nulls) = n)
      /\ \A i \in 1 .. n : FlagAt(g, i) <=> FlagAt(l.nulls, i) \/ FlagAt(r.nulls, i)
  BY <1>3, <1>6, DefaultNulls, SMTT(30)
<1>8. Len(g) > 1 => s = n
  <2> SUFFICES ASSUME Len(g) > 1, s # n PROVE FALSE
    OBVIOUS
  <2>1. s = 1 /\ n > 1 /\ Size(l) = 1 /\ Size(r) = 1
    <3>1. Size(l) \in {1, n} /\ Size(r) \in {1, n}
      BY DEF Shaped, Size
    <3> QED BY <1>1, <3>1
  <2> QED BY <2>1, <1>6, <1>7
<1>9. /\ Shaped(Series(f, g), n) /\ Size(Series(f, g)) = s
      /\ \A i \in 1 .. n : /\ Value(Series(f, g), i) = f[Smaller(i, s)]
                           /\ IsNull(Series(f, g), i) = FlagAt(g, i)
  <2>1. FlagsFor(g, s, n)
    BY <1>7, <1>8 DEF FlagsFor
  <2> QED BY <1>5, <2>1, SeriesShaped, ZenonT(60)
<1>10. ASSUME NEW i \in 1 .. n
       PROVE  At(Series(f, g), i) = Strictly(o, At(l, i), At(r, i))
  <2>1. /\ Smaller(i, s) \in 1 .. s
        /\ Value(l, Smaller(i, s)) = Value(l, i) /\ Value(r, Smaller(i, s)) = Value(r, i)
    BY <1>1, Clamped
  <2>2. Value(Series(f, g), i) = BinaryFunctor(o, Value(l, i), Value(r, i))
    BY <1>2, <1>9, <2>1
  <2>3. IsNull(Series(f, g), i) <=> IsNull(l, i) \/ IsNull(r, i)
    BY <1>7, <1>9, Zenon DEF FlagAt, IsNull
  <2>4. ((At(l, i) = NULL) <=> IsNull(l, i)) /\ ((At(r, i) = NULL) <=> IsNull(r, i))
    BY ShapedTypes
  <2> QED BY <2>2, <2>3, <2>4, Zenon DEF At, Strictly
<1> QED BY <1>4, <1>9, <1>10

(* A literal reads as its value, or as NULL, at every row.                 *)
LEMMA LiteralAt ==
    ASSUME NEW n \in Nat \ {0}, NEW x \in Int
    PROVE  /\ Shaped(Literal(x, TRUE), n) /\ Shaped(Literal(x, FALSE), n)
           /\ \A i \in 1 .. n : At(Literal(x, TRUE), i) = NULL /\ At(Literal(x, FALSE), i) = x
<1>0. PICK s \in {1, n} : s = 1
  OBVIOUS
<1>1. PICK f : f = [j \in 1 .. s |-> x]
  OBVIOUS
<1>2. f = <<x>>
  BY <1>0, <1>1
<1>6. f \in [1 .. s -> Int]
  BY <1>1
<1>3. \A i \in 1 .. n : Smaller(i, s) = 1 /\ Smaller(i, 1) = 1
  BY <1>0 DEF Smaller
<1>4. /\ Shaped(Literal(x, TRUE), n)
      /\ \A i \in 1 .. n : At(Literal(x, TRUE), i) = NULL
  <2>0. PICK g : g = <<TRUE>>
    OBVIOUS
  <2>1. Literal(x, TRUE) = Series(f, g)
    BY <1>2, <2>0 DEF Literal
  <2>2. g \in Seq(BOOLEAN) /\ Len(g) = 1 /\ g # <<>> /\ g[1]
    BY <2>0
  <2>3. FlagsFor(g, s, n)
    BY <2>2 DEF FlagsFor
  <2>4. /\ Shaped(Series(f, g), n)
        /\ \A i \in 1 .. n : IsNull(Series(f, g), i) = FlagAt(g, i)
    BY <1>6, <2>3, SeriesShaped, ZenonT(60)
  <2>5. \A i \in 1 .. n : FlagAt(g, i)
    BY <2>2, <1>3 DEF FlagAt
  <2> QED BY <2>1, <2>4, <2>5 DEF At
<1>5. /\ Shaped(Literal(x, FALSE), n)
      /\ \A i \in 1 .. n : At(Literal(x, FALSE), i) = x
  <2>0. PICK g : g = <<>>
    OBVIOUS
  <2>1. Literal(x, FALSE) = Series(f, g)
    BY <1>2, <2>0 DEF Literal
  <2>2. g \in Seq(BOOLEAN) /\ Len(g) = 0
    BY <2>0
  <2>3. FlagsFor(g, s, n)
    BY <2>2 DEF FlagsFor
  <2>4. /\ Shaped(Series(f, g), n)
        /\ \A i \in 1 .. n : /\ Value(Series(f, g), i) = f[Smaller(i, s)]
                             /\ IsNull(Series(f, g), i) = FlagAt(g, i)
    BY <1>6, <2>3, SeriesShaped, ZenonT(60)
  <2>5. \A i \in 1 .. n : ~FlagAt(g, i) /\ f[Smaller(i, s)] = x
    BY <1>0, <1>1, <1>3, <2>0 DEF FlagAt
  <2> QED BY <2>1, <2>4, <2>5 DEF At
<1> QED BY <1>4, <1>5

(* A view reads as the result it is a view of.                             *)
LEMMA Views ==
    ASSUME NEW n \in Nat \ {0}, NEW r, Shaped(r, n)
    PROVE  /\ Shaped(AsView(r), n)
           /\ \A i \in 1 .. n : At(AsView(r), i) = At(r, i)
<1>1. /\ r.values \in Seq(Int) /\ r.nulls \in Seq(BOOLEAN)
      /\ Len(r.values) \in {1, n} /\ Len(r.nulls) \in {0, 1, n}
      /\ (Len(r.nulls) > 1 => Len(r.values) = n)
  BY DEF Shaped
<1>3. CASE Size(r) = 1
  <2>1. PICK b \in BOOLEAN : b = (r.nulls # <<>> /\ r.nulls[1])
    OBVIOUS
  <2>2. AsView(r) = IF b THEN Literal(r.values[1], TRUE) ELSE Literal(r.values[1], FALSE)
    BY <1>3, <2>1 DEF AsView
  <2>3. r.values[1] \in Int
    BY <1>1
  <2>4. ASSUME NEW i \in 1 .. n PROVE At(r, i) = IF b THEN NULL ELSE r.values[1]
    <3>1. /\ Value(r, Smaller(i, 1)) = Value(r, i)
          /\ IsNull(r, Smaller(i, 1)) = IsNull(r, i)
      BY <1>3, Clamped
    <3>2. Smaller(i, 1) = 1 /\ Smaller(1, 1) = 1
      BY DEF Smaller
    <3>3. Value(r, i) = r.values[1]
      BY <3>1, <3>2, <1>3 DEF Value
    <3>4. IsNull(r, i) = b
      <4>1. CASE r.nulls = <<>>
        BY <4>1, <2>1 DEF IsNull
      <4>2. CASE r.nulls # <<>>
        <5>1. Smaller(1, Len(r.nulls)) = 1
          <6>1. PICK m : m = Len(r.nulls)
            OBVIOUS
          <6>2. m \in Nat /\ m # 0
            BY <4>2, <1>1, <6>1
          <6>3. Smaller(1, m) = 1
            BY <6>2 DEF Smaller
          <6> QED BY <6>1, <6>3
        <5>2. IsNull(r, 1) = b
          BY <4>2, <5>1, <2>1 DEF IsNull
        <5> QED BY <5>2, <3>1, <3>2
      <4> QED BY <4>1, <4>2
    <3> QED BY <3>3, <3>4 DEF At
  <2>5. CASE b
    <3>1. AsView(r) = Literal(r.values[1], TRUE)
      BY <2>2, <2>5, Zenon
    <3>2. /\ Shaped(Literal(r.values[1], TRUE), n)
          /\ \A i \in 1 .. n : At(Literal(r.values[1], TRUE), i) = NULL
      BY <2>3, LiteralAt
    <3> QED BY <2>4, <2>5, <3>1, <3>2, Zenon
  <2>6. CASE ~b
    <3>1. AsView(r) = Literal(r.values[1], FALSE)
      BY <2>2, <2>6, Zenon
    <3>2. /\ Shaped(Literal(r.values[1], FALSE), n)
          /\ \A i \in 1 .. n : At(Literal(r.values[1], FALSE), i) = r.values[1]
      BY <2>3, LiteralAt
    <3> QED BY <2>4, <2>6, <3>1, <3>2, Zenon
  <2> QED BY <2>5, <2>6, Zenon
<1>4. CASE Size(r) # 1 /\ r.nulls = <<TRUE>>
  <2>1. AsView(r) = Literal(Default, TRUE)
    BY <1>4 DEF AsView
  <2>2. Default \in Int
    BY DEF Default
  <2>3. ASSUME NEW i \in 1 .. n PROVE At(r, i) = NULL
    <3>1. Len(r.nulls) = 1 /\ r.nulls # <<>> /\ r.nulls[1] = TRUE
      BY <1>4
    <3>2. Smaller(i, 1) = 1
      BY DEF Smaller
    <3> QED BY <3>1, <3>2 DEF At, IsNull
  <2>4. /\ Shaped(Literal(Default, TRUE), n)
        /\ \A i \in 1 .. n : At(Literal(Default, TRUE), i) = NULL
    BY <2>2, LiteralAt
  <2> QED BY <2>1, <2>3, <2>4, Zenon
<1>5. CASE Size(r) # 1 /\ r.nulls # <<TRUE>>
  BY <1>5 DEF AsView
<1> QED BY <1>3, <1>4, <1>5

(* A literal reads as its value.                                           *)
LEMMA Literals ==
    ASSUME NEW n \in Nat \ {0}, NEW v \in Int \cup {NULL}
    PROVE  /\ Shaped(LiteralOf(v), n)
           /\ \A i \in 1 .. n : At(LiteralOf(v), i) = v
<1>1. CASE v = NULL
  <2>1. LiteralOf(v) = Literal(Default, TRUE) /\ Default \in Int
    BY <1>1 DEF LiteralOf, Default
  <2>2. /\ Shaped(Literal(Default, TRUE), n)
        /\ \A i \in 1 .. n : At(Literal(Default, TRUE), i) = NULL
    BY <2>1, LiteralAt
  <2> QED BY <1>1, <2>1, <2>2, Zenon
<1>2. CASE v # NULL
  <2>1. LiteralOf(v) = Literal(v, FALSE) /\ v \in Int
    BY <1>2 DEF LiteralOf
  <2>2. /\ Shaped(Literal(v, FALSE), n)
        /\ \A i \in 1 .. n : At(Literal(v, FALSE), i) = v
    BY <2>1, LiteralAt
  <2> QED BY <2>1, <2>2, Zenon
<1> QED BY <1>1, <1>2

(* A quotient is an integer.                                               *)
LEMMA QuotientType ==
    ASSUME NEW a \in Int, NEW b \in Int, b # 0
    PROVE  Quotient(a, b) \in Int
<1>1. Abs(a) \in Nat /\ Abs(b) \in Nat /\ Abs(b) > 0
  BY DEF Abs
<1>2. Abs(a) \div Abs(b) \in Int
  BY <1>1
<1>3. ASSUME NEW q \in Int PROVE (IF (a < 0) = (b < 0) THEN 1 ELSE -1) * q \in Int
  OBVIOUS
<1> QED BY <1>2, <1>3 DEF Quotient

(* What SQL says of the operators whose functors return a null flag.       *)
Functored(o, x, y) ==
    CASE o = "/" -> SqlArithmetic("/", x, y)
      [] o = "%" -> SqlArithmetic("%", x, y)
      [] o = "and" -> SqlAnd(x, y)
      [] o = "or" -> SqlOr(x, y)

(* A value below a null flag.                                              *)
Under(null, a) == IF null THEN NULL ELSE a

(* DivisionEvaluator and ModuloEvaluator, with NULL for a division by 0.   *)
LEMMA Divisions ==
    ASSUME NEW a \in Int, NEW b \in Int, NEW an \in BOOLEAN, NEW bn \in BOOLEAN
    PROVE  /\ DivisionEvaluator(a, an, b, bn)[1] \in Int
           /\ DivisionEvaluator(a, an, b, bn)[2] \in BOOLEAN
           /\ Under(DivisionEvaluator(a, an, b, bn)[2], DivisionEvaluator(a, an, b, bn)[1])
                 = SqlArithmetic("/", Under(an, a), Under(bn, b))
           /\ ModuloEvaluator(a, an, b, bn)[1] \in Int
           /\ ModuloEvaluator(a, an, b, bn)[2] \in BOOLEAN
           /\ Under(ModuloEvaluator(a, an, b, bn)[2], ModuloEvaluator(a, an, b, bn)[1])
                 = SqlArithmetic("%", Under(an, a), Under(bn, b))
<1>0. a # NULL /\ b # NULL
  BY NullAssumption
<1>1. CASE b = 0
  <2>1. DivisionEvaluator(a, an, b, bn) = <<Default, TRUE>> /\ ModuloEvaluator(a, an, b, bn) = <<Default, TRUE>>
    BY <1>1 DEF DivisionEvaluator, ModuloEvaluator
  <2>2. SqlArithmetic("/", Under(an, a), Under(bn, b)) = NULL /\ SqlArithmetic("%", Under(an, a), Under(bn, b)) = NULL
    BY <1>1 DEF SqlArithmetic, Under
  <2>3. Default \in Int /\ <<Default, TRUE>>[1] = Default /\ <<Default, TRUE>>[2] = TRUE
    BY DEF Default
  <2>4. Under(<<Default, TRUE>>[2], <<Default, TRUE>>[1]) = NULL
    BY <2>3 DEF Under
  <2> QED BY <2>1, <2>2, <2>3, <2>4
<1>2. CASE b # 0 /\ (an \/ bn)
  <2>1. PICK q \in Int : q = Quotient(a, b)
    BY <1>2, QuotientType
  <2>2. DivisionEvaluator(a, an, b, bn) = <<q, TRUE>> /\ ModuloEvaluator(a, an, b, bn) = <<Default, TRUE>>
    BY <1>2, <2>1 DEF DivisionEvaluator, ModuloEvaluator
  <2>3. SqlArithmetic("/", Under(an, a), Under(bn, b)) = NULL /\ SqlArithmetic("%", Under(an, a), Under(bn, b)) = NULL
    BY <1>2 DEF SqlArithmetic, Under
  <2>4. /\ Default \in Int /\ <<Default, TRUE>>[1] = Default /\ <<Default, TRUE>>[2] = TRUE
        /\ <<q, TRUE>>[1] = q /\ <<q, TRUE>>[2] = TRUE
    BY DEF Default
  <2>5. Under(<<Default, TRUE>>[2], <<Default, TRUE>>[1]) = NULL /\ Under(<<q, TRUE>>[2], <<q, TRUE>>[1]) = NULL
    BY <2>4 DEF Under
  <2> QED BY <2>2, <2>3, <2>4, <2>5
<1>3. CASE b # 0 /\ ~an /\ ~bn
  <2>1. PICK q \in Int : q = Quotient(a, b)
    BY <1>3, QuotientType
  <2>2. PICK m \in Int : m = a - b * q
    <3>1. a - b * q \in Int
      OBVIOUS
    <3> QED BY <3>1
  <2>3. DivisionEvaluator(a, an, b, bn) = <<q, FALSE>> /\ ModuloEvaluator(a, an, b, bn) = <<m, FALSE>>
    BY <1>3, <2>1, <2>2 DEF DivisionEvaluator, ModuloEvaluator
  <2>4. SqlArithmetic("/", a, b) = q /\ SqlArithmetic("%", a, b) = m
    BY <1>0, <1>3, <2>1, <2>2 DEF SqlArithmetic
  <2>5. /\ <<m, FALSE>>[1] = m /\ <<m, FALSE>>[2] = FALSE
        /\ <<q, FALSE>>[1] = q /\ <<q, FALSE>>[2] = FALSE
    OBVIOUS
  <2>6. /\ Under(<<m, FALSE>>[2], <<m, FALSE>>[1]) = m /\ Under(<<q, FALSE>>[2], <<q, FALSE>>[1]) = q
        /\ Under(an, a) = a /\ Under(bn, b) = b
    BY <1>3, <2>5 DEF Under
  <2> QED BY <2>3, <2>4, <2>5, <2>6
<1> QED BY <1>1, <1>2, <1>3

(* Truth values.                                                           *)
Truths == {0, 1, NULL}

(* TernaryAndEvaluator and TernaryOrEvaluator, whatever is below a flag.   *)
LEMMA Ternaries ==
    ASSUME NEW a \in Int, NEW b \in Int, NEW an \in BOOLEAN, NEW bn \in BOOLEAN,
           Under(an, a) \in Truths, Under(bn, b) \in Truths
    PROVE  /\ TernaryAndEvaluator(a, an, b, bn)[1] \in Int
           /\ TernaryAndEvaluator(a, an, b, bn)[2] \in BOOLEAN
           /\ Under(TernaryAndEvaluator(a, an, b, bn)[2], TernaryAndEvaluator(a, an, b, bn)[1])
                 = SqlAnd(Under(an, a), Under(bn, b))
           /\ TernaryOrEvaluator(a, an, b, bn)[1] \in Int
           /\ TernaryOrEvaluator(a, an, b, bn)[2] \in BOOLEAN
           /\ Under(TernaryOrEvaluator(a, an, b, bn)[2], TernaryOrEvaluator(a, an, b, bn)[1])
                 = SqlOr(Under(an, a), Under(bn, b))
<1>0. NULL # 0 /\ NULL # 1
  BY NullAssumption
<1>1. PICK u \in BOOLEAN, w \in BOOLEAN :
          /\ u <=> ((~an /\ a # 0) /\ (~bn /\ b # 0))
          /\ w <=> ((~an /\ a # 0) \/ (~bn /\ b # 0))
  OBVIOUS
<1>2. PICK f \in BOOLEAN, g \in BOOLEAN :
          /\ f <=> ((an /\ bn) \/ (a # 0 /\ bn) \/ (b # 0 /\ an))
          /\ g <=> ((an \/ bn) /\ ~w)
  OBVIOUS
<1>3. /\ TernaryAndEvaluator(a, an, b, bn) = <<Bit(u), f>>
      /\ TernaryOrEvaluator(a, an, b, bn) = <<Bit(w), g>>
  BY <1>1, <1>2 DEF TernaryAndEvaluator, TernaryOrEvaluator
<1>4. /\ <<Bit(u), f>>[1] = Bit(u) /\ <<Bit(u), f>>[2] = f
      /\ <<Bit(w), g>>[1] = Bit(w) /\ <<Bit(w), g>>[2] = g
  OBVIOUS
<1>5. Bit(u) \in Int /\ Bit(w) \in Int
  BY DEF Bit
<1>6. PICK x \in Truths, y \in Truths : x = Under(an, a) /\ y = Under(bn, b)
  OBVIOUS
<1>7. /\ (x = NULL <=> an) /\ (~an => x = a)
      /\ (y = NULL <=> bn) /\ (~bn => y = b)
  BY <1>6, NullAssumption DEF Under
<1>8. (u <=> x = 1 /\ y = 1) /\ (w <=> x = 1 \/ y = 1)
  BY <1>0, <1>1, <1>7 DEF Truths
<1>9. f <=> (x = NULL /\ y # 0) \/ (y = NULL /\ x # 0)
  BY <1>0, <1>2, <1>7 DEF Truths
<1>10. g <=> (x = NULL \/ y = NULL) /\ x # 1 /\ y # 1
  BY <1>0, <1>2, <1>7, <1>8
<1>11. Under(f, Bit(u)) = SqlAnd(x, y)
  BY <1>0, <1>8, <1>9 DEF Under, Bit, SqlAnd, Truths
<1>12. Under(g, Bit(w)) = SqlOr(x, y)
  <2>1. SqlOr(x, y) = IF x = 1 \/ y = 1 THEN 1 ELSE IF x = NULL \/ y = NULL THEN NULL ELSE 0
    BY <1>0 DEF SqlOr, SqlNot, SqlAnd, Truths
  <2> QED BY <2>1, <1>0, <1>8, <1>10 DEF Under, Bit
<1> QED BY <1>3, <1>4, <1>5, <1>6, <1>11, <1>12

(* AND and OR are of truth values.                                         *)
Logical(o, x, y) == o \in {"and", "or"} => x \in Truths /\ y \in Truths

(* A pair of a value and a flag stands for what SQL says.                  *)
Computes(p, o, x, y) == p[1] \in Int /\ p[2] \in BOOLEAN /\ Under(p[2], p[1]) = Functored(o, x, y)

(* The functors that return a null flag, as SQL has them.                  *)
LEMMA NullFunctors ==
    ASSUME NEW o \in {"/", "%", "and", "or"},
           NEW a \in Int, NEW b \in Int, NEW an \in BOOLEAN, NEW bn \in BOOLEAN,
           Logical(o, Under(an, a), Under(bn, b))
    PROVE  Computes(NullFunctor(o, a, an, b, bn), o, Under(an, a), Under(bn, b))
<1>1. CASE o = "/"
  <2>1. /\ NullFunctor(o, a, an, b, bn) = DivisionEvaluator(a, an, b, bn)
        /\ Functored(o, Under(an, a), Under(bn, b)) = SqlArithmetic("/", Under(an, a), Under(bn, b))
    BY <1>1, Zenon DEF NullFunctor, Functored
  <2>2. /\ DivisionEvaluator(a, an, b, bn)[1] \in Int
        /\ DivisionEvaluator(a, an, b, bn)[2] \in BOOLEAN
        /\ Under(DivisionEvaluator(a, an, b, bn)[2], DivisionEvaluator(a, an, b, bn)[1])
              = SqlArithmetic("/", Under(an, a), Under(bn, b))
    BY Divisions
  <2> QED BY <2>1, <2>2, Zenon DEF Computes
<1>2. CASE o = "%"
  <2>1. /\ NullFunctor(o, a, an, b, bn) = ModuloEvaluator(a, an, b, bn)
        /\ Functored(o, Under(an, a), Under(bn, b)) = SqlArithmetic("%", Under(an, a), Under(bn, b))
    BY <1>2, Zenon DEF NullFunctor, Functored
  <2>2. /\ ModuloEvaluator(a, an, b, bn)[1] \in Int
        /\ ModuloEvaluator(a, an, b, bn)[2] \in BOOLEAN
        /\ Under(ModuloEvaluator(a, an, b, bn)[2], ModuloEvaluator(a, an, b, bn)[1])
              = SqlArithmetic("%", Under(an, a), Under(bn, b))
    BY Divisions
  <2> QED BY <2>1, <2>2, Zenon DEF Computes
<1>3. CASE o = "and"
  <2>1. /\ NullFunctor(o, a, an, b, bn) = TernaryAndEvaluator(a, an, b, bn)
        /\ Functored(o, Under(an, a), Under(bn, b)) = SqlAnd(Under(an, a), Under(bn, b))
    BY <1>3, Zenon DEF NullFunctor, Functored
  <2>2. /\ TernaryAndEvaluator(a, an, b, bn)[1] \in Int
        /\ TernaryAndEvaluator(a, an, b, bn)[2] \in BOOLEAN
        /\ Under(TernaryAndEvaluator(a, an, b, bn)[2], TernaryAndEvaluator(a, an, b, bn)[1])
              = SqlAnd(Under(an, a), Under(bn, b))
    <3>1. Under(an, a) \in Truths /\ Under(bn, b) \in Truths
      BY <1>3 DEF Logical
    <3> QED BY <3>1, Ternaries
  <2> QED BY <2>1, <2>2, Zenon DEF Computes
<1>4. CASE o = "or"
  <2>1. /\ NullFunctor(o, a, an, b, bn) = TernaryOrEvaluator(a, an, b, bn)
        /\ Functored(o, Under(an, a), Under(bn, b)) = SqlOr(Under(an, a), Under(bn, b))
    BY <1>4, Zenon DEF NullFunctor, Functored
  <2>2. /\ TernaryOrEvaluator(a, an, b, bn)[1] \in Int
        /\ TernaryOrEvaluator(a, an, b, bn)[2] \in BOOLEAN
        /\ Under(TernaryOrEvaluator(a, an, b, bn)[2], TernaryOrEvaluator(a, an, b, bn)[1])
              = SqlOr(Under(an, a), Under(bn, b))
    <3>1. Under(an, a) \in Truths /\ Under(bn, b) \in Truths
      BY <1>4 DEF Logical
    <3> QED BY <3>1, Ternaries
  <2> QED BY <2>1, <2>2, Zenon DEF Computes
<1> QED BY <1>1, <1>2, <1>3, <1>4

(* Both vectors of a result computed row by row.                           *)
LEMMA PairsShaped ==
    ASSUME NEW n \in Nat \ {0}, NEW s \in {1, n}, NEW f \in [1 .. s -> Int], NEW g \in [1 .. s -> BOOLEAN]
    PROVE  /\ Shaped(Series(f, g), n)
           /\ \A i \in 1 .. n : At(Series(f, g), i) = Under(g[Smaller(i, s)], f[Smaller(i, s)])
<1>1. g \in Seq(BOOLEAN) /\ Len(g) = s /\ s \in Nat
  OBVIOUS
<1>2. Len(g) \in {0, 1, n}
  BY <1>1
<1>3. Len(g) > 1 => s = n
  BY <1>1
<1>4. /\ Shaped(Series(f, g), n)
      /\ \A i \in 1 .. n : /\ Value(Series(f, g), i) = f[Smaller(i, s)]
                           /\ IsNull(Series(f, g), i) = FlagAt(g, i)
  <2>1. FlagsFor(g, s, n)
    BY <1>1, <1>2, <1>3 DEF FlagsFor
  <2> QED BY <2>1, SeriesShaped, SMTT(60)
<1>5. ASSUME NEW i \in 1 .. n PROVE FlagAt(g, i) <=> g[Smaller(i, s)]
  <2>1. g # <<>>
    BY <1>1
  <2> QED BY <1>1, <2>1 DEF FlagAt
<1> QED BY <1>4, <1>5 DEF At, Under

(* WithFunctorNullLogic is what SQL says of its operator, row by row.      *)
LEMMA FunctorLogic ==
    ASSUME NEW n \in Nat \ {0}, NEW l, NEW r, Shaped(l, n), Shaped(r, n),
           NEW o \in {"/", "%", "and", "or"},
           o \in {"and", "or"} => \A i \in 1 .. n : At(l, i) \in Truths /\ At(r, i) \in Truths
    PROVE  /\ Shaped(WithFunctorNullLogic(o, l, r), n)
           /\ \A i \in 1 .. n :
                 At(WithFunctorNullLogic(o, l, r), i) = Functored(o, At(l, i), At(r, i))
<1>1. PICK a : a = AsView(l)
  OBVIOUS
<1>2. PICK b : b = AsView(r)
  OBVIOUS
<1>3. /\ Shaped(a, n) /\ \A i \in 1 .. n : At(a, i) = At(l, i)
      /\ Shaped(b, n) /\ \A i \in 1 .. n : At(b, i) = At(r, i)
  BY <1>1, <1>2, Views
<1>4. PICK s \in {1, n} : /\ ResultSize({Size(a), Size(b)}) = s
                          /\ s >= Size(a) /\ s >= Size(b) /\ s \in {Size(a), Size(b)}
  BY <1>3, SizeOfTwo
<1>5. PICK p : p = [i \in 1 .. s |-> NullFunctor(o, Value(a, i), IsNull(a, i), Value(b, i), IsNull(b, i))]
  OBVIOUS
<1>6. PICK f : f = [i \in 1 .. s |-> p[i][1]]
  OBVIOUS
<1>7. PICK g : g = [i \in 1 .. s |-> p[i][2]]
  OBVIOUS
<1>8. WithFunctorNullLogic(o, l, r) = Series(f, g)
  <2>1. DOMAIN p = 1 .. s
    BY <1>5
  <2> QED BY <1>1, <1>2, <1>4, <1>5, <1>6, <1>7, <2>1 DEF WithFunctorNullLogic
<1>9. ASSUME NEW i \in 1 .. s
      PROVE  /\ p[i][1] \in Int /\ p[i][2] \in BOOLEAN
             /\ Under(p[i][2], p[i][1]) = Functored(o, At(a, i), At(b, i))
  <2>1. i \in 1 .. n
    BY <1>4
  <2>2. PICK x \in Int : x = Value(a, i)
    BY <1>3, <2>1, ShapedTypes
  <2>3. PICK y \in Int : y = Value(b, i)
    BY <1>3, <2>1, ShapedTypes
  <2>4. IsNull(a, i) \in BOOLEAN /\ IsNull(b, i) \in BOOLEAN
    BY <1>3, <2>1, ShapedTypes
  <2>8. PICK an \in BOOLEAN, bn \in BOOLEAN : an = IsNull(a, i) /\ bn = IsNull(b, i)
    BY <2>4
  <2>5. At(a, i) = Under(an, x) /\ At(b, i) = Under(bn, y)
    BY <2>2, <2>3, <2>8, Zenon DEF At, Under
  <2>6. p[i] = NullFunctor(o, x, an, y, bn)
    BY <1>5, <2>2, <2>3, <2>8
  <2>7. Logical(o, Under(an, x), Under(bn, y))
    BY <2>1, <2>5, <1>3 DEF Logical
  <2>9. Computes(NullFunctor(o, x, an, y, bn), o, Under(an, x), Under(bn, y))
    BY <2>7, NullFunctors
  <2> QED BY <2>5, <2>6, <2>9, Zenon DEF Computes
<1>10. f \in [1 .. s -> Int] /\ g \in [1 .. s -> BOOLEAN]
  BY <1>6, <1>7, <1>9
<1>11. /\ Shaped(Series(f, g), n)
       /\ \A i \in 1 .. n : At(Series(f, g), i) = Under(g[Smaller(i, s)], f[Smaller(i, s)])
  BY <1>10, PairsShaped
<1>12. ASSUME NEW i \in 1 .. n PROVE At(Series(f, g), i) = Functored(o, At(l, i), At(r, i))
  <2>1. PICK j \in 1 .. s : j = Smaller(i, s)
    BY <1>3, <1>4, Clamped
  <2>2. /\ Value(a, j) = Value(a, i) /\ IsNull(a, j) = IsNull(a, i)
        /\ Value(b, j) = Value(b, i) /\ IsNull(b, j) = IsNull(b, i)
    BY <1>3, <1>4, <2>1, Clamped
  <2>3. At(a, j) = At(a, i) /\ At(b, j) = At(b, i)
    BY <2>2, Zenon DEF At
  <2>4. g[j] = p[j][2] /\ f[j] = p[j][1]
    BY <1>6, <1>7
  <2>5. Under(p[j][2], p[j][1]) = Functored(o, At(a, j), At(b, j))
    BY <1>9
  <2>6. At(Series(f, g), i) = Under(g[j], f[j])
    BY <1>11, <2>1
  <2>7. At(a, i) = At(l, i) /\ At(b, i) = At(r, i)
    BY <1>3
  <2> QED BY <2>3, <2>4, <2>5, <2>6, <2>7, Zenon
<1> QED BY <1>8, <1>11, <1>12

(* The comparisons of SQL.                                                 *)
Comparators == {"=", "#", "<", "<=", ">", ">="}

(* They are NULL if an operand is,                                         *)
LEMMA ComparesNull ==
    ASSUME NEW o, NEW a, NEW b, a = NULL \/ b = NULL
    PROVE  SqlCompare(o, a, b) = NULL
  BY DEF SqlCompare

(* and the comparison of numbers if no operand is.                         *)
LEMMA ComparesNumbers ==
    ASSUME NEW a \in Int, NEW b \in Int
    PROVE  /\ SqlCompare("=", a, b) = IF a = b THEN 1 ELSE 0
           /\ SqlCompare("#", a, b) = IF a # b THEN 1 ELSE 0
           /\ SqlCompare("<", a, b) = IF a < b THEN 1 ELSE 0
           /\ SqlCompare("<=", a, b) = IF a <= b THEN 1 ELSE 0
           /\ SqlCompare(">", a, b) = IF b < a THEN 1 ELSE 0
           /\ SqlCompare(">=", a, b) = IF b <= a THEN 1 ELSE 0
<1>1. NULL \notin {a, b}
  BY NullAssumption
<1>2. /\ SqlCompare("=", a, b) = IF Compare("=", a, b) THEN 1 ELSE 0
      /\ SqlCompare("#", a, b) = IF Compare("#", a, b) THEN 1 ELSE 0
      /\ SqlCompare("<", a, b) = IF Compare("<", a, b) THEN 1 ELSE 0
      /\ SqlCompare("<=", a, b) = IF Compare("<=", a, b) THEN 1 ELSE 0
  BY <1>1, Zenon DEF SqlCompare, Bit
<1>3. /\ SqlCompare(">", a, b) = IF a > b THEN 1 ELSE 0
      /\ SqlCompare(">=", a, b) = IF a >= b THEN 1 ELSE 0
  BY <1>1, Zenon DEF SqlCompare, Bit
<1>4. /\ Compare("=", a, b) <=> a = b
      /\ Compare("#", a, b) <=> a # b
      /\ Compare("<", a, b) <=> a < b
      /\ Compare("<=", a, b) <=> a <= b
  BY DEF Compare
<1>5. (a > b <=> b < a) /\ (a >= b <=> b <= a)
  OBVIOUS
<1> QED BY <1>2, <1>3, <1>4, <1>5, Zenon

(* Comparisons are truth values.                                           *)
LEMMA ComparesType ==
    ASSUME NEW o \in Comparators, NEW a \in Int \cup {NULL}, NEW b \in Int \cup {NULL}
    PROVE  SqlCompare(o, a, b) \in Truths
<1>1. CASE a = NULL \/ b = NULL
  BY <1>1, ComparesNull DEF Truths
<1>2. CASE a # NULL /\ b # NULL
  <2>1. a \in Int /\ b \in Int
    BY <1>2
  <2>2. /\ SqlCompare("=", a, b) \in {0, 1} /\ SqlCompare("#", a, b) \in {0, 1}
        /\ SqlCompare("<", a, b) \in {0, 1} /\ SqlCompare("<=", a, b) \in {0, 1}
        /\ SqlCompare(">", a, b) \in {0, 1} /\ SqlCompare(">=", a, b) \in {0, 1}
    BY <2>1, ComparesNumbers, Zenon
  <2> QED BY <2>2, Zenon DEF Comparators, Truths
<1> QED BY <1>1, <1>2

(* Comparison, with > and >= flipped, is SQL's.                            *)
LEMMA ComparisonAt ==
    ASSUME NEW n \in Nat \ {0}, NEW l, NEW r, Shaped(l, n), Shaped(r, n), NEW o \in Comparators
    PROVE  /\ Shaped(Comparison(o, l, r), n)
           /\ \A i \in 1 .. n : At(Comparison(o, l, r), i) = SqlCompare(o, At(l, i), At(r, i))
<1>1. PICK u : u = Unflipped(o)
  OBVIOUS
<1>2. PICK a : a = IF Flipped(o) THEN r ELSE l
  OBVIOUS
<1>3. PICK b : b = IF Flipped(o) THEN l ELSE r
  OBVIOUS
<1>4. Comparison(o, l, r) = WithDefaultNullLogic(u, a, b)
  BY <1>1, <1>2, <1>3 DEF Comparison
<1>5. /\ o = ">" => u = "<" /\ a = r /\ b = l
      /\ o = ">=" => u = "<=" /\ a = r /\ b = l
      /\ o \notin {">", ">="} => u = o /\ a = l /\ b = r
  BY <1>1, <1>2, <1>3, Zenon DEF Unflipped, Flipped
<1>6. u \in DefaultOperators /\ Shaped(a, n) /\ Shaped(b, n)
  BY <1>5 DEF DefaultOperators, Comparators
<1>7. /\ Shaped(WithDefaultNullLogic(u, a, b), n)
      /\ \A i \in 1 .. n : At(WithDefaultNullLogic(u, a, b), i) = Strictly(u, At(a, i), At(b, i))
  BY <1>6, DefaultLogic
<1>8. ASSUME NEW i \in 1 .. n
      PROVE  At(WithDefaultNullLogic(u, a, b), i) = SqlCompare(o, At(l, i), At(r, i))
  <2>1. PICK x \in Int \cup {NULL} : x = At(l, i)
    BY ShapedTypes
  <2>2. PICK y \in Int \cup {NULL} : y = At(r, i)
    BY ShapedTypes
  <2>3. At(WithDefaultNullLogic(u, a, b), i) =
            IF x = NULL \/ y = NULL THEN NULL
            ELSE IF o \in {">", ">="} THEN BinaryFunctor(u, y, x) ELSE BinaryFunctor(u, x, y)
    BY <1>5, <1>7, <2>1, <2>2, Zenon DEF Strictly
  <2>4. CASE x = NULL \/ y = NULL
    BY <2>1, <2>2, <2>3, <2>4, ComparesNull
  <2>5. CASE x # NULL /\ y # NULL
    <3>1. x \in Int /\ y \in Int
      BY <2>5
    <3>2. /\ BinaryFunctor("=", x, y) = SqlCompare("=", x, y)
          /\ BinaryFunctor("#", x, y) = SqlCompare("#", x, y)
          /\ BinaryFunctor("<", x, y) = SqlCompare("<", x, y)
          /\ BinaryFunctor("<=", x, y) = SqlCompare("<=", x, y)
          /\ BinaryFunctor("<", y, x) = SqlCompare(">", x, y)
          /\ BinaryFunctor("<=", y, x) = SqlCompare(">=", x, y)
      BY <3>1, Functors, ComparesNumbers, ZenonT(60)
    <3>3. CASE o = ">"
      BY <3>3, <2>1, <2>2, <2>3, <2>5, <1>5, <3>2, Zenon
    <3>4. CASE o = ">="
      BY <3>4, <2>1, <2>2, <2>3, <2>5, <1>5, <3>2, Zenon
    <3>5. CASE o \notin {">", ">="}
      <4>1. u = o /\ o \in {"=", "#", "<", "<="}
        BY <3>5, <1>5 DEF Comparators
      <4>2. At(WithDefaultNullLogic(u, a, b), i) = BinaryFunctor(o, x, y)
        BY <3>5, <4>1, <2>3, <2>5, Zenon
      <4>3. BinaryFunctor(o, x, y) = SqlCompare(o, x, y)
        BY <4>1, <3>2, Zenon
      <4> QED BY <4>2, <4>3, <2>1, <2>2
    <3> QED BY <3>3, <3>4, <3>5
  <2> QED BY <2>4, <2>5
<1> QED BY <1>4, <1>7, <1>8

(* CASE takes a branch row by row.                                         *)
LEMMA CaseAt ==
    ASSUME NEW n \in Nat \ {0}, NEW w, NEW l, NEW r, Shaped(w, n), Shaped(l, n), Shaped(r, n),
           \A i \in 1 .. n : At(w, i) \in Truths
    PROVE  /\ Shaped(CaseResult(w, l, r), n)
           /\ \A i \in 1 .. n :
                 At(CaseResult(w, l, r), i) = IF At(w, i) = 1 THEN At(l, i) ELSE At(r, i)
<1>1. Size(w) \in {1, n} /\ Size(l) \in {1, n} /\ Size(r) \in {1, n}
  BY DEF Shaped, Size
<1>2. Size(w) \in Nat \ {0} /\ Size(l) \in Nat \ {0} /\ Size(r) \in Nat \ {0}
  BY <1>1
<1>3. ResultSize({Size(w), Size(l), Size(r)}) = Larger(Size(w), Larger(Size(l), Size(r)))
  BY <1>2, ThreeSizes
<1>4. PICK s \in {1, n} : /\ ResultSize({Size(w), Size(l), Size(r)}) = s
                          /\ s >= Size(w) /\ s >= Size(l) /\ s >= Size(r)
  BY <1>1, <1>3 DEF Larger
<1> DEFINE chosen(i) == IF Value(w, i) # 0 /\ ~IsNull(w, i) THEN l ELSE r
<1>5. PICK f : f = [i \in 1 .. s |-> Value(chosen(i), i)]
  OBVIOUS
<1>6. PICK g : g = [i \in 1 .. s |-> IsNull(chosen(i), i)]
  OBVIOUS
<1>7. CaseResult(w, l, r) = Series(f, g)
  BY <1>4, <1>5, <1>6 DEF CaseResult
<1>8. f \in [1 .. s -> Int] /\ g \in [1 .. s -> BOOLEAN]
  <2>1. ASSUME NEW i \in 1 .. s PROVE Value(chosen(i), i) \in Int /\ IsNull(chosen(i), i) \in BOOLEAN
    <3>1. i \in 1 .. n
      BY <1>4
    <3>2. Value(l, i) \in Int /\ IsNull(l, i) \in BOOLEAN /\ Value(r, i) \in Int /\ IsNull(r, i) \in BOOLEAN
      BY <3>1, ShapedTypes
    <3>3. chosen(i) \in {l, r}
      OBVIOUS
    <3> HIDE DEF chosen
    <3> QED BY <3>2, <3>3, Zenon
  <2> HIDE DEF chosen
  <2> QED BY <1>5, <1>6, <2>1
<1>9. /\ Shaped(Series(f, g), n)
      /\ \A i \in 1 .. n : At(Series(f, g), i) = Under(g[Smaller(i, s)], f[Smaller(i, s)])
  BY <1>8, PairsShaped
<1>10. ASSUME NEW i \in 1 .. n
       PROVE  At(Series(f, g), i) = IF At(w, i) = 1 THEN At(l, i) ELSE At(r, i)
  <2>1. PICK j \in 1 .. s : j = Smaller(i, s)
    BY <1>4, Clamped
  <2>2. /\ Value(w, j) = Value(w, i) /\ IsNull(w, j) = IsNull(w, i)
        /\ Value(l, j) = Value(l, i) /\ IsNull(l, j) = IsNull(l, i)
        /\ Value(r, j) = Value(r, i) /\ IsNull(r, j) = IsNull(r, i)
    BY <1>4, <2>1, Clamped
  <2>3. g[j] = IsNull(chosen(j), j) /\ f[j] = Value(chosen(j), j)
    BY <1>5, <1>6
  <2>4. At(Series(f, g), i) = Under(g[j], f[j])
    BY <1>9, <2>1
  <2>5. chosen(j) = IF At(w, i) = 1 THEN l ELSE r
    <3>1. At(w, i) = IF IsNull(w, i) THEN NULL ELSE Value(w, i)
      BY DEF At
    <3>2. IsNull(w, i) => At(w, i) # 1
      BY <3>1, NullAssumption
    <3>3. ~IsNull(w, i) => (Value(w, i) # 0 <=> At(w, i) = 1)
      <4>1. (At(w, i) = NULL <=> IsNull(w, i)) /\ At(w, i) \in Truths
        BY ShapedTypes
      <4>2. ASSUME ~IsNull(w, i) PROVE Value(w, i) = At(w, i) /\ At(w, i) \in {0, 1}
        BY <4>1, <4>2, <3>1 DEF Truths
      <4> QED BY <4>2
    <3> QED BY <2>2, <3>2, <3>3, Zenon
  <2>6. CASE At(w, i) = 1
    <3>1. chosen(j) = l
      BY <2>5, <2>6
    <3> HIDE DEF chosen
    <3> QED BY <2>2, <2>3, <2>4, <2>6, <3>1, Zenon DEF At, Under
  <2>7. CASE At(w, i) # 1
    <3>1. chosen(j) = r
      BY <2>5, <2>7
    <3> HIDE DEF chosen
    <3> QED BY <2>2, <2>3, <2>4, <2>7, <3>1, Zenon DEF At, Under
  <2> QED BY <2>6, <2>7
<1> QED BY <1>7, <1>9, <1>10

(* A result without flags.                                                 *)
LEMMA PlainShaped ==
    ASSUME NEW n \in Nat \ {0}, NEW s \in {1, n}, NEW f \in [1 .. s -> Int]
    PROVE  /\ Shaped(Series(f, <<>>), n)
           /\ \A i \in 1 .. n : At(Series(f, <<>>), i) = f[Smaller(i, s)]
<1>1. PICK g : g = <<>>
  OBVIOUS
<1>2. FlagsFor(g, s, n)
  BY <1>1 DEF FlagsFor
<1>3. /\ Shaped(Series(f, g), n)
      /\ \A i \in 1 .. n : /\ Value(Series(f, g), i) = f[Smaller(i, s)]
                           /\ IsNull(Series(f, g), i) = FlagAt(g, i)
  BY <1>2, SeriesShaped, ZenonT(60)
<1>4. \A i \in 1 .. n : ~FlagAt(g, i)
  BY <1>1 DEF FlagAt
<1> QED BY <1>1, <1>3, <1>4 DEF At

(* IS NULL and IS NOT NULL.                                                *)
LEMMA IsNullAt ==
    ASSUME NEW n \in Nat \ {0}, NEW l, Shaped(l, n), NEW node, node.negated \in BOOLEAN
    PROVE  /\ Shaped(IsNullResult(node, l), n)
           /\ \A i \in 1 .. n : At(IsNullResult(node, l), i) = Bit((At(l, i) = NULL) # node.negated)
<1>1. PICK a : a = AsView(l)
  OBVIOUS
<1>2. Shaped(a, n) /\ \A i \in 1 .. n : At(a, i) = At(l, i)
  BY <1>1, Views
<1>3. PICK s \in {1, n} : s = Size(a)
  BY <1>2 DEF Shaped, Size
<1>4. PICK f : f = [i \in 1 .. s |-> Bit(IsNull(a, i) # node.negated)]
  OBVIOUS
<1>6. IsNullResult(node, l) = Series(f, <<>>)
  BY <1>1, <1>3, <1>4 DEF IsNullResult
<1>7. f \in [1 .. s -> Int]
  <2>1. \A b : Bit(b) \in Int
    BY DEF Bit
  <2> QED BY <1>4, <2>1
<1>9. /\ Shaped(Series(f, <<>>), n)
      /\ \A i \in 1 .. n : At(Series(f, <<>>), i) = f[Smaller(i, s)]
  BY <1>7, PlainShaped
<1>10. ASSUME NEW i \in 1 .. n
       PROVE  At(Series(f, <<>>), i) = Bit((At(l, i) = NULL) # node.negated)
  <2>1. PICK j \in 1 .. s : j = Smaller(i, s)
    BY <1>2, <1>3, Clamped
  <2>2. IsNull(a, j) = IsNull(a, i)
    BY <1>2, <1>3, <2>1, Clamped
  <2>4. At(Series(f, <<>>), i) = f[j]
    BY <1>9, <2>1
  <2>5. f[j] = Bit(IsNull(a, j) # node.negated)
    BY <1>4
  <2>6. (At(a, i) = NULL) <=> IsNull(a, i)
    BY <1>2, ShapedTypes
  <2>7. At(a, i) = At(l, i)
    BY <1>2
  <2>8. IsNull(a, i) \in BOOLEAN
    BY <1>2, ShapedTypes
  <2>9. IsNull(a, j) = (At(l, i) = NULL)
    BY <2>2, <2>6, <2>7, <2>8, Zenon
  <2> QED BY <2>4, <2>5, <2>9, Zenon
<1> QED BY <1>6, <1>9, <1>10

(* Unary minus.                                                            *)
LEMMA MinusAt ==
    ASSUME NEW n \in Nat \ {0}, NEW l, Shaped(l, n)
    PROVE  /\ Shaped(UnaryMinusResult(l), n)
           /\ \A i \in 1 .. n :
                 At(UnaryMinusResult(l), i) = IF At(l, i) = NULL THEN NULL ELSE -At(l, i)
<1>1. /\ l.values \in Seq(Int) /\ l.nulls \in Seq(BOOLEAN)
      /\ Len(l.values) \in {1, n} /\ Len(l.nulls) \in {0, 1, n}
      /\ (Len(l.nulls) > 1 => Len(l.values) = n)
  BY DEF Shaped
<1>2. PICK s \in {1, n} : s = Len(l.values)
  BY <1>1
<1>3. PICK f : f = [i \in 1 .. s |-> -l.values[i]]
  OBVIOUS
<1>4. PICK g : g = l.nulls
  OBVIOUS
<1>5. UnaryMinusResult(l) = Series(f, g)
  BY <1>1, <1>2, <1>3, <1>4 DEF UnaryMinusResult
<1>6. f \in [1 .. s -> Int]
  BY <1>1, <1>2, <1>3
<1>7. FlagsFor(g, s, n)
  BY <1>1, <1>2, <1>4 DEF FlagsFor
<1>8. /\ Shaped(Series(f, g), n)
      /\ \A i \in 1 .. n : /\ Value(Series(f, g), i) = f[Smaller(i, s)]
                           /\ IsNull(Series(f, g), i) = FlagAt(g, i)
  BY <1>6, <1>7, SeriesShaped, ZenonT(60)
<1>9. ASSUME NEW i \in 1 .. n
      PROVE  At(Series(f, g), i) = IF At(l, i) = NULL THEN NULL ELSE -At(l, i)
  <2>1. PICK j \in 1 .. s : j = Smaller(i, s)
    BY <1>2 DEF Smaller
  <2>2. Value(l, i) = l.values[j] /\ (IsNull(l, i) <=> FlagAt(g, i))
    BY <1>2, <1>4, <2>1, Zenon DEF Value, Size, IsNull, FlagAt
  <2>3. f[j] = -l.values[j]
    BY <1>3
  <2>4. (At(l, i) = NULL) <=> IsNull(l, i)
    BY ShapedTypes
  <2> QED BY <1>8, <2>1, <2>2, <2>3, <2>4, Zenon DEF At
<1> QED BY <1>5, <1>8, <1>9

(* SQL's IN in a list of numbers.                                          *)
LEMMA InNumbers ==
    ASSUME NEW list \in Seq(Int), list # <<>>, NEW a \in Int \cup {NULL}
    PROVE  SqlIn(a, list) = IF a = NULL THEN NULL
                            ELSE IF \E k \in DOMAIN list : list[k] = a THEN 1 ELSE 0
<1>0. NULL # 1 /\ NULL # 0
  BY NullAssumption
<1>1. CASE a = NULL
  <2>1. \A k \in DOMAIN list : SqlCompare("=", a, list[k]) = NULL
    BY <1>1, ComparesNull
  <2>2. 1 \in DOMAIN list
    OBVIOUS
  <2> QED BY <1>0, <1>1, <2>1, <2>2 DEF SqlIn
<1>2. CASE a # NULL
  <2>1. ASSUME NEW k \in DOMAIN list
        PROVE  /\ (SqlCompare("=", a, list[k]) = 1 <=> list[k] = a)
               /\ SqlCompare("=", a, list[k]) # NULL
    <3>1. a \in Int /\ list[k] \in Int
      BY <1>2
    <3>2. SqlCompare("=", a, list[k]) = IF a = list[k] THEN 1 ELSE 0
      BY <3>1, ComparesNumbers
    <3> QED BY <3>2, <1>0
  <2> QED BY <1>2, <2>1 DEF SqlIn
<1> QED BY <1>1, <1>2

(* IN and NOT IN of SQL.                                                   *)
SqlInNode(node, a) == IF node.negated THEN SqlNot(SqlIn(a, node.list)) ELSE SqlIn(a, node.list)

(* The scan of a list of numbers.                                          *)
LEMMA ScanAt ==
    ASSUME NEW n \in Nat \ {0}, NEW l, Shaped(l, n), NEW node, node.negated \in BOOLEAN,
           node.list \in Seq(Int), node.list # <<>>
    PROVE  /\ Shaped(InByScanning(node, l, node.list), n)
           /\ \A i \in 1 .. n : At(InByScanning(node, l, node.list), i) = SqlInNode(node, At(l, i))
<1>0. NULL # 1 /\ NULL # 0
  BY NullAssumption
<1>1. PICK a : a = AsView(l)
  OBVIOUS
<1>2. Shaped(a, n) /\ \A i \in 1 .. n : At(a, i) = At(l, i)
  BY <1>1, Views
<1>3. PICK s \in {1, n} : s = Size(a)
  BY <1>2 DEF Shaped, Size
<1> DEFINE found(i) == \E k \in DOMAIN node.list : node.list[k] = Value(a, i)
           bit(i) == Bit(IF IsNull(a, i) THEN node.negated ELSE found(i) # node.negated)
<1>4. PICK f : f = [i \in 1 .. s |-> bit(i)]
  OBVIOUS
<1>5. PICK g : g = [i \in 1 .. s |-> IsNull(a, i)]
  OBVIOUS
<1>6. InByScanning(node, l, node.list) = Series(f, IF a.nulls = <<>> THEN <<>> ELSE g)
  BY <1>1, <1>3, <1>4, <1>5 DEF InByScanning
<1>7. f \in [1 .. s -> Int]
  <2>1. \A i \in 1 .. s : bit(i) \in Int
    BY DEF Bit
  <2> HIDE DEF bit
  <2> QED BY <1>4, <2>1
<1>8. g \in [1 .. s -> BOOLEAN]
  <2>1. ASSUME NEW i \in 1 .. s PROVE IsNull(a, i) \in BOOLEAN
    <3>1. i \in 1 .. n
      BY <1>3
    <3> QED BY <3>1, <1>2, ShapedTypes
  <2> QED BY <1>5, <2>1
<1>9. ASSUME NEW i \in 1 .. n
      PROVE  /\ IsNull(a, i) => SqlInNode(node, At(l, i)) = NULL
             /\ ~IsNull(a, i) => SqlInNode(node, At(l, i)) = bit(i)
  <2>1. PICK x \in Int \cup {NULL} : x = At(l, i)
    BY ShapedTypes
  <2>2. (x = NULL <=> IsNull(a, i)) /\ (~IsNull(a, i) => x = Value(a, i))
    <3>1. (At(a, i) = NULL) <=> IsNull(a, i)
      BY <1>2, ShapedTypes
    <3>2. At(a, i) = x
      BY <1>2, <2>1
    <3> QED BY <3>1, <3>2 DEF At
  <2>3. PICK q : q = node.list
    OBVIOUS
  <2>4. SqlIn(x, q) = IF x = NULL THEN NULL ELSE IF \E k \in DOMAIN q : q[k] = x THEN 1 ELSE 0
    <3>1. q \in Seq(Int) /\ q # <<>>
      BY <2>3
    <3> QED BY <3>1, InNumbers
  <2>5. CASE x = NULL
    BY <2>1, <2>2, <2>3, <2>4, <2>5 DEF SqlInNode, SqlNot
  <2>6. CASE x # NULL
    <3>1. ~IsNull(a, i) /\ x = Value(a, i)
      BY <2>2, <2>6
    <3>2. SqlIn(x, q) = IF found(i) THEN 1 ELSE 0
      BY <2>3, <2>4, <2>6, <3>1
    <3>3. bit(i) = IF found(i) # node.negated THEN 1 ELSE 0
      <4> HIDE DEF found
      <4> QED BY <3>1, Zenon DEF Bit
    <3>4. PICK h \in BOOLEAN : h <=> found(i)
      OBVIOUS
    <3>5. SqlIn(x, q) = (IF h THEN 1 ELSE 0) /\ bit(i) = (IF h # node.negated THEN 1 ELSE 0)
      <4>1. h = found(i)
        BY <3>4
      <4> HIDE DEF found, bit
      <4> QED BY <3>2, <3>3, <4>1, Zenon
    <3> HIDE DEF bit, found
    <3>6. SqlInNode(node, x) = bit(i)
      <4>1. CASE h
        <5>1. SqlIn(x, q) = 1 /\ bit(i) = IF node.negated THEN 0 ELSE 1
          BY <4>1, <3>5, Zenon
        <5>2. SqlNot(1) = 0
          BY <1>0 DEF SqlNot
        <5> QED BY <5>1, <5>2, <2>3, Zenon DEF SqlInNode
      <4>2. CASE ~h
        <5>1. SqlIn(x, q) = 0 /\ bit(i) = IF node.negated THEN 1 ELSE 0
          BY <4>2, <3>5, Zenon
        <5>2. SqlNot(0) = 1
          BY <1>0 DEF SqlNot
        <5> QED BY <5>1, <5>2, <2>3, Zenon DEF SqlInNode
      <4> QED BY <4>1, <4>2
    <3> QED BY <3>1, <3>6, <2>1
  <2> QED BY <2>5, <2>6
<1>10. ASSUME NEW i \in 1 .. n
       PROVE  \E j \in 1 .. s : /\ j = Smaller(i, s) /\ j \in 1 .. n /\ IsNull(a, j) = IsNull(a, i)
                                /\ bit(j) = bit(i)
  <2>1. PICK j \in 1 .. s : j = Smaller(i, s) /\ j \in 1 .. n
    BY <1>2, <1>3, Clamped
  <2>2. Value(a, j) = Value(a, i) /\ IsNull(a, j) = IsNull(a, i)
    BY <1>2, <1>3, <2>1, Clamped
  <2>3. bit(j) = bit(i)
    BY <2>2
  <2> HIDE DEF bit
  <2> QED BY <2>1, <2>2, <2>3
<1> HIDE DEF bit, found
<1>11. CASE a.nulls = <<>>
  <2>1. InByScanning(node, l, node.list) = Series(f, <<>>)
    BY <1>6, <1>11
  <2>2. /\ Shaped(Series(f, <<>>), n)
        /\ \A i \in 1 .. n : At(Series(f, <<>>), i) = f[Smaller(i, s)]
    BY <1>7, PlainShaped
  <2>3. ASSUME NEW i \in 1 .. n PROVE f[Smaller(i, s)] = SqlInNode(node, At(l, i))
    <3>1. ~IsNull(a, i)
      BY <1>11 DEF IsNull
    <3>2. f[Smaller(i, s)] = bit(i)
      BY <1>4, <1>10
    <3> QED BY <3>1, <3>2, <1>9
  <2> QED BY <2>1, <2>2, <2>3
<1>12. CASE a.nulls # <<>>
  <2>1. InByScanning(node, l, node.list) = Series(f, g)
    BY <1>6, <1>12
  <2>2. /\ Shaped(Series(f, g), n)
        /\ \A i \in 1 .. n : At(Series(f, g), i) = Under(g[Smaller(i, s)], f[Smaller(i, s)])
    BY <1>7, <1>8, PairsShaped
  <2>3. ASSUME NEW i \in 1 .. n
        PROVE  Under(g[Smaller(i, s)], f[Smaller(i, s)]) = SqlInNode(node, At(l, i))
    <3>1. PICK j \in 1 .. s : j = Smaller(i, s) /\ IsNull(a, j) = IsNull(a, i) /\ bit(j) = bit(i)
      BY <1>10
    <3>2. g[j] = IsNull(a, i) /\ f[j] = bit(i)
      BY <1>4, <1>5, <3>1
    <3> QED BY <3>1, <3>2, <1>9, Zenon DEF Under
  <2> QED BY <2>1, <2>2, <2>3
<1> QED BY <1>11, <1>12

(* The comparison with one element, and the rewritten list, element by     *)
(* element.                                                                *)
Single(node, l, k) == Comparison(IF node.negated THEN "#" ELSE "=", l, LiteralOf(node.list[k]))
Joined(node, r, s) == IF node.negated THEN And(r, s) ELSE Or(r, s)
JoinsUp(h, node, l) ==
    h = [k \in 1 .. Len(node.list) |->
            IF k = 1 THEN Single(node, l, 1) ELSE Joined(node, h[k - 1], Single(node, l, k))]

(* Every list can be rewritten.                                            *)
LEMMA JoinsExist ==
    ASSUME NEW node, NEW l, Len(node.list) \in Nat
    PROVE  \E h : JoinsUp(h, node, l)
<1> DEFINE N == Len(node.list)
           First == Single(node, l, 1)
           After(k, r) == Joined(node, r, Single(node, l, k))
           Grown(f, m) == f = [k \in 1 .. m |-> IF k = 1 THEN First ELSE After(k, f[k - 1])]
           T == {m \in 0 .. N : \E f : Grown(f, m)}
<1> HIDE DEF First, After, N
<1>0. N \in Nat
  BY DEF N
<1>1. 0 \in T
  <2>1. Grown([k \in 1 .. 0 |-> First], 0)
    OBVIOUS
  <2>2. 0 \in 0 .. N
    BY <1>0
  <2> HIDE DEF Grown
  <2> QED BY <2>1, <2>2
<1>2. ASSUME NEW m \in 0 .. N - 1, m \in T PROVE m + 1 \in T
  <2>1. PICK f : Grown(f, m)
    BY <1>2
  <2> DEFINE g == [k \in 1 .. m + 1 |-> IF k <= m THEN f[k] ELSE IF m = 0 THEN First ELSE After(m + 1, f[m])]
  <2>2. ASSUME NEW k \in 1 .. m + 1
        PROVE  g[k] = IF k = 1 THEN First ELSE After(k, g[k - 1])
    <3>1. CASE k = 1 /\ m # 0
      <4>1. g[k] = f[k]
        BY <3>1, <1>0
      <4>2. f[k] = First
        BY <3>1, <1>0, <2>1
      <4> QED BY <3>1, <4>1, <4>2
    <3>2. CASE k = 1 /\ m = 0
      BY <3>2
    <3>3. CASE k # 1 /\ k <= m
      <4>1. k - 1 \in 1 .. m + 1 /\ k - 1 <= m /\ k \in 1 .. m
        BY <3>3
      <4>2. f[k] = After(k, f[k - 1])
        BY <2>1, <3>3, <4>1
      <4>3. g[k] = f[k] /\ g[k - 1] = f[k - 1]
        BY <4>1, <3>3
      <4> HIDE DEF g
      <4> QED BY <3>3, <4>2, <4>3
    <3>4. CASE k # 1 /\ k = m + 1
      <4>1. k - 1 = m /\ m \in 1 .. m + 1 /\ ~(k <= m) /\ m # 0
        BY <3>4, <1>0
      <4>2. g[k] = After(m + 1, f[m]) /\ g[m] = f[m]
        BY <4>1, <3>4
      <4> HIDE DEF g
      <4> QED BY <4>1, <4>2, <3>4
    <3> QED BY <3>1, <3>2, <3>3, <3>4, <1>0
  <2>3. Grown(g, m + 1)
    <3>1. g = [k \in 1 .. m + 1 |-> g[k]]
      OBVIOUS
    <3> HIDE DEF g
    <3> QED BY <3>1, <2>2
  <2>4. m + 1 \in 0 .. N
    BY <1>0
  <2> HIDE DEF g, Grown
  <2> QED BY <2>3, <2>4
<1>3. N \in T
  <2> HIDE DEF T
  <2>1. \A m \in 0 .. N - 1 : m \in T => m + 1 \in T
    BY <1>2
  <2>2. \A m \in 0 .. N : m \in T
    BY <1>0, <1>1, <2>1, BoundedInduction
  <2> QED BY <1>0, <2>2
<1>4. PICK f : Grown(f, N)
  BY <1>3
<1> QED BY <1>4 DEF N, First, After, JoinsUp

(* IN in the first k elements of a list.                                   *)
InFirst(a, list, k) ==
    IF \E j \in 1 .. k : SqlCompare("=", a, list[j]) = 1 THEN 1
    ELSE IF \E j \in 1 .. k : SqlCompare("=", a, list[j]) = NULL THEN NULL ELSE 0

(* NOT is its own inverse, and OR is what it looks like.                   *)
LEMMA Logic ==
    ASSUME NEW x \in Truths, NEW y \in Truths
    PROVE  /\ SqlNot(x) \in Truths /\ SqlNot(SqlNot(x)) = x
           /\ SqlAnd(x, y) \in Truths /\ SqlOr(x, y) \in Truths
           /\ SqlOr(x, y) = IF x = 1 \/ y = 1 THEN 1 ELSE IF x = NULL \/ y = NULL THEN NULL ELSE 0
           /\ SqlAnd(SqlNot(x), SqlNot(y)) = SqlNot(SqlOr(x, y))
<1>0. NULL # 0 /\ NULL # 1
  BY NullAssumption
<1>1. SqlNot(x) \in Truths /\ SqlNot(SqlNot(x)) = x
  BY <1>0 DEF SqlNot, Truths
<1>2. SqlAnd(x, y) \in Truths
  BY <1>0 DEF SqlAnd, Truths
<1>3. SqlOr(x, y) = IF x = 1 \/ y = 1 THEN 1 ELSE IF x = NULL \/ y = NULL THEN NULL ELSE 0
  BY <1>0 DEF SqlOr, SqlNot, SqlAnd, Truths
<1>4. SqlOr(x, y) \in Truths
  BY <1>3 DEF Truths
<1>5. SqlAnd(SqlNot(x), SqlNot(y)) = SqlNot(SqlOr(x, y))
  BY <1>0, <1>3 DEF SqlNot, SqlAnd, Truths
<1> QED BY <1>1, <1>2, <1>3, <1>4, <1>5

(* One more element.                                                       *)
LEMMA InFirstNext ==
    ASSUME NEW a \in Int \cup {NULL}, NEW list \in Seq(Int \cup {NULL}), NEW k \in 2 .. Len(list)
    PROVE  /\ InFirst(a, list, k - 1) \in Truths
           /\ InFirst(a, list, k) = SqlOr(InFirst(a, list, k - 1), SqlCompare("=", a, list[k]))
<1>0. NULL # 0 /\ NULL # 1
  BY NullAssumption
<1>1. InFirst(a, list, k - 1) \in Truths
  BY DEF InFirst, Truths
<1>2. PICK c \in Truths : c = SqlCompare("=", a, list[k])
  <2>1. list[k] \in Int \cup {NULL}
    OBVIOUS
  <2>2. "=" \in Comparators
    BY DEF Comparators
  <2> QED BY <2>1, <2>2, ComparesType
<1>3. PICK u \in Truths : u = InFirst(a, list, k - 1)
  BY <1>1
<1>4. SqlOr(u, c) = IF u = 1 \/ c = 1 THEN 1 ELSE IF u = NULL \/ c = NULL THEN NULL ELSE 0
  BY Logic
<1>5. \A j : j \in 1 .. k <=> j \in 1 .. k - 1 \/ j = k
  OBVIOUS
<1>6. u = 1 <=> \E j \in 1 .. k - 1 : SqlCompare("=", a, list[j]) = 1
  BY <1>0, <1>3 DEF InFirst
<1>7. u = NULL <=> /\ ~ \E j \in 1 .. k - 1 : SqlCompare("=", a, list[j]) = 1
                   /\ \E j \in 1 .. k - 1 : SqlCompare("=", a, list[j]) = NULL
  BY <1>0, <1>3 DEF InFirst
<1>8. (\E j \in 1 .. k : SqlCompare("=", a, list[j]) = 1) <=> u = 1 \/ c = 1
  BY <1>2, <1>5, <1>6, Zenon
<1>9. ~(u = 1 \/ c = 1) => ((\E j \in 1 .. k : SqlCompare("=", a, list[j]) = NULL) <=> u = NULL \/ c = NULL)
  BY <1>2, <1>5, <1>6, <1>7, Zenon
<1>10. InFirst(a, list, k) = SqlOr(u, c)
  BY <1>4, <1>8, <1>9, Zenon DEF InFirst
<1> QED BY <1>1, <1>2, <1>3, <1>10

(* A comparison with one element.                                          *)
LEMMA SingleAt ==
    ASSUME NEW n \in Nat \ {0}, NEW l, Shaped(l, n), NEW node, node.negated \in BOOLEAN,
           NEW list \in Seq(Int \cup {NULL}), list = node.list, NEW k \in 1 .. Len(list)
    PROVE  /\ Shaped(Single(node, l, k), n)
           /\ \A i \in 1 .. n :
                 LET c == SqlCompare("=", At(l, i), list[k])
                 IN c \in Truths /\ At(Single(node, l, k), i) = IF node.negated THEN SqlNot(c) ELSE c
<1>0. NULL # 0 /\ NULL # 1
  BY NullAssumption
<1>1. PICK v \in Int \cup {NULL} : v = list[k]
  <2>1. list[k] \in Int \cup {NULL}
    BY ElementOfSeq, Zenon
  <2> QED BY <2>1, Zenon
<1>2. Shaped(LiteralOf(v), n) /\ \A i \in 1 .. n : At(LiteralOf(v), i) = v
  BY Literals
<1>3. PICK o \in Comparators : o = IF node.negated THEN "#" ELSE "="
  BY DEF Comparators
<1>4. PICK r : r = LiteralOf(v)
  OBVIOUS
<1>5. Single(node, l, k) = Comparison(o, l, r)
  BY <1>1, <1>3, <1>4 DEF Single
<1>6. /\ Shaped(Comparison(o, l, r), n)
      /\ \A i \in 1 .. n : At(Comparison(o, l, r), i) = SqlCompare(o, At(l, i), At(r, i))
  BY <1>2, <1>4, ComparisonAt
<1>7. ASSUME NEW i \in 1 .. n
      PROVE  /\ SqlCompare("=", At(l, i), v) \in Truths
             /\ SqlCompare(o, At(l, i), v) = IF node.negated THEN SqlNot(SqlCompare("=", At(l, i), v))
                                             ELSE SqlCompare("=", At(l, i), v)
  <2>1. PICK a \in Int \cup {NULL} : a = At(l, i)
    BY ShapedTypes
  <2>2. "=" \in Comparators
    BY DEF Comparators
  <2>3. SqlCompare("=", a, v) \in Truths
    BY <2>2, ComparesType
  <2>4. SqlCompare("#", a, v) = SqlNot(SqlCompare("=", a, v))
    <3>1. CASE a = NULL \/ v = NULL
      <4>1. SqlCompare("#", a, v) = NULL /\ SqlCompare("=", a, v) = NULL
        BY <3>1, ComparesNull
      <4> QED BY <4>1 DEF SqlNot
    <3>2. CASE a # NULL /\ v # NULL
      <4>1. a \in Int /\ v \in Int
        BY <3>2
      <4>2. /\ SqlCompare("=", a, v) = IF a = v THEN 1 ELSE 0
            /\ SqlCompare("#", a, v) = IF a # v THEN 1 ELSE 0
        BY <4>1, ComparesNumbers
      <4> QED BY <4>2, <1>0 DEF SqlNot
    <3> QED BY <3>1, <3>2
  <2> QED BY <2>1, <2>3, <2>4, <1>3, Zenon
<1> QED BY <1>1, <1>2, <1>4, <1>5, <1>6, <1>7, ZenonT(60)

(* What a rewritten list is after k of its elements.                       *)
SqlInFirst(node, a, k) ==
    IF node.negated THEN SqlNot(InFirst(a, node.list, k)) ELSE InFirst(a, node.list, k)

(* The results of two parts of a rewritten list are joined as SQL says.    *)
LEMMA JoinedAt ==
    ASSUME NEW n \in Nat \ {0}, NEW r, NEW s, Shaped(r, n), Shaped(s, n), NEW node, node.negated \in BOOLEAN,
           \A i \in 1 .. n : At(r, i) \in Truths /\ At(s, i) \in Truths
    PROVE  /\ Shaped(Joined(node, r, s), n)
           /\ \A i \in 1 .. n : At(Joined(node, r, s), i) = IF node.negated THEN SqlAnd(At(r, i), At(s, i))
                                                            ELSE SqlOr(At(r, i), At(s, i))
<1>1. PICK o \in {"/", "%", "and", "or"} : o = IF node.negated THEN "and" ELSE "or"
  OBVIOUS
<1>2. Joined(node, r, s) = WithFunctorNullLogic(o, r, s)
  BY <1>1 DEF Joined, And, Or
<1>3. /\ Shaped(WithFunctorNullLogic(o, r, s), n)
      /\ \A i \in 1 .. n : At(WithFunctorNullLogic(o, r, s), i) = Functored(o, At(r, i), At(s, i))
  BY FunctorLogic
<1>4. \A x, y : Functored(o, x, y) = IF node.negated THEN SqlAnd(x, y) ELSE SqlOr(x, y)
  BY <1>1, Zenon DEF Functored
<1> QED BY <1>2, <1>3, <1>4, Zenon

(* The rewriting of a list with NULLs.                                     *)
LEMMA RewriteAt ==
    ASSUME NEW n \in Nat \ {0}, NEW l, Shaped(l, n), NEW node, node.negated \in BOOLEAN,
           NEW list \in Seq(Int \cup {NULL}), list = node.list, list # <<>>
    PROVE  /\ Shaped(InByRewriting(node, l, list), n)
           /\ \A i \in 1 .. n : At(InByRewriting(node, l, list), i) = SqlInNode(node, At(l, i))
<1>0. Len(list) \in Nat \ {0} /\ DOMAIN list = 1 .. Len(list)
  OBVIOUS
<1>1. PICK h : JoinsUp(h, node, l) /\ InByRewriting(node, l, list) = h[Len(list)]
  <2> DEFINE Equation(f) == f = [k \in DOMAIN list |->
                IF k = 1 THEN Comparison(IF node.negated THEN "#" ELSE "=", l, LiteralOf(list[1]))
                ELSE IF node.negated
                THEN And(f[k - 1], Comparison(IF node.negated THEN "#" ELSE "=", l, LiteralOf(list[k])))
                ELSE Or(f[k - 1], Comparison(IF node.negated THEN "#" ELSE "=", l, LiteralOf(list[k])))]
             f == CHOOSE f : Equation(f)
  <2>1. InByRewriting(node, l, list) = f[Len(list)]
    BY DEF InByRewriting
  <2>2. \E g : Equation(g)
    <3>1. PICK g : JoinsUp(g, node, l)
      BY <1>0, JoinsExist
    <3>2. Equation(g)
      BY <3>1, <1>0 DEF JoinsUp, Joined, Single
    <3> HIDE DEF Equation
    <3> QED BY <3>2
  <2>3. Equation(f)
    <3> HIDE DEF Equation
    <3> QED BY <2>2
  <2>4. JoinsUp(f, node, l)
    <3> HIDE DEF f
    <3> QED BY <2>3, <1>0 DEF JoinsUp, Joined, Single
  <2> HIDE DEF f
  <2> QED BY <2>1, <2>4
<1> DEFINE Good(k) == Shaped(h[k], n) /\ \A i \in 1 .. n : At(h[k], i) = SqlInFirst(node, At(l, i), k)
           T == {k \in 1 .. Len(list) : Good(k)}
<1>2. ASSUME NEW k \in 1 .. Len(list), \A m \in 1 .. k - 1 : m \in T PROVE k \in T
  <2>1. CASE k = 1
    <3>1. h[k] = Single(node, l, k)
      BY <1>0, <1>1, <2>1 DEF JoinsUp
    <3>2. Shaped(h[k], n)
      BY <3>1, SingleAt
    <3>3. ASSUME NEW i \in 1 .. n PROVE At(h[k], i) = SqlInFirst(node, At(l, i), k)
      <4>1. PICK c \in Truths : c = SqlCompare("=", At(l, i), list[k])
        BY SingleAt
      <4>2. At(h[k], i) = IF node.negated THEN SqlNot(c) ELSE c
        BY <3>1, <4>1, SingleAt
      <4>3. InFirst(At(l, i), list, k) = c
        <5>1. \A j : j \in 1 .. k <=> j = k
          BY <2>1
        <5> QED BY <5>1, <4>1, NullAssumption DEF InFirst, Truths
      <4> QED BY <4>2, <4>3, Zenon DEF SqlInFirst
    <3> QED BY <3>2, <3>3
  <2>2. CASE k # 1
    <3>0. k \in 2 .. Len(list) /\ k - 1 \in 1 .. k - 1 /\ k - 1 \in 1 .. Len(list)
      BY <2>2, <1>0
    <3>1. h[k] = Joined(node, h[k - 1], Single(node, l, k))
      BY <1>0, <1>1, <2>2 DEF JoinsUp
    <3>2. Good(k - 1)
      BY <1>2, <3>0
    <3>3. PICK r : r = h[k - 1]
      OBVIOUS
    <3>4. PICK s : s = Single(node, l, k)
      OBVIOUS
    <3>5. Shaped(s, n)
      BY <3>4, SingleAt
    <3>6. ASSUME NEW i \in 1 .. n
          PROVE  \E u \in Truths, c \in Truths :
                    /\ At(r, i) = IF node.negated THEN SqlNot(u) ELSE u
                    /\ At(s, i) = IF node.negated THEN SqlNot(c) ELSE c
                    /\ InFirst(At(l, i), list, k) = SqlOr(u, c)
      <4>1. PICK c \in Truths : c = SqlCompare("=", At(l, i), list[k])
        BY SingleAt
      <4>2. At(s, i) = IF node.negated THEN SqlNot(c) ELSE c
        BY <3>4, <4>1, SingleAt
      <4>3. PICK a \in Int \cup {NULL} : a = At(l, i)
        BY ShapedTypes
      <4>4. PICK u \in Truths : u = InFirst(a, list, k - 1)
        BY <3>0, InFirstNext
      <4>5. At(r, i) = IF node.negated THEN SqlNot(u) ELSE u
        BY <3>2, <3>3, <4>3, <4>4, Zenon DEF SqlInFirst
      <4>6. InFirst(a, list, k) = SqlOr(u, c)
        BY <3>0, <4>1, <4>3, <4>4, InFirstNext
      <4> QED BY <4>2, <4>3, <4>5, <4>6
    <3>7. \A i \in 1 .. n : At(r, i) \in Truths /\ At(s, i) \in Truths
      <4> SUFFICES ASSUME NEW i \in 1 .. n PROVE At(r, i) \in Truths /\ At(s, i) \in Truths
        OBVIOUS
      <4>1. PICK u \in Truths, c \in Truths :
                    /\ At(r, i) = IF node.negated THEN SqlNot(u) ELSE u
                    /\ At(s, i) = IF node.negated THEN SqlNot(c) ELSE c
        BY <3>6, Zenon
      <4>2. SqlNot(u) \in Truths /\ SqlNot(c) \in Truths
        BY Logic
      <4> QED BY <4>1, <4>2, Zenon
    <3>8. /\ Shaped(Joined(node, r, s), n)
          /\ \A i \in 1 .. n : At(Joined(node, r, s), i) = IF node.negated THEN SqlAnd(At(r, i), At(s, i))
                                                           ELSE SqlOr(At(r, i), At(s, i))
      BY <3>2, <3>3, <3>5, <3>7, JoinedAt
    <3>9. ASSUME NEW i \in 1 .. n PROVE At(Joined(node, r, s), i) = SqlInFirst(node, At(l, i), k)
      <4>1. PICK u \in Truths, c \in Truths :
                    /\ At(r, i) = IF node.negated THEN SqlNot(u) ELSE u
                    /\ At(s, i) = IF node.negated THEN SqlNot(c) ELSE c
                    /\ InFirst(At(l, i), list, k) = SqlOr(u, c)
        BY <3>6
      <4>2. SqlAnd(SqlNot(u), SqlNot(c)) = SqlNot(SqlOr(u, c))
        BY Logic
      <4> QED BY <3>8, <4>1, <4>2, Zenon DEF SqlInFirst
    <3>10. Good(k)
      BY <3>1, <3>3, <3>4, <3>8, <3>9
    <3> HIDE DEF Good
    <3> QED BY <3>10
  <2> QED BY <2>1, <2>2
<1>3. Good(Len(list))
  <2>1. \A k \in 1 .. Len(list) : k \in T
    <3> HIDE DEF T
    <3> QED BY <1>0, <1>2, CourseOfValues
  <2> HIDE DEF Good
  <2> QED BY <1>0, <2>1
<1>4. ASSUME NEW i \in 1 .. n PROVE SqlInFirst(node, At(l, i), Len(list)) = SqlInNode(node, At(l, i))
  <2>1. InFirst(At(l, i), list, Len(list)) = SqlIn(At(l, i), list)
    BY <1>0 DEF InFirst, SqlIn
  <2> QED BY <2>1 DEF SqlInFirst, SqlInNode
<1> QED BY <1>1, <1>3, <1>4

(* IN and NOT IN, unless a NULL is dropped from a list of strings.         *)
LEMMA InAt ==
    ASSUME NEW n \in Nat \ {0}, NEW l, Shaped(l, n), NEW node, node.negated \in BOOLEAN,
           NEW list \in Seq(Int \cup {NULL}), list = node.list, ~(node.string /\ NULL \in ToSet(list))
    PROVE  /\ Shaped(InResult(node, l), n)
           /\ \A i \in 1 .. n : /\ At(InResult(node, l), i) = SqlInNode(node, At(l, i))
                                /\ SqlInNode(node, At(l, i)) \in Truths
<1>0. NULL # 0 /\ NULL # 1
  BY NullAssumption
<1>1. CompatibleElements(node) = list
  BY Zenon DEF CompatibleElements
<1>2. \A a : SqlInNode(node, a) \in Truths
  <2> SUFFICES ASSUME NEW a PROVE SqlInNode(node, a) \in Truths
    OBVIOUS
  <2>1. PICK x \in Truths : x = SqlIn(a, node.list)
    BY DEF SqlIn, Truths
  <2>2. SqlNot(x) \in Truths
    BY Logic
  <2> QED BY <2>1, <2>2, Zenon DEF SqlInNode
<1>3. CASE list = <<>>
  <2>1. InResult(node, l) = Literal(Bit(node.negated), FALSE)
    BY <1>1, <1>3, Zenon DEF InResult
  <2>2. PICK b \in Int : b = Bit(node.negated)
    BY DEF Bit
  <2>3. Shaped(Literal(b, FALSE), n) /\ \A i \in 1 .. n : At(Literal(b, FALSE), i) = b
    BY LiteralAt
  <2>4. ASSUME NEW a PROVE SqlInNode(node, a) = b
    <3>1. SqlIn(a, list) = 0
      BY <1>3 DEF SqlIn
    <3>2. SqlNot(0) = 1
      BY <1>0 DEF SqlNot
    <3> QED BY <2>2, <3>1, <3>2, Zenon DEF SqlInNode, Bit
  <2> QED BY <2>1, <2>2, <2>3, <2>4, <1>2, Zenon
<1>4. CASE list # <<>> /\ \E k \in DOMAIN list : list[k] = NULL
  <2>1. InResult(node, l) = InByRewriting(node, l, list)
    BY <1>1, <1>4, Zenon DEF InResult
  <2>2. /\ Shaped(InByRewriting(node, l, list), n)
        /\ \A i \in 1 .. n : At(InByRewriting(node, l, list), i) = SqlInNode(node, At(l, i))
    BY <1>4, RewriteAt
  <2> QED BY <2>1, <2>2, <1>2, Zenon
<1>5. CASE list # <<>> /\ ~ \E k \in DOMAIN list : list[k] = NULL
  <2>1. InResult(node, l) = InByScanning(node, l, list)
    BY <1>1, <1>5, Zenon DEF InResult
  <2>2. list \in Seq(Int)
    <3>1. \A k \in DOMAIN list : list[k] \in Int
      BY <1>5
    <3>2. Len(list) \in Nat /\ DOMAIN list = 1 .. Len(list) /\ list = [k \in 1 .. Len(list) |-> list[k]]
      OBVIOUS
    <3>3. list \in [1 .. Len(list) -> Int]
      BY <3>1, <3>2
    <3> QED BY <3>2, <3>3
  <2>3. /\ Shaped(InByScanning(node, l, node.list), n)
        /\ \A i \in 1 .. n : At(InByScanning(node, l, node.list), i) = SqlInNode(node, At(l, i))
    BY <1>5, <2>2, ScanAt
  <2> QED BY <2>1, <2>3, <1>2, Zenon
<1> QED BY <1>3, <1>4, <1>5

(* Chunks and segments of a table.                                         *)
LEMMA TableParts ==
    ASSUME NEW t, IsTable(t), NEW k \in DOMAIN t.chunks
    PROVE  /\ t.columns \in Seq(Definitions) /\ t.chunks \in Seq(Seq(Segments))
           /\ DOMAIN t.chunks[k] = DOMAIN t.columns
           /\ ChunkSize(t.chunks[k]) \in Nat
           /\ \A c \in DOMAIN t.columns :
                 /\ ColumnIsNullable(t, c) \in BOOLEAN
                 /\ t.chunks[k][c] \in Segments
                 /\ HasRows(t.chunks[k][c], ChunkSize(t.chunks[k]))
<1>1. t.columns \in Seq(Definitions) /\ t.chunks \in Seq(Seq(Segments))
  BY DEF IsTable
<1>2. DOMAIN t.chunks[k] = DOMAIN t.columns
  BY DEF IsTable
<1>3. t.chunks[k] \in Seq(Segments)
  BY <1>1
<1>4. ChunkSize(t.chunks[k]) \in Nat
  <2>1. CASE t.chunks[k] = <<>>
    BY <2>1 DEF ChunkSize
  <2>2. CASE t.chunks[k] # <<>>
    <3>1. t.chunks[k][1] \in Segments
      BY <1>3, <2>2
    <3>2. t.chunks[k][1].values \in Seq(Int)
      BY <3>1 DEF Segments
    <3> QED BY <2>2, <3>2 DEF ChunkSize
  <2> QED BY <2>1, <2>2
<1>5. ASSUME NEW c \in DOMAIN t.columns
      PROVE  /\ ColumnIsNullable(t, c) \in BOOLEAN
             /\ t.chunks[k][c] \in Segments
             /\ HasRows(t.chunks[k][c], ChunkSize(t.chunks[k]))
  <2>1. t.columns[c] \in Definitions
    BY <1>1
  <2>2. ColumnIsNullable(t, c) \in BOOLEAN
    BY <2>1 DEF ColumnIsNullable, Definitions
  <2>3. t.chunks[k][c] \in Segments
    BY <1>2, <1>3
  <2>4. HasRows(t.chunks[k][c], ChunkSize(t.chunks[k]))
    BY DEF IsTable
  <2> QED BY <2>2, <2>3, <2>4
<1> QED BY <1>1, <1>2, <1>4, <1>5

(* Declared NULLs, chunk by chunk.                                         *)
LEMMA NullsPointwise ==
    ASSUME NEW t, NullsDeclared(t), NEW k \in DOMAIN t.chunks, NEW c \in DOMAIN t.chunks[k],
           NEW i \in DOMAIN t.chunks[k][c].values, SegmentIsNull(t.chunks[k][c], i)
    PROVE  ColumnIsNullable(t, c)
<1>1. PICK m : m = <<k, c>>
  OBVIOUS
<1>2. m[1] = k /\ m[2] = c
  BY <1>1
<1>3. m \in UNION {{j} \X DOMAIN t.chunks[j] : j \in DOMAIN t.chunks}
  BY <1>1
<1>4. m \in NullsOf(t)
  BY <1>2, <1>3, Zenon DEF NullsOf
<1>5. ColumnIsNullable(t, m[2])
  BY <1>4, Zenon DEF NullsDeclared
<1> QED BY <1>2, <1>5, Zenon

(* A column reads as the segment of the chunk.                             *)
LEMMA ColumnAt ==
    ASSUME NEW t, IsTable(t), NullsDeclared(t), NEW k \in DOMAIN t.chunks,
           NEW n \in Nat \ {0}, n = ChunkSize(t.chunks[k]),
           NEW node, node.column \in DOMAIN t.columns
    PROVE  /\ Shaped(ColumnResult(node, t, t.chunks[k]), n)
           /\ \A i \in 1 .. n :
                 At(ColumnResult(node, t, t.chunks[k]), i) = Get(t.chunks[k][node.column], i)
<1>1. PICK c \in DOMAIN t.columns : c = node.column
  OBVIOUS
<1>2. PICK s : s = t.chunks[k][c]
  OBVIOUS
<1>3. s \in Segments /\ HasRows(s, n) /\ c \in DOMAIN t.chunks[k] /\ ColumnIsNullable(t, c) \in BOOLEAN
  BY <1>2, TableParts
<1>4. /\ s.values \in Seq(Int) /\ s.nulls \in Seq(BOOLEAN) /\ s.nullable \in BOOLEAN
      /\ Len(s.values) = n /\ Len(s.nulls) = IF s.nullable THEN n ELSE 0
  BY <1>3 DEF Segments, HasRows
<1>5. PICK f : f = s.values
  OBVIOUS
<1>6. f \in [1 .. n -> Int] /\ n \in {1, n} /\ DOMAIN f = 1 .. n
  BY <1>4, <1>5
<1>7. \A i \in 1 .. n : SegmentIsNull(s, i) => ColumnIsNullable(t, c)
  BY <1>2, <1>3, <1>5, <1>6, NullsPointwise
<1>8. CASE ColumnIsNullable(t, c) /\ s.nullable
  <2>1. PICK g : g = s.nulls
    OBVIOUS
  <2>2. ColumnResult(node, t, t.chunks[k]) = Series(f, g)
    BY <1>1, <1>2, <1>5, <1>8, <2>1 DEF ColumnResult
  <2>3. g \in [1 .. n -> BOOLEAN]
    BY <1>4, <1>8, <2>1
  <2>4. /\ Shaped(Series(f, g), n)
        /\ \A i \in 1 .. n : At(Series(f, g), i) = Under(g[Smaller(i, n)], f[Smaller(i, n)])
    BY <1>6, <2>3, PairsShaped
  <2>5. ASSUME NEW i \in 1 .. n PROVE Under(g[Smaller(i, n)], f[Smaller(i, n)]) = Get(s, i)
    <3>1. Smaller(i, n) = i
      BY DEF Smaller
    <3> QED BY <1>5, <1>8, <2>1, <3>1, Zenon DEF Under, Get, SegmentIsNull
  <2> QED BY <1>1, <1>2, <2>2, <2>4, <2>5, Zenon
<1>9. CASE ~(ColumnIsNullable(t, c) /\ s.nullable)
  <2>1. ColumnResult(node, t, t.chunks[k]) = Series(f, <<>>)
    <3>1. CASE ColumnIsNullable(t, c)
      <4>1. s.nulls = <<>>
        BY <1>4, <1>9, <3>1
      <4> QED BY <1>1, <1>2, <1>5, <3>1, <4>1 DEF ColumnResult
    <3>2. CASE ~ColumnIsNullable(t, c)
      BY <1>1, <1>2, <1>5, <3>2 DEF ColumnResult
    <3> QED BY <3>1, <3>2
  <2>2. /\ Shaped(Series(f, <<>>), n)
        /\ \A i \in 1 .. n : At(Series(f, <<>>), i) = f[Smaller(i, n)]
    BY <1>6, PlainShaped
  <2>3. ASSUME NEW i \in 1 .. n PROVE f[Smaller(i, n)] = Get(s, i)
    <3>1. Smaller(i, n) = i
      BY DEF Smaller
    <3>2. ~SegmentIsNull(s, i)
      BY <1>7, <1>9, Zenon DEF SegmentIsNull
    <3> QED BY <1>5, <3>1, <3>2, Zenon DEF Get
  <2> QED BY <1>1, <1>2, <2>1, <2>2, <2>3, Zenon
<1> QED BY <1>8, <1>9

(* The row of a chunk, as a reader sees it.                                *)
RowAt(chunk, i) == [c \in DOMAIN chunk |-> Get(chunk[c], i)]

(* The operands of a node have a shape, and truth values where they are    *)
(* asked for them.                                                         *)
OperandsFit(node, r, n) ==
    /\ \A m \in Operands(node) : Shaped(r[m], n)
    /\ node.kind \in {"And", "Or"} =>
          \A i \in 1 .. n : At(r[node.l], i) \in Truths /\ At(r[node.r], i) \in Truths
    /\ node.kind = "Case" => \A i \in 1 .. n : At(r[node.when], i) \in Truths

(* The values v are those of the operands of a node at a row.              *)
Agrees(node, r, v, i) == \A m \in Operands(node) : v[m] = At(r[m], i)

(* A result of a node is what SQL says of its operands, at every row.      *)
Evaluates(x, node, r, chunk, n) ==
    /\ Shaped(x, n)
    /\ \A i \in 1 .. n :
          /\ IsTruth(node) => At(x, i) \in Truths
          /\ \A v : Agrees(node, r, v, i) => SqlNode(node, v, RowAt(chunk, i)) = At(x, i)

(* No list of strings with a NULL.                                         *)
KeepsNulls(node) == node.kind = "In" => ~(node.string /\ NULL \in ToSet(node.list))

(* +, - and * of SQL.                                                      *)
LEMMA SqlSums ==
    ASSUME NEW o \in {"+", "-", "*"}, NEW x \in Int \cup {NULL}, NEW y \in Int \cup {NULL}
    PROVE  o \in DefaultOperators /\ Strictly(o, x, y) = SqlArithmetic(o, x, y)
<1>1. o \in DefaultOperators
  BY DEF DefaultOperators
<1>2. CASE x = NULL \/ y = NULL
  BY <1>1, <1>2 DEF Strictly, SqlArithmetic
<1>3. CASE x # NULL /\ y # NULL
  <2>1. x \in Int /\ y \in Int
    BY <1>3
  <2>2. /\ BinaryFunctor("+", x, y) = x + y
        /\ BinaryFunctor("-", x, y) = x - y
        /\ BinaryFunctor("*", x, y) = x * y
    BY <2>1, Functors
  <2>3. /\ SqlArithmetic("+", x, y) = x + y
        /\ SqlArithmetic("-", x, y) = x - y
        /\ SqlArithmetic("*", x, y) = x * y
    BY <1>3, Zenon DEF SqlArithmetic
  <2> QED BY <1>1, <1>3, <2>2, <2>3, Zenon DEF Strictly
<1> QED BY <1>2, <1>3

(* Columns and literals.                                                   *)
LEMMA LeafAt ==
    ASSUME NEW t, IsTable(t), NullsDeclared(t), NEW k \in DOMAIN t.chunks,
           NEW n \in Nat \ {0}, n = ChunkSize(t.chunks[k]),
           NEW node, IsNode(node, DOMAIN t.columns), node.kind \in {"Column", "Value"}, NEW r
    PROVE  Evaluates(NodeResult(node, r, t, t.chunks[k]), node, r, t.chunks[k], n)
<1>1. CASE node.kind = "Column"
  <2>1. node.column \in DOMAIN t.columns
    BY <1>1 DEF IsNode
  <2>2. NodeResult(node, r, t, t.chunks[k]) = ColumnResult(node, t, t.chunks[k])
    BY <1>1 DEF NodeResult
  <2>3. /\ Shaped(ColumnResult(node, t, t.chunks[k]), n)
        /\ \A i \in 1 .. n :
              At(ColumnResult(node, t, t.chunks[k]), i) = Get(t.chunks[k][node.column], i)
    BY <2>1, ColumnAt
  <2>4. ~IsTruth(node)
    BY <1>1 DEF IsTruth
  <2>5. \A i, v : SqlNode(node, v, RowAt(t.chunks[k], i)) = Get(t.chunks[k][node.column], i)
    <3>1. node.column \in DOMAIN t.chunks[k]
      BY <2>1, TableParts
    <3>2. \A i : RowAt(t.chunks[k], i)[node.column] = Get(t.chunks[k][node.column], i)
      BY <3>1 DEF RowAt
    <3>3. \A i, v : SqlNode(node, v, RowAt(t.chunks[k], i)) = RowAt(t.chunks[k], i)[node.column]
      BY <1>1 DEF SqlNode
    <3> QED BY <3>2, <3>3
  <2> QED BY <2>2, <2>3, <2>4, <2>5, Zenon DEF Evaluates
<1>2. CASE node.kind = "Value"
  <2>1. PICK w \in Int \cup {NULL} : w = node.value
    BY <1>2 DEF IsNode
  <2>2. NodeResult(node, r, t, t.chunks[k]) = LiteralOf(w)
    BY <1>2, <2>1 DEF NodeResult
  <2>3. Shaped(LiteralOf(w), n) /\ \A i \in 1 .. n : At(LiteralOf(w), i) = w
    BY Literals
  <2>4. IsTruth(node) => w \in Truths
    BY <1>2, <2>1 DEF IsTruth, Truths
  <2>5. \A i, v : SqlNode(node, v, RowAt(t.chunks[k], i)) = w
    BY <1>2, <2>1 DEF SqlNode
  <2> QED BY <2>2, <2>3, <2>4, <2>5, Zenon DEF Evaluates
<1> QED BY <1>1, <1>2

(* Arithmetic.                                                             *)
LEMMA ArithmeticAt ==
    ASSUME NEW t, NEW chunk, NEW n \in Nat \ {0}, NEW node, NEW columns, IsNode(node, columns), NEW r,
           OperandsFit(node, r, n), node.kind \in {"Arithmetic", "Minus"}
    PROVE  Evaluates(NodeResult(node, r, t, chunk), node, r, chunk, n)
<1>0. ~IsTruth(node)
  BY DEF IsTruth
<1>1. CASE node.kind = "Minus"
  <2>1. PICK l : l = r[node.l]
    OBVIOUS
  <2>2. Operands(node) = {node.l}
    BY <1>1 DEF Operands
  <2>3. Shaped(l, n)
    BY <2>1, <2>2 DEF OperandsFit
  <2>4. NodeResult(node, r, t, chunk) = UnaryMinusResult(l)
    BY <1>1, <2>1 DEF NodeResult
  <2>5. /\ Shaped(UnaryMinusResult(l), n)
        /\ \A i \in 1 .. n : At(UnaryMinusResult(l), i) = IF At(l, i) = NULL THEN NULL ELSE -At(l, i)
    BY <2>3, MinusAt
  <2>6. \A v, row : SqlNode(node, v, row) = IF v[node.l] = NULL THEN NULL ELSE -v[node.l]
    BY <1>1 DEF SqlNode
  <2>7. \A i, v : Agrees(node, r, v, i) => v[node.l] = At(l, i)
    BY <2>1, <2>2 DEF Agrees
  <2> QED BY <1>0, <2>4, <2>5, <2>6, <2>7, Zenon DEF Evaluates
<1>2. CASE node.kind = "Arithmetic"
  <2>1. PICK l : l = r[node.l]
    OBVIOUS
  <2>2. PICK q : q = r[node.r]
    OBVIOUS
  <2>3. PICK o \in {"+", "-", "*", "/", "%"} : o = node.op
    BY <1>2 DEF IsNode
  <2>4. Operands(node) = {node.l, node.r}
    BY <1>2 DEF Operands
  <2>5. Shaped(l, n) /\ Shaped(q, n)
    BY <2>1, <2>2, <2>4 DEF OperandsFit
  <2>6. NodeResult(node, r, t, chunk) = IF o \in {"/", "%"} THEN WithFunctorNullLogic(o, l, q)
                                        ELSE WithDefaultNullLogic(o, l, q)
    BY <1>2, <2>1, <2>2, <2>3 DEF NodeResult, ArithmeticResult
  <2>7. \A v, row : SqlNode(node, v, row) = SqlArithmetic(o, v[node.l], v[node.r])
    BY <1>2, <2>3 DEF SqlNode
  <2>8. \A i, v : Agrees(node, r, v, i) => v[node.l] = At(l, i) /\ v[node.r] = At(q, i)
    BY <2>1, <2>2, <2>4 DEF Agrees
  <2>9. CASE o \in {"/", "%"}
    <3>1. o \in {"/", "%", "and", "or"} /\ o \notin {"and", "or"}
      BY <2>9
    <3>2. /\ Shaped(WithFunctorNullLogic(o, l, q), n)
          /\ \A i \in 1 .. n : At(WithFunctorNullLogic(o, l, q), i) = Functored(o, At(l, i), At(q, i))
      BY <2>5, <3>1, FunctorLogic
    <3>3. \A x, y : Functored(o, x, y) = SqlArithmetic(o, x, y)
      BY <2>9, Zenon DEF Functored
    <3>4. NodeResult(node, r, t, chunk) = WithFunctorNullLogic(o, l, q)
      BY <2>6, <2>9
    <3>5. \A i \in 1 .. n : At(WithFunctorNullLogic(o, l, q), i) = SqlArithmetic(o, At(l, i), At(q, i))
      BY <3>2, <3>3
    <3> QED BY <1>0, <2>7, <2>8, <3>2, <3>4, <3>5, ZenonT(60) DEF Evaluates
  <2>10. CASE o \notin {"/", "%"}
    <3>1. o \in {"+", "-", "*"}
      BY <2>10
    <3>2. o \in DefaultOperators
      BY <3>1 DEF DefaultOperators
    <3>3. /\ Shaped(WithDefaultNullLogic(o, l, q), n)
          /\ \A i \in 1 .. n : At(WithDefaultNullLogic(o, l, q), i) = Strictly(o, At(l, i), At(q, i))
      BY <2>5, <3>2, DefaultLogic
    <3>4. ASSUME NEW i \in 1 .. n PROVE Strictly(o, At(l, i), At(q, i)) = SqlArithmetic(o, At(l, i), At(q, i))
      <4>1. At(l, i) \in Int \cup {NULL} /\ At(q, i) \in Int \cup {NULL}
        BY <2>5, ShapedTypes
      <4> QED BY <3>1, <4>1, SqlSums
    <3>5. NodeResult(node, r, t, chunk) = WithDefaultNullLogic(o, l, q)
      BY <2>6, <2>10
    <3> QED BY <1>0, <2>7, <2>8, <3>3, <3>4, <3>5, ZenonT(60) DEF Evaluates
  <2> QED BY <2>9, <2>10
<1> QED BY <1>1, <1>2

(* CASE, IS NULL and IN.                                                   *)
LEMMA ChoiceAt ==
    ASSUME NEW t, NEW chunk, NEW n \in Nat \ {0}, NEW node, NEW columns, IsNode(node, columns), NEW r,
           OperandsFit(node, r, n), KeepsNulls(node), node.kind \in {"Case", "IsNull", "In"}
    PROVE  Evaluates(NodeResult(node, r, t, chunk), node, r, chunk, n)
<1>1. CASE node.kind = "Case"
  <2>1. PICK w : w = r[node.when]
    OBVIOUS
  <2>2. PICK l : l = r[node.l]
    OBVIOUS
  <2>3. PICK q : q = r[node.r]
    OBVIOUS
  <2>4. Operands(node) = {node.when, node.l, node.r}
    BY <1>1 DEF Operands
  <2>5. Shaped(w, n) /\ Shaped(l, n) /\ Shaped(q, n) /\ \A i \in 1 .. n : At(w, i) \in Truths
    BY <1>1, <2>1, <2>2, <2>3, <2>4 DEF OperandsFit
  <2>6. NodeResult(node, r, t, chunk) = CaseResult(w, l, q)
    BY <1>1, <2>1, <2>2, <2>3 DEF NodeResult
  <2>7. /\ Shaped(CaseResult(w, l, q), n)
        /\ \A i \in 1 .. n : At(CaseResult(w, l, q), i) = IF At(w, i) = 1 THEN At(l, i) ELSE At(q, i)
    BY <2>5, CaseAt
  <2>8. \A v, row : SqlNode(node, v, row) = IF v[node.when] = 1 THEN v[node.l] ELSE v[node.r]
    BY <1>1 DEF SqlNode
  <2>9. \A i, v : Agrees(node, r, v, i) =>
            v[node.when] = At(w, i) /\ v[node.l] = At(l, i) /\ v[node.r] = At(q, i)
    BY <2>1, <2>2, <2>3, <2>4 DEF Agrees
  <2>10. ~IsTruth(node)
    BY <1>1 DEF IsTruth
  <2> QED BY <2>6, <2>7, <2>8, <2>9, <2>10, Zenon DEF Evaluates
<1>2. CASE node.kind \in {"IsNull", "In"}
  <2>1. PICK l : l = r[node.l]
    OBVIOUS
  <2>2. Operands(node) = {node.l}
    BY <1>2 DEF Operands
  <2>3. Shaped(l, n)
    BY <2>1, <2>2 DEF OperandsFit
  <2>4. \A i, v : Agrees(node, r, v, i) => v[node.l] = At(l, i)
    BY <2>1, <2>2 DEF Agrees
  <2>5. node.negated \in BOOLEAN
    BY <1>2 DEF IsNode
  <2>6. CASE node.kind = "IsNull"
    <3>1. NodeResult(node, r, t, chunk) = IsNullResult(node, l)
      BY <2>6, <2>1 DEF NodeResult
    <3>2. /\ Shaped(IsNullResult(node, l), n)
          /\ \A i \in 1 .. n : At(IsNullResult(node, l), i) = Bit((At(l, i) = NULL) # node.negated)
      BY <2>3, <2>5, IsNullAt
    <3>3. \A v, row : SqlNode(node, v, row) = Bit((v[node.l] = NULL) # node.negated)
      BY <2>6, Zenon DEF SqlNode
    <3>4. \A b : Bit(b) \in Truths
      BY DEF Bit, Truths
    <3>5. \A i \in 1 .. n : At(IsNullResult(node, l), i) \in Truths
      BY <3>2, <3>4, Zenon
    <3>6. ASSUME NEW i \in 1 .. n, NEW v, Agrees(node, r, v, i)
          PROVE  SqlNode(node, v, RowAt(chunk, i)) = At(IsNullResult(node, l), i)
      <4>1. v[node.l] = At(l, i)
        BY <3>6, <2>4
      <4>2. (v[node.l] = NULL) = (At(l, i) = NULL)
        BY <4>1, Zenon
      <4>3. SqlNode(node, v, RowAt(chunk, i)) = Bit((v[node.l] = NULL) # node.negated)
        BY <3>3, Zenon
      <4> QED BY <3>2, <4>2, <4>3, Zenon
    <3> QED BY <3>1, <3>2, <3>5, <3>6, Zenon DEF Evaluates
  <2>7. CASE node.kind = "In"
    <3>1. PICK list \in Seq(Int \cup {NULL}) : list = node.list
      BY <2>7 DEF IsNode
    <3>2. ~(node.string /\ NULL \in ToSet(list))
      BY <2>7, <3>1 DEF KeepsNulls
    <3>3. NodeResult(node, r, t, chunk) = InResult(node, l)
      BY <2>7, <2>1 DEF NodeResult
    <3>4. /\ Shaped(InResult(node, l), n)
          /\ \A i \in 1 .. n : /\ At(InResult(node, l), i) = SqlInNode(node, At(l, i))
                               /\ SqlInNode(node, At(l, i)) \in Truths
      BY <2>3, <2>5, <3>1, <3>2, InAt
    <3>5. \A v, row : SqlNode(node, v, row) = SqlInNode(node, v[node.l])
      BY <2>7, Zenon DEF SqlNode, SqlInNode
    <3> QED BY <3>3, <3>4, <3>5, <2>4, Zenon DEF Evaluates
  <2> QED BY <1>2, <2>6, <2>7
<1> QED BY <1>1, <1>2

(* Comparisons and the connectives.                                        *)
LEMMA PredicateAt ==
    ASSUME NEW t, NEW chunk, NEW n \in Nat \ {0}, NEW node, NEW columns, IsNode(node, columns), NEW r,
           OperandsFit(node, r, n), node.kind \in {"Compare", "Between", "And", "Or"}
    PROVE  Evaluates(NodeResult(node, r, t, chunk), node, r, chunk, n)
<1>1. CASE node.kind = "Compare"
  <2>1. PICK l : l = r[node.l]
    OBVIOUS
  <2>2. PICK q : q = r[node.r]
    OBVIOUS
  <2>3. PICK o \in Comparators : o = node.op
    BY <1>1 DEF IsNode, Comparators
  <2>4. Operands(node) = {node.l, node.r}
    BY <1>1 DEF Operands
  <2>5. Shaped(l, n) /\ Shaped(q, n)
    BY <2>1, <2>2, <2>4 DEF OperandsFit
  <2>6. NodeResult(node, r, t, chunk) = Comparison(o, l, q)
    BY <1>1, <2>1, <2>2, <2>3 DEF NodeResult
  <2>7. /\ Shaped(Comparison(o, l, q), n)
        /\ \A i \in 1 .. n : At(Comparison(o, l, q), i) = SqlCompare(o, At(l, i), At(q, i))
    BY <2>5, ComparisonAt
  <2>8. \A i \in 1 .. n : SqlCompare(o, At(l, i), At(q, i)) \in Truths
    BY <2>5, ShapedTypes, ComparesType
  <2>9. \A v, row : SqlNode(node, v, row) = SqlCompare(o, v[node.l], v[node.r])
    BY <1>1, <2>3 DEF SqlNode
  <2>10. \A i, v : Agrees(node, r, v, i) => v[node.l] = At(l, i) /\ v[node.r] = At(q, i)
    BY <2>1, <2>2, <2>4 DEF Agrees
  <2> QED BY <2>6, <2>7, <2>8, <2>9, <2>10, Zenon DEF Evaluates
<1>2. CASE node.kind = "Between"
  <2>a. PICK lo \in Comparators : lo = LowerCondition(node)
    BY DEF LowerCondition, Comparators
  <2>b. PICK hi \in Comparators : hi = UpperCondition(node)
    BY DEF UpperCondition, Comparators
  <2>1. PICK l : l = r[node.l]
    OBVIOUS
  <2>2. PICK a : a = r[node.lower]
    OBVIOUS
  <2>3. PICK b : b = r[node.upper]
    OBVIOUS
  <2>4. Operands(node) = {node.l, node.lower, node.upper}
    BY <1>2 DEF Operands
  <2>5. Shaped(l, n) /\ Shaped(a, n) /\ Shaped(b, n)
    BY <2>1, <2>2, <2>3, <2>4 DEF OperandsFit
  <2>6. PICK x : x = Comparison(lo, l, a)
    OBVIOUS
  <2>7. PICK y : y = Comparison(hi, l, b)
    OBVIOUS
  <2>8. NodeResult(node, r, t, chunk) = WithFunctorNullLogic("and", x, y)
    BY <1>2, <2>a, <2>b, <2>1, <2>2, <2>3, <2>6, <2>7 DEF NodeResult, BetweenResult, And
  <2>10. /\ Shaped(x, n) /\ Shaped(y, n)
         /\ \A i \in 1 .. n : /\ At(x, i) = SqlCompare(lo, At(l, i), At(a, i))
                              /\ At(y, i) = SqlCompare(hi, At(l, i), At(b, i))
    <3>1. /\ Shaped(Comparison(lo, l, a), n)
          /\ \A i \in 1 .. n : At(Comparison(lo, l, a), i) = SqlCompare(lo, At(l, i), At(a, i))
      BY <2>5, ComparisonAt
    <3>2. /\ Shaped(Comparison(hi, l, b), n)
          /\ \A i \in 1 .. n : At(Comparison(hi, l, b), i) = SqlCompare(hi, At(l, i), At(b, i))
      BY <2>5, ComparisonAt
    <3> QED BY <2>6, <2>7, <3>1, <3>2
  <2>11. \A i \in 1 .. n : At(x, i) \in Truths /\ At(y, i) \in Truths
    <3> SUFFICES ASSUME NEW i \in 1 .. n PROVE At(x, i) \in Truths /\ At(y, i) \in Truths
      OBVIOUS
    <3>1. At(l, i) \in Int \cup {NULL} /\ At(a, i) \in Int \cup {NULL} /\ At(b, i) \in Int \cup {NULL}
      BY <2>5, ShapedTypes
    <3>2. SqlCompare(lo, At(l, i), At(a, i)) \in Truths /\ SqlCompare(hi, At(l, i), At(b, i)) \in Truths
      BY <3>1, ComparesType
    <3> QED BY <2>10, <3>2
  <2>12. "and" \in {"/", "%", "and", "or"}
    OBVIOUS
  <2>13. /\ Shaped(WithFunctorNullLogic("and", x, y), n)
         /\ \A i \in 1 .. n : At(WithFunctorNullLogic("and", x, y), i) = Functored("and", At(x, i), At(y, i))
    BY <2>10, <2>11, <2>12, FunctorLogic
  <2>14. \A p, q : Functored("and", p, q) = SqlAnd(p, q)
    BY Zenon DEF Functored
  <2>15. \A i \in 1 .. n : SqlAnd(At(x, i), At(y, i)) \in Truths
    BY <2>11, Logic
  <2>16. \A v, row : SqlNode(node, v, row) = SqlAnd(SqlCompare(lo, v[node.l], v[node.lower]),
                                                    SqlCompare(hi, v[node.l], v[node.upper]))
    BY <1>2, <2>a, <2>b DEF SqlNode
  <2>17. \A i, v : Agrees(node, r, v, i) =>
            v[node.l] = At(l, i) /\ v[node.lower] = At(a, i) /\ v[node.upper] = At(b, i)
    BY <2>1, <2>2, <2>3, <2>4 DEF Agrees
  <2>18. \A i \in 1 .. n : At(WithFunctorNullLogic("and", x, y), i) =
             SqlAnd(SqlCompare(lo, At(l, i), At(a, i)), SqlCompare(hi, At(l, i), At(b, i)))
    BY <2>10, <2>13, <2>14, Zenon
  <2>19. \A i \in 1 .. n : At(WithFunctorNullLogic("and", x, y), i) \in Truths
    BY <2>13, <2>14, <2>15, Zenon
  <2>20. \A i \in 1 .. n : \A v : Agrees(node, r, v, i) =>
             SqlNode(node, v, RowAt(chunk, i)) = At(WithFunctorNullLogic("and", x, y), i)
    BY <2>16, <2>17, <2>18, ZenonT(60)
  <2> QED BY <2>8, <2>13, <2>19, <2>20, Zenon DEF Evaluates
<1>3. CASE node.kind \in {"And", "Or"}
  <2>1. PICK l : l = r[node.l]
    OBVIOUS
  <2>2. PICK q : q = r[node.r]
    OBVIOUS
  <2>3. PICK o \in {"/", "%", "and", "or"} : o = IF node.kind = "And" THEN "and" ELSE "or"
    OBVIOUS
  <2>4. Operands(node) = {node.l, node.r}
    BY <1>3 DEF Operands
  <2>5. Shaped(l, n) /\ Shaped(q, n) /\ \A i \in 1 .. n : At(l, i) \in Truths /\ At(q, i) \in Truths
    BY <1>3, <2>1, <2>2, <2>4 DEF OperandsFit
  <2>6. NodeResult(node, r, t, chunk) = WithFunctorNullLogic(o, l, q)
    BY <1>3, <2>1, <2>2, <2>3 DEF NodeResult, And, Or
  <2>7. /\ Shaped(WithFunctorNullLogic(o, l, q), n)
        /\ \A i \in 1 .. n : At(WithFunctorNullLogic(o, l, q), i) = Functored(o, At(l, i), At(q, i))
    BY <2>5, FunctorLogic
  <2>8. \A x, y : Functored(o, x, y) = IF node.kind = "And" THEN SqlAnd(x, y) ELSE SqlOr(x, y)
    BY <2>3, Zenon DEF Functored
  <2>9. \A i \in 1 .. n : SqlAnd(At(l, i), At(q, i)) \in Truths /\ SqlOr(At(l, i), At(q, i)) \in Truths
    BY <2>5, Logic
  <2>10. \A v, row : SqlNode(node, v, row) = IF node.kind = "And" THEN SqlAnd(v[node.l], v[node.r])
                                             ELSE SqlOr(v[node.l], v[node.r])
    BY <1>3 DEF SqlNode
  <2>11. \A i, v : Agrees(node, r, v, i) => v[node.l] = At(l, i) /\ v[node.r] = At(q, i)
    BY <2>1, <2>2, <2>4 DEF Agrees
  <2>12. \A i \in 1 .. n : At(WithFunctorNullLogic(o, l, q), i) = IF node.kind = "And"
             THEN SqlAnd(At(l, i), At(q, i)) ELSE SqlOr(At(l, i), At(q, i))
    BY <2>7, <2>8, Zenon
  <2> QED BY <2>6, <2>7, <2>9, <2>10, <2>11, <2>12, ZenonT(60) DEF Evaluates
<1> QED BY <1>1, <1>2, <1>3

(* Every node is what SQL says of its operands.                            *)
LEMMA NodeAt ==
    ASSUME NEW t, IsTable(t), NullsDeclared(t), NEW k \in DOMAIN t.chunks,
           NEW n \in Nat \ {0}, n = ChunkSize(t.chunks[k]),
           NEW node, IsNode(node, DOMAIN t.columns), KeepsNulls(node), NEW r, OperandsFit(node, r, n)
    PROVE  Evaluates(NodeResult(node, r, t, t.chunks[k]), node, r, t.chunks[k], n)
<1>1. node.kind \in Kinds
  BY NodeKinds
<1>2. CASE node.kind \in {"Column", "Value"}
  BY <1>2, LeafAt
<1>3. CASE node.kind \in {"Arithmetic", "Minus"}
  BY <1>3, ArithmeticAt
<1>4. CASE node.kind \in {"Case", "IsNull", "In"}
  BY <1>4, ChoiceAt
<1>5. CASE node.kind \in {"Compare", "Between", "And", "Or"}
  BY <1>5, PredicateAt
<1> QED BY <1>1, <1>2, <1>3, <1>4, <1>5 DEF Kinds

(* Values of the nodes of an expression in SQL.                            *)
Solves(v, e, row) == \A m \in 1 .. Len(e) : v[m] = SqlNode(e[m], v, row)

(* The result of node m is what SQL says of the expression at every row.   *)
Correct(r, e, m, chunk, n) ==
    /\ Shaped(r[m], n)
    /\ \A i \in 1 .. n :
          /\ IsTruth(e[m]) => At(r[m], i) \in Truths
          /\ \A v : Solves(v, e, RowAt(chunk, i)) => v[m] = At(r[m], i)

(* The evaluation of an expression is correct at all of its nodes.         *)
LEMMA ResultsCorrect ==
    ASSUME NEW t, IsTable(t), NullsDeclared(t), NEW k \in DOMAIN t.chunks,
           NEW n \in Nat \ {0}, n = ChunkSize(t.chunks[k]),
           NEW e, IsExpression(e, DOMAIN t.columns), ~DropsNull(e, BOOLEAN),
           NEW r, r = EvaluateExpressionToResult(e, t, t.chunks[k])
    PROVE  \A m \in 1 .. Len(e) : /\ Correct(r, e, m, t.chunks[k], n)
                                  /\ OperandsFit(e[m], r, n)
                                  /\ Evaluates(r[m], e[m], r, t.chunks[k], n)
<1>0. Len(e) \in Nat /\ DOMAIN e = 1 .. Len(e)
  BY DEF IsExpression
<1>1. \A m \in 1 .. Len(e) : r[m] = NodeResult(e[m], r, t, t.chunks[k])
  BY ResultsClosed
<1> DEFINE T == {m \in 1 .. Len(e) : /\ Correct(r, e, m, t.chunks[k], n)
                                      /\ OperandsFit(e[m], r, n)
                                      /\ Evaluates(r[m], e[m], r, t.chunks[k], n)}
<1>2. ASSUME NEW m \in 1 .. Len(e), \A j \in 1 .. m - 1 : j \in T PROVE m \in T
  <2>1. /\ IsNode(e[m], DOMAIN t.columns) /\ Operands(e[m]) \subseteq 1 .. m - 1
        /\ (e[m].kind \in {"And", "Or"} => IsTruth(e[e[m].l]) /\ IsTruth(e[e[m].r]))
        /\ (e[m].kind = "Case" => IsTruth(e[e[m].when]))
    BY <1>0 DEF IsExpression
  <2>2. \A j \in Operands(e[m]) : j \in 1 .. Len(e) /\ Correct(r, e, j, t.chunks[k], n)
    BY <1>2, <2>1
  <2>3. KeepsNulls(e[m])
    <3>1. ASSUME e[m].kind = "In", e[m].string, NULL \in ToSet(e[m].list) PROVE FALSE
      <4>1. e[m].negated \in BOOLEAN
        BY <2>1, <3>1 DEF IsNode
      <4> QED BY <3>1, <4>1, <1>0, Zenon DEF DropsNull
    <3> QED BY <3>1 DEF KeepsNulls
  <2>4. OperandsFit(e[m], r, n)
    <3>1. \A j \in Operands(e[m]) : Shaped(r[j], n)
      BY <2>2 DEF Correct
    <3>2. ASSUME e[m].kind \in {"And", "Or"}, NEW i \in 1 .. n
          PROVE  At(r[e[m].l], i) \in Truths /\ At(r[e[m].r], i) \in Truths
      <4>1. e[m].l \in Operands(e[m]) /\ e[m].r \in Operands(e[m])
        BY <3>2 DEF Operands
      <4> QED BY <2>1, <2>2, <3>2, <4>1, Zenon DEF Correct
    <3>3. ASSUME e[m].kind = "Case", NEW i \in 1 .. n
          PROVE  At(r[e[m].when], i) \in Truths
      <4>1. e[m].when \in Operands(e[m])
        BY <3>3 DEF Operands
      <4> QED BY <2>1, <2>2, <3>3, <4>1, Zenon DEF Correct
    <3> QED BY <3>1, <3>2, <3>3, Zenon DEF OperandsFit
  <2>5. PICK node : node = e[m]
    OBVIOUS
  <2>6. Evaluates(NodeResult(node, r, t, t.chunks[k]), node, r, t.chunks[k], n)
    <3>1. IsNode(node, DOMAIN t.columns) /\ KeepsNulls(node) /\ OperandsFit(node, r, n)
      BY <2>1, <2>3, <2>4, <2>5
    <3> QED BY <3>1, NodeAt
  <2>7. Evaluates(r[m], e[m], r, t.chunks[k], n)
    BY <1>1, <2>5, <2>6
  <2>8. ASSUME NEW i \in 1 .. n, NEW v, Solves(v, e, RowAt(t.chunks[k], i))
        PROVE  v[m] = At(r[m], i)
    <3>1. \A j \in Operands(e[m]) : v[j] = At(r[j], i)
      BY <2>2, <2>8, Zenon DEF Correct
    <3>2. SqlNode(e[m], v, RowAt(t.chunks[k], i)) = At(r[m], i)
      BY <2>7, <3>1, Zenon DEF Evaluates, Agrees
    <3> QED BY <2>8, <3>2, Zenon DEF Solves
  <2>9. Correct(r, e, m, t.chunks[k], n)
    BY <2>7, <2>8, Zenon DEF Correct, Evaluates
  <2> QED BY <2>4, <2>7, <2>9
<1>3. \A m \in 1 .. Len(e) : m \in T
  <2> HIDE DEF T
  <2> QED BY <1>0, <1>2, CourseOfValues
<1> QED BY <1>3

(* The scan of a comparison finds the rows where it is TRUE in SQL.        *)
LEMMA ComparedAt ==
    ASSUME NEW n \in Nat \ {0}, NEW l, NEW r, Shaped(l, n), Shaped(r, n), NEW o \in Comparators,
           NEW i \in 1 .. n
    PROVE  i \in Compared(o, l, r, 1 .. n) <=> SqlCompare(o, At(l, i), At(r, i)) = 1
<1>0. NULL # 1
  BY NullAssumption
<1>1. PICK u : u = Unflipped(o)
  OBVIOUS
<1>2. PICK a : a = IF Flipped(o) THEN r ELSE l
  OBVIOUS
<1>3. PICK b : b = IF Flipped(o) THEN l ELSE r
  OBVIOUS
<1>4. i \in Compared(o, l, r, 1 .. n) <=> ~IsNull(a, i) /\ ~IsNull(b, i) /\ Compare(u, Value(a, i), Value(b, i))
  BY <1>1, <1>2, <1>3 DEF Compared
<1>5. /\ o = ">" => u = "<" /\ a = r /\ b = l
      /\ o = ">=" => u = "<=" /\ a = r /\ b = l
      /\ o \notin {">", ">="} => u = o /\ a = l /\ b = r
  BY <1>1, <1>2, <1>3, Zenon DEF Unflipped, Flipped
<1>6. PICK x \in Int : x = Value(l, i)
  BY ShapedTypes
<1>7. PICK y \in Int : y = Value(r, i)
  BY ShapedTypes
<1>8. CASE IsNull(l, i) \/ IsNull(r, i)
  <2>1. At(l, i) = NULL \/ At(r, i) = NULL
    BY <1>8, Zenon DEF At
  <2>2. SqlCompare(o, At(l, i), At(r, i)) = NULL
    BY <2>1, ComparesNull
  <2>3. IsNull(a, i) \/ IsNull(b, i)
    BY <1>2, <1>3, <1>8, Zenon
  <2> QED BY <1>0, <1>4, <2>2, <2>3, Zenon
<1>9. CASE ~IsNull(l, i) /\ ~IsNull(r, i)
  <2>1. At(l, i) = x /\ At(r, i) = y
    BY <1>6, <1>7, <1>9, Zenon DEF At
  <2>2. ~IsNull(a, i) /\ ~IsNull(b, i)
    BY <1>2, <1>3, <1>9, Zenon
  <2>3. /\ Compare("=", x, y) <=> x = y
        /\ Compare("#", x, y) <=> x # y
        /\ Compare("<", x, y) <=> x < y
        /\ Compare("<=", x, y) <=> x <= y
        /\ Compare("<", y, x) <=> y < x
        /\ Compare("<=", y, x) <=> y <= x
    BY DEF Compare
  <2>4. /\ SqlCompare("=", x, y) = 1 <=> x = y
        /\ SqlCompare("#", x, y) = 1 <=> x # y
        /\ SqlCompare("<", x, y) = 1 <=> x < y
        /\ SqlCompare("<=", x, y) = 1 <=> x <= y
        /\ SqlCompare(">", x, y) = 1 <=> y < x
        /\ SqlCompare(">=", x, y) = 1 <=> y <= x
    BY ComparesNumbers
  <2>5. CASE o = ">"
    BY <2>5, <1>4, <1>5, <1>6, <1>7, <2>1, <2>2, <2>3, <2>4, Zenon
  <2>6. CASE o = ">="
    BY <2>6, <1>4, <1>5, <1>6, <1>7, <2>1, <2>2, <2>3, <2>4, Zenon
  <2>7. CASE o \notin {">", ">="}
    <3>1. u = o /\ a = l /\ b = r /\ o \in {"=", "#", "<", "<="}
      BY <2>7, <1>5 DEF Comparators
    <3>2. i \in Compared(o, l, r, 1 .. n) <=> Compare(o, x, y)
      BY <3>1, <1>4, <1>6, <1>7, <2>2, Zenon
    <3>3. Compare(o, x, y) <=> SqlCompare(o, x, y) = 1
      BY <3>1, <2>3, <2>4, Zenon
    <3> QED BY <2>1, <3>2, <3>3, Zenon
  <2> QED BY <2>5, <2>6, <2>7
<1> QED BY <1>8, <1>9

(* The positions of a node without connectives are the rows where it is    *)
(* TRUE.                                                                   *)
LEMMA ScanPositions ==
    ASSUME NEW t, NEW chunk, NEW n \in Nat \ {0}, NEW node, NEW columns, IsNode(node, columns), NEW r,
           OperandsFit(node, r, n), NEW x, x = NodeResult(node, r, t, chunk),
           Evaluates(x, node, r, chunk, n), IsTruth(node), node.kind \notin {"And", "Or"},
           NEW p, NEW i \in 1 .. n
    PROVE  i \in NodePositions(node, r, p, 1 .. n) <=> At(x, i) = 1
<1>0. NULL # 1 /\ NULL # 0
  BY NullAssumption
<1>1. PICK v : v = [j \in Operands(node) |-> At(r[j], i)]
  OBVIOUS
<1>2. At(x, i) = SqlNode(node, v, RowAt(chunk, i)) /\ At(x, i) \in Truths
  <2>1. Agrees(node, r, v, i)
    BY <1>1 DEF Agrees
  <2> QED BY <2>1, Zenon DEF Evaluates
<1>3. CASE node.kind = "Compare"
  <2>1. Operands(node) = {node.l, node.r}
    BY <1>3 DEF Operands
  <2>2. PICK o \in Comparators : o = node.op
    BY <1>3 DEF IsNode, Comparators
  <2>3. PICK l : l = r[node.l]
    OBVIOUS
  <2>4. PICK q : q = r[node.r]
    OBVIOUS
  <2>5. Shaped(l, n) /\ Shaped(q, n)
    BY <2>1, <2>3, <2>4 DEF OperandsFit
  <2>6. NodePositions(node, r, p, 1 .. n) = Compared(o, l, q, 1 .. n)
    BY <1>3, <2>2, <2>3, <2>4, Zenon DEF NodePositions
  <2>7. v[node.l] = At(l, i) /\ v[node.r] = At(q, i)
    BY <1>1, <2>1, <2>3, <2>4
  <2>8. SqlNode(node, v, RowAt(chunk, i)) = SqlCompare(o, At(l, i), At(q, i))
    BY <1>3, <2>2, <2>7, Zenon DEF SqlNode
  <2>9. i \in Compared(o, l, q, 1 .. n) <=> SqlCompare(o, At(l, i), At(q, i)) = 1
    BY <2>5, ComparedAt
  <2> QED BY <1>2, <2>6, <2>8, <2>9
<1>4. CASE node.kind = "Between"
  <2>1. Operands(node) = {node.l, node.lower, node.upper}
    BY <1>4 DEF Operands
  <2>a. PICK lo \in Comparators : lo = LowerCondition(node)
    BY DEF LowerCondition, Comparators
  <2>b. PICK hi \in Comparators : hi = UpperCondition(node)
    BY DEF UpperCondition, Comparators
  <2>3. PICK l : l = r[node.l]
    OBVIOUS
  <2>4. PICK a : a = r[node.lower]
    OBVIOUS
  <2>5. PICK b : b = r[node.upper]
    OBVIOUS
  <2>6. Shaped(l, n) /\ Shaped(a, n) /\ Shaped(b, n)
    BY <2>1, <2>3, <2>4, <2>5 DEF OperandsFit
  <2>7. NodePositions(node, r, p, 1 .. n) = Compared(lo, l, a, 1 .. n) \cap Compared(hi, l, b, 1 .. n)
    BY <1>4, <2>a, <2>b, <2>3, <2>4, <2>5, Zenon DEF NodePositions
  <2>8. v[node.l] = At(l, i) /\ v[node.lower] = At(a, i) /\ v[node.upper] = At(b, i)
    BY <1>1, <2>1, <2>3, <2>4, <2>5
  <2>9. SqlNode(node, v, RowAt(chunk, i))
           = SqlAnd(SqlCompare(lo, At(l, i), At(a, i)), SqlCompare(hi, At(l, i), At(b, i)))
    BY <1>4, <2>a, <2>b, <2>8, Zenon DEF SqlNode
  <2>10. i \in Compared(lo, l, a, 1 .. n) <=> SqlCompare(lo, At(l, i), At(a, i)) = 1
    BY <2>6, ComparedAt
  <2>11. i \in Compared(hi, l, b, 1 .. n) <=> SqlCompare(hi, At(l, i), At(b, i)) = 1
    BY <2>6, ComparedAt
  <2>12. /\ SqlCompare(lo, At(l, i), At(a, i)) \in Truths
         /\ SqlCompare(hi, At(l, i), At(b, i)) \in Truths
    <3>1. At(l, i) \in Int \cup {NULL} /\ At(a, i) \in Int \cup {NULL} /\ At(b, i) \in Int \cup {NULL}
      BY <2>6, ShapedTypes
    <3> QED BY <3>1, ComparesType
  <2>13. \A y, z \in Truths : SqlAnd(y, z) = 1 <=> y = 1 /\ z = 1
    BY <1>0 DEF SqlAnd, Truths
  <2> QED BY <1>2, <2>7, <2>9, <2>10, <2>11, <2>12, <2>13
<1>5. CASE node.kind = "IsNull"
  <2>1. Operands(node) = {node.l}
    BY <1>5 DEF Operands
  <2>2. PICK l : l = r[node.l]
    OBVIOUS
  <2>3. Shaped(l, n)
    BY <2>1, <2>2 DEF OperandsFit
  <2>4. NodePositions(node, r, p, 1 .. n) = {j \in 1 .. n : IsNull(AsView(l), j) # node.negated}
    BY <1>5, <2>2, Zenon DEF NodePositions
  <2>5. v[node.l] = At(l, i)
    BY <1>1, <2>1, <2>2
  <2>6. SqlNode(node, v, RowAt(chunk, i)) = Bit((v[node.l] = NULL) # node.negated)
    BY <1>5, Zenon DEF SqlNode
  <2>7. PICK a : a = AsView(l)
    OBVIOUS
  <2>8. Shaped(a, n) /\ At(a, i) = At(l, i)
    BY <2>3, <2>7, Views
  <2>9. IsNull(a, i) \in BOOLEAN /\ (At(a, i) = NULL <=> IsNull(a, i))
    BY <2>8, ShapedTypes
  <2>10. IsNull(a, i) = (v[node.l] = NULL)
    BY <2>5, <2>8, <2>9, Zenon
  <2>11. \A b : Bit(b) = 1 <=> b
    BY DEF Bit
  <2>12. At(x, i) = 1 <=> (v[node.l] = NULL) # node.negated
    BY <1>2, <2>6, <2>11, Zenon
  <2>13. i \in NodePositions(node, r, p, 1 .. n) <=> IsNull(a, i) # node.negated
    BY <2>4, <2>7, Zenon
  <2> QED BY <2>10, <2>12, <2>13, Zenon
<1>6. CASE node.kind = "In"
  <2>1. PICK l : l = r[node.l]
    OBVIOUS
  <2>2. x = InResult(node, l)
    BY <1>6, <2>1, Zenon DEF NodeResult
  <2>3. PICK a : a = AsView(x)
    OBVIOUS
  <2>4. Shaped(x, n)
    BY DEF Evaluates
  <2>5. Shaped(a, n) /\ At(a, i) = At(x, i)
    BY <2>3, <2>4, Views
  <2>6. NodePositions(node, r, p, 1 .. n) = {j \in 1 .. n : Value(a, j) # 0 /\ ~IsNull(a, j)}
    BY <1>6, <2>1, <2>2, <2>3, Zenon DEF NodePositions
  <2>7. (At(a, i) = NULL <=> IsNull(a, i)) /\ At(a, i) \in Truths
    BY <1>2, <2>5, ShapedTypes
  <2>8. ~IsNull(a, i) => Value(a, i) = At(a, i)
    BY DEF At
  <2>9. At(a, i) = 1 <=> Value(a, i) # 0 /\ ~IsNull(a, i)
    BY <1>0, <2>7, <2>8 DEF Truths
  <2> QED BY <2>5, <2>6, <2>9
<1>7. CASE node.kind = "Value"
  <2>1. NodePositions(node, r, p, 1 .. n) = {j \in 1 .. n : node.value \notin {0, NULL}}
    BY <1>7, Zenon DEF NodePositions
  <2>2. At(x, i) = node.value
    BY <1>2, <1>7, Zenon DEF SqlNode
  <2> QED BY <1>0, <1>2, <2>1, <2>2 DEF Truths
<1> QED BY <1>3, <1>4, <1>5, <1>6, <1>7 DEF IsTruth

(* Positions are rows.                                                     *)
LEMMA PositionsAreRows ==
    ASSUME NEW e, NEW columns, IsExpression(e, columns), NEW r, NEW rows, NEW p,
           \A m \in 1 .. Len(e) : p[m] = NodePositions(e[m], r, p, rows)
    PROVE  \A m \in 1 .. Len(e) : p[m] \subseteq rows
<1>0. Len(e) \in Nat /\ DOMAIN e = 1 .. Len(e)
  BY DEF IsExpression
<1> DEFINE T == {m \in 1 .. Len(e) : p[m] \subseteq rows}
<1>2. ASSUME NEW m \in 1 .. Len(e), \A j \in 1 .. m - 1 : j \in T PROVE m \in T
  <2>1. IsNode(e[m], columns) /\ Operands(e[m]) \subseteq 1 .. m - 1
    BY <1>0 DEF IsExpression
  <2>2. PICK node : node = e[m]
    OBVIOUS
  <2>3. node.kind \in Kinds
    BY <2>1, <2>2, NodeKinds
  <2>4. \A j \in Operands(node) : p[j] \subseteq rows
    BY <1>2, <2>1, <2>2
  <2>5. \A o, a, b : Compared(o, a, b, rows) \subseteq rows
    BY DEF Compared
  <2>6. SUFFICES NodePositions(node, r, p, rows) \subseteq rows
    <3>1. p[m] = NodePositions(node, r, p, rows)
      BY <2>2
    <3> QED BY <3>1
  <2>7. CASE node.kind = "Compare"
    <3>1. NodePositions(node, r, p, rows) = Compared(node.op, r[node.l], r[node.r], rows)
      BY <2>7, Zenon DEF NodePositions
    <3> QED BY <2>5, <3>1
  <2>8. CASE node.kind = "Between"
    <3>1. NodePositions(node, r, p, rows) = Compared(LowerCondition(node), r[node.l], r[node.lower], rows)
                                               \cap Compared(UpperCondition(node), r[node.l], r[node.upper], rows)
      BY <2>8, Zenon DEF NodePositions
    <3> QED BY <2>5, <3>1
  <2>9. CASE node.kind = "IsNull"
    <3>1. NodePositions(node, r, p, rows) = {i \in rows : IsNull(AsView(r[node.l]), i) # node.negated}
      BY <2>9, Zenon DEF NodePositions
    <3> QED BY <3>1
  <2>10. CASE node.kind = "In"
    <3>1. NodePositions(node, r, p, rows)
             = {i \in rows : /\ Value(AsView(InResult(node, r[node.l])), i) # 0
                             /\ ~IsNull(AsView(InResult(node, r[node.l])), i)}
      BY <2>10, Zenon DEF NodePositions
    <3> QED BY <3>1
  <2>11. CASE node.kind \in {"And", "Or"}
    <3>1. Operands(node) = {node.l, node.r}
      BY <2>11 DEF Operands
    <3>2. /\ node.kind = "And" => NodePositions(node, r, p, rows) = p[node.l] \cap p[node.r]
          /\ node.kind = "Or" => NodePositions(node, r, p, rows) = p[node.l] \cup p[node.r]
      BY Zenon DEF NodePositions
    <3> QED BY <2>4, <2>11, <3>1, <3>2
  <2>12. CASE node.kind = "Value"
    <3>1. NodePositions(node, r, p, rows) = {i \in rows : node.value \notin {0, NULL}}
      BY <2>12, Zenon DEF NodePositions
    <3> QED BY <3>1
  <2>13. CASE node.kind \notin {"Compare", "Between", "IsNull", "In", "And", "Or", "Value"}
    <3>1. NodePositions(node, r, p, rows) = {}
      BY <2>13, Zenon DEF NodePositions
    <3> QED BY <3>1
  <2> QED BY <2>7, <2>8, <2>9, <2>10, <2>11, <2>12, <2>13
<1>3. \A m \in 1 .. Len(e) : m \in T
  <2> HIDE DEF T
  <2> QED BY <1>0, <1>2, CourseOfValues
<1> QED BY <1>3

(* AND and OR are TRUE in SQL where the sets of positions say so.          *)
LEMMA ConnectivesAreSets ==
    \A x, y \in Truths : /\ SqlAnd(x, y) = 1 <=> x = 1 /\ y = 1
                         /\ SqlOr(x, y) = 1 <=> x = 1 \/ y = 1
<1>0. NULL # 1 /\ NULL # 0
  BY NullAssumption
<1>1. \A x, y \in Truths : SqlAnd(x, y) = 1 <=> x = 1 /\ y = 1
  BY <1>0 DEF SqlAnd, Truths
<1>2. \A x, y \in Truths : SqlOr(x, y) = 1 <=> x = 1 \/ y = 1
  <2>1. \A x \in Truths : SqlNot(x) = IF x = NULL THEN NULL ELSE IF x = 1 THEN 0 ELSE 1
    BY <1>0 DEF SqlNot, Truths
  <2>2. \A x, y \in Truths : SqlAnd(x, y) = IF x = 0 \/ y = 0 THEN 0 ELSE IF x = NULL \/ y = NULL THEN NULL ELSE 1
    BY <1>0 DEF SqlAnd, Truths
  <2>3. SUFFICES ASSUME NEW x \in Truths, NEW y \in Truths PROVE SqlOr(x, y) = 1 <=> x = 1 \/ y = 1
    OBVIOUS
  <2>4. PICK a \in Truths : a = SqlNot(x)
    BY <2>1 DEF Truths
  <2>5. PICK b \in Truths : b = SqlNot(y)
    BY <2>1 DEF Truths
  <2>6. PICK c \in Truths : c = SqlAnd(a, b)
    BY <2>2 DEF Truths
  <2>7. SqlOr(x, y) = SqlNot(c)
    BY <2>4, <2>5, <2>6 DEF SqlOr
  <2> QED BY <1>0, <2>1, <2>2, <2>4, <2>5, <2>6, <2>7 DEF Truths
<1> QED BY <1>1, <1>2

(* The positions of a predicate are the rows where its result is TRUE.     *)
LEMMA PositionsAreTrue ==
    ASSUME NEW t, IsTable(t), NullsDeclared(t), NEW k \in DOMAIN t.chunks,
           NEW n \in Nat \ {0}, n = ChunkSize(t.chunks[k]),
           NEW e, IsExpression(e, DOMAIN t.columns), ~DropsNull(e, BOOLEAN),
           NEW r, r = EvaluateExpressionToResult(e, t, t.chunks[k]),
           NEW p, \A m \in 1 .. Len(e) : p[m] = NodePositions(e[m], r, p, 1 .. n),
           NEW i \in 1 .. n
    PROVE  \A m \in 1 .. Len(e) : IsTruth(e[m]) => (i \in p[m] <=> At(r[m], i) = 1)
<1>0. Len(e) \in Nat /\ DOMAIN e = 1 .. Len(e)
  BY DEF IsExpression
<1> DEFINE T == {m \in 1 .. Len(e) : IsTruth(e[m]) => (i \in p[m] <=> At(r[m], i) = 1)}
<1>1. \A m \in 1 .. Len(e) : r[m] = NodeResult(e[m], r, t, t.chunks[k])
  BY ResultsClosed
<1>2. \A m \in 1 .. Len(e) : OperandsFit(e[m], r, n) /\ Evaluates(r[m], e[m], r, t.chunks[k], n)
  BY ResultsCorrect
<1>3. ASSUME NEW m \in 1 .. Len(e), \A j \in 1 .. m - 1 : j \in T PROVE m \in T
  <2>0. SUFFICES ASSUME IsTruth(e[m]) PROVE i \in p[m] <=> At(r[m], i) = 1
    OBVIOUS
  <2>1. /\ IsNode(e[m], DOMAIN t.columns) /\ Operands(e[m]) \subseteq 1 .. m - 1
        /\ (e[m].kind \in {"And", "Or"} => IsTruth(e[e[m].l]) /\ IsTruth(e[e[m].r]))
    BY <1>0 DEF IsExpression
  <2>2. PICK node : node = e[m]
    OBVIOUS
  <2>3. PICK x : x = r[m]
    OBVIOUS
  <2>4. OperandsFit(node, r, n) /\ Evaluates(x, node, r, t.chunks[k], n)
    BY <1>2, <2>2, <2>3
  <2>5. x = NodeResult(node, r, t, t.chunks[k]) /\ p[m] = NodePositions(node, r, p, 1 .. n)
    BY <1>1, <2>2, <2>3
  <2>6. CASE node.kind \notin {"And", "Or"}
    <3>1. IsNode(node, DOMAIN t.columns) /\ IsTruth(node)
      BY <2>0, <2>1, <2>2
    <3>2. i \in NodePositions(node, r, p, 1 .. n) <=> At(x, i) = 1
      BY <2>4, <2>5, <2>6, <3>1, ScanPositions
    <3> QED BY <2>3, <2>5, <3>2
  <2>7. CASE node.kind \in {"And", "Or"}
    <3>1. Operands(node) = {node.l, node.r}
      BY <2>7 DEF Operands
    <3>2. PICK y \in Truths : y = At(r[node.l], i)
      BY <2>4, <2>7 DEF OperandsFit
    <3>3. PICK z \in Truths : z = At(r[node.r], i)
      BY <2>4, <2>7 DEF OperandsFit
    <3>4. (i \in p[node.l] <=> y = 1) /\ (i \in p[node.r] <=> z = 1)
      <4>1. node.l \in T /\ node.r \in T
        BY <1>3, <2>1, <2>2, <3>1
      <4> QED BY <4>1, <2>1, <2>2, <2>7, <3>2, <3>3
    <3>5. PICK v : v = [j \in Operands(node) |-> At(r[j], i)]
      OBVIOUS
    <3>6. v[node.l] = y /\ v[node.r] = z
      BY <3>1, <3>2, <3>3, <3>5
    <3>7. Agrees(node, r, v, i)
      BY <3>5 DEF Agrees
    <3>8. At(x, i) = SqlNode(node, v, RowAt(t.chunks[k], i))
      BY <2>4, <3>7, Zenon DEF Evaluates
    <3>9. CASE node.kind = "And"
      <4>1. At(x, i) = SqlAnd(y, z)
        BY <3>6, <3>8, <3>9, Zenon DEF SqlNode
      <4>2. p[m] = p[node.l] \cap p[node.r]
        BY <2>5, <3>9, Zenon DEF NodePositions
      <4>3. SqlAnd(y, z) = 1 <=> y = 1 /\ z = 1
        BY ConnectivesAreSets
      <4> QED BY <2>3, <3>4, <4>1, <4>2, <4>3
    <3>10. CASE node.kind = "Or"
      <4>1. At(x, i) = SqlOr(y, z)
        BY <3>6, <3>8, <3>10, Zenon DEF SqlNode
      <4>2. p[m] = p[node.l] \cup p[node.r]
        BY <2>5, <3>10, Zenon DEF NodePositions
      <4>3. SqlOr(y, z) = 1 <=> y = 1 \/ z = 1
        BY ConnectivesAreSets
      <4> QED BY <2>3, <3>4, <4>1, <4>2, <4>3
    <3> QED BY <2>7, <3>9, <3>10
  <2> QED BY <2>6, <2>7
<1>4. \A m \in 1 .. Len(e) : m \in T
  <2> HIDE DEF T
  <2> QED BY <1>0, <1>3, CourseOfValues
<1> QED BY <1>4

(* An expression reads no more of a table with more columns.               *)
LEMMA ReadsWithin ==
    ASSUME NEW e, NEW columns, IsExpression(e, columns), NEW more, columns \subseteq more
    PROVE  IsExpression(e, more)
<1>1. \A node : IsNode(node, columns) => IsNode(node, more)
  <2>1. SUFFICES ASSUME NEW node, IsNode(node, columns) PROVE IsNode(node, more)
    OBVIOUS
  <2>2. CASE node.kind = "Column"
    <3>1. node.column \in columns
      BY <2>1, <2>2 DEF IsNode
    <3> QED BY <2>2, <3>1 DEF IsNode
  <2>3. CASE node.kind # "Column"
    BY <2>1, <2>3, Zenon DEF IsNode
  <2> QED BY <2>2, <2>3
<1> QED BY <1>1 DEF IsExpression

(* The position list of a predicate holds exactly the rows for which it is *)
(* TRUE in SQL's three-valued logic (EvaluateExpressionToPositionList),    *)
(* for every predicate, table and chunk: comparisons that are flipped, IN  *)
(* that is scanned or rewritten, BETWEEN, AND and OR as sets of positions. *)
(* Lists of strings with a NULL are excepted: the evaluator drops it.  For *)
(* a predicate of which PositionListFails no list is returned at all.      *)
THEOREM PredicateIsSql ==
    ASSUME NEW t, IsTable(t), NullsDeclared(t), NEW k \in DOMAIN t.chunks,
           NEW e, NEW columns, IsExpression(e, columns), columns \subseteq DOMAIN t.columns,
           IsTruth(Last(e)), ~DropsNull(e, BOOLEAN)
    PROVE  EvaluateExpressionToPositionList(e, t, t.chunks[k])
              = {i \in 1 .. ChunkSize(t.chunks[k]) : SqlValue(e, RowAt(t.chunks[k], i)) = 1}
<1>1. IsExpression(e, DOMAIN t.columns)
  BY ReadsWithin
<1>2. Len(e) \in 1 .. Len(e) /\ Last(e) = e[Len(e)]
  BY DEF IsExpression, Last
<1>3. PICK chunk : chunk = t.chunks[k]
  OBVIOUS
<1>4. PICK n \in Nat : n = ChunkSize(t.chunks[k])
  BY TableParts
<1>5. PICK r : r = EvaluateExpressionToResult(e, t, chunk)
  OBVIOUS
<1>6. PICK rows : rows = 1 .. ChunkSize(chunk)
  OBVIOUS
<1>7. PICK p : /\ \A m \in 1 .. Len(e) : p[m] = NodePositions(e[m], r, p, rows)
               /\ EvaluateExpressionToPositionList(e, t, chunk) = p[Len(e)]
  BY <1>1, <1>5, <1>6, PositionsClosed
<1>8. p[Len(e)] \subseteq rows
  BY <1>1, <1>2, <1>7, PositionsAreRows
<1>9. ASSUME NEW i \in rows PROVE i \in p[Len(e)] <=> SqlValue(e, RowAt(chunk, i)) = 1
  <2>1. i \in 1 .. n /\ n \in Nat \ {0}
    BY <1>3, <1>4, <1>6, <1>9
  <2>2. \A m \in 1 .. Len(e) : p[m] = NodePositions(e[m], r, p, 1 .. n)
    BY <1>3, <1>4, <1>6, <1>7
  <2>3. r = EvaluateExpressionToResult(e, t, t.chunks[k])
    BY <1>3, <1>5
  <2>4. \A m \in 1 .. Len(e) : IsTruth(e[m]) => (i \in p[m] <=> At(r[m], i) = 1)
    BY <1>1, <1>4, <2>1, <2>2, <2>3, PositionsAreTrue
  <2>5. \A m \in 1 .. Len(e) : Correct(r, e, m, t.chunks[k], n)
    BY <1>1, <1>4, <2>1, <2>3, ResultsCorrect
  <2>6. PICK v : Solves(v, e, RowAt(chunk, i)) /\ SqlValue(e, RowAt(chunk, i)) = v[Len(e)]
    BY <1>1, SqlClosed DEF Solves
  <2>7. v[Len(e)] = At(r[Len(e)], i)
    BY <1>2, <1>3, <2>1, <2>5, <2>6, Zenon DEF Correct
  <2> QED BY <1>2, <2>4, <2>6, <2>7
<1> QED BY <1>3, <1>6, <1>7, <1>8, <1>9

(* The segment that an expression is evaluated to has a row for each row   *)
(* of the chunk, and flags if it is nullable, and reads as the value of    *)
(* the expression in SQL at each row (EvaluateExpressionToSegment).  For   *)
(* an expression of which SegmentFails no segment is returned at all.      *)
THEOREM SegmentIsSql ==
    ASSUME NEW t, IsTable(t), NullsDeclared(t), NEW k \in DOMAIN t.chunks,
           NEW e, NEW columns, IsExpression(e, columns), columns \subseteq DOMAIN t.columns,
           ~DropsNull(e, BOOLEAN)
    PROVE  LET segment == EvaluateExpressionToSegment(e, t, t.chunks[k])
           IN /\ segment \in Segments
              /\ HasRows(segment, ChunkSize(t.chunks[k]))
              /\ \A i \in 1 .. ChunkSize(t.chunks[k]) :
                    Get(segment, i) = SqlValue(e, RowAt(t.chunks[k], i))
<1>1. IsExpression(e, DOMAIN t.columns)
  BY ReadsWithin
<1>2. Len(e) \in Nat \ {0}
  BY DEF IsExpression
<1>3. PICK chunk : chunk = t.chunks[k]
  OBVIOUS
<1>4. PICK n \in Nat : n = ChunkSize(t.chunks[k])
  BY TableParts
<1>5. PICK r : r = EvaluateExpressionToResult(e, t, chunk)
  OBVIOUS
<1>6. Last(r) = r[Len(e)]
  BY <1>1, <1>5, ResultsClosed DEF Last
<1>7. PICK view : view = AsView(r[Len(e)])
  OBVIOUS
<1>8. PICK s : s = EvaluateExpressionToSegment(e, t, chunk)
  OBVIOUS
<1>9. PICK values : values = [i \in 1 .. n |-> Value(view, i)]
  OBVIOUS
<1>10. PICK nulls : nulls = [i \in 1 .. n |-> IsNull(view, i)]
  OBVIOUS
<1>11. s = IF view.nulls = <<>> THEN Plain(values) ELSE Nullable(values, nulls)
  BY <1>3, <1>4, <1>5, <1>6, <1>7, <1>8, <1>9, <1>10, Zenon DEF EvaluateExpressionToSegment
<1>12. ASSUME NEW i \in 1 .. n
       PROVE  /\ Value(view, i) \in Int /\ IsNull(view, i) \in BOOLEAN
              /\ At(view, i) = SqlValue(e, RowAt(chunk, i))
  <2>1. n \in Nat \ {0}
    OBVIOUS
  <2>2. r = EvaluateExpressionToResult(e, t, t.chunks[k])
    BY <1>3, <1>5
  <2>3. \A m \in 1 .. Len(e) : Correct(r, e, m, t.chunks[k], n)
    BY <1>1, <1>4, <2>1, <2>2, ResultsCorrect
  <2>4. PICK v : Solves(v, e, RowAt(chunk, i)) /\ SqlValue(e, RowAt(chunk, i)) = v[Len(e)]
    BY <1>1, SqlClosed DEF Solves
  <2>5. PICK x : x = r[Len(e)]
    OBVIOUS
  <2>6. Shaped(x, n) /\ v[Len(e)] = At(x, i)
    BY <1>2, <1>3, <2>3, <2>4, <2>5 DEF Correct
  <2>7. Shaped(AsView(x), n) /\ At(AsView(x), i) = At(x, i)
    BY <2>1, <2>6, Views
  <2>8. Shaped(view, n) /\ At(view, i) = SqlValue(e, RowAt(chunk, i))
    BY <1>7, <2>4, <2>5, <2>6, <2>7
  <2> QED BY <2>1, <2>8, ShapedTypes
<1>13. values \in Seq(Int) /\ Len(values) = n /\ nulls \in Seq(BOOLEAN) /\ Len(nulls) = n
  <2>1. values \in [1 .. n -> Int] /\ nulls \in [1 .. n -> BOOLEAN]
    BY <1>9, <1>10, <1>12
  <2> QED BY <2>1
<1>14. s \in Segments /\ HasRows(s, n)
  BY <1>11, <1>13 DEF Segments, HasRows, Plain, Nullable
<1>15. ASSUME NEW i \in 1 .. n PROVE Get(s, i) = SqlValue(e, RowAt(chunk, i))
  <2>1. CASE view.nulls = <<>>
    <3>1. s.values = values /\ s.nullable = FALSE
      BY <1>11, <2>1 DEF Plain
    <3>2. ~IsNull(view, i)
      BY <2>1 DEF IsNull
    <3>3. At(view, i) = Value(view, i)
      BY <3>2, Zenon DEF At
    <3>4. Get(s, i) = values[i]
      BY <3>1, Zenon DEF Get, SegmentIsNull
    <3> QED BY <1>9, <1>12, <3>3, <3>4
  <2>2. CASE view.nulls # <<>>
    <3>1. s.values = values /\ s.nullable = TRUE /\ s.nulls = nulls
      BY <1>11, <2>2 DEF Nullable
    <3>2. Get(s, i) = IF nulls[i] THEN NULL ELSE values[i]
      BY <3>1, Zenon DEF Get, SegmentIsNull
    <3>3. nulls[i] = IsNull(view, i) /\ values[i] = Value(view, i)
      BY <1>9, <1>10
    <3>4. At(view, i) = IF IsNull(view, i) THEN NULL ELSE Value(view, i)
      BY Zenon DEF At
    <3> QED BY <1>12, <3>2, <3>3, <3>4, Zenon
  <2> QED BY <2>1, <2>2
<1> QED BY <1>3, <1>4, <1>8, <1>14, <1>15

-----------------------------------------------------------------------------
(* Tables as sequences of rows.                                            *)

(* What is computed step by step, from a first value on.                   *)
Iterates(f, N, first, step) ==
    /\ DOMAIN f = 0 .. N /\ f[0] = first
    /\ \A k \in 1 .. N : f[k] = step[k][f[k - 1]]

(* There is such a computation.                                            *)
LEMMA Iterations ==
    ASSUME NEW N \in Nat, NEW first, NEW step
    PROVE  \E f : Iterates(f, N, first, step)
<1> DEFINE T == {n \in 0 .. N : \E f : Iterates(f, n, first, step)}
<1>1. 0 \in T
  <2>1. Iterates([k \in 0 .. 0 |-> first], 0, first, step)
    BY DEF Iterates
  <2> QED BY <2>1
<1>2. ASSUME NEW n \in 0 .. N - 1, n \in T PROVE n + 1 \in T
  <2>1. PICK f : Iterates(f, n, first, step)
    BY <1>2
  <2>2. PICK x : x = step[n + 1][f[n]]
    OBVIOUS
  <2>3. PICK g : g = [k \in 0 .. n + 1 |-> IF k = n + 1 THEN x ELSE f[k]]
    OBVIOUS
  <2>4. DOMAIN g = 0 .. n + 1 /\ g[0] = first
    BY <2>1, <2>3 DEF Iterates
  <2>5. ASSUME NEW k \in 1 .. n + 1 PROVE g[k] = step[k][g[k - 1]]
    <3>1. g[k - 1] = f[k - 1]
      BY <2>3
    <3>2. CASE k = n + 1
      BY <2>2, <2>3, <3>1, <3>2
    <3>3. CASE k \in 1 .. n
      <4>1. f[k] = step[k][f[k - 1]]
        BY <2>1, <3>3, Zenon DEF Iterates
      <4>2. g[k] = f[k]
        BY <2>3, <3>3
      <4> QED BY <3>1, <4>1, <4>2, Zenon
    <3> QED BY <3>2, <3>3
  <2>6. Iterates(g, n + 1, first, step)
    <3>1. \A k \in 1 .. n + 1 : g[k] = step[k][g[k - 1]]
      BY <2>5, Zenon
    <3> QED BY <2>4, <3>1, Zenon DEF Iterates
  <2> QED BY <2>6
<1>3. \A n \in 0 .. N : n \in T
  <2> HIDE DEF T
  <2> QED BY <1>1, <1>2, BoundedInduction
<1> QED BY <1>3

(* Concatenation, as an operator that is expanded only here.               *)
Cat(a, b) == a \o b

(* The concatenation has the elements of the first sequence first.         *)
LEMMA Cats ==
    ASSUME NEW X, NEW a \in Seq(X), NEW b \in Seq(X)
    PROVE  /\ Cat(a, b) \in Seq(X) /\ Len(Cat(a, b)) = Len(a) + Len(b)
           /\ \A i \in 1 .. Len(a) : Cat(a, b)[i] = a[i]
           /\ a = <<>> => Cat(a, b) = b
<1>1. Cat(a, b) \in Seq(X) /\ Len(Cat(a, b)) = Len(a) + Len(b)
  BY ConcatProperties DEF Cat
<1>2. \A i \in 1 .. Len(a) + Len(b) : Cat(a, b)[i] = IF i <= Len(a) THEN a[i] ELSE b[i - Len(a)]
  BY ConcatProperties DEF Cat
<1>3. a = <<>> => Cat(a, b) = b
  BY ConcatEmptySeq DEF Cat
<1>4. Len(a) \in Nat /\ Len(b) \in Nat
  OBVIOUS
<1>5. \A i \in 1 .. Len(a) : Cat(a, b)[i] = a[i]
  BY <1>2, <1>4
<1> QED BY <1>1, <1>3, <1>5

(* The elements of the second sequence follow.                             *)
LEMMA CatTail ==
    ASSUME NEW X, NEW a \in Seq(X), NEW b \in Seq(X), NEW i \in 1 .. Len(b)
    PROVE  Cat(a, b)[Len(a) + i] = b[i]
<1>1. \A j \in 1 .. Len(a) + Len(b) : Cat(a, b)[j] = IF j <= Len(a) THEN a[j] ELSE b[j - Len(a)]
  BY ConcatProperties DEF Cat
<1>2. PICK j \in 1 .. Len(a) + Len(b) : j = Len(a) + i /\ ~(j <= Len(a)) /\ j - Len(a) = i
  OBVIOUS
<1>3. Cat(a, b)[j] = b[j - Len(a)]
  BY <1>1, <1>2, Zenon
<1> QED BY <1>2, <1>3, Zenon

(* FlattenSeq joins one sequence after the other.                          *)
Flattens(f, s) ==
    /\ DOMAIN f = 0 .. Len(s) /\ f[0] = <<>>
    /\ \A k \in 1 .. Len(s) : f[k] = Cat(f[k - 1], s[k])

(* What is joined from sequences is a sequence.                            *)
LEMMA FlattensType ==
    ASSUME NEW X, NEW s \in Seq(Seq(X)), NEW f, Flattens(f, s)
    PROVE  \A k \in 0 .. Len(s) : f[k] \in Seq(X)
<1> DEFINE T == {k \in 0 .. Len(s) : f[k] \in Seq(X)}
<1>0. Len(s) \in Nat /\ \A k \in 1 .. Len(s) : s[k] \in Seq(X)
  OBVIOUS
<1>1. 0 \in T
  <2>1. f[0] = <<>>
    BY DEF Flattens
  <2>2. f[0] \in Seq(X) /\ 0 \in 0 .. Len(s)
    BY <1>0, <2>1
  <2> QED BY <2>2
<1>2. ASSUME NEW n \in 0 .. Len(s) - 1, n \in T PROVE n + 1 \in T
  <2>1. n + 1 \in 1 .. Len(s) /\ n + 1 \in 0 .. Len(s) /\ n + 1 - 1 = n
    BY <1>0
  <2>2. f[n + 1] = Cat(f[n], s[n + 1])
    <3>1. PICK k \in 1 .. Len(s) : k = n + 1
      BY <2>1
    <3>2. f[k] = Cat(f[k - 1], s[k]) /\ k - 1 = n
      BY <1>0, <3>1 DEF Flattens
    <3> QED BY <3>1, <3>2
  <2>3. Cat(f[n], s[n + 1]) \in Seq(X)
    <3>1. f[n] \in Seq(X) /\ s[n + 1] \in Seq(X)
      BY <1>0, <1>2, <2>1, Zenon
    <3> QED BY <3>1, Cats
  <2> QED BY <2>1, <2>2, <2>3, Zenon
<1>3. \A n \in 0 .. Len(s) : n \in T
  <2> HIDE DEF T
  <2> QED BY <1>0, <1>1, <1>2, BoundedInduction
<1> QED BY <1>3

(* A sequence of sequences is flattened in this way.                       *)
LEMMA FlattenSteps ==
    ASSUME NEW X, NEW s \in Seq(Seq(X))
    PROVE  \E f : Flattens(f, s) /\ FlattenSeq(s) = f[Len(s)]
<1>0. PICK N \in Nat : N = Len(s)
  OBVIOUS
<1>1. PICK Z : Z = Seq(X)
  OBVIOUS
<1>2. <<>> \in Z /\ \A k \in 1 .. N : s[k] \in Z
  BY <1>0, <1>1
<1>3. \A a, b \in Z : Cat(a, b) \in Z /\ Cat(<<>>, b) = b
  BY <1>1, <1>2, Cats
<1>4. PICK h : Flattens(h, s)
  <2>1. PICK step : step = [k \in 1 .. N |-> [a \in Z |-> Cat(a, s[k])]]
    OBVIOUS
  <2>2. PICK h : Iterates(h, N, <<>>, step)
    BY <1>0, Iterations
  <2>3. DOMAIN h = 0 .. N /\ h[0] = <<>> /\ \A k \in 1 .. N : h[k] = step[k][h[k - 1]]
    BY <2>2, Zenon DEF Iterates
  <2>4. \A k \in 1 .. N, a \in Z : step[k][a] = Cat(a, s[k])
    BY <2>1
  <2> DEFINE T == {k \in 0 .. N : h[k] \in Z}
  <2>5. 0 \in T
    BY <1>2, <2>3
  <2>6. ASSUME NEW n \in 0 .. N - 1, n \in T PROVE n + 1 \in T
    <3>1. n + 1 \in 1 .. N /\ n + 1 \in 0 .. N /\ n + 1 - 1 = n
      OBVIOUS
    <3>2. h[n + 1] = step[n + 1][h[n]] /\ h[n] \in Z
      BY <2>3, <2>6, <3>1
    <3>3. h[n + 1] = Cat(h[n], s[n + 1])
      BY <2>4, <3>1, <3>2, Zenon
    <3>4. h[n + 1] \in Z
      BY <1>2, <1>3, <3>1, <3>2, <3>3, Zenon
    <3> QED BY <3>1, <3>4
  <2>7. \A n \in 0 .. N : n \in T
    <3> HIDE DEF T
    <3> QED BY <2>5, <2>6, BoundedInduction
  <2>8. ASSUME NEW k \in 1 .. N PROVE h[k] = Cat(h[k - 1], s[k])
    <3>1. k - 1 \in 0 .. N
      OBVIOUS
    <3>2. h[k - 1] \in Z
      BY <2>7, <3>1
    <3> QED BY <2>3, <2>4, <3>2, Zenon
  <2>9. Flattens(h, s)
    BY <1>0, <2>3, <2>8, Zenon DEF Flattens
  <2> QED BY <2>9
<1>5. CASE N = 0
  <2>1. FlattenSeq(s) = <<>>
    <3>1. Len(s) = 0 /\ s = <<>>
      BY <1>0, <1>5, EmptySeq
    <3>2. FlattenSeq(s) = s
      BY <3>1, Zenon DEF FlattenSeq
    <3> QED BY <3>1, <3>2
  <2> QED BY <1>0, <1>4, <1>5, <2>1, Zenon DEF Flattens
<1>6. CASE N # 0
  <2> DEFINE Equation(f) == f = [i \in 1 .. Len(s) |-> IF i = 1 THEN s[i] ELSE Cat(f[i - 1], s[i])]
             f == CHOOSE f : Equation(f)
  <2>1. FlattenSeq(s) = f[Len(s)]
    BY <1>0, <1>6 DEF FlattenSeq, Cat
  <2>2. \E g : Equation(g)
    <3>1. PICK g : g = [k \in 1 .. N |-> h[k]]
      OBVIOUS
    <3>2. ASSUME NEW i \in 1 .. N PROVE g[i] = IF i = 1 THEN s[i] ELSE Cat(g[i - 1], s[i])
      <4>1. h[i] = Cat(h[i - 1], s[i])
        BY <1>0, <1>4, Zenon DEF Flattens
      <4>2. CASE i = 1
        <5>1. h[i - 1] = <<>>
          BY <1>4, <4>2 DEF Flattens
        <5>2. h[i] = s[i]
          BY <1>2, <1>3, <4>1, <5>1, Zenon
        <5> QED BY <3>1, <4>2, <5>2
      <4>3. CASE i # 1
        <5>1. i - 1 \in 1 .. N
          BY <4>3
        <5>2. g[i] = h[i] /\ g[i - 1] = h[i - 1]
          BY <3>1, <5>1
        <5> QED BY <4>1, <4>3, <5>2
      <4> QED BY <4>2, <4>3
    <3>3. Equation(g)
      <4>1. g = [i \in 1 .. N |-> g[i]]
        BY <3>1
      <4> QED BY <1>0, <3>2, <4>1
    <3> HIDE DEF Equation
    <3> QED BY <3>3
  <2>3. Equation(f)
    <3> HIDE DEF Equation
    <3> QED BY <2>2
  <2> HIDE DEF f
  <2>4. \A i \in 1 .. N : f[i] = IF i = 1 THEN s[i] ELSE Cat(f[i - 1], s[i])
    BY <1>0, <2>3
  <2>5. \A i \in 1 .. N : f[i] = h[i]
    <3> DEFINE T == {i \in 1 .. N : f[i] = h[i]}
    <3>1. ASSUME NEW i \in 1 .. N, \A j \in 1 .. i - 1 : j \in T PROVE i \in T
      <4>1. h[i] = Cat(h[i - 1], s[i])
        BY <1>0, <1>4, Zenon DEF Flattens
      <4>2. CASE i = 1
        <5>1. h[i - 1] = <<>>
          BY <1>4, <4>2 DEF Flattens
        <5>2. h[i] = s[i]
          BY <1>2, <1>3, <4>1, <5>1, Zenon
        <5>3. f[i] = s[i]
          BY <2>4, <4>2, Zenon
        <5> QED BY <5>2, <5>3
      <4>3. CASE i # 1
        <5>1. i - 1 \in 1 .. i - 1
          BY <4>3
        <5>2. f[i - 1] = h[i - 1]
          BY <3>1, <5>1
        <5>3. f[i] = Cat(f[i - 1], s[i])
          BY <2>4, <4>3, Zenon
        <5> QED BY <4>1, <5>2, <5>3
      <4> QED BY <4>2, <4>3
    <3>2. \A i \in 1 .. N : i \in T
      <4> HIDE DEF T
      <4> QED BY <3>1, CourseOfValues
    <3> QED BY <3>2
  <2>6. FlattenSeq(s) = h[Len(s)]
    BY <1>0, <1>6, <2>1, <2>5
  <2> QED BY <1>4, <2>6
<1> QED BY <1>5, <1>6

(* The elements of f are those of the first n sequences of s: element j is *)
(* number o[j] of sequence c[j].                                           *)
Placed(c, o, f, s, n) ==
    /\ DOMAIN c = 1 .. Len(f) /\ DOMAIN o = 1 .. Len(f)
    /\ \A j \in 1 .. Len(f) : c[j] \in 1 .. n /\ o[j] \in 1 .. Len(s[c[j]])
    /\ \A j \in 1 .. Len(f) : f[j] = s[c[j]][o[j]]
    /\ \A j, k \in 1 .. Len(f) : c[j] = c[k] /\ o[j] = o[k] => j = k
    /\ \A m \in 1 .. n : \A i \in 1 .. Len(s[m]) : \E j \in 1 .. Len(f) : c[j] = m /\ o[j] = i

MoreChunks(c, L, B, n) == [j \in 1 .. L + B |-> IF j <= L THEN c[j] ELSE n + 1]
MoreOffsets(o, L, B) == [j \in 1 .. L + B |-> IF j <= L THEN o[j] ELSE j - L]

(* One more sequence.                                                      *)
LEMMA PlaceMore ==
    ASSUME NEW X, NEW n \in Nat, NEW s, NEW b \in Seq(X), b = s[n + 1],
           NEW c, NEW o, NEW f \in Seq(X), Placed(c, o, f, s, n),
           NEW d, d = MoreChunks(c, Len(f), Len(b), n), NEW q, q = MoreOffsets(o, Len(f), Len(b))
    PROVE  Placed(d, q, Cat(f, b), s, n + 1)
<1>3. PICK g : g = Cat(f, b)
  OBVIOUS
<1>4. PICK L \in Nat : L = Len(f)
  OBVIOUS
<1>5. PICK B \in Nat : B = Len(b)
  OBVIOUS
<1>6. Len(g) = L + B
  BY <1>3, <1>4, <1>5, Cats
<1>7. \A j \in 1 .. L : g[j] = f[j]
  BY <1>3, <1>4, Cats
<1>8. \A i \in 1 .. B : g[L + i] = b[i]
  <2>1. \A i \in 1 .. Len(b) : Cat(f, b)[Len(f) + i] = b[i]
    BY CatTail
  <2> QED BY <1>3, <1>4, <1>5, <2>1, Zenon
<1>9. /\ DOMAIN d = 1 .. L + B /\ DOMAIN q = 1 .. L + B
      /\ \A j \in 1 .. L : d[j] = c[j] /\ q[j] = o[j]
      /\ \A j \in L + 1 .. L + B : d[j] = n + 1 /\ q[j] = j - L
  BY <1>4, <1>5 DEF MoreChunks, MoreOffsets
<1>10. /\ \A j \in 1 .. L : c[j] \in 1 .. n /\ o[j] \in 1 .. Len(s[c[j]])
       /\ \A j \in 1 .. L : f[j] = s[c[j]][o[j]]
       /\ \A j, k \in 1 .. L : c[j] = c[k] /\ o[j] = o[k] => j = k
       /\ \A m \in 1 .. n : \A i \in 1 .. Len(s[m]) : \E j \in 1 .. L : c[j] = m /\ o[j] = i
  BY <1>4, ZenonT(60) DEF Placed
<1>11. ASSUME NEW j \in 1 .. L + B
       PROVE  d[j] \in 1 .. n + 1 /\ q[j] \in 1 .. Len(s[d[j]]) /\ g[j] = s[d[j]][q[j]]
  <2>1. CASE j \in 1 .. L
    <3>1. d[j] = c[j] /\ q[j] = o[j] /\ g[j] = f[j]
      BY <1>7, <1>9, <2>1, Zenon
    <3>2. c[j] \in 1 .. n + 1
      BY <1>10, <2>1
    <3> QED BY <1>10, <2>1, <3>1, <3>2, Zenon
  <2>2. CASE j \in L + 1 .. L + B
    <3>1. d[j] = n + 1 /\ q[j] = j - L
      BY <1>9, <2>2, Zenon
    <3>2. PICK i \in 1 .. B : i = j - L
      BY <2>2
    <3>3. j = L + i
      BY <3>2
    <3>4. g[j] = b[i]
      BY <1>8, <3>3, Zenon
    <3>5. n + 1 \in 1 .. n + 1
      OBVIOUS
    <3> QED BY <1>5, <3>1, <3>2, <3>4, <3>5, Zenon
  <2> QED BY <2>1, <2>2
<1>12. ASSUME NEW j \in 1 .. L + B, NEW k \in 1 .. L + B, d[j] = d[k], q[j] = q[k] PROVE j = k
  <2>1. CASE j \in 1 .. L /\ k \in 1 .. L
    <3>1. c[j] = c[k] /\ o[j] = o[k]
      BY <1>9, <1>12, <2>1
    <3> QED BY <1>10, <2>1, <3>1, Zenon
  <2>2. CASE j \notin 1 .. L /\ k \notin 1 .. L
    BY <1>9, <1>12, <2>2
  <2>3. CASE j \in 1 .. L /\ k \notin 1 .. L
    <3>1. d[j] \in 1 .. n
      BY <1>9, <1>10, <2>3
    <3>2. d[k] = n + 1
      BY <1>9, <2>3
    <3> QED BY <1>12, <3>1, <3>2
  <2>4. CASE j \notin 1 .. L /\ k \in 1 .. L
    <3>1. d[k] \in 1 .. n
      BY <1>9, <1>10, <2>4
    <3>2. d[j] = n + 1
      BY <1>9, <2>4
    <3> QED BY <1>12, <3>1, <3>2
  <2> QED BY <2>1, <2>2, <2>3, <2>4
<1>13. ASSUME NEW m \in 1 .. n + 1, NEW i \in 1 .. Len(s[m])
       PROVE  \E j \in 1 .. L + B : d[j] = m /\ q[j] = i
  <2>1. CASE m \in 1 .. n
    <3>1. PICK j \in 1 .. L : c[j] = m /\ o[j] = i
      BY <1>10, <2>1, Zenon
    <3>2. d[j] = m /\ q[j] = i
      BY <1>9, <3>1, Zenon
    <3>3. j \in 1 .. L + B
      OBVIOUS
    <3> QED BY <3>2, <3>3, Zenon
  <2>2. CASE m = n + 1
    <3>1. i \in 1 .. B
      BY <1>5, <1>13, <2>2
    <3>2. L + i \in L + 1 .. L + B /\ L + i \in 1 .. L + B /\ L + i - L = i
      BY <3>1
    <3>3. d[L + i] = n + 1 /\ q[L + i] = i
      BY <1>9, <3>2
    <3> QED BY <2>2, <3>2, <3>3, Zenon
  <2> QED BY <2>1, <2>2
<1>14. Placed(d, q, g, s, n + 1)
  <2>1. PICK M : M = L + B
    OBVIOUS
  <2>2. Len(g) = M
    BY <1>6, <2>1
  <2>3. DOMAIN d = 1 .. M /\ DOMAIN q = 1 .. M
    BY <1>9, <2>1
  <2>4. \A j \in 1 .. M : d[j] \in 1 .. n + 1 /\ q[j] \in 1 .. Len(s[d[j]])
    BY <1>11, <2>1, Zenon
  <2>7. \A j \in 1 .. M : g[j] = s[d[j]][q[j]]
    BY <1>11, <2>1, Zenon
  <2>5. \A j, k \in 1 .. M : d[j] = d[k] /\ q[j] = q[k] => j = k
    BY <1>12, <2>1, Zenon
  <2>6. \A m \in 1 .. n + 1 : \A i \in 1 .. Len(s[m]) : \E j \in 1 .. M : d[j] = m /\ q[j] = i
    BY <1>13, <2>1, Zenon
  <2> QED BY <2>2, <2>3, <2>4, <2>5, <2>6, <2>7 DEF Placed
<1> QED BY <1>3, <1>14

(* Sequences of the same lengths are flattened to the same places.         *)
LEMMA FlattenPlaces ==
    ASSUME NEW X, NEW s \in Seq(Seq(X)), NEW Y, NEW z \in Seq(Seq(Y)), Len(z) = Len(s),
           \A k \in 1 .. Len(s) : Len(z[k]) = Len(s[k])
    PROVE  /\ FlattenSeq(s) \in Seq(X) /\ FlattenSeq(z) \in Seq(Y)
           /\ \E c, o : /\ Placed(c, o, FlattenSeq(s), s, Len(s))
                        /\ Placed(c, o, FlattenSeq(z), z, Len(s))
<1>0. PICK N \in Nat : N = Len(s) /\ N = Len(z)
  OBVIOUS
<1>1. PICK f : Flattens(f, s) /\ FlattenSeq(s) = f[N]
  BY <1>0, FlattenSteps
<1>2. PICK g : Flattens(g, z) /\ FlattenSeq(z) = g[N]
  BY <1>0, FlattenSteps
<1>3. \A k \in 0 .. N : f[k] \in Seq(X)
  BY <1>0, <1>1, FlattensType
<1>4. \A k \in 0 .. N : g[k] \in Seq(Y)
  BY <1>0, <1>2, FlattensType
<1>5. /\ f[0] = <<>> /\ g[0] = <<>>
      /\ \A k \in 1 .. N : f[k] = Cat(f[k - 1], s[k]) /\ g[k] = Cat(g[k - 1], z[k])
  BY <1>0, <1>1, <1>2, Zenon DEF Flattens
<1> DEFINE T == {n \in 0 .. N : \E c, o : Placed(c, o, f[n], s, n) /\ Placed(c, o, g[n], z, n)}
<1>6. 0 \in T
  <2>1. \A x : Placed(<<>>, <<>>, <<>>, x, 0)
    BY DEF Placed
  <2>2. Placed(<<>>, <<>>, f[0], s, 0) /\ Placed(<<>>, <<>>, g[0], z, 0)
    BY <1>5, <2>1
  <2>3. 0 \in 0 .. N
    OBVIOUS
  <2> QED BY <2>2, <2>3, Zenon
<1>7. ASSUME NEW n \in 0 .. N - 1, n \in T PROVE n + 1 \in T
  <2>1. PICK c, o : Placed(c, o, f[n], s, n) /\ Placed(c, o, g[n], z, n)
    BY <1>7
  <2>2. n + 1 \in 1 .. N /\ n + 1 \in 0 .. N /\ n \in 0 .. N
    OBVIOUS
  <2>3. f[n + 1] = Cat(f[n], s[n + 1]) /\ g[n + 1] = Cat(g[n], z[n + 1])
    <3>1. PICK k \in 1 .. N : k = n + 1
      BY <2>2
    <3>2. k - 1 = n
      BY <3>1
    <3> QED BY <1>5, <3>1, <3>2
  <2>4. PICK a \in Seq(X) : a = f[n]
    BY <1>3, <2>2
  <2>5. PICK b \in Seq(Y) : b = g[n]
    BY <1>4, <2>2
  <2>6. Len(a) = Len(b)
    <3>1. DOMAIN c = 1 .. Len(a) /\ DOMAIN c = 1 .. Len(b)
      BY <2>1, <2>4, <2>5, Zenon DEF Placed
    <3> QED BY <3>1
  <2>7. Len(s[n + 1]) = Len(z[n + 1])
    BY <1>0, <2>2, Zenon
  <2>8. PICK u \in Seq(X) : u = s[n + 1]
    BY <1>0, <2>2, ElementOfSeq
  <2>9. PICK v \in Seq(Y) : v = z[n + 1]
    BY <1>0, <2>2, ElementOfSeq
  <2>12. PICK d : d = MoreChunks(c, Len(a), Len(u), n)
    OBVIOUS
  <2>13. PICK q : q = MoreOffsets(o, Len(a), Len(u))
    OBVIOUS
  <2>10. Placed(d, q, Cat(a, u), s, n + 1)
    <3>1. Placed(c, o, a, s, n) /\ n \in Nat
      BY <2>1, <2>4
    <3> QED BY <2>8, <2>12, <2>13, <3>1, PlaceMore
  <2>11. Placed(d, q, Cat(b, v), z, n + 1)
    <3>1. Placed(c, o, b, z, n) /\ n \in Nat
      BY <2>1, <2>5
    <3>2. d = MoreChunks(c, Len(b), Len(v), n) /\ q = MoreOffsets(o, Len(b), Len(v))
      BY <2>6, <2>7, <2>8, <2>9, <2>12, <2>13
    <3> QED BY <2>9, <3>1, <3>2, PlaceMore
  <2> QED BY <2>2, <2>3, <2>4, <2>5, <2>8, <2>9, <2>10, <2>11, Zenon
<1>8. N \in T
  <2> HIDE DEF T
  <2>1. \A n \in 0 .. N : n \in T
    BY <1>6, <1>7, BoundedInduction
  <2> QED BY <2>1
<1>9. FlattenSeq(s) \in Seq(X) /\ FlattenSeq(z) \in Seq(Y)
  BY <1>1, <1>2, <1>3, <1>4
<1> QED BY <1>0, <1>1, <1>2, <1>8, <1>9, Zenon

(* Chunks with a number of rows each.                                      *)
HasChunks(t) ==
    /\ Len(t.chunks) \in Nat /\ DOMAIN t.chunks = 1 .. Len(t.chunks)
    /\ \A k \in DOMAIN t.chunks : ChunkSize(t.chunks[k]) \in Nat

(* Row j of a table is row o[j] of chunk c[j].                             *)
RowsAt(c, o, t) ==
    /\ DOMAIN c = DOMAIN Rows(t) /\ DOMAIN o = DOMAIN Rows(t)
    /\ \A j \in DOMAIN Rows(t) : /\ c[j] \in DOMAIN t.chunks
                                 /\ o[j] \in 1 .. ChunkSize(t.chunks[c[j]])
                                 /\ Rows(t)[j] = RowAt(t.chunks[c[j]], o[j])
    /\ \A j, k \in DOMAIN Rows(t) : c[j] = c[k] /\ o[j] = o[k] => j = k
    /\ \A m \in DOMAIN t.chunks : \A i \in 1 .. ChunkSize(t.chunks[m]) :
          \E j \in DOMAIN Rows(t) : c[j] = m /\ o[j] = i

(* The rows of the chunks of a table.                                      *)
RowLists(t) == [k \in DOMAIN t.chunks |-> ChunkRows(t.chunks[k])]
RowSet(t) == UNION {{RowAt(t.chunks[k], i) : i \in 1 .. ChunkSize(t.chunks[k])} : k \in DOMAIN t.chunks}

(* They are sequences of the sizes of the chunks.                          *)
LEMMA RowListsType ==
    ASSUME NEW t, HasChunks(t)
    PROVE  /\ RowLists(t) \in Seq(Seq(RowSet(t))) /\ Len(RowLists(t)) = Len(t.chunks)
           /\ \A k \in DOMAIN t.chunks :
                 /\ Len(RowLists(t)[k]) = ChunkSize(t.chunks[k])
                 /\ \A i \in 1 .. ChunkSize(t.chunks[k]) : RowLists(t)[k][i] = RowAt(t.chunks[k], i)
<1>1. PICK N \in Nat : N = Len(t.chunks) /\ DOMAIN t.chunks = 1 .. N
  BY DEF HasChunks
<1>2. PICK s : s = RowLists(t)
  OBVIOUS
<1>3. DOMAIN s = 1 .. N
  BY <1>1, <1>2 DEF RowLists
<1>4. ASSUME NEW k \in 1 .. N
      PROVE  /\ s[k] \in Seq(RowSet(t)) /\ Len(s[k]) = ChunkSize(t.chunks[k])
             /\ \A i \in 1 .. ChunkSize(t.chunks[k]) : s[k][i] = RowAt(t.chunks[k], i)
  <2>1. PICK chunk : chunk = t.chunks[k]
    OBVIOUS
  <2>2. PICK n \in Nat : n = ChunkSize(chunk)
    BY <1>1, <2>1 DEF HasChunks
  <2>3. s[k] = ChunkRows(chunk)
    BY <1>1, <1>2, <2>1 DEF RowLists
  <2>4. PICK a : a = s[k]
    OBVIOUS
  <2>5. a = [i \in 1 .. n |-> RowAt(chunk, i)]
    BY <2>2, <2>3, <2>4, Zenon DEF ChunkRows, RowAt
  <2>6. ASSUME NEW i \in 1 .. n PROVE RowAt(chunk, i) \in RowSet(t)
    <3>1. RowAt(t.chunks[k], i) \in {RowAt(t.chunks[k], j) : j \in 1 .. ChunkSize(t.chunks[k])}
      BY <2>1, <2>2
    <3>2. k \in DOMAIN t.chunks
      BY <1>1
    <3>3. RowAt(t.chunks[k], i) \in RowSet(t)
      BY <3>1, <3>2, Zenon DEF RowSet
    <3> QED BY <2>1, <3>3
  <2>7. a \in [1 .. n -> RowSet(t)]
    BY <2>5, <2>6
  <2>8. a \in Seq(RowSet(t)) /\ Len(a) = n
    BY <2>7
  <2>9. \A i \in 1 .. n : a[i] = RowAt(chunk, i)
    BY <2>5, Zenon
  <2> QED BY <2>1, <2>2, <2>4, <2>8, <2>9, Zenon
<1>5. s \in Seq(Seq(RowSet(t))) /\ Len(s) = N
  <2>1. PICK Z : Z = Seq(RowSet(t))
    OBVIOUS
  <2>2. s \in [1 .. N -> Z]
    <3>1. s = [k \in 1 .. N |-> s[k]]
      BY <1>1, <1>2 DEF RowLists
    <3>2. \A k \in 1 .. N : s[k] \in Z
      BY <1>4, <2>1, Zenon
    <3> QED BY <3>1, <3>2
  <2>3. s \in Seq(Z) /\ Len(s) = N
    BY <2>2
  <2> QED BY <2>1, <2>3
<1> QED BY <1>1, <1>2, <1>4, <1>5, Zenon

(* Places in the lists of rows are places in chunks.                       *)
LEMMA PlacedRows ==
    ASSUME NEW t, NEW N \in Nat, DOMAIN t.chunks = 1 .. N,
           NEW s, \A k \in 1 .. N : Len(s[k]) = ChunkSize(t.chunks[k]),
           \A k \in 1 .. N : \A i \in 1 .. ChunkSize(t.chunks[k]) : s[k][i] = RowAt(t.chunks[k], i),
           NEW f, Rows(t) = f, DOMAIN f = 1 .. Len(f), NEW c, NEW o, Placed(c, o, f, s, N)
    PROVE  RowsAt(c, o, t)
<1>1. PICK D : D = 1 .. Len(f)
  OBVIOUS
<1>2. DOMAIN Rows(t) = D /\ DOMAIN c = D /\ DOMAIN o = D
  BY <1>1 DEF Placed
<1>3. ASSUME NEW j \in D
      PROVE  /\ c[j] \in DOMAIN t.chunks /\ o[j] \in 1 .. ChunkSize(t.chunks[c[j]])
             /\ Rows(t)[j] = RowAt(t.chunks[c[j]], o[j])
  <2>1. c[j] \in 1 .. N /\ o[j] \in 1 .. Len(s[c[j]]) /\ f[j] = s[c[j]][o[j]]
    BY <1>1, <1>3, Zenon DEF Placed
  <2>2. PICK m \in 1 .. N : m = c[j]
    BY <2>1
  <2>3. PICK i \in 1 .. ChunkSize(t.chunks[m]) : i = o[j]
    BY <2>1, <2>2
  <2>4. f[j] = RowAt(t.chunks[m], i)
    BY <2>1, <2>2, <2>3
  <2> QED BY <2>2, <2>3, <2>4
<1>4. \A j, k \in D : c[j] = c[k] /\ o[j] = o[k] => j = k
  BY <1>1, Zenon DEF Placed
<1>5. ASSUME NEW m \in 1 .. N, NEW i \in 1 .. ChunkSize(t.chunks[m])
      PROVE  \E j \in D : c[j] = m /\ o[j] = i
  <2>1. i \in 1 .. Len(s[m])
    OBVIOUS
  <2>2. \A l \in 1 .. N : \A h \in 1 .. Len(s[l]) : \E j \in 1 .. Len(f) : c[j] = l /\ o[j] = h
    BY DEF Placed
  <2>3. PICK j \in 1 .. Len(f) : c[j] = m /\ o[j] = i
    BY <2>1, <2>2
  <2> QED BY <1>1, <2>3
<1>6. \A j \in DOMAIN Rows(t) : /\ c[j] \in DOMAIN t.chunks
                                /\ o[j] \in 1 .. ChunkSize(t.chunks[c[j]])
                                /\ Rows(t)[j] = RowAt(t.chunks[c[j]], o[j])
  BY <1>2, <1>3
<1>7. \A m \in DOMAIN t.chunks : \A i \in 1 .. ChunkSize(t.chunks[m]) :
         \E j \in DOMAIN Rows(t) : c[j] = m /\ o[j] = i
  <2>1. SUFFICES ASSUME NEW m \in 1 .. N, NEW i \in 1 .. ChunkSize(t.chunks[m])
                 PROVE  \E j \in DOMAIN Rows(t) : c[j] = m /\ o[j] = i
    OBVIOUS
  <2>2. PICK j \in D : c[j] = m /\ o[j] = i
    BY <1>5
  <2> QED BY <1>2, <2>2, Zenon
<1>8. \A j, k \in DOMAIN Rows(t) : c[j] = c[k] /\ o[j] = o[k] => j = k
  BY <1>2, <1>4, Zenon
<1>9. DOMAIN c = DOMAIN Rows(t) /\ DOMAIN o = DOMAIN Rows(t)
  BY <1>2
<1> QED BY <1>6, <1>7, <1>8, <1>9, Zenon DEF RowsAt

(* Rows of tables with chunks of the same sizes are at the same places.    *)
LEMMA RowsPlaced ==
    ASSUME NEW t, HasChunks(t), NEW u, HasChunks(u), Len(u.chunks) = Len(t.chunks),
           \A k \in DOMAIN t.chunks : ChunkSize(u.chunks[k]) = ChunkSize(t.chunks[k])
    PROVE  /\ Len(Rows(t)) \in Nat /\ DOMAIN Rows(t) = 1 .. Len(Rows(t)) /\ Rows(t) \in Seq(RowSet(t))
           /\ \E c, o : RowsAt(c, o, t) /\ RowsAt(c, o, u)
<1>1. PICK N \in Nat : /\ N = Len(t.chunks) /\ DOMAIN t.chunks = 1 .. N
                       /\ N = Len(u.chunks) /\ DOMAIN u.chunks = 1 .. N
  BY DEF HasChunks
<1>2. PICK X : X = RowSet(t)
  OBVIOUS
<1>3. PICK Y : Y = RowSet(u)
  OBVIOUS
<1>4. PICK s \in Seq(Seq(X)) : s = RowLists(t)
  BY <1>2, RowListsType
<1>5. PICK z \in Seq(Seq(Y)) : z = RowLists(u)
  BY <1>3, RowListsType
<1>6. /\ Len(s) = N /\ \A k \in 1 .. N : Len(s[k]) = ChunkSize(t.chunks[k])
      /\ \A k \in 1 .. N : \A i \in 1 .. ChunkSize(t.chunks[k]) : s[k][i] = RowAt(t.chunks[k], i)
  BY <1>1, <1>4, RowListsType, Zenon
<1>7. /\ Len(z) = N /\ \A k \in 1 .. N : Len(z[k]) = ChunkSize(u.chunks[k])
      /\ \A k \in 1 .. N : \A i \in 1 .. ChunkSize(u.chunks[k]) : z[k][i] = RowAt(u.chunks[k], i)
  BY <1>1, <1>5, RowListsType, Zenon
<1>8. Len(z) = Len(s) /\ \A k \in 1 .. Len(s) : Len(z[k]) = Len(s[k])
  BY <1>1, <1>6, <1>7
<1>9. PICK f \in Seq(X) : f = FlattenSeq(s)
  BY <1>8, FlattenPlaces
<1>10. PICK g \in Seq(Y) : g = FlattenSeq(z)
  BY <1>8, FlattenPlaces
<1>11. PICK c, o : Placed(c, o, f, s, N) /\ Placed(c, o, g, z, N)
  <2>1. PICK c, o : Placed(c, o, FlattenSeq(s), s, Len(s)) /\ Placed(c, o, FlattenSeq(z), z, Len(s))
    BY <1>8, FlattenPlaces
  <2> QED BY <1>6, <1>9, <1>10, <2>1
<1>12. Rows(t) = f /\ Rows(u) = g
  BY <1>4, <1>5, <1>9, <1>10, Zenon DEF Rows, RowLists
<1>13. Len(f) \in Nat /\ DOMAIN f = 1 .. Len(f) /\ Len(g) \in Nat /\ DOMAIN g = 1 .. Len(g)
  OBVIOUS
<1>14. RowsAt(c, o, t)
  BY <1>1, <1>6, <1>11, <1>12, <1>13, PlacedRows
<1>15. RowsAt(c, o, u)
  BY <1>1, <1>7, <1>11, <1>12, <1>13, PlacedRows
<1> QED BY <1>2, <1>12, <1>13, <1>14, <1>15, Zenon

(* Sets are counted through a function that is one to one.                 *)
LEMMA CountedThrough ==
    ASSUME NEW A, NEW B, IsFiniteSet(A), NEW f \in [A -> B],
           \A x, y \in A : f[x] = f[y] => x = y, \A y \in B : \E x \in A : f[x] = y
    PROVE  Cardinality(A) = Cardinality(B)
<1>1. f \in Bijection(A, B)
  BY DEF Bijection, Injection, Surjection, IsInjective
<1>2. ExistsBijection(A, B)
  BY <1>1 DEF ExistsBijection
<1> QED BY <1>2, FS_Bijection

(* A sequence lists a set, each element once.                              *)
Lists(a, S) ==
    /\ a \in Seq(Nat)
    /\ \A j \in 1 .. Len(a) : a[j] \in S
    /\ \A j, k \in 1 .. Len(a) : a[j] = a[k] => j = k
    /\ \A x \in S : \E j \in 1 .. Len(a) : a[j] = x

(* One step of the scan of a position list.                                *)
Scanned(a, i, matches) == IF i \in matches THEN Append(a, i) ELSE a

(* A step of the scan leaves a list of positions.                          *)
LEMMA ScannedType ==
    ASSUME NEW a \in Seq(Nat), NEW i \in Nat, NEW matches
    PROVE  Scanned(a, i, matches) \in Seq(Nat)
BY DEF Scanned

(* The scan of a position list takes a step for each row.                  *)
LEMMA OffsetSteps ==
    ASSUME NEW matches, NEW n \in Nat
    PROVE  \E f : /\ f[0] = <<>> /\ Offsets(matches, n) = f[n]
                  /\ \A i \in 1 .. n : f[i] = Scanned(f[i - 1], i, matches)
<1> DEFINE Equation(f) ==
              f = [i \in 0 .. n |-> IF i = 0 THEN <<>> ELSE Scanned(f[i - 1], i, matches)]
           f == CHOOSE f : Equation(f)
<1>1. Offsets(matches, n) = f[n]
  BY DEF Offsets, Scanned
<1>2. PICK Z : Z = Seq(Nat)
  OBVIOUS
<1>3. <<>> \in Z /\ \A a \in Z, i \in 1 .. n : Scanned(a, i, matches) \in Z
  BY <1>2, ScannedType
<1>4. \E g : Equation(g)
  <2>1. PICK step : step = [k \in 1 .. n |-> [a \in Z |-> Scanned(a, k, matches)]]
    OBVIOUS
  <2>2. PICK h : Iterates(h, n, <<>>, step)
    BY Iterations
  <2>3. DOMAIN h = 0 .. n /\ h[0] = <<>> /\ \A k \in 1 .. n : h[k] = step[k][h[k - 1]]
    BY <2>2, Zenon DEF Iterates
  <2>4. \A k \in 1 .. n, a \in Z : step[k][a] = Scanned(a, k, matches)
    BY <2>1
  <2> DEFINE T == {k \in 0 .. n : h[k] \in Z}
  <2>5. 0 \in T
    BY <1>3, <2>3
  <2>6. ASSUME NEW m \in 0 .. n - 1, m \in T PROVE m + 1 \in T
    <3>1. m + 1 \in 1 .. n /\ m + 1 \in 0 .. n
      OBVIOUS
    <3>2. h[m + 1] = step[m + 1][h[m]] /\ h[m] \in Z
      BY <2>3, <2>6, <3>1
    <3>3. h[m + 1] = Scanned(h[m], m + 1, matches)
      BY <2>4, <3>1, <3>2, Zenon
    <3>4. h[m + 1] \in Z
      BY <1>3, <3>1, <3>2, <3>3, Zenon
    <3> QED BY <3>1, <3>4
  <2>7. \A m \in 0 .. n : m \in T
    <3> HIDE DEF T
    <3> QED BY <2>5, <2>6, BoundedInduction
  <2>8. ASSUME NEW k \in 1 .. n PROVE h[k] = Scanned(h[k - 1], k, matches)
    <3>1. k - 1 \in 0 .. n
      OBVIOUS
    <3>2. h[k - 1] \in Z
      BY <2>7, <3>1
    <3> QED BY <2>3, <2>4, <3>2, Zenon
  <2>9. PICK g : g = [i \in 0 .. n |-> h[i]]
    OBVIOUS
  <2>10. Equation(g)
    <3>1. ASSUME NEW i \in 0 .. n PROVE g[i] = IF i = 0 THEN <<>> ELSE Scanned(g[i - 1], i, matches)
      BY <2>3, <2>8, <2>9
    <3>2. g = [i \in 0 .. n |-> g[i]]
      BY <2>9
    <3> QED BY <3>1, <3>2
  <2> HIDE DEF Equation
  <2> QED BY <2>10
<1>5. Equation(f)
  <2> HIDE DEF Equation
  <2> QED BY <1>4
<1> HIDE DEF f
<1>6. f[0] = <<>>
  BY <1>5
<1>7. \A i \in 1 .. n : f[i] = Scanned(f[i - 1], i, matches)
  BY <1>5
<1> QED BY <1>1, <1>6, <1>7

(* It lists the positions.                                                 *)
LEMMA OffsetsList ==
    ASSUME NEW n \in Nat, NEW matches, matches \subseteq 1 .. n
    PROVE  Lists(Offsets(matches, n), matches)
<1>1. PICK f : /\ f[0] = <<>> /\ Offsets(matches, n) = f[n]
               /\ \A i \in 1 .. n : f[i] = Scanned(f[i - 1], i, matches)
  BY OffsetSteps
<1> DEFINE T == {i \in 0 .. n : Lists(f[i], matches \cap (1 .. i))}
<1>2. 0 \in T
  <2>1. matches \cap (1 .. 0) = {}
    OBVIOUS
  <2>2. Lists(<<>>, {})
    BY DEF Lists
  <2> QED BY <1>1, <2>1, <2>2
<1>3. ASSUME NEW i \in 0 .. n - 1, i \in T PROVE i + 1 \in T
  <2>1. i + 1 \in 1 .. n /\ i + 1 \in 0 .. n
    OBVIOUS
  <2>2. PICK a : a = f[i]
    OBVIOUS
  <2>3. PICK S : S = matches \cap (1 .. i)
    OBVIOUS
  <2>4. Lists(a, S)
    BY <1>3, <2>2, <2>3
  <2>5. PICK k \in 1 .. n : k = i + 1
    BY <2>1
  <2>6. f[k] = Scanned(a, k, matches)
    <3>1. k - 1 = i
      BY <2>5
    <3> QED BY <1>1, <2>2, <3>1
  <2>7. PICK U : U = matches \cap (1 .. k)
    OBVIOUS
  <2>8. CASE k \notin matches
    <3>1. U = S
      BY <2>3, <2>5, <2>7, <2>8
    <3>2. f[k] = a
      BY <2>6, <2>8 DEF Scanned
    <3> QED BY <2>1, <2>4, <2>5, <2>7, <3>1, <3>2
  <2>9. CASE k \in matches
    <3>1. U = S \cup {k} /\ k \notin S
      BY <2>3, <2>5, <2>7, <2>9
    <3>2. PICK b : b = Append(a, k)
      OBVIOUS
    <3>3. a \in Seq(Nat) /\ k \in Nat
      BY <2>4 DEF Lists
    <3>4. PICK L \in Nat : L = Len(a)
      BY <3>3
    <3>5. b \in Seq(Nat) /\ Len(b) = L + 1 /\ b[L + 1] = k /\ \A j \in 1 .. L : b[j] = a[j]
      BY <3>2, <3>3, <3>4, AppendProperties
    <3>6. /\ \A j \in 1 .. L : a[j] \in S
          /\ \A j, m \in 1 .. L : a[j] = a[m] => j = m
          /\ \A x \in S : \E j \in 1 .. L : a[j] = x
      BY <2>4, <3>4, Zenon DEF Lists
    <3>7. ASSUME NEW j \in 1 .. L + 1 PROVE b[j] \in U
      BY <3>1, <3>5, <3>6
    <3>8. ASSUME NEW j \in 1 .. L + 1, NEW m \in 1 .. L + 1, b[j] = b[m] PROVE j = m
      <4>1. CASE j = L + 1 /\ m = L + 1
        BY <4>1
      <4>2. CASE j = L + 1 /\ m \in 1 .. L
        BY <3>1, <3>5, <3>6, <3>8, <4>2
      <4>3. CASE j \in 1 .. L /\ m = L + 1
        BY <3>1, <3>5, <3>6, <3>8, <4>3
      <4>4. CASE j \in 1 .. L /\ m \in 1 .. L
        BY <3>5, <3>6, <3>8, <4>4
      <4> QED BY <4>1, <4>2, <4>3, <4>4
    <3>9. ASSUME NEW x \in U PROVE \E j \in 1 .. L + 1 : b[j] = x
      <4>1. CASE x = k
        BY <3>5, <4>1
      <4>2. CASE x \in S
        <5>1. PICK j \in 1 .. L : a[j] = x
          BY <3>6, <4>2
        <5> QED BY <3>5, <5>1
      <4> QED BY <3>1, <4>1, <4>2
    <3>10. Lists(b, U)
      <4>1. PICK M : M = L + 1
        OBVIOUS
      <4>2. Len(b) = M /\ b \in Seq(Nat)
        BY <3>5, <4>1
      <4>3. /\ \A j \in 1 .. M : b[j] \in U
            /\ \A j, m \in 1 .. M : b[j] = b[m] => j = m
            /\ \A x \in U : \E j \in 1 .. M : b[j] = x
        BY <3>7, <3>8, <3>9, <4>1, Zenon
      <4> QED BY <4>2, <4>3, Zenon DEF Lists
    <3>11. f[k] = b
      BY <2>6, <2>9, <3>2 DEF Scanned
    <3> QED BY <2>1, <2>5, <2>7, <3>10, <3>11
  <2> QED BY <2>8, <2>9
<1>4. \A i \in 0 .. n : i \in T
  <2> HIDE DEF T
  <2> QED BY <1>2, <1>3, BoundedInduction
<1>5. matches \cap (1 .. n) = matches
  OBVIOUS
<1>6. n \in T
  <2> HIDE DEF T
  <2> QED BY <1>4
<1> QED BY <1>1, <1>5, <1>6

-----------------------------------------------------------------------------
(* Filters.                                                                *)

(* The rows of a chunk are those of another at the positions matches.      *)
Picks(sel, new, chunk, matches) ==
    /\ ChunkSize(new) \in Nat /\ DOMAIN sel = 1 .. ChunkSize(new)
    /\ \A j \in 1 .. ChunkSize(new) : sel[j] \in matches /\ RowAt(new, j) = RowAt(chunk, sel[j])
    /\ \A j, k \in 1 .. ChunkSize(new) : sel[j] = sel[k] => j = k
    /\ \A x \in matches : \E j \in 1 .. ChunkSize(new) : sel[j] = x

(* Copying matches without NULLs.                                          *)
LEMMA MatchingPicks ==
    ASSUME NEW t, IsTable(t), NEW k \in DOMAIN t.chunks, NEW chunk, chunk = t.chunks[k],
           NEW matches, matches \subseteq 1 .. ChunkSize(chunk), matches # {},
           ~MatchesNull(chunk, matches)
    PROVE  Picks(Offsets(matches, ChunkSize(chunk)), Matching(chunk, matches), chunk, matches)
<1>1. PICK n \in Nat : n = ChunkSize(chunk)
  BY TableParts
<1>2. PICK a : a = Offsets(matches, n)
  OBVIOUS
<1>3. Lists(a, matches)
  BY <1>1, <1>2, OffsetsList
<1>4. PICK L \in Nat : L = Len(a) /\ DOMAIN a = 1 .. L
  BY <1>3 DEF Lists
<1>5. PICK new : new = Matching(chunk, matches)
  OBVIOUS
<1>6. DOMAIN new = DOMAIN chunk
  BY <1>5 DEF Matching
<1>7. \A c \in DOMAIN chunk : new[c] = Plain([j \in 1 .. L |-> chunk[c].values[a[j]]])
  BY <1>1, <1>2, <1>4, <1>5 DEF Matching
<1>8. chunk # <<>> /\ 1 \in DOMAIN chunk
  <2>1. chunk # <<>>
    <3>1. chunk = <<>> => ChunkSize(chunk) = 0
      BY Zenon DEF ChunkSize
    <3>2. PICK z : z \in 1 .. n
      BY <1>1
    <3> QED BY <1>1, <3>1, <3>2
  <2>2. Len(chunk) \in Nat /\ DOMAIN chunk = 1 .. Len(chunk) /\ chunk \in Seq(Segments)
    <3>1. chunk \in Seq(Segments)
      BY DEF IsTable
    <3> QED BY <3>1
  <2>3. Len(chunk) # 0
    BY <2>1, <2>2, EmptySeq
  <2> QED BY <2>1, <2>2, <2>3
<1>9. new # <<>>
  BY <1>6, <1>8
<1>10. ChunkSize(new) = L
  <2>1. ChunkSize(new) = Len(new[1].values)
    BY <1>9 DEF ChunkSize
  <2>2. PICK v : v = [j \in 1 .. L |-> chunk[1].values[a[j]]]
    OBVIOUS
  <2>3. new[1] = Plain(v)
    BY <1>7, <1>8, <2>2
  <2>4. new[1].values = v
    BY <2>3 DEF Plain
  <2>5. Len(v) = L
    BY <2>2
  <2> QED BY <2>1, <2>4, <2>5
<1>11. ASSUME NEW j \in 1 .. L PROVE a[j] \in matches /\ RowAt(new, j) = RowAt(chunk, a[j])
  <2>1. a[j] \in matches
    BY <1>3, <1>4 DEF Lists
  <2>2. ASSUME NEW c \in DOMAIN chunk PROVE Get(new[c], j) = Get(chunk[c], a[j])
    <3>1. PICK v : v = [i \in 1 .. L |-> chunk[c].values[a[i]]]
      OBVIOUS
    <3>2. new[c] = Plain(v)
      BY <1>7, <3>1
    <3>3. Get(new[c], j) = v[j]
      BY <3>2 DEF Plain, Get, SegmentIsNull
    <3>4. v[j] = chunk[c].values[a[j]]
      BY <3>1
    <3>5. ~SegmentIsNull(chunk[c], a[j])
      BY <2>1, Zenon DEF MatchesNull
    <3>6. Get(chunk[c], a[j]) = chunk[c].values[a[j]]
      BY <3>5, Zenon DEF Get
    <3> QED BY <3>3, <3>4, <3>6
  <2> QED BY <1>6, <2>1, <2>2 DEF RowAt
<1>12. Picks(a, new, chunk, matches)
  <2>1. ChunkSize(new) \in Nat /\ DOMAIN a = 1 .. ChunkSize(new)
    BY <1>4, <1>10
  <2>2. \A j \in 1 .. ChunkSize(new) : a[j] \in matches /\ RowAt(new, j) = RowAt(chunk, a[j])
    BY <1>10, <1>11, Zenon
  <2>3. Len(a) = ChunkSize(new)
    BY <1>4, <1>10
  <2>4. /\ \A j, m \in 1 .. ChunkSize(new) : a[j] = a[m] => j = m
        /\ \A x \in matches : \E j \in 1 .. ChunkSize(new) : a[j] = x
    BY <1>3, <2>3, Zenon DEF Lists
  <2> QED BY <2>1, <2>2, <2>4, Zenon DEF Picks
<1> QED BY <1>1, <1>2, <1>5, <1>12

(* The chunk that a job appends.                                           *)
Chosen(chunk, matches) == IF Cardinality(matches) = ChunkSize(chunk) THEN chunk ELSE Matching(chunk, matches)

(* It has the matching rows of its chunk.                                  *)
LEMMA ChosenPicks ==
    ASSUME NEW t, IsTable(t), NEW k \in DOMAIN t.chunks, NEW chunk, chunk = t.chunks[k],
           NEW matches, matches \subseteq 1 .. ChunkSize(chunk), matches # {},
           Cardinality(matches) = ChunkSize(chunk) \/ ~MatchesNull(chunk, matches)
    PROVE  \E sel : Picks(sel, Chosen(chunk, matches), chunk, matches)
<1>1. PICK n \in Nat : n = ChunkSize(chunk)
  BY TableParts
<1>2. CASE Cardinality(matches) = ChunkSize(chunk)
  <2>1. IsFiniteSet(1 .. n) /\ Cardinality(1 .. n) = n
    BY FS_Interval
  <2>2. matches \in SUBSET (1 .. n)
    BY <1>1
  <2>3. Cardinality(1 .. n) = Cardinality(matches)
    BY <1>1, <1>2, <2>1
  <2>4. 1 .. n = matches
    BY <2>1, <2>2, <2>3, FS_Subset
  <2>5. PICK sel : sel = [j \in 1 .. n |-> j]
    OBVIOUS
  <2>6. Chosen(chunk, matches) = chunk
    BY <1>2 DEF Chosen
  <2>7. \A j \in 1 .. n : sel[j] = j
    BY <2>5
  <2>8. /\ \A j \in 1 .. n : sel[j] \in matches /\ RowAt(chunk, j) = RowAt(chunk, sel[j])
        /\ \A j, m \in 1 .. n : sel[j] = sel[m] => j = m
        /\ \A x \in matches : \E j \in 1 .. n : sel[j] = x
    BY <2>4, <2>7, Zenon
  <2>9. DOMAIN sel = 1 .. n
    BY <2>5
  <2>10. Picks(sel, chunk, chunk, matches)
    BY <1>1, <2>8, <2>9, Zenon DEF Picks
  <2> QED BY <2>6, <2>10
<1>3. CASE Cardinality(matches) # ChunkSize(chunk)
  <2>1. Picks(Offsets(matches, ChunkSize(chunk)), Matching(chunk, matches), chunk, matches)
    BY <1>3, MatchingPicks
  <2>2. Chosen(chunk, matches) = Matching(chunk, matches)
    BY <1>3 DEF Chosen
  <2> QED BY <2>1, <2>2
<1> QED BY <1>2, <1>3

(* The positions that the job of a chunk finds.                            *)
Matches(e, t, k) == JobMatches(e, t, t.chunks[k])

(* The rows that a filter is to keep.                                      *)
Selects(e, row) == ~PositionListFails(e) /\ SqlValue(e, row) = 1

(* Chunk m of the output has the matches of chunk from[m] of the table t,  *)
(* and every chunk of done that has matches is there once.                 *)
From(from, chunks, e, t, done) ==
    /\ \E C : chunks \in Seq(C)
    /\ Len(chunks) \in Nat /\ DOMAIN chunks = 1 .. Len(chunks) /\ DOMAIN from = 1 .. Len(chunks)
    /\ \A m \in 1 .. Len(chunks) :
          /\ from[m] \in done
          /\ \E sel : Picks(sel, chunks[m], t.chunks[from[m]], Matches(e, t, from[m]))
    /\ \A m, l \in 1 .. Len(chunks) : from[m] = from[l] => m = l
    /\ \A k \in done : Matches(e, t, k) # {} => \E m \in 1 .. Len(chunks) : from[m] = k

(* The output of a filter that has been through all chunks.                *)
LEMMA FilteredCounts ==
    ASSUME NEW t, IsTable(t), NullsDeclared(t), NEW e, NEW columns, IsExpression(e, columns),
           columns \subseteq DOMAIN t.columns, IsTruth(Last(e)), ~DropsNull(e, BOOLEAN),
           NEW u, NEW from, From(from, u.chunks, e, t, DOMAIN t.chunks), NEW x
    PROVE  Count(Rows(u), x) = IF Selects(e, x) THEN Count(Rows(t), x) ELSE 0
<1>1. HasChunks(t)
  BY TableParts DEF HasChunks, IsTable
<1>2. PICK M \in Nat : M = Len(u.chunks) /\ DOMAIN u.chunks = 1 .. M
  BY DEF From
<1>3. PICK S : S = [m \in 1 .. M |-> CHOOSE sel : Picks(sel, u.chunks[m], t.chunks[from[m]], Matches(e, t, from[m]))]
  OBVIOUS
<1>4. ASSUME NEW m \in 1 .. M
      PROVE  from[m] \in DOMAIN t.chunks /\ Picks(S[m], u.chunks[m], t.chunks[from[m]], Matches(e, t, from[m]))
  <2>1. from[m] \in DOMAIN t.chunks /\ \E sel : Picks(sel, u.chunks[m], t.chunks[from[m]], Matches(e, t, from[m]))
    BY <1>2, Zenon DEF From
  <2> QED BY <1>3, <2>1
<1>5. /\ \A m, l \in 1 .. M : from[m] = from[l] => m = l
      /\ \A k \in DOMAIN t.chunks : Matches(e, t, k) # {} => \E m \in 1 .. M : from[m] = k
  BY <1>2, Zenon DEF From
<1>6. HasChunks(u)
  <2>1. \A m \in 1 .. M : ChunkSize(u.chunks[m]) \in Nat
    BY <1>4 DEF Picks
  <2> QED BY <1>2, <2>1 DEF HasChunks
<1>7. /\ Len(Rows(t)) \in Nat /\ DOMAIN Rows(t) = 1 .. Len(Rows(t)) /\ \E c, o : RowsAt(c, o, t)
  BY <1>1, RowsPlaced
<1>8. /\ Len(Rows(u)) \in Nat /\ DOMAIN Rows(u) = 1 .. Len(Rows(u)) /\ \E c, o : RowsAt(c, o, u)
  BY <1>6, RowsPlaced
<1>9. PICK c, o : RowsAt(c, o, t)
  BY <1>7
<1>10. PICK d, q : RowsAt(d, q, u)
  BY <1>8
<1>11. ASSUME NEW k \in DOMAIN t.chunks
       PROVE  Matches(e, t, k) = {i \in 1 .. ChunkSize(t.chunks[k]) : Selects(e, RowAt(t.chunks[k], i))}
  <2>1. EvaluateExpressionToPositionList(e, t, t.chunks[k])
           = {i \in 1 .. ChunkSize(t.chunks[k]) : SqlValue(e, RowAt(t.chunks[k], i)) = 1}
    BY PredicateIsSql
  <2> QED BY <2>1 DEF Matches, JobMatches, Selects
<1>12. PICK A : A = {j \in DOMAIN Rows(u) : Rows(u)[j] = x}
  OBVIOUS
<1>13. PICK B : B = {j \in DOMAIN Rows(t) : Rows(t)[j] = x}
  OBVIOUS
<1>14. Count(Rows(u), x) = Cardinality(A) /\ Count(Rows(t), x) = Cardinality(B)
  BY <1>12, <1>13 DEF Count
<1>15. ASSUME NEW j \in A
       PROVE  /\ d[j] \in 1 .. M /\ q[j] \in 1 .. ChunkSize(u.chunks[d[j]])
              /\ from[d[j]] \in DOMAIN t.chunks
              /\ S[d[j]][q[j]] \in Matches(e, t, from[d[j]])
              /\ S[d[j]][q[j]] \in 1 .. ChunkSize(t.chunks[from[d[j]]])
              /\ RowAt(t.chunks[from[d[j]]], S[d[j]][q[j]]) = x
              /\ Selects(e, x)
  <2>1. j \in DOMAIN Rows(u) /\ Rows(u)[j] = x
    BY <1>12
  <2>2. PICK m \in 1 .. M : m = d[j]
    BY <1>2, <1>10, <2>1, Zenon DEF RowsAt
  <2>3. PICK i \in 1 .. ChunkSize(u.chunks[m]) : i = q[j]
    BY <1>10, <2>1, <2>2, Zenon DEF RowsAt
  <2>4. x = RowAt(u.chunks[m], i)
    BY <1>10, <2>1, <2>2, <2>3, Zenon DEF RowsAt
  <2>5. PICK k \in DOMAIN t.chunks : k = from[m]
    BY <1>4
  <2>6. Picks(S[m], u.chunks[m], t.chunks[k], Matches(e, t, k))
    BY <1>4, <2>5
  <2>7. S[m][i] \in Matches(e, t, k) /\ RowAt(u.chunks[m], i) = RowAt(t.chunks[k], S[m][i])
    BY <2>6, Zenon DEF Picks
  <2>8. S[m][i] \in 1 .. ChunkSize(t.chunks[k]) /\ Selects(e, RowAt(t.chunks[k], S[m][i]))
    BY <1>11, <2>7
  <2> QED BY <2>2, <2>3, <2>4, <2>5, <2>7, <2>8
<1>16. IsFiniteSet(A)
  <2>1. IsFiniteSet(DOMAIN Rows(u))
    BY <1>8, FS_Interval
  <2>2. A \in SUBSET DOMAIN Rows(u)
    BY <1>12
  <2> QED BY <2>1, <2>2, FS_Subset
<1>17. CASE ~Selects(e, x)
  <2>1. A = {}
    BY <1>15, <1>17
  <2>2. Cardinality(A) = 0
    BY <2>1, FS_EmptySet
  <2> QED BY <1>14, <1>17, <2>2
<1>18. CASE Selects(e, x)
  <2> DEFINE To(j, l) == c[l] = from[d[j]] /\ o[l] = S[d[j]][q[j]]
  <2>1. PICK f : f = [j \in A |-> CHOOSE l \in DOMAIN Rows(t) : To(j, l)]
    OBVIOUS
  <2>2. ASSUME NEW j \in A PROVE f[j] \in DOMAIN Rows(t) /\ To(j, f[j])
    <3>1. PICK k \in DOMAIN t.chunks : k = from[d[j]]
      BY <1>15
    <3>2. PICK i \in 1 .. ChunkSize(t.chunks[k]) : i = S[d[j]][q[j]]
      BY <1>15, <3>1
    <3>3. \A m \in DOMAIN t.chunks : \A h \in 1 .. ChunkSize(t.chunks[m]) :
             \E l \in DOMAIN Rows(t) : c[l] = m /\ o[l] = h
      BY <1>9 DEF RowsAt
    <3>4. \E l \in DOMAIN Rows(t) : c[l] = k /\ o[l] = i
      BY <3>3
    <3>5. \E l \in DOMAIN Rows(t) : To(j, l)
      BY <3>1, <3>2, <3>4
    <3> HIDE DEF To
    <3> QED BY <2>1, <3>5
  <2>3. ASSUME NEW j \in A PROVE f[j] \in B
    <3>1. f[j] \in DOMAIN Rows(t) /\ c[f[j]] = from[d[j]] /\ o[f[j]] = S[d[j]][q[j]]
      BY <2>2
    <3>2. Rows(t)[f[j]] = RowAt(t.chunks[c[f[j]]], o[f[j]])
      BY <1>9, <3>1, Zenon DEF RowsAt
    <3>3. RowAt(t.chunks[c[f[j]]], o[f[j]]) = x
      BY <1>15, <3>1
    <3> QED BY <1>13, <3>1, <3>2, <3>3
  <2>4. f \in [A -> B]
    BY <2>1, <2>3
  <2>5. ASSUME NEW j \in A, NEW l \in A, f[j] = f[l] PROVE j = l
    <3>1. from[d[j]] = from[d[l]] /\ S[d[j]][q[j]] = S[d[l]][q[l]]
      BY <2>2, <2>5
    <3>2. PICK m \in 1 .. M : m = d[j]
      BY <1>15
    <3>3. m = d[l]
      BY <1>5, <1>15, <3>1, <3>2
    <3>4. q[j] \in 1 .. ChunkSize(u.chunks[m]) /\ q[l] \in 1 .. ChunkSize(u.chunks[m])
      BY <1>15, <3>2, <3>3
    <3>5. S[m][q[j]] = S[m][q[l]]
      BY <3>1, <3>2, <3>3
    <3>6. Picks(S[m], u.chunks[m], t.chunks[from[m]], Matches(e, t, from[m]))
      BY <1>4
    <3>7. q[j] = q[l]
      BY <3>4, <3>5, <3>6, Zenon DEF Picks
    <3>8. j \in DOMAIN Rows(u) /\ l \in DOMAIN Rows(u)
      BY <1>12
    <3> QED BY <1>10, <3>2, <3>3, <3>7, <3>8, Zenon DEF RowsAt
  <2>6. ASSUME NEW l \in B PROVE \E j \in A : f[j] = l
    <3>1. l \in DOMAIN Rows(t) /\ Rows(t)[l] = x
      BY <1>13
    <3>2. PICK k \in DOMAIN t.chunks : k = c[l]
      BY <1>9, <3>1, Zenon DEF RowsAt
    <3>3. PICK i \in 1 .. ChunkSize(t.chunks[k]) : i = o[l]
      BY <1>9, <3>1, <3>2, Zenon DEF RowsAt
    <3>4. x = RowAt(t.chunks[k], i)
      BY <1>9, <3>1, <3>2, <3>3, Zenon DEF RowsAt
    <3>5. i \in Matches(e, t, k)
      BY <1>11, <1>18, <3>4
    <3>6. PICK m \in 1 .. M : from[m] = k
      BY <1>5, <3>5
    <3>7. Picks(S[m], u.chunks[m], t.chunks[k], Matches(e, t, k))
      BY <1>4, <3>6
    <3>8. \A h \in Matches(e, t, k) : \E r \in 1 .. ChunkSize(u.chunks[m]) : S[m][r] = h
      BY <3>7 DEF Picks
    <3>9. PICK r \in 1 .. ChunkSize(u.chunks[m]) : S[m][r] = i
      BY <3>5, <3>8
    <3>10. RowAt(u.chunks[m], r) = x
      BY <3>4, <3>7, <3>9, Zenon DEF Picks
    <3>11. \A g \in DOMAIN u.chunks : \A h \in 1 .. ChunkSize(u.chunks[g]) :
              \E j \in DOMAIN Rows(u) : d[j] = g /\ q[j] = h
      BY <1>10 DEF RowsAt
    <3>12. PICK j \in DOMAIN Rows(u) : d[j] = m /\ q[j] = r
      BY <1>2, <3>11
    <3>13. Rows(u)[j] = RowAt(u.chunks[d[j]], q[j])
      BY <1>10, Zenon DEF RowsAt
    <3>14. j \in A
      BY <1>12, <3>10, <3>12, <3>13
    <3>15. f[j] \in DOMAIN Rows(t) /\ c[f[j]] = k /\ o[f[j]] = i
      BY <2>2, <3>6, <3>9, <3>12, <3>14
    <3>16. f[j] = l
      <4>1. \A g, h \in DOMAIN Rows(t) : c[g] = c[h] /\ o[g] = o[h] => g = h
        BY <1>9 DEF RowsAt
      <4>2. c[f[j]] = c[l] /\ o[f[j]] = o[l]
        BY <3>2, <3>3, <3>15
      <4> QED BY <3>1, <3>15, <4>1, <4>2
    <3> QED BY <3>14, <3>16
  <2>7. Cardinality(A) = Cardinality(B)
    BY <1>16, <2>4, <2>5, <2>6, CountedThrough
  <2> QED BY <1>14, <1>18, <2>7
<1> QED BY <1>17, <1>18

(* A chunk without matches is skipped,                                     *)
LEMMA SkipFrom ==
    ASSUME NEW from, NEW chunks, NEW e, NEW t, NEW done, From(from, chunks, e, t, done),
           NEW k, Matches(e, t, k) = {}
    PROVE  From(from, chunks, e, t, done \cup {k})
<1>1. /\ \E C : chunks \in Seq(C)
      /\ Len(chunks) \in Nat /\ DOMAIN chunks = 1 .. Len(chunks) /\ DOMAIN from = 1 .. Len(chunks)
      /\ \A m, l \in 1 .. Len(chunks) : from[m] = from[l] => m = l
  BY Zenon DEF From
<1>2. \A m \in 1 .. Len(chunks) :
         /\ from[m] \in done \cup {k}
         /\ \E sel : Picks(sel, chunks[m], t.chunks[from[m]], Matches(e, t, from[m]))
  BY Zenon DEF From
<1>3. \A h \in done \cup {k} : Matches(e, t, h) # {} => \E m \in 1 .. Len(chunks) : from[m] = h
  BY Zenon DEF From
<1> QED BY <1>1, <1>2, <1>3, Zenon DEF From

(* and another is appended.                                                *)
LEMMA AppendFrom ==
    ASSUME NEW from, NEW chunks, NEW e, NEW t, NEW done, From(from, chunks, e, t, done),
           NEW k, k \notin done, NEW new, NEW sel, Picks(sel, new, t.chunks[k], Matches(e, t, k))
    PROVE  \E more : From(more, Append(chunks, new), e, t, done \cup {k})
<1>1. PICK L \in Nat : L = Len(chunks) /\ DOMAIN chunks = 1 .. L /\ DOMAIN from = 1 .. L
  BY Zenon DEF From
<1>2. PICK C : chunks \in Seq(C)
  BY Zenon DEF From
<1>3. PICK D : D = C \cup {new}
  OBVIOUS
<1>4. chunks \in Seq(D) /\ new \in D
  BY <1>2, <1>3, SeqMonotonic
<1>5. PICK a : a = Append(chunks, new)
  OBVIOUS
<1>6. a \in Seq(D) /\ Len(a) = L + 1 /\ a[L + 1] = new /\ \A m \in 1 .. L : a[m] = chunks[m]
  BY <1>1, <1>4, <1>5, AppendProperties
<1>7. DOMAIN a = 1 .. L + 1
  BY <1>6
<1>8. PICK f : f = [m \in 1 .. L + 1 |-> IF m = L + 1 THEN k ELSE from[m]]
  OBVIOUS
<1>9. DOMAIN f = 1 .. L + 1 /\ f[L + 1] = k /\ \A m \in 1 .. L : f[m] = from[m]
  BY <1>8
<1>10. /\ \A m \in 1 .. L : from[m] \in done
       /\ \A m \in 1 .. L : \E s : Picks(s, chunks[m], t.chunks[from[m]], Matches(e, t, from[m]))
       /\ \A m, l \in 1 .. L : from[m] = from[l] => m = l
       /\ \A h \in done : Matches(e, t, h) # {} => \E m \in 1 .. L : from[m] = h
  BY <1>1, Zenon DEF From
<1>11. PICK N \in Nat : N = L + 1
  OBVIOUS
<1>12. ASSUME NEW m \in 1 .. N
       PROVE  /\ f[m] \in done \cup {k}
              /\ \E s : Picks(s, a[m], t.chunks[f[m]], Matches(e, t, f[m]))
  <2>1. CASE m = L + 1
    BY <1>6, <1>9, <2>1
  <2>2. CASE m \in 1 .. L
    <3>1. a[m] = chunks[m] /\ f[m] = from[m]
      BY <1>6, <1>9, <2>2
    <3> QED BY <1>10, <2>2, <3>1, Zenon
  <2> QED BY <1>11, <2>1, <2>2
<1>13. ASSUME NEW m \in 1 .. N, NEW l \in 1 .. N, f[m] = f[l] PROVE m = l
  <2>1. CASE m \in 1 .. L /\ l \in 1 .. L
    BY <1>9, <1>10, <1>13, <2>1
  <2>2. CASE m \in 1 .. L /\ l = L + 1
    BY <1>9, <1>10, <1>13, <2>2
  <2>3. CASE m = L + 1 /\ l \in 1 .. L
    BY <1>9, <1>10, <1>13, <2>3
  <2>4. CASE m = L + 1 /\ l = L + 1
    BY <2>4
  <2> QED BY <1>11, <2>1, <2>2, <2>3, <2>4
<1>14. ASSUME NEW h \in done \cup {k}, Matches(e, t, h) # {} PROVE \E m \in 1 .. N : f[m] = h
  <2>1. CASE h = k
    <3>1. L + 1 \in 1 .. N
      BY <1>11
    <3> QED BY <1>9, <2>1, <3>1
  <2>2. CASE h \in done
    <3>1. PICK m \in 1 .. L : from[m] = h
      BY <1>10, <1>14, <2>2, Zenon
    <3>2. m \in 1 .. N
      BY <1>11
    <3> QED BY <1>9, <3>1, <3>2
  <2> QED BY <2>1, <2>2
<1>15. From(f, a, e, t, done \cup {k})
  <2>1. Len(a) = N /\ DOMAIN a = 1 .. N /\ DOMAIN f = 1 .. N
    BY <1>6, <1>7, <1>9, <1>11
  <2>2. \E E : a \in Seq(E)
    BY <1>6
  <2>3. \A m \in 1 .. N : /\ f[m] \in done \cup {k}
                          /\ \E s : Picks(s, a[m], t.chunks[f[m]], Matches(e, t, f[m]))
    BY <1>12
  <2>4. \A m, l \in 1 .. N : f[m] = f[l] => m = l
    BY <1>13, Zenon
  <2>5. \A h \in done \cup {k} : Matches(e, t, h) # {} => \E m \in 1 .. N : f[m] = h
    BY <1>14, Zenon
  <2> QED BY <2>1, <2>2, <2>3, <2>4, <2>5 DEF From
<1> QED BY <1>5, <1>15

(* The positions of a predicate are rows of the chunk.                     *)
LEMMA MatchesAreRows ==
    ASSUME NEW t, NEW k, NEW e, NEW columns, IsExpression(e, columns)
    PROVE  Matches(e, t, k) \subseteq 1 .. ChunkSize(t.chunks[k])
<1>1. PICK chunk : chunk = t.chunks[k]
  OBVIOUS
<1>2. PICK r : r = EvaluateExpressionToResult(e, t, chunk)
  OBVIOUS
<1>3. PICK rows : rows = 1 .. ChunkSize(chunk)
  OBVIOUS
<1>4. PICK p : /\ \A m \in 1 .. Len(e) : p[m] = NodePositions(e[m], r, p, rows)
               /\ EvaluateExpressionToPositionList(e, t, chunk) = p[Len(e)]
  BY <1>2, <1>3, PositionsClosed
<1>5. Len(e) \in 1 .. Len(e)
  BY DEF IsExpression
<1>6. p[Len(e)] \subseteq rows
  BY <1>4, <1>5, PositionsAreRows
<1> QED BY <1>1, <1>3, <1>4, <1>6 DEF Matches, JobMatches

-----------------------------------------------------------------------------
(* The operator that runs, or has just run.                                *)
Reads(kind) == op \in Operations /\ op.kind = kind /\ op.columns \subseteq DOMAIN input.columns

OpInv ==
    /\ status = "filtering" => Reads("Filter") /\ table = input
    /\ status = "projecting" => Reads("Projection") /\ table = input
    /\ status = "ready" /\ op.kind = "Filter" => Reads("Filter")
    /\ status = "ready" /\ op.kind = "Projection" => Reads("Projection")

(* The outcomes of an operator in one step.                                *)
Ends == {"ready", "assert", "crashed", "undefined"}

(* An operator in one step is neither a filter nor a projection, and ends. *)
LEMMA OneStep ==
    ASSUME Limit \/ Sort \/ Partition \/ Alias \/ HashJoin \/ SortedMergeJoin \/ Aggregate
    PROVE  /\ op'.kind \notin {"Filter", "Projection"} /\ status' \in Ends
           /\ input' = table /\ UNCHANGED jobVars /\ status = "ready"
<1> USE DEF Execute, Starts, Of, Returns, FailsWith, Ends
<1>1. CASE Limit
  BY <1>1 DEF Limit, LimitOutcomes
<1>2. CASE Sort
  BY <1>2 DEF Sort, SortOutcomes
<1>3. CASE Partition
  BY <1>3 DEF Partition, PartitionOutcomes
<1>4. CASE Alias
  BY <1>4 DEF Alias, AliasOutcomes
<1>5. CASE HashJoin
  BY <1>5 DEF HashJoin, HashJoinOutcomes
<1>6. CASE SortedMergeJoin
  BY <1>6 DEF SortedMergeJoin, SortedMergeJoinOutcomes
<1>7. CASE Aggregate
  BY <1>7 DEF Aggregate, AggregateOutcomes
<1> QED BY <1>1, <1>2, <1>3, <1>4, <1>5, <1>6, <1>7

(* What the steps of a filter and a projection leave alone.                *)
LEMMA Steady ==
    /\ \A k : FilterChunk(k) => /\ status = "filtering" /\ UNCHANGED <<table, input, op>>
                                /\ status' \in {"filtering", "undefined", "crashed"}
    /\ \A k : EvaluateAndLoad(k) => /\ status = "projecting" /\ UNCHANGED <<table, input, op, out, nullable>>
                                    /\ status' \in {"projecting", "undefined"}
    /\ \A k : Store(k) => status = "projecting" /\ UNCHANGED <<table, input, op, status>>
    /\ FinishFilter => status = "filtering" /\ status' = "ready" /\ UNCHANGED <<input, op>>
    /\ FinishProjection => /\ status = "projecting" /\ UNCHANGED <<input, op>>
                           /\ status' \in {"ready", "assert", "undefined"}
<1>1. ASSUME NEW k, FilterChunk(k)
      PROVE  /\ status = "filtering" /\ UNCHANGED <<table, input, op>>
             /\ status' \in {"filtering", "undefined", "crashed"}
  BY <1>1, Zenon DEF FilterChunk
<1>2. ASSUME NEW k, EvaluateAndLoad(k)
      PROVE  /\ status = "projecting" /\ UNCHANGED <<table, input, op, out, nullable>>
             /\ status' \in {"projecting", "undefined"}
  BY <1>2, Zenon DEF EvaluateAndLoad, Running
<1>3. ASSUME NEW k, Store(k)
      PROVE  status = "projecting" /\ UNCHANGED <<table, input, op, status>>
  BY <1>3, Zenon DEF Store, Running
<1>4. ASSUME FinishFilter
      PROVE  status = "filtering" /\ status' = "ready" /\ UNCHANGED <<input, op>>
  BY <1>4, Zenon DEF FinishFilter
<1>5. ASSUME FinishProjection
      PROVE  /\ status = "projecting" /\ UNCHANGED <<input, op>>
             /\ status' \in {"ready", "assert", "undefined"}
  BY <1>5, Zenon DEF FinishProjection
<1> QED BY <1>1, <1>2, <1>3, <1>4, <1>5, Zenon

(* No operator has begun at first.                                         *)
LEMMA OpInvInit == Init => OpInv
BY DEF Init, OpInv, NoOperator

(* Each step leaves OpInv: an operator works on the table it was given.    *)
LEMMA OpInvStep == OpInv /\ [Next]_vars => OpInv'
<1> SUFFICES ASSUME OpInv, [Next]_vars PROVE OpInv'
  OBVIOUS
<1> USE DEF OpInv
<1>1. CASE Limit \/ Sort \/ Partition \/ Alias \/ HashJoin \/ SortedMergeJoin \/ Aggregate
  BY <1>1, OneStep DEF Ends
<1>2. CASE StartFilter
  <2>1. PICK o \in Of("Filter") : /\ HasNumbers(table, o.columns) /\ op' = o /\ input' = table
                                  /\ status' = "filtering" /\ table' = table
    BY <1>2 DEF StartFilter, Starts
  <2>2. Reads("Filter")'
    BY <2>1 DEF Reads, Of, HasNumbers, HasColumns
  <2> QED BY <2>1, <2>2
<1>3. CASE StartProjection
  <2>1. PICK o \in Of("Projection") : /\ HasNumbers(table, o.columns) /\ op' = o /\ input' = table
                                      /\ status' = "projecting" /\ table' = table
    BY <1>3 DEF StartProjection, Starts
  <2>2. Reads("Projection")'
    BY <2>1 DEF Reads, Of, HasNumbers, HasColumns
  <2> QED BY <2>1, <2>2
<1>4. CASE FinishFilter \/ FinishProjection
  BY <1>4, Steady DEF Reads
<1>5. CASE \E k \in pending : FilterChunk(k)
  BY <1>5, Steady DEF Reads
<1>6. CASE \E k \in DOMAIN jobs : EvaluateAndLoad(k)
  BY <1>6, Steady DEF Reads
<1>7. CASE \E k \in DOMAIN jobs : Store(k)
  BY <1>7, Steady DEF Reads
<1>8. CASE UNCHANGED vars
  BY <1>8 DEF vars, Reads
<1> QED BY <1>1, <1>2, <1>3, <1>4, <1>5, <1>6, <1>7, <1>8 DEF Next

(* The chunks that a filter has been through are in its output.            *)
FilterInv ==
    /\ status = "filtering" =>
          /\ pending \subseteq DOMAIN input.chunks
          /\ IsTable(input) => \E from : From(from, out, op.predicate, input, DOMAIN input.chunks \ pending)
    /\ status = "ready" /\ op.kind = "Filter" /\ IsTable(input) =>
          \E from : From(from, table.chunks, op.predicate, input, DOMAIN input.chunks)

(* No filter has begun at first.                                           *)
LEMMA FilterInvInit == Init => FilterInv
BY DEF Init, FilterInv, NoOperator

(* The job of a chunk.                                                     *)
LEMMA FilterChunkStep ==
    ASSUME OpInv, FilterInv, NEW k, FilterChunk(k)
    PROVE  FilterInv'
<1>1. /\ status = "filtering" /\ UNCHANGED <<table, input, op>>
      /\ status' \in {"filtering", "undefined", "crashed"}
  BY Steady
<1>2. k \in pending /\ pending' = pending \ {k}
  BY Zenon DEF FilterChunk
<1>3. pending \subseteq DOMAIN input.chunks /\ table = input /\ Reads("Filter")
  BY <1>1 DEF FilterInv, OpInv
<1>4. PICK e : e = op.predicate
  OBVIOUS
<1>5. PICK t : t = input
  OBVIOUS
<1>6. ASSUME status' = "filtering", IsTable(t)
      PROVE  \E from : From(from, out', e, t, DOMAIN t.chunks \ pending')
  <2>1. PICK done : done = DOMAIN t.chunks \ pending
    OBVIOUS
  <2>2. PICK from : From(from, out, e, t, done)
    BY <1>1, <1>4, <1>5, <1>6, <2>1 DEF FilterInv
  <2>3. DOMAIN t.chunks \ pending' = done \cup {k} /\ k \notin done /\ k \in DOMAIN t.chunks
    BY <1>2, <1>3, <1>5, <2>1
  <2>4. PICK chunk : chunk = t.chunks[k]
    OBVIOUS
  <2>5. PICK matches : matches = Matches(e, t, k)
    OBVIOUS
  <2>6. \/ matches = {} /\ UNCHANGED out
        \/ /\ matches # {} /\ (Cardinality(matches) = ChunkSize(chunk) \/ ~MatchesNull(chunk, matches))
           /\ out' = Append(out, Chosen(chunk, matches))
    <3>1. matches = JobMatches(op.predicate, table, table.chunks[k])
      BY <1>3, <1>4, <1>5, <2>5 DEF Matches
    <3>2. chunk = table.chunks[k]
      BY <1>3, <1>5, <2>4
    <3> QED BY <1>6, <3>1, <3>2, Zenon DEF FilterChunk, Chosen
  <2>7. IsExpression(e, op.columns)
    BY <1>3, <1>4, OperationsAssumption DEF Reads, IsOperation
  <2>8. matches \subseteq 1 .. ChunkSize(chunk)
    BY <2>4, <2>5, <2>7, MatchesAreRows
  <2>9. CASE matches = {} /\ UNCHANGED out
    <3>1. From(from, out, e, t, done \cup {k})
      BY <2>2, <2>5, <2>9, SkipFrom
    <3> QED BY <2>3, <2>9, <3>1
  <2>10. CASE /\ matches # {} /\ (Cardinality(matches) = ChunkSize(chunk) \/ ~MatchesNull(chunk, matches))
              /\ out' = Append(out, Chosen(chunk, matches))
    <3>1. PICK new : new = Chosen(chunk, matches)
      OBVIOUS
    <3>2. PICK sel : Picks(sel, new, chunk, matches)
      BY <1>6, <2>3, <2>4, <2>8, <2>10, <3>1, ChosenPicks
    <3>3. Picks(sel, new, t.chunks[k], Matches(e, t, k)) /\ k \notin done
      BY <2>3, <2>4, <2>5, <3>2
    <3>4. \E more : From(more, Append(out, new), e, t, done \cup {k})
      BY <2>2, <3>3, AppendFrom
    <3> QED BY <2>3, <2>10, <3>1, <3>4
  <2> QED BY <2>6, <2>9, <2>10
<1>7. pending' \subseteq DOMAIN t.chunks
  BY <1>2, <1>3, <1>5
<1>8. input' = t /\ op'.predicate = e
  BY <1>1, <1>4, <1>5
<1> QED BY <1>1, <1>6, <1>7, <1>8 DEF FilterInv

(* Each step leaves FilterInv, in whatever order the jobs run.             *)
LEMMA FilterInvStep == OpInv /\ FilterInv /\ [Next]_vars => FilterInv'
<1> SUFFICES ASSUME OpInv, FilterInv, [Next]_vars PROVE FilterInv'
  OBVIOUS
<1>1. CASE Limit \/ Sort \/ Partition \/ Alias \/ HashJoin \/ SortedMergeJoin \/ Aggregate
  BY <1>1, OneStep DEF Ends, FilterInv
<1>2. CASE StartFilter
  <2>1. /\ op' \in Operations /\ input' = table /\ status' = "filtering" /\ table' = table
        /\ pending' = DOMAIN table.chunks /\ out' = <<>>
    BY <1>2 DEF StartFilter, Starts, Of
  <2>2. DOMAIN input'.chunks \ pending' = {}
    BY <2>1
  <2>3. \A e, t : From(<<>>, <<>>, e, t, {})
    <3>1. <<>> \in Seq({})
      OBVIOUS
    <3> QED BY <3>1 DEF From
  <2>4. From(<<>>, out', op'.predicate, input', DOMAIN input'.chunks \ pending')
    BY <2>1, <2>2, <2>3
  <2> QED BY <2>1, <2>4 DEF FilterInv
<1>3. CASE FinishFilter
  <2>1. /\ status = "filtering" /\ pending = {} /\ status' = "ready" /\ UNCHANGED <<input, op>>
        /\ table' = WithChunks(table, out)
    BY <1>3 DEF FinishFilter
  <2>2. table'.chunks = out
    BY <2>1 DEF WithChunks
  <2>3. DOMAIN input.chunks \ pending = DOMAIN input.chunks
    BY <2>1
  <2>4. IsTable(input) => \E from : From(from, out, op.predicate, input, DOMAIN input.chunks)
    BY <2>1, <2>3 DEF FilterInv
  <2> QED BY <2>1, <2>2, <2>4 DEF FilterInv
<1>4. CASE StartProjection
  BY <1>4 DEF StartProjection, FilterInv
<1>5. CASE FinishProjection
  <2>1. op'.kind = "Projection" /\ status' # "filtering"
    BY <1>5, Steady DEF OpInv, Reads
  <2> QED BY <2>1 DEF FilterInv
<1>6. CASE \E k \in pending : FilterChunk(k)
  BY <1>6, FilterChunkStep
<1>7. CASE \E k \in DOMAIN jobs : EvaluateAndLoad(k)
  BY <1>7, Steady DEF FilterInv
<1>8. CASE \E k \in DOMAIN jobs : Store(k)
  BY <1>8, Steady DEF FilterInv
<1>9. CASE UNCHANGED vars
  BY <1>9 DEF vars, jobVars, FilterInv
<1> QED BY <1>1, <1>2, <1>3, <1>4, <1>5, <1>6, <1>7, <1>8, <1>9 DEF Next

(* A filter that returns keeps exactly the rows for which its predicate is *)
(* TRUE (FilterOperator::OnExecute): for every predicate, every table,     *)
(* every number of chunks and every order of their jobs.  The input has    *)
(* segments of equal lengths in each chunk (IsTable), and no list of       *)
(* strings in the predicate has a NULL.  If the predicate is a NULL        *)
(* literal, or has one below AND or OR, no row is kept.                    *)
THEOREM FiltersSelect ==
    Spec => [](IsTable(input) /\ ~DropsNull(op.predicate, BOOLEAN) => FilterSelects)
<1>1. OpInv /\ FilterInv => (IsTable(input) /\ ~DropsNull(op.predicate, BOOLEAN) => FilterSelects)
  <2>1. SUFFICES ASSUME OpInv, FilterInv, IsTable(input), ~DropsNull(op.predicate, BOOLEAN),
                        status = "ready", op.kind = "Filter", NullsDeclared(input),
                        NEW row \in ToSet(Rows(table)) \cup ToSet(Rows(input))
                 PROVE  Count(Rows(table), row) =
                           IF Selects(op.predicate, row) THEN Count(Rows(input), row) ELSE 0
    BY DEF FilterSelects, Finished, Selects
  <2>2. Reads("Filter")
    BY <2>1 DEF OpInv
  <2>3. PICK from : From(from, table.chunks, op.predicate, input, DOMAIN input.chunks)
    BY <2>1 DEF FilterInv
  <2>4. PICK e : e = op.predicate
    OBVIOUS
  <2>5. PICK columns : columns = op.columns
    OBVIOUS
  <2>6. IsExpression(e, columns) /\ IsTruth(Last(e)) /\ columns \subseteq DOMAIN input.columns
    BY <2>2, <2>4, <2>5, OperationsAssumption DEF Reads, IsOperation
  <2>7. ~DropsNull(e, BOOLEAN) /\ From(from, table.chunks, e, input, DOMAIN input.chunks)
    BY <2>1, <2>3, <2>4
  <2>8. Count(Rows(table), row) = IF Selects(e, row) THEN Count(Rows(input), row) ELSE 0
    BY <2>1, <2>6, <2>7, FilteredCounts
  <2> QED BY <2>4, <2>8
<1> QED BY <1>1, OpInvInit, OpInvStep, FilterInvInit, FilterInvStep, PTL DEF Spec

-----------------------------------------------------------------------------
(* The pieces of n rows by d, the last of which is not empty.              *)
PieceCount(n, d) == (n + d - 1) \div d

(* The pieces cover the rows, and each of them begins at a row.            *)
LEMMA Pieces ==
    ASSUME NEW n \in Nat, NEW d \in Nat \ {0}
    PROVE  /\ PieceCount(n, d) \in Nat /\ n =< PieceCount(n, d) * d
           /\ \A k \in 1 .. PieceCount(n, d) : (k - 1) * d \in Nat /\ (k - 1) * d < n
<1>1. PICK p : p = PieceCount(n, d)
  OBVIOUS
<1>2. PICK m \in Nat : m = n + d - 1
  OBVIOUS
<1>3. p = m \div d
  BY <1>1, <1>2 DEF PieceCount
<1>4. p \in Nat /\ p * d =< m /\ m < p * d + d
  <2>1. PICK r : r = m % d
    OBVIOUS
  <2>2. m \div d \in Int /\ r \in 0 .. d - 1 /\ m = d * (m \div d) + r
    BY <2>1, Z3
  <2>3. p \in Int /\ m = d * p + r
    BY <1>3, <2>2
  <2>4. p >= 0
    BY <1>3, Z3
  <2> QED BY <2>2, <2>3, <2>4
<1>5. n =< p * d
  BY <1>2, <1>4
<1>6. ASSUME NEW k \in 1 .. p PROVE (k - 1) * d \in Nat /\ (k - 1) * d < n
  <2>1. PICK j \in Nat : k = j + 1
    BY <1>4
  <2>2. PICK q \in Nat : p = k + q
    BY <1>4
  <2>3. p * d = j * d + d + q * d /\ q * d >= 0 /\ j * d \in Nat
    BY <2>1, <2>2
  <2>4. j * d + d =< m
    BY <1>4, <2>3
  <2> QED BY <1>2, <2>1, <2>3, <2>4
<1> QED BY <1>1, <1>4, <1>5, <1>6

(* A sequence of pieces of d elements each is flattened to the whole.      *)
Cuts(s, a, d) ==
    /\ Len(s) = PieceCount(Len(a), d)
    /\ \A k \in 1 .. Len(s) : /\ Len(s[k]) = Smaller(d, Len(a) - (k - 1) * d)
                              /\ \A i \in 1 .. Len(s[k]) : s[k][i] = a[(k - 1) * d + i]

(* The pieces in order are the sequence that was cut.                      *)
LEMMA CutsFlatten ==
    ASSUME NEW X, NEW a \in Seq(X), NEW d \in Nat \ {0}, NEW s \in Seq(Seq(X)), Cuts(s, a, d)
    PROVE  FlattenSeq(s) = a
<1>1. PICK f : Flattens(f, s) /\ FlattenSeq(s) = f[Len(s)]
  BY FlattenSteps
<1>2. PICK n \in Nat : n = Len(a)
  OBVIOUS
<1>3. PICK p \in Nat : p = Len(s)
  OBVIOUS
<1>4. /\ n =< p * d /\ \A k \in 1 .. p : (k - 1) * d \in Nat /\ (k - 1) * d < n
  BY <1>2, <1>3, Pieces DEF Cuts
<1>5. \A k \in 0 .. p : f[k] \in Seq(X)
  BY <1>1, <1>3, FlattensType
<1>6. \A k \in 1 .. p : s[k] \in Seq(X)
  BY <1>3
<1> DEFINE T == {k \in 0 .. p : /\ Len(f[k]) = Smaller(k * d, n)
                                /\ \A i \in 1 .. Len(f[k]) : f[k][i] = a[i]}
<1>7. 0 \in T
  <2>1. Len(f[0]) = 0
    BY <1>1 DEF Flattens
  <2>2. Smaller(0 * d, n) = 0
    BY DEF Smaller
  <2> QED BY <2>1, <2>2
<1>8. ASSUME NEW k \in 0 .. p - 1, k \in T PROVE k + 1 \in T
  <2>1. PICK j \in 1 .. p : j = k + 1 /\ j - 1 = k
    OBVIOUS
  <2>2. PICK m \in Nat : m = k * d /\ m < n /\ j * d = m + d
    <3>1. (j - 1) * d \in Nat /\ (j - 1) * d < n
      BY <1>4
    <3>2. (j - 1) * d = k * d
      BY <2>1
    <3>3. j * d = k * d + d
      BY <2>1
    <3> QED BY <3>1, <3>2, <3>3
  <2>3. f[j] = Cat(f[k], s[j])
    BY <1>1, <1>3, <2>1 DEF Flattens
  <2>4. Len(f[k]) = m /\ \A i \in 1 .. m : f[k][i] = a[i]
    <3>1. Smaller(m, n) = m
      BY <2>2 DEF Smaller
    <3>2. Len(f[k]) = m
      BY <1>8, <2>2, <3>1
    <3> QED BY <1>8, <3>2
  <2>5. PICK l \in Nat : l = Len(s[j]) /\ l = Smaller(d, n - m)
    <3>1. Len(s[j]) = Smaller(d, n - m)
      BY <1>2, <1>3, <2>1, <2>2 DEF Cuts
    <3>2. Smaller(d, n - m) \in Nat
      BY <2>2 DEF Smaller
    <3> QED BY <3>1, <3>2
  <2>6. \A i \in 1 .. l : s[j][i] = a[m + i]
    <3>1. \A i \in 1 .. Len(s[j]) : s[j][i] = a[(j - 1) * d + i]
      BY <1>3, <2>1, Zenon DEF Cuts
    <3>2. (j - 1) * d = m
      BY <2>1, <2>2
    <3> QED BY <2>5, <3>1, <3>2
  <2>7. PICK g \in Seq(X) : g = f[k]
    BY <1>5
  <2>8. PICK b \in Seq(X) : b = s[j]
    BY <1>6
  <2>9. /\ Len(Cat(g, b)) = m + l /\ \A i \in 1 .. m : Cat(g, b)[i] = a[i]
    <3>1. /\ Len(Cat(g, b)) = Len(g) + Len(b)
          /\ \A i \in 1 .. Len(g) : Cat(g, b)[i] = g[i]
      BY Cats
    <3>2. Len(g) = m /\ Len(b) = l
      BY <2>4, <2>5, <2>7, <2>8
    <3> QED BY <2>4, <2>7, <3>1, <3>2
  <2>10. ASSUME NEW i \in 1 .. l PROVE Cat(g, b)[m + i] = a[m + i]
    <3>1. i \in 1 .. Len(b) /\ Len(g) = m /\ b[i] = a[m + i]
      BY <2>4, <2>5, <2>6, <2>7, <2>8
    <3>2. Cat(g, b)[Len(g) + i] = b[i]
      BY <3>1, CatTail
    <3> QED BY <3>1, <3>2
  <2>11. ASSUME NEW i \in 1 .. m + l PROVE Cat(g, b)[i] = a[i]
    <3>1. CASE i =< m
      BY <2>9, <3>1
    <3>2. CASE ~(i =< m)
      <4>1. PICK h \in 1 .. l : i = m + h
        BY <3>2
      <4> QED BY <2>10, <4>1
    <3> QED BY <3>1, <3>2
  <2>12. m + l = Smaller(j * d, n)
    <3>1. PICK z : z = j * d
      OBVIOUS
    <3>2. z = m + d
      BY <2>2, <3>1
    <3>3. m + l = Smaller(z, n)
      BY <2>2, <2>5, <3>2 DEF Smaller
    <3> QED BY <3>1, <3>3
  <2>13. j \in 0 .. p /\ Len(f[j]) = Smaller(j * d, n) /\ \A i \in 1 .. Len(f[j]) : f[j][i] = a[i]
    BY <2>3, <2>7, <2>8, <2>9, <2>11, <2>12
  <2> QED BY <2>1, <2>13
<1>9. \A k \in 0 .. p : k \in T
  <2> HIDE DEF T
  <2> QED BY <1>7, <1>8, BoundedInduction
<1>10. PICK g \in Seq(X) : g = f[p]
  BY <1>5
<1>11. Smaller(p * d, n) = n
  BY <1>4 DEF Smaller
<1>12. Len(g) = n /\ \A i \in 1 .. n : g[i] = a[i]
  BY <1>9, <1>10, <1>11
<1>13. g = a
  BY <1>2, <1>12, SeqEqual
<1> QED BY <1>1, <1>3, <1>10, <1>13

(* The pieces of a single chunk.                                           *)
SplitIds(n, d, k) == [i \in 1 .. Smaller(d, n - (k - 1) * d) |-> <<1, (k - 1) * d + i>>]

(* A piece has the rows of the chunk from its offset on, without flags.    *)
IsPiece(piece, t, j, l) ==
    /\ piece \in Seq(Segments) /\ DOMAIN piece = DOMAIN t.columns /\ ChunkSize(piece) = l
    /\ \A c \in DOMAIN t.columns :
          /\ piece[c] \in Segments /\ HasRows(piece[c], l) /\ piece[c].nullable = FALSE
          /\ \A i \in 1 .. l : piece[c].values[i] = t.chunks[1][c].values[j + i]

(* What is copied of a chunk is such a piece.                              *)
LEMMA CopiedPiece ==
    ASSUME NEW t, IsTable(t), Len(t.chunks) = 1, NEW n \in Nat, n = ChunkSize(t.chunks[1]),
           NEW j \in Nat, NEW l \in Nat \ {0}, j + l =< n,
           NEW ids, ids = [i \in 1 .. l |-> <<1, j + i>>]
    PROVE  IsPiece(Copied(t, ids), t, j, l)
<1>1. 1 \in DOMAIN t.chunks
  BY DEF IsTable
<1>2. PICK columns : columns = t.columns
  OBVIOUS
<1>3. columns \in Seq(Definitions)
  BY <1>1, <1>2, TableParts
<1>4. 1 \in DOMAIN columns
  <2>1. t.chunks[1] # <<>>
    BY DEF ChunkSize
  <2>2. t.chunks[1] \in Seq(Segments) /\ DOMAIN t.chunks[1] = DOMAIN columns
    BY <1>1, <1>2, TableParts
  <2>3. PICK s \in Seq(Segments) : s = t.chunks[1]
    BY <2>2
  <2>4. Len(s) # 0
    BY <2>1, <2>3, EmptySeq
  <2>5. 1 \in DOMAIN s
    BY <2>4
  <2> QED BY <2>2, <2>3, <2>5
<1>5. PICK piece : piece = Copied(t, ids)
  OBVIOUS
<1>6. DOMAIN ids = 1 .. l /\ \A i \in 1 .. l : ids[i][1] = 1 /\ ids[i][2] = j + i
  OBVIOUS
<1>7. ASSUME NEW c \in DOMAIN columns
      PROVE  /\ piece[c] \in Segments /\ HasRows(piece[c], l) /\ piece[c].nullable = FALSE
             /\ Len(piece[c].values) = l
             /\ \A i \in 1 .. l : piece[c].values[i] = t.chunks[1][c].values[j + i]
  <2>1. PICK values : values = [i \in DOMAIN ids |-> Raw(t, c, ids[i])]
    OBVIOUS
  <2>2. piece[c] = Plain(values)
    BY <1>2, <1>5, <2>1 DEF Copied
  <2>3. PICK segment : segment = t.chunks[1][c]
    OBVIOUS
  <2>4. segment \in Segments /\ HasRows(segment, n)
    BY <1>1, <1>2, <2>3, TableParts
  <2>5. segment.values \in Seq(Int) /\ Len(segment.values) = n
    BY <2>4 DEF Segments, HasRows
  <2>6. DOMAIN values = 1 .. l /\ \A i \in 1 .. l : values[i] = segment.values[j + i]
    BY <1>6, <2>1, <2>3 DEF Raw
  <2>7. \A i \in 1 .. l : j + i \in 1 .. n
    OBVIOUS
  <2>8. \A i \in 1 .. l : values[i] \in Int
    BY <2>5, <2>6, <2>7
  <2>9. values \in [1 .. l -> Int]
    <3>1. values = [i \in 1 .. l |-> values[i]]
      BY <1>6, <2>1
    <3> QED BY <2>8, <3>1
  <2>10. values \in Seq(Int) /\ Len(values) = l
    BY <2>9
  <2>11. /\ piece[c].values = values /\ piece[c].nullable = FALSE /\ piece[c].nulls = <<>>
         /\ piece[c] = [values |-> values, nullable |-> FALSE, nulls |-> <<>>]
    BY <2>2 DEF Plain
  <2>12. piece[c] \in Segments /\ HasRows(piece[c], l)
    BY <2>10, <2>11 DEF Segments, HasRows
  <2> QED BY <2>3, <2>6, <2>10, <2>11, <2>12
<1>8. DOMAIN piece = DOMAIN columns
  BY <1>2, <1>5 DEF Copied
<1>9. piece \in Seq(Segments)
  <2>1. PICK N \in Nat : DOMAIN columns = 1 .. N
    BY <1>3
  <2>2. piece = [c \in 1 .. N |-> piece[c]]
    BY <1>2, <1>5, <2>1 DEF Copied
  <2>3. piece \in [1 .. N -> Segments]
    BY <1>7, <2>1, <2>2
  <2> QED BY <2>3
<1>10. ChunkSize(piece) = l
  <2>1. piece # <<>>
    BY <1>4, <1>8
  <2>2. Len(piece[1].values) = l
    BY <1>4, <1>7
  <2> QED BY <2>1, <2>2 DEF ChunkSize
<1> QED BY <1>2, <1>5, <1>7, <1>8, <1>9, <1>10 DEF IsPiece

(* A table that is split.                                                  *)
IsSplit(u, t, n, d) ==
    /\ u.columns = t.columns /\ Len(u.chunks) = PieceCount(n, d) /\ DOMAIN u.chunks = 1 .. PieceCount(n, d)
    /\ u = [columns |-> u.columns, chunks |-> u.chunks] /\ u.chunks \in Seq(Seq(Segments))
    /\ \A k \in 1 .. PieceCount(n, d) :
          IsPiece(u.chunks[k], t, (k - 1) * d, Smaller(d, n - (k - 1) * d))

(* A table is split, or left as it is.                                     *)
LEMMA SplitPieces ==
    ASSUME NEW t, IsTable(t), Split(t) # t
    PROVE  /\ Len(t.chunks) = 1 /\ ChunkSize(t.chunks[1]) \in Nat /\ DesiredChunkSize \in Nat \ {0}
           /\ IsSplit(Split(t), t, ChunkSize(t.chunks[1]), DesiredChunkSize)
<1>1. PICK d \in Nat \ {0} : d = DesiredChunkSize
  BY OperatorsAssumption
<1>2. PICK n : n = ChunkSize(t.chunks[1])
  OBVIOUS
<1>3. PICK u : u = Split(t)
  OBVIOUS
<1>4. PICK chunks : chunks = [k \in 1 .. PieceCount(n, d) |-> Copied(t, SplitIds(n, d, k))]
  OBVIOUS
<1>5. Len(t.chunks) = 1 /\ ~(n =< d) /\ u = WithChunks(t, chunks)
  BY <1>1, <1>2, <1>3, <1>4, Zenon DEF Split, PieceCount, SplitIds
<1>6. n \in Nat
  <2>1. 1 \in DOMAIN t.chunks
    BY <1>5 DEF IsTable
  <2> QED BY <1>2, <2>1, TableParts
<1>7. PICK p \in Nat : p = PieceCount(n, d)
  BY <1>1, <1>6, Pieces
<1>8. u.columns = t.columns /\ u.chunks = chunks /\ u = [columns |-> u.columns, chunks |-> u.chunks]
  BY <1>5 DEF WithChunks
<1>9. ASSUME NEW k \in 1 .. p
      PROVE  IsPiece(chunks[k], t, (k - 1) * d, Smaller(d, n - (k - 1) * d))
  <2>1. PICK j \in Nat : j = (k - 1) * d /\ j < n
    BY <1>1, <1>6, <1>7, Pieces
  <2>2. PICK l \in Nat \ {0} : l = Smaller(d, n - j) /\ j + l =< n
    <3>1. Smaller(d, n - j) \in Nat \ {0} /\ j + Smaller(d, n - j) =< n
      BY <1>1, <1>6, <2>1 DEF Smaller
    <3> QED BY <3>1
  <2>3. PICK ids : ids = SplitIds(n, d, k)
    OBVIOUS
  <2>4. ids = [i \in 1 .. l |-> <<1, j + i>>]
    BY <2>1, <2>2, <2>3, Zenon DEF SplitIds
  <2>5. IsPiece(Copied(t, ids), t, j, l)
    BY <1>2, <1>5, <1>6, <2>2, <2>4, CopiedPiece
  <2>6. chunks[k] = Copied(t, ids)
    BY <1>4, <1>7, <2>3
  <2> QED BY <2>1, <2>2, <2>5, <2>6
<1>10. chunks \in Seq(Seq(Segments)) /\ Len(chunks) = p /\ DOMAIN chunks = 1 .. p
  <2>1. PICK Z : Z = Seq(Segments)
    OBVIOUS
  <2>2. \A k \in 1 .. p : chunks[k] \in Z
    BY <1>9, <2>1 DEF IsPiece
  <2>3. chunks = [k \in 1 .. p |-> chunks[k]]
    BY <1>4, <1>7
  <2>4. chunks \in [1 .. p -> Z]
    BY <2>2, <2>3
  <2>5. chunks \in Seq(Z) /\ Len(chunks) = p /\ DOMAIN chunks = 1 .. p
    BY <2>4
  <2> QED BY <2>1, <2>5
<1>11. IsSplit(u, t, n, d)
  <2>1. \A k \in 1 .. PieceCount(n, d) :
           IsPiece(u.chunks[k], t, (k - 1) * d, Smaller(d, n - (k - 1) * d))
    BY <1>7, <1>8, <1>9
  <2> QED BY <1>7, <1>8, <1>10, <2>1, Zenon DEF IsSplit
<1> QED BY <1>1, <1>2, <1>3, <1>5, <1>6, <1>11

(* A table of segments without flags has no NULL.                          *)
LEMMA NoFlagsNoNulls ==
    ASSUME NEW t, \A k \in DOMAIN t.chunks : \A c \in DOMAIN t.chunks[k] : t.chunks[k][c].nullable = FALSE
    PROVE  NullsOf(t) = {} /\ NullsDeclared(t)
<1>1. ASSUME NEW m \in NullsOf(t) PROVE FALSE
  <2>1. /\ m \in UNION {{k} \X DOMAIN t.chunks[k] : k \in DOMAIN t.chunks}
        /\ \E i \in DOMAIN t.chunks[m[1]][m[2]].values : SegmentIsNull(t.chunks[m[1]][m[2]], i)
    BY Zenon DEF NullsOf
  <2>2. PICK k \in DOMAIN t.chunks : m \in {k} \X DOMAIN t.chunks[k]
    BY <2>1
  <2>3. m[1] = k /\ m[2] \in DOMAIN t.chunks[k]
    BY <2>2
  <2>4. t.chunks[m[1]][m[2]].nullable = FALSE
    BY <2>3
  <2> QED BY <2>1, <2>4, Zenon DEF SegmentIsNull
<1> QED BY <1>1 DEF NullsDeclared

(* The rows of a table of one chunk are those of the chunk.                *)
LEMMA SingleRows ==
    ASSUME NEW t, HasChunks(t), Len(t.chunks) = 1
    PROVE  Rows(t) = ChunkRows(t.chunks[1]) /\ Rows(t) \in Seq(RowSet(t))
<1>1. PICK X : X = RowSet(t)
  OBVIOUS
<1>2. PICK s \in Seq(Seq(X)) : s = RowLists(t) /\ Len(s) = 1
  BY <1>1, RowListsType
<1>3. s[1] \in Seq(X)
  <2>1. PICK Z : Z = Seq(X)
    OBVIOUS
  <2>2. s \in Seq(Z) /\ 1 \in 1 .. Len(s)
    BY <1>2, <2>1
  <2>3. s[1] \in Z
    BY <2>2, ElementOfSeq
  <2> QED BY <2>1, <2>3
<1>4. PICK f : Flattens(f, s) /\ FlattenSeq(s) = f[Len(s)]
  BY FlattenSteps
<1>5. f[1] = Cat(f[0], s[1]) /\ f[0] = <<>>
  <2>1. PICK k \in 1 .. Len(s) : k = 1
    BY <1>2
  <2>2. f[k] = Cat(f[k - 1], s[k]) /\ f[0] = <<>>
    BY <1>4, Zenon DEF Flattens
  <2> QED BY <2>1, <2>2
<1>6. Cat(<<>>, s[1]) = s[1]
  <2>1. <<>> \in Seq(X)
    OBVIOUS
  <2> QED BY <1>3, <2>1, Cats, ZenonT(60)
<1>7. s[1] = ChunkRows(t.chunks[1])
  BY <1>2 DEF RowLists, HasChunks
<1>8. Rows(t) = FlattenSeq(s)
  BY <1>2, Zenon DEF Rows, RowLists
<1> QED BY <1>1, <1>2, <1>3, <1>4, <1>5, <1>6, <1>7, <1>8

(* The chunks of a table have numbers of rows.                             *)
LEMMA TableHasChunks ==
    ASSUME NEW t, IsTable(t)
    PROVE  HasChunks(t)
<1>1. t.chunks \in Seq(Seq(Segments))
  BY DEF IsTable
<1>2. Len(t.chunks) \in Nat /\ DOMAIN t.chunks = 1 .. Len(t.chunks)
  BY <1>1
<1>3. \A k \in DOMAIN t.chunks : ChunkSize(t.chunks[k]) \in Nat
  BY TableParts
<1> QED BY <1>2, <1>3 DEF HasChunks

(* What is split is a table without NULLs, with the columns it had.        *)
LEMMA SplitIsTable ==
    ASSUME NEW t, IsTable(t)
    PROVE  /\ IsTable(Split(t)) /\ Split(t).columns = t.columns
           /\ NullsDeclared(t) => NullsDeclared(Split(t))
<1>1. CASE Split(t) = t
  BY <1>1
<1>2. CASE Split(t) # t
  <2>1. PICK u : u = Split(t)
    OBVIOUS
  <2>2. PICK n, d : IsSplit(u, t, n, d)
    BY <1>2, <2>1, SplitPieces
  <2>3. u.columns = t.columns /\ u = [columns |-> u.columns, chunks |-> u.chunks]
    BY <2>2 DEF IsSplit
  <2>4. PICK p : p = PieceCount(n, d)
    OBVIOUS
  <2>5. ASSUME NEW k \in 1 .. p
        PROVE  /\ DOMAIN u.chunks[k] = DOMAIN u.columns
               /\ \A c \in DOMAIN u.columns : /\ HasRows(u.chunks[k][c], ChunkSize(u.chunks[k]))
                                              /\ u.chunks[k][c].nullable = FALSE
    <3>1. PICK j, l : IsPiece(u.chunks[k], t, j, l)
      BY <2>2, <2>4 DEF IsSplit
    <3>2. DOMAIN u.chunks[k] = DOMAIN t.columns /\ ChunkSize(u.chunks[k]) = l
      BY <3>1 DEF IsPiece
    <3>3. \A c \in DOMAIN t.columns : HasRows(u.chunks[k][c], l) /\ u.chunks[k][c].nullable = FALSE
      BY <3>1 DEF IsPiece
    <3> QED BY <2>3, <3>2, <3>3
  <2>6. DOMAIN u.chunks = 1 .. p
    BY <2>2, <2>4 DEF IsSplit
  <2>7. IsTable(u)
    <3>1. u.columns \in Seq(Definitions) /\ u.chunks \in Seq(Seq(Segments))
      BY <2>2, <2>3 DEF IsTable, IsSplit
    <3>2. u \in [columns : Seq(Definitions), chunks : Seq(Seq(Segments))]
      BY <2>3, <3>1
    <3> QED BY <2>5, <2>6, <3>2, Zenon DEF IsTable
  <2>8. \A k \in DOMAIN u.chunks : \A c \in DOMAIN u.chunks[k] : u.chunks[k][c].nullable = FALSE
    BY <2>5, <2>6
  <2>9. NullsDeclared(u)
    BY <2>8, NoFlagsNoNulls
  <2> QED BY <2>1, <2>3, <2>7, <2>9
<1> QED BY <1>1, <1>2

(* Splitting a table loses no rows, unless there are NULLs.                *)
LEMMA SplitKeepsRows ==
    ASSUME NEW t, IsTable(t), Split(t) = t \/ NullsOf(t) = {}
    PROVE  Rows(Split(t)) = Rows(t)
<1>1. CASE Split(t) = t
  BY <1>1
<1>2. CASE Split(t) # t
  <2>1. PICK u : u = Split(t)
    OBVIOUS
  <2>2. PICK n \in Nat, d \in Nat \ {0} : /\ IsSplit(u, t, n, d) /\ n = ChunkSize(t.chunks[1])
                                          /\ Len(t.chunks) = 1
    BY <1>2, <2>1, SplitPieces
  <2>3. HasChunks(t) /\ HasChunks(u)
    BY <2>1, SplitIsTable, TableHasChunks
  <2>4. PICK a : a = ChunkRows(t.chunks[1]) /\ Rows(t) = a
    BY <2>2, <2>3, SingleRows
  <2>5. PICK X : X = RowSet(t) \cup RowSet(u)
    OBVIOUS
  <2>6. a \in Seq(X)
    <3>1. a \in Seq(RowSet(t)) /\ RowSet(t) \subseteq X
      BY <2>2, <2>3, <2>4, <2>5, SingleRows
    <3> QED BY <3>1, SeqMonotonic
  <2>7. PICK s : s = RowLists(u)
    OBVIOUS
  <2>8. s \in Seq(Seq(X))
    <3>1. RowSet(u) \subseteq X
      BY <2>5
    <3>2. PICK Y, Z : Y = Seq(RowSet(u)) /\ Z = Seq(X)
      OBVIOUS
    <3>3. Y \subseteq Z
      BY <3>1, <3>2, SeqMonotonic
    <3>4. s \in Seq(Y)
      BY <2>3, <2>7, <3>2, RowListsType
    <3>5. s \in Seq(Z)
      BY <3>3, <3>4, SeqMonotonic
    <3> QED BY <3>2, <3>5
  <2>9. Len(a) = n /\ \A i \in 1 .. n : a[i] = RowAt(t.chunks[1], i)
    <3>1. a = [i \in 1 .. n |-> RowAt(t.chunks[1], i)]
      BY <2>2, <2>4, Zenon DEF ChunkRows, RowAt
    <3> QED BY <3>1
  <2>10. /\ Len(s) = PieceCount(n, d) /\ DOMAIN u.chunks = 1 .. PieceCount(n, d)
         /\ \A k \in DOMAIN u.chunks :
               /\ Len(s[k]) = ChunkSize(u.chunks[k])
               /\ \A i \in 1 .. ChunkSize(u.chunks[k]) : s[k][i] = RowAt(u.chunks[k], i)
    <3>1. Len(u.chunks) = PieceCount(n, d) /\ DOMAIN u.chunks = 1 .. PieceCount(n, d)
      BY <2>2 DEF IsSplit
    <3> QED BY <2>3, <2>7, <3>1, RowListsType, Zenon
  <2>11. ASSUME NEW k \in 1 .. Len(s)
         PROVE  /\ Len(s[k]) = Smaller(d, Len(a) - (k - 1) * d)
                /\ \A i \in 1 .. Len(s[k]) : s[k][i] = a[(k - 1) * d + i]
    <3>1. k \in DOMAIN u.chunks /\ k \in 1 .. PieceCount(n, d)
      BY <2>10
    <3>2. PICK j \in Nat : j = (k - 1) * d /\ j < n
      BY <3>1, Pieces
    <3>3. PICK l \in Nat : l = Smaller(d, n - j) /\ j + l =< n
      <4>1. Smaller(d, n - j) \in Nat \ {0} /\ j + Smaller(d, n - j) =< n
        BY <3>2 DEF Smaller
      <4> QED BY <4>1
    <3>4. PICK piece : piece = u.chunks[k]
      OBVIOUS
    <3>5. IsPiece(piece, t, j, l)
      BY <2>2, <3>1, <3>2, <3>3, <3>4 DEF IsSplit
    <3>6. /\ DOMAIN piece = DOMAIN t.columns /\ ChunkSize(piece) = l
      BY <3>5 DEF IsPiece
    <3>7. \A c \in DOMAIN t.columns : /\ piece[c].nullable = FALSE
                                      /\ \A i \in 1 .. l : piece[c].values[i] = t.chunks[1][c].values[j + i]
      BY <3>5 DEF IsPiece
    <3>8. Len(s[k]) = l /\ \A i \in 1 .. l : s[k][i] = RowAt(piece, i)
      BY <2>10, <3>1, <3>4, <3>6
    <3>9. ASSUME NEW i \in 1 .. l PROVE RowAt(piece, i) = RowAt(t.chunks[1], j + i)
      <4>1. 1 \in DOMAIN t.chunks
        BY <2>2, <2>3 DEF HasChunks
      <4>2. DOMAIN t.chunks[1] = DOMAIN t.columns
        BY <4>1, TableParts
      <4>3. ASSUME NEW c \in DOMAIN t.columns
            PROVE  Get(piece[c], i) = Get(t.chunks[1][c], j + i)
        <5>1. j + i \in DOMAIN t.chunks[1][c].values
          <6>1. t.chunks[1][c] \in Segments /\ HasRows(t.chunks[1][c], n)
            BY <2>2, <4>1, TableParts
          <6>2. t.chunks[1][c].values \in Seq(Int) /\ Len(t.chunks[1][c].values) = n
            BY <6>1 DEF Segments, HasRows
          <6> QED BY <3>3, <6>2
        <5>2. PICK m : m = <<1, c>>
          OBVIOUS
        <5>3. m[1] = 1 /\ m[2] = c /\ m \in UNION {{h} \X DOMAIN t.chunks[h] : h \in DOMAIN t.chunks}
          <6>1. m \in {1} \X DOMAIN t.chunks[1]
            BY <4>2, <5>2
          <6> QED BY <4>1, <5>2, <6>1
        <5>4. ~SegmentIsNull(t.chunks[1][c], j + i)
          <6>1. m \notin NullsOf(t)
            BY <1>2
          <6> QED BY <5>1, <5>3, <6>1, Zenon DEF NullsOf
        <5>5. ~SegmentIsNull(piece[c], i)
          BY <3>7, Zenon DEF SegmentIsNull
        <5>6. piece[c].values[i] = t.chunks[1][c].values[j + i]
          BY <3>7
        <5> QED BY <5>4, <5>5, <5>6, Zenon DEF Get
      <4> QED BY <3>6, <4>2, <4>3, Zenon DEF RowAt
    <3>10. ASSUME NEW i \in 1 .. l PROVE s[k][i] = a[j + i]
      <4>1. j + i \in 1 .. n
        BY <3>3
      <4> QED BY <2>9, <3>8, <3>9, <4>1
    <3> QED BY <2>9, <3>2, <3>3, <3>8, <3>10
  <2>12. Cuts(s, a, d)
    BY <2>9, <2>10, <2>11 DEF Cuts
  <2>13. FlattenSeq(s) = a
    BY <2>6, <2>8, <2>12, CutsFlatten
  <2>14. Rows(u) = FlattenSeq(s)
    BY <2>7, Zenon DEF Rows, RowLists
  <2> QED BY <2>1, <2>4, <2>13, <2>14
<1> QED BY <1>1, <1>2

(* Copying the values of a table leaves a table without NULLs.             *)
LEMMA FlaglessTable ==
    ASSUME NEW t, IsTable(t)
    PROVE  /\ IsTable(WithoutFlags(t)) /\ WithoutFlags(t).columns = t.columns
           /\ NullsOf(WithoutFlags(t)) = {}
           /\ Len(WithoutFlags(t).chunks) = Len(t.chunks)
           /\ \A k \in DOMAIN t.chunks : /\ ChunkSize(WithoutFlags(t).chunks[k]) = ChunkSize(t.chunks[k])
                                         /\ \A c \in DOMAIN t.columns :
                                               WithoutFlags(t).chunks[k][c].values = t.chunks[k][c].values
<1>1. PICK w : w = WithoutFlags(t)
  OBVIOUS
<1>2. PICK N \in Nat : N = Len(t.chunks) /\ DOMAIN t.chunks = 1 .. N
  BY TableHasChunks DEF HasChunks
<1>3. PICK M \in Nat : M = Len(t.columns) /\ DOMAIN t.columns = 1 .. M /\ t.columns \in Seq(Definitions)
  BY DEF IsTable
<1>4. /\ w.columns = t.columns /\ w = [columns |-> w.columns, chunks |-> w.chunks]
      /\ w.chunks = [k \in 1 .. N |-> [c \in DOMAIN t.chunks[k] |-> Plain(t.chunks[k][c].values)]]
  BY <1>1, <1>2 DEF WithoutFlags, WithChunks
<1>5. ASSUME NEW k \in 1 .. N
      PROVE  /\ w.chunks[k] \in Seq(Segments) /\ DOMAIN w.chunks[k] = DOMAIN w.columns
             /\ ChunkSize(w.chunks[k]) = ChunkSize(t.chunks[k])
             /\ \A c \in DOMAIN t.columns :
                   /\ HasRows(w.chunks[k][c], ChunkSize(t.chunks[k])) /\ w.chunks[k][c].nullable = FALSE
                   /\ w.chunks[k][c].values = t.chunks[k][c].values
  <2>1. PICK old : old = t.chunks[k]
    OBVIOUS
  <2>2. PICK new : new = w.chunks[k]
    OBVIOUS
  <2>3. DOMAIN old = 1 .. M
    BY <1>2, <1>3, <2>1 DEF IsTable
  <2>4. new = [c \in 1 .. M |-> Plain(old[c].values)]
    BY <1>4, <2>1, <2>2, <2>3
  <2>5. \A c \in 1 .. M : old[c] \in Segments /\ HasRows(old[c], ChunkSize(old))
    BY <1>2, <1>3, <2>1, TableParts
  <2>6. \A c \in 1 .. M : /\ new[c] = [values |-> old[c].values, nullable |-> FALSE, nulls |-> <<>>]
                          /\ new[c].values = old[c].values /\ new[c].nullable = FALSE
    BY <2>4 DEF Plain
  <2>7. \A c \in 1 .. M : new[c] \in Segments
    <3>1. <<>> \in Seq(BOOLEAN)
      OBVIOUS
    <3>2. \A c \in 1 .. M : old[c].values \in Seq(Int)
      BY <2>5 DEF Segments
    <3> SUFFICES ASSUME NEW c \in 1 .. M PROVE new[c] \in Segments
        OBVIOUS
    <3>3. PICK v \in Seq(Int) : v = old[c].values
      BY <3>2
    <3>4. [values |-> v, nullable |-> FALSE, nulls |-> <<>>] \in Segments
      BY <3>1 DEF Segments
    <3>5. new[c] = [values |-> v, nullable |-> FALSE, nulls |-> <<>>]
      BY <2>6, <3>3, Zenon
    <3> QED BY <3>4, <3>5, Zenon
  <2>8. \A c \in 1 .. M : HasRows(new[c], ChunkSize(old))
    <3> SUFFICES ASSUME NEW c \in 1 .. M PROVE HasRows(new[c], ChunkSize(old))
        OBVIOUS
    <3>1. PICK v : v = old[c].values
      OBVIOUS
    <3>2. PICK seg : seg = [values |-> v, nullable |-> FALSE, nulls |-> <<>>]
      OBVIOUS
    <3>3. seg.values = v /\ seg.nullable = FALSE /\ Len(seg.nulls) = 0
      BY <3>2
    <3>4. new[c] = seg
      BY <2>6, <3>1, <3>2, Zenon
    <3>5. Len(v) = ChunkSize(old)
      BY <2>5, <3>1 DEF HasRows
    <3> QED BY <3>3, <3>4, <3>5 DEF HasRows
  <2>9. new \in Seq(Segments) /\ DOMAIN new = 1 .. M
    <3>1. new \in [1 .. M -> Segments]
      BY <2>4, <2>7
    <3> QED BY <3>1
  <2>10. ChunkSize(new) = ChunkSize(old)
    <3>1. CASE M = 0
      <4>1. new = <<>> /\ old = <<>>
        <5>1. new \in Seq(Segments) /\ Len(new) = 0
          BY <2>9, <3>1
        <5>2. old \in Seq(Segments) /\ Len(old) = 0
          <6>1. t.chunks \in Seq(Seq(Segments)) /\ k \in DOMAIN t.chunks
            BY <1>2, TableParts
          <6>2. t.chunks[k] \in Seq(Segments)
            BY <6>1
          <6>3. PICK q \in Seq(Segments) : q = old
            BY <2>1, <6>2
          <6>4. Len(q) \in Nat /\ DOMAIN q = 1 .. Len(q)
            BY LenProperties
          <6>5. 1 .. Len(q) = {}
            BY <2>3, <3>1, <6>3, <6>4
          <6>6. Len(q) # 0 => 1 \in 1 .. Len(q)
            BY <6>4
          <6> QED BY <6>3, <6>5, <6>6
        <5> QED BY <5>1, <5>2
      <4> QED BY <4>1
    <3>2. CASE M # 0
      <4>1. 1 \in 1 .. M /\ new # <<>> /\ old # <<>>
        BY <2>3, <2>9, <3>2
      <4> QED BY <2>6, <4>1 DEF ChunkSize
    <3> QED BY <3>1, <3>2
  <2> QED BY <1>3, <1>4, <2>1, <2>2, <2>6, <2>8, <2>9, <2>10
<1>6. w.chunks \in Seq(Seq(Segments)) /\ Len(w.chunks) = N /\ DOMAIN w.chunks = 1 .. N
  <2>1. PICK Z : Z = Seq(Segments)
    OBVIOUS
  <2>2. w.chunks = [k \in 1 .. N |-> w.chunks[k]]
    BY <1>4
  <2>3. w.chunks \in [1 .. N -> Z]
    BY <1>5, <2>1, <2>2
  <2>4. w.chunks \in Seq(Z) /\ Len(w.chunks) = N /\ DOMAIN w.chunks = 1 .. N
    BY <2>3
  <2> QED BY <2>1, <2>4
<1>7. IsTable(w)
  <2>1. w \in [columns : Seq(Definitions), chunks : Seq(Seq(Segments))]
    BY <1>3, <1>4, <1>6
  <2>2. \A k \in DOMAIN w.chunks :
           /\ DOMAIN w.chunks[k] = DOMAIN w.columns
           /\ \A c \in DOMAIN w.columns : HasRows(w.chunks[k][c], ChunkSize(w.chunks[k]))
    BY <1>4, <1>5, <1>6
  <2> QED BY <2>1, <2>2, Zenon DEF IsTable
<1>8. NullsOf(w) = {}
  <2>1. \A k \in DOMAIN w.chunks : \A c \in DOMAIN w.chunks[k] : w.chunks[k][c].nullable = FALSE
    BY <1>4, <1>5, <1>6
  <2> QED BY <2>1, NoFlagsNoNulls
<1> QED BY <1>1, <1>2, <1>4, <1>5, <1>6, <1>7, <1>8

(* The pieces of a table are those of its values.                          *)
LEMMA SplitsAlike ==
    ASSUME NEW t, IsTable(t), Split(t) # t
    PROVE  Split(WithoutFlags(t)) = Split(t)
<1>1. PICK w : w = WithoutFlags(t)
  OBVIOUS
<1>2. PICK d \in Nat \ {0} : d = DesiredChunkSize
  BY OperatorsAssumption
<1>3. PICK n : n = ChunkSize(t.chunks[1])
  OBVIOUS
<1>4. PICK chunks : chunks = [k \in 1 .. PieceCount(n, d) |-> Copied(t, SplitIds(n, d, k))]
  OBVIOUS
<1>5. Len(t.chunks) = 1 /\ ~(n =< d) /\ Split(t) = WithChunks(t, chunks)
  BY <1>2, <1>3, <1>4, Zenon DEF Split, PieceCount, SplitIds
<1>6. 1 \in DOMAIN t.chunks
  BY <1>5 DEF IsTable
<1>7. /\ w.columns = t.columns /\ Len(w.chunks) = 1 /\ ChunkSize(w.chunks[1]) = n
      /\ \A c \in DOMAIN t.columns : w.chunks[1][c].values = t.chunks[1][c].values
  BY <1>1, <1>3, <1>5, <1>6, FlaglessTable
<1>8. ASSUME NEW k \in 1 .. PieceCount(n, d)
      PROVE  Copied(w, SplitIds(n, d, k)) = Copied(t, SplitIds(n, d, k))
  <2>1. PICK ids : ids = SplitIds(n, d, k)
    OBVIOUS
  <2>2. \A i \in DOMAIN ids : ids[i][1] = 1
    BY <2>1 DEF SplitIds
  <2>3. \A c \in DOMAIN t.columns : \A i \in DOMAIN ids : Raw(w, c, ids[i]) = Raw(t, c, ids[i])
    BY <1>7, <2>2 DEF Raw
  <2>4. \A c \in DOMAIN t.columns :
           [i \in DOMAIN ids |-> Raw(w, c, ids[i])] = [i \in DOMAIN ids |-> Raw(t, c, ids[i])]
    BY <2>3, Zenon
  <2>5. Copied(w, ids) = Copied(t, ids)
    BY <1>7, <2>4, Zenon DEF Copied
  <2> QED BY <2>1, <2>5
<1>9. chunks = [k \in 1 .. PieceCount(n, d) |-> Copied(w, SplitIds(n, d, k))]
  BY <1>4, <1>8, Zenon
<1>10. Split(w) = WithChunks(w, chunks)
  BY <1>2, <1>5, <1>7, <1>9, Zenon DEF Split, PieceCount, SplitIds
<1>11. WithChunks(w, chunks) = WithChunks(t, chunks)
  BY <1>7, Zenon DEF WithChunks
<1> QED BY <1>1, <1>5, <1>10, <1>11

(* The rows that the jobs of a projection read.                            *)
LEMMA SourceRows ==
    ASSUME NEW t, IsTable(t)
    PROVE  Rows(Split(t)) = Rows(ProjectionSource(t))
<1>1. CASE Split(t) = t
  BY <1>1 DEF ProjectionSource
<1>2. CASE Split(t) # t
  <2>1. PICK w : w = WithoutFlags(t)
    OBVIOUS
  <2>2. IsTable(w) /\ NullsOf(w) = {}
    BY <2>1, FlaglessTable
  <2>3. Rows(Split(w)) = Rows(w)
    BY <2>2, SplitKeepsRows
  <2>4. Split(w) = Split(t)
    BY <1>2, <2>1, SplitsAlike
  <2>5. ProjectionSource(t) = w
    BY <1>2, <2>1 DEF ProjectionSource
  <2> QED BY <2>3, <2>4, <2>5
<1> QED BY <1>1, <1>2

-----------------------------------------------------------------------------
(* The segment of chunk k of table t that a projection o owes column c.    *)
Projected(o, t, k, c) ==
    IF Forwards(o.expressions[c]) THEN t.chunks[k][o.expressions[c].nodes[1].column]
    ELSE EvaluateExpressionToSegment(o.expressions[c].nodes, t, t.chunks[k])

IsProjection(o) ==
    /\ Len(o.expressions) \in Nat \ {0} /\ DOMAIN o.expressions = 1 .. Len(o.expressions)
    /\ \A c \in DOMAIN o.expressions : IsExpression(o.expressions[c].nodes, o.columns)

(* The place of a job: an expression to evaluate, or the end.              *)
IsPlace(at, o) ==
    /\ at \in 1 .. Len(o.expressions) + 1
    /\ at \in DOMAIN o.expressions => ~Forwards(o.expressions[at])

(* A job goes on to the next expression that is not forwarded.             *)
LEMMA NextPlace ==
    ASSUME NEW o, IsProjection(o), NEW c \in 1 .. Len(o.expressions) + 1
    PROVE  /\ IsPlace(NextEvaluated(o, c), o) /\ NextEvaluated(o, c) >= c
           /\ \A d \in DOMAIN o.expressions : c =< d /\ d < NextEvaluated(o, c) => Forwards(o.expressions[d])
<1>1. PICK N \in Nat : N = Len(o.expressions) /\ DOMAIN o.expressions = 1 .. N
  BY DEF IsProjection
<1>2. PICK S : S = {d \in 1 .. N : d >= c /\ ~Forwards(o.expressions[d])} \cup {N + 1}
  OBVIOUS
<1>3. S \subseteq Nat /\ N + 1 \in S /\ S \subseteq 1 .. N + 1 /\ \A d \in S : d >= c
  BY <1>1, <1>2
<1>4. PICK x \in S : \A y \in S : x =< y
  BY <1>3, LeastMember
<1>5. PICK z : z = NextEvaluated(o, c)
  OBVIOUS
<1>6. z = Min(S)
  BY <1>1, <1>2, <1>5 DEF NextEvaluated
<1>7. z \in S /\ \A y \in S : z =< y
  BY <1>3, <1>4, <1>6 DEF Min
<1>8. z \in 1 .. N + 1 /\ z >= c /\ (z \in 1 .. N => ~Forwards(o.expressions[z]))
  BY <1>1, <1>2, <1>3, <1>7
<1>9. \A d \in 1 .. N : c =< d /\ d < z => Forwards(o.expressions[d])
  <2>1. SUFFICES ASSUME NEW d \in 1 .. N, c =< d, d < z, ~Forwards(o.expressions[d]) PROVE FALSE
    OBVIOUS
  <2>2. d \in S
    BY <1>1, <1>2, <2>1
  <2>3. z =< d
    BY <1>7, <2>2
  <2> QED BY <1>1, <1>8, <2>1, <2>3
<1> QED BY <1>1, <1>5, <1>8, <1>9 DEF IsPlace

(* The jobs of a projection o of the chunks of t, and what they have done. *)
JobsAt(o, t) ==
    /\ DOMAIN jobs = DOMAIN t.chunks
    /\ \A k \in DOMAIN jobs : jobs[k] = Job(jobs[k].at, jobs[k].flag) /\ IsPlace(jobs[k].at, o)

Outputs(chunks, o, t) ==
    /\ DOMAIN chunks = DOMAIN t.chunks /\ chunks = [k \in DOMAIN chunks |-> chunks[k]]
    /\ \A k \in DOMAIN t.chunks : /\ DOMAIN chunks[k] = DOMAIN o.expressions
                                  /\ chunks[k] = [c \in DOMAIN chunks[k] |-> chunks[k][c]]

(* Column c of chunk k is there.                                           *)
Done(o, k, c) == Forwards(o.expressions[c]) \/ c < jobs[k].at

(* A job of the projection o ends early.                                   *)
Failing(o) == \E c \in DOMAIN o.expressions : SegmentFails(o.expressions[c].nodes)

ProjectionInv ==
    /\ status = "projecting" =>
          /\ JobsAt(op, Split(input)) /\ Outputs(out, op, Split(input))
          /\ ~Failing(op) => \A k \in DOMAIN jobs : \A c \in DOMAIN op.expressions :
                Done(op, k, c) => out[k][c] = Projected(op, Split(input), k, c)
    /\ status = "ready" /\ op.kind = "Projection" =>
          /\ Outputs(table.chunks, op, Split(input))
          /\ \A k \in DOMAIN Split(input).chunks : \A c \in DOMAIN op.expressions :
                table.chunks[k][c] = Projected(op, Split(input), k, c)

(* A projection of a plan evaluates expressions.                           *)
LEMMA ReadsProjection ==
    ASSUME NEW o \in Operations, o.kind = "Projection"
    PROVE  IsProjection(o)
<1>1. IsOperation(o)
  BY OperationsAssumption
<1> QED BY <1>1 DEF IsOperation, IsProjection

(* There is no projection at first.                                        *)
LEMMA ProjectionInvInit == Init => ProjectionInv
BY DEF Init, ProjectionInv, NoOperator

(* A projection starts with the columns it forwards.                       *)
LEMMA StartProjectionStep ==
    ASSUME StartProjection
    PROVE  ProjectionInv'
<1>1. PICK o \in Of("Projection") :
         /\ op' = o /\ input' = table /\ status' = "projecting"
         /\ out' = [k \in DOMAIN Split(table).chunks |-> ForwardedSegments(o, Split(table).chunks[k])]
         /\ jobs' = [k \in DOMAIN Split(table).chunks |-> Job(NextEvaluated(o, 1), NotLoaded)]
  BY Zenon DEF StartProjection, Starts
<1>2. PICK t : t = Split(table)
  OBVIOUS
<1>3. PICK at : at = NextEvaluated(o, 1)
  OBVIOUS
<1>4. IsProjection(o)
  BY <1>1, ReadsProjection DEF Of
<1>5. IsPlace(at, o) /\ \A d \in DOMAIN o.expressions : 1 =< d /\ d < at => Forwards(o.expressions[d])
  <2>1. 1 \in 1 .. Len(o.expressions) + 1
    BY <1>4 DEF IsProjection
  <2> QED BY <1>3, <1>4, <2>1, NextPlace
<1>6. DOMAIN jobs' = DOMAIN t.chunks /\ \A k \in DOMAIN t.chunks : jobs'[k] = Job(at, NotLoaded)
  BY <1>1, <1>2, <1>3
<1>7. JobsAt(o, t)'
  <2>1. \A k \in DOMAIN t.chunks : jobs'[k].at = at /\ jobs'[k].flag = NotLoaded
    BY <1>6 DEF Job
  <2> QED BY <1>5, <1>6, <2>1 DEF JobsAt
<1>8. /\ DOMAIN out' = DOMAIN t.chunks /\ out' = [k \in DOMAIN out' |-> out'[k]]
      /\ \A k \in DOMAIN t.chunks : out'[k] = ForwardedSegments(o, t.chunks[k])
  BY <1>1, <1>2
<1>9. Outputs(out', o, t)
  <2>1. ASSUME NEW k \in DOMAIN t.chunks
        PROVE  /\ DOMAIN out'[k] = DOMAIN o.expressions
               /\ out'[k] = [c \in DOMAIN out'[k] |-> out'[k][c]]
    BY <1>8 DEF ForwardedSegments
  <2> QED BY <1>8, <2>1 DEF Outputs
<1>10. ASSUME NEW k \in DOMAIN jobs', NEW c \in DOMAIN o.expressions, Done(o, k, c)'
       PROVE  out'[k][c] = Projected(o, t, k, c)
  <2>1. k \in DOMAIN t.chunks /\ jobs'[k].at = at
    BY <1>6, <1>10 DEF Job
  <2>2. Forwards(o.expressions[c])
    <3>1. CASE c < jobs'[k].at
      <4>1. 1 =< c
        BY <1>4 DEF IsProjection
      <4> QED BY <1>5, <2>1, <3>1, <4>1
    <3> QED BY <1>10, <3>1 DEF Done
  <2> QED BY <1>8, <2>1, <2>2 DEF ForwardedSegments, Projected
<1>11. op' = o /\ Split(input') = t /\ Split(input)' = t
  BY <1>1, <1>2
<1> QED BY <1>1, <1>7, <1>9, <1>10, <1>11, SMTT(60) DEF ProjectionInv

(* Loading a flag moves no job, unless an Assert fails in it.              *)
LEMMA LoadStep ==
    ASSUME OpInv, ProjectionInv, NEW k \in DOMAIN jobs, EvaluateAndLoad(k)
    PROVE  ProjectionInv'
<1>1. /\ status = "projecting" /\ UNCHANGED <<table, input, op, out>>
      /\ status' \in {"projecting", "undefined"}
  BY Steady
<1>2. CASE status' = "undefined"
  BY <1>2 DEF ProjectionInv
<1>3. CASE status' = "projecting"
  <2>1. \/ UNCHANGED jobs
        \/ \E f : jobs' = [jobs EXCEPT ![k].flag = f]
        \/ /\ jobs' = [jobs EXCEPT ![k].at = Len(op.expressions) + 1]
           /\ SegmentFails(op.expressions[jobs[k].at].nodes)
    BY Zenon DEF EvaluateAndLoad, Current
  <2>2. PICK t : t = Split(input)
    OBVIOUS
  <2>3. JobsAt(op, t) /\ Outputs(out, op, t)
    BY <1>1, <2>2 DEF ProjectionInv
  <2>4. \A m \in DOMAIN jobs : jobs[m] = [at |-> jobs[m].at, flag |-> jobs[m].flag]
    BY <2>3 DEF JobsAt, Job
  <2>5. op' = op /\ Split(input)' = t
    BY <1>1, <2>2
  <2>6. Outputs(out', op, t)
    BY <1>1, <2>3
  <2>7. CASE UNCHANGED jobs \/ \E f : jobs' = [jobs EXCEPT ![k].flag = f]
    <3>1. /\ DOMAIN jobs' = DOMAIN jobs
          /\ \A m \in DOMAIN jobs : jobs'[m] = Job(jobs'[m].at, jobs'[m].flag) /\ jobs'[m].at = jobs[m].at
      <4>1. CASE UNCHANGED jobs
        BY <2>3, <4>1 DEF JobsAt
      <4>2. CASE \E f : jobs' = [jobs EXCEPT ![k].flag = f]
        <5>1. PICK f : jobs' = [jobs EXCEPT ![k].flag = f]
          BY <4>2
        <5>2. \A m \in DOMAIN jobs : jobs'[m] = [at |-> jobs'[m].at, flag |-> jobs'[m].flag] /\ jobs'[m].at = jobs[m].at
          BY <2>4, <5>1
        <5> QED BY <5>1, <5>2 DEF Job
      <4> QED BY <2>7, <4>1, <4>2
    <3>2. JobsAt(op, t)'
      BY <1>1, <2>2, <2>3, <3>1 DEF JobsAt
    <3>3. ~Failing(op) => \A m \in DOMAIN jobs' : \A c \in DOMAIN op.expressions :
              Done(op, m, c)' => out'[m][c] = Projected(op, t, m, c)
      BY <1>1, <2>2, <3>1 DEF ProjectionInv, Done
    <3> QED BY <1>3, <2>5, <2>6, <3>2, <3>3 DEF ProjectionInv
  <2>8. CASE /\ jobs' = [jobs EXCEPT ![k].at = Len(op.expressions) + 1]
             /\ SegmentFails(op.expressions[jobs[k].at].nodes)
    <3>1. IsProjection(op)
      BY <1>1, ReadsProjection DEF OpInv, Reads
    <3>2. jobs[k].at \in DOMAIN op.expressions
      <4>1. jobs[k].at =< Len(op.expressions)
        BY Zenon DEF EvaluateAndLoad, Running
      <4>2. jobs[k].at \in 1 .. Len(op.expressions) + 1
        BY <2>3 DEF JobsAt, IsPlace
      <4> QED BY <3>1, <4>1, <4>2 DEF IsProjection
    <3>3. Failing(op)
      BY <2>8, <3>2 DEF Failing
    <3>4. PICK end : end = Len(op.expressions) + 1
      OBVIOUS
    <3>5. IsPlace(end, op)
      BY <3>1, <3>4 DEF IsPlace, IsProjection
    <3>6. /\ DOMAIN jobs' = DOMAIN jobs
          /\ jobs'[k] = [at |-> end, flag |-> jobs[k].flag]
          /\ \A m \in DOMAIN jobs : m # k => jobs'[m] = jobs[m]
      BY <2>4, <2>8, <3>4
    <3>7. ASSUME NEW m \in DOMAIN jobs
          PROVE  jobs'[m] = [at |-> jobs'[m].at, flag |-> jobs'[m].flag] /\ IsPlace(jobs'[m].at, op)
      <4>1. CASE m = k
        BY <3>5, <3>6, <4>1
      <4>2. CASE m # k
        <5>1. jobs'[m] = jobs[m] /\ IsPlace(jobs[m].at, op)
          BY <2>3, <3>6, <4>2 DEF JobsAt
        <5> QED BY <2>4, <5>1
      <4> QED BY <4>1, <4>2
    <3>8. JobsAt(op, t)'
      BY <1>1, <2>2, <2>3, <3>6, <3>7 DEF JobsAt, Job
    <3> QED BY <1>3, <2>5, <2>6, <3>3, <3>8 DEF ProjectionInv
  <2> QED BY <2>1, <2>7, <2>8
<1> QED BY <1>1, <1>2, <1>3

(* A segment is stored in the place of the job's expression.               *)
LEMMA StoreStep ==
    ASSUME OpInv, ProjectionInv, NEW k \in DOMAIN jobs, Store(k)
    PROVE  ProjectionInv'
<1>1. status = "projecting" /\ UNCHANGED <<table, input, op, status>>
  BY Steady
<1>2. PICK t : t = Split(input)
  OBVIOUS
<1>3. JobsAt(op, t) /\ Outputs(out, op, t)
  BY <1>1, <1>2 DEF ProjectionInv
<1>4. IsProjection(op)
  BY <1>1, ReadsProjection DEF OpInv, Reads
<1>5. PICK at : at = jobs[k].at
  OBVIOUS
<1>6. PICK next : next = NextEvaluated(op, at + 1)
  OBVIOUS
<1>7. PICK segment : segment = EvaluateExpressionToSegment(op.expressions[at].nodes, t, t.chunks[k])
  OBVIOUS
<1>8. /\ out' = [out EXCEPT ![k][at] = segment]
      /\ jobs' = [jobs EXCEPT ![k] = Job(next, NotLoaded)]
      /\ at =< Len(op.expressions)
  <2>1. out' = [out EXCEPT ![k][at] = segment]
    BY <1>2, <1>5, <1>7, Zenon DEF Store, Current, Evaluation
  <2>2. jobs' = [jobs EXCEPT ![k] = Job(next, NotLoaded)]
    BY <1>5, <1>6 DEF Store
  <2>3. at =< Len(op.expressions)
    BY <1>5, Zenon DEF Store, Running
  <2> QED BY <2>1, <2>2, <2>3
<1>9. IsPlace(at, op) /\ at \in DOMAIN op.expressions /\ at + 1 \in 1 .. Len(op.expressions) + 1
  BY <1>3, <1>4, <1>5, <1>8 DEF JobsAt, IsPlace, IsProjection
<1>10. /\ IsPlace(next, op) /\ next >= at + 1
       /\ \A d \in DOMAIN op.expressions : at + 1 =< d /\ d < next => Forwards(op.expressions[d])
  BY <1>4, <1>6, <1>9, NextPlace
<1>11. /\ DOMAIN jobs' = DOMAIN jobs /\ jobs'[k] = Job(next, NotLoaded)
       /\ \A m \in DOMAIN jobs \ {k} : jobs'[m] = jobs[m]
  BY <1>8
<1>12. JobsAt(op, t)'
  <2>1. jobs'[k].at = next /\ jobs'[k].flag = NotLoaded
    BY <1>11 DEF Job
  <2>2. \A m \in DOMAIN jobs' : jobs'[m] = Job(jobs'[m].at, jobs'[m].flag) /\ IsPlace(jobs'[m].at, op)
    BY <1>3, <1>10, <1>11, <2>1 DEF JobsAt
  <2> QED BY <1>1, <1>3, <1>11, <2>2 DEF JobsAt
<1>13. /\ DOMAIN out' = DOMAIN out /\ out' = [m \in DOMAIN out' |-> out'[m]]
       /\ out'[k] = [out[k] EXCEPT ![at] = segment]
       /\ \A m \in DOMAIN out \ {k} : out'[m] = out[m]
  BY <1>3, <1>8 DEF JobsAt, Outputs
<1>14. Outputs(out', op, t)
  <2>1. ASSUME NEW m \in DOMAIN t.chunks
        PROVE  /\ DOMAIN out'[m] = DOMAIN op.expressions
               /\ out'[m] = [c \in DOMAIN out'[m] |-> out'[m][c]]
    <3>1. /\ DOMAIN out[m] = DOMAIN op.expressions
          /\ out[m] = [c \in DOMAIN out[m] |-> out[m][c]]
      BY <1>3 DEF Outputs
    <3>2. CASE m = k
      BY <1>13, <3>1, <3>2
    <3>3. CASE m # k
      <4>1. m \in DOMAIN out \ {k}
        BY <1>3, <3>3 DEF Outputs
      <4> QED BY <1>13, <3>1, <4>1
    <3> QED BY <3>2, <3>3
  <2> QED BY <1>3, <1>13, <2>1 DEF Outputs
<1>15. ASSUME ~Failing(op), NEW m \in DOMAIN jobs', NEW c \in DOMAIN op.expressions, Done(op, m, c)'
       PROVE  out'[m][c] = Projected(op, t, m, c)
  <2>1. m \in DOMAIN jobs /\ m \in DOMAIN out /\ (Done(op, m, c) => out[m][c] = Projected(op, t, m, c))
    BY <1>1, <1>2, <1>3, <1>11, <1>15 DEF ProjectionInv, JobsAt, Outputs
  <2>2. Forwards(op.expressions[c]) \/ c < jobs'[m].at
    BY <1>1, <1>15 DEF Done
  <2>3. CASE m # k
    <3>1. out'[m] = out[m] /\ jobs'[m] = jobs[m]
      BY <1>11, <1>13, <2>1, <2>3
    <3> QED BY <2>1, <2>2, <3>1 DEF Done
  <2>4. CASE m = k /\ c = at
    <3>1. out'[m][c] = segment
      BY <1>3, <1>9, <1>13, <2>1, <2>4 DEF Outputs, JobsAt
    <3>2. ~Forwards(op.expressions[at])
      BY <1>9 DEF IsPlace
    <3> QED BY <1>7, <2>4, <3>1, <3>2 DEF Projected
  <2>5. CASE m = k /\ c # at
    <3>1. out'[m][c] = out[m][c]
      BY <1>3, <1>13, <2>1, <2>5 DEF Outputs, JobsAt
    <3>2. Forwards(op.expressions[c]) \/ c < next
      BY <1>11, <2>2, <2>5 DEF Job
    <3>3. Forwards(op.expressions[c]) \/ c < at
      <4>1. c \in Nat /\ at \in Nat /\ next \in Nat
        BY <1>4, <1>9, <1>10 DEF IsProjection, IsPlace
      <4> QED BY <1>10, <2>5, <3>2, <4>1
    <3>4. Done(op, m, c)
      BY <1>5, <2>5, <3>3 DEF Done
    <3> QED BY <2>1, <3>1, <3>4
  <2> QED BY <2>3, <2>4, <2>5
<1>16. op' = op /\ Split(input)' = t /\ status' = "projecting"
  BY <1>1, <1>2
<1> QED BY <1>12, <1>14, <1>15, <1>16 DEF ProjectionInv

(* When no job runs, every segment is there, or nothing is returned.       *)
LEMMA FinishProjectionStep ==
    ASSUME OpInv, ProjectionInv, FinishProjection
    PROVE  ProjectionInv'
<1>1. /\ status = "projecting" /\ UNCHANGED <<input, op>>
      /\ status' \in {"ready", "assert", "undefined"}
  BY Steady
<1>2. CASE status' # "ready"
  BY <1>1, <1>2 DEF ProjectionInv
<1>3. CASE status' = "ready"
  <2>1. table' = ProjectionOutput /\ ~LacksSegments(op)
    BY <1>3, Zenon DEF FinishProjection
  <2>2. table'.chunks = out
    BY <2>1 DEF ProjectionOutput
  <2>3. \A k \in DOMAIN jobs : ~(jobs[k].at =< Len(op.expressions))
    BY DEF FinishProjection, Running
  <2>4. PICK t : t = Split(input)
    OBVIOUS
  <2>5. IsProjection(op)
    BY <1>1, ReadsProjection DEF OpInv, Reads
  <2>6. JobsAt(op, t) /\ Outputs(out, op, t)
    BY <1>1, <2>4 DEF ProjectionInv
  <2>7. ASSUME NEW k \in DOMAIN t.chunks, NEW c \in DOMAIN op.expressions
        PROVE  out[k][c] = Projected(op, t, k, c)
    <3>1. k \in DOMAIN jobs
      BY <2>6 DEF JobsAt
    <3>2. c < jobs[k].at
      BY <2>3, <2>5, <2>6, <3>1 DEF JobsAt, IsPlace, IsProjection
    <3>3. jobs # <<>>
      BY <3>1
    <3>4. ~Failing(op)
      BY <2>1, <3>3, Zenon DEF LacksSegments, Failing
    <3> QED BY <1>1, <2>4, <3>1, <3>2, <3>4 DEF ProjectionInv, Done
  <2>8. Split(input)' = t /\ op' = op /\ Outputs(table'.chunks, op', t)
    BY <1>1, <2>2, <2>4, <2>6
  <2>9. ASSUME NEW k \in DOMAIN t.chunks, NEW c \in DOMAIN op'.expressions
        PROVE  table'.chunks[k][c] = Projected(op', t, k, c)
    BY <2>2, <2>7, <2>8
  <2> QED BY <1>3, <2>8, <2>9 DEF ProjectionInv
<1> QED BY <1>2, <1>3

(* Every step keeps it.                                                    *)
LEMMA ProjectionInvStep == OpInv /\ ProjectionInv /\ [Next]_vars => ProjectionInv'
<1> SUFFICES ASSUME OpInv, ProjectionInv, [Next]_vars PROVE ProjectionInv'
  OBVIOUS
<1>1. CASE Limit \/ Sort \/ Partition \/ Alias \/ HashJoin \/ SortedMergeJoin \/ Aggregate
  BY <1>1, OneStep DEF Ends, ProjectionInv
<1>2. CASE StartFilter
  BY <1>2 DEF StartFilter, ProjectionInv
<1>3. CASE FinishFilter
  <2>1. op'.kind = "Filter" /\ status' = "ready"
    BY <1>3, Steady DEF OpInv, Reads
  <2> QED BY <2>1 DEF ProjectionInv
<1>4. CASE StartProjection
  BY <1>4, StartProjectionStep
<1>5. CASE FinishProjection
  BY <1>5, FinishProjectionStep
<1>6. CASE \E k \in pending : FilterChunk(k)
  BY <1>6, Steady DEF ProjectionInv
<1>7. CASE \E k \in DOMAIN jobs : EvaluateAndLoad(k)
  BY <1>7, LoadStep
<1>8. CASE \E k \in DOMAIN jobs : Store(k)
  BY <1>8, StoreStep
<1>9. CASE UNCHANGED vars
  BY <1>9 DEF vars, jobVars, ProjectionInv, JobsAt, Outputs, Done
<1> QED BY <1>1, <1>2, <1>3, <1>4, <1>5, <1>6, <1>7, <1>8, <1>9 DEF Next

(* A segment that reads as an expression at each row of a chunk.           *)
ReadsAs(s, e, chunk) ==
    /\ s \in Segments /\ HasRows(s, ChunkSize(chunk))
    /\ \A i \in 1 .. ChunkSize(chunk) : Get(s, i) = SqlValue(e, RowAt(chunk, i))

(* Such are the segments that are forwarded, and those that are evaluated. *)
LEMMA ProjectedIsSql ==
    ASSUME NEW t, IsTable(t), NullsDeclared(t), NEW k \in DOMAIN t.chunks,
           NEW o, IsProjection(o), o.columns \subseteq DOMAIN t.columns,
           NEW c \in DOMAIN o.expressions, ~DropsNull(o.expressions[c].nodes, BOOLEAN)
    PROVE  ReadsAs(Projected(o, t, k, c), o.expressions[c].nodes, t.chunks[k])
<1>1. PICK e : e = o.expressions[c].nodes
  OBVIOUS
<1>2. PICK chunk : chunk = t.chunks[k]
  OBVIOUS
<1>3. PICK columns : columns = o.columns
  OBVIOUS
<1>4. IsExpression(e, columns) /\ columns \subseteq DOMAIN t.columns /\ ~DropsNull(e, BOOLEAN)
  BY <1>1, <1>3 DEF IsProjection
<1>5. CASE ~Forwards(o.expressions[c])
  <2>1. PICK s : s = EvaluateExpressionToSegment(e, t, chunk)
    OBVIOUS
  <2>2. Projected(o, t, k, c) = s
    BY <1>1, <1>2, <1>5, <2>1 DEF Projected
  <2>3. ReadsAs(s, e, chunk)
    BY <1>2, <1>4, <2>1, SegmentIsSql DEF ReadsAs
  <2> QED BY <1>1, <1>2, <2>2, <2>3
<1>6. CASE Forwards(o.expressions[c])
  <2>1. Len(e) = 1 /\ e[1].kind = "Column"
    BY <1>1, <1>6 DEF Forwards
  <2>2. PICK column : column = e[1].column
    OBVIOUS
  <2>3. column \in columns
    <3>1. 1 \in DOMAIN e
      BY <1>4, <2>1 DEF IsExpression
    <3>2. IsNode(e[1], columns)
      BY <1>4, <3>1 DEF IsExpression
    <3> QED BY <2>1, <2>2, <3>2 DEF IsNode
  <2>4. PICK s : s = chunk[column]
    OBVIOUS
  <2>5. Projected(o, t, k, c) = s
    BY <1>1, <1>2, <1>6, <2>2, <2>4 DEF Projected
  <2>6. column \in DOMAIN chunk /\ s \in Segments /\ HasRows(s, ChunkSize(chunk))
    BY <1>2, <1>4, <2>3, <2>4, TableParts
  <2>7. ASSUME NEW i \in 1 .. ChunkSize(chunk) PROVE Get(s, i) = SqlValue(e, RowAt(chunk, i))
    <3>1. PICK row : row = RowAt(chunk, i)
      OBVIOUS
    <3>2. PICK v : /\ \A n \in 1 .. Len(e) : v[n] = SqlNode(e[n], v, row)
                   /\ SqlValue(e, row) = v[Len(e)]
      BY <1>4, SqlClosed
    <3>3. SqlValue(e, row) = SqlNode(e[1], v, row)
      BY <2>1, <3>2
    <3>4. SqlNode(e[1], v, row) = row[column]
      BY <2>1, <2>2 DEF SqlNode
    <3>5. row[column] = Get(s, i)
      BY <2>4, <2>6, <3>1, Zenon DEF RowAt
    <3> QED BY <3>1, <3>3, <3>4, <3>5
  <2>8. ReadsAs(s, e, chunk)
    BY <2>6, <2>7 DEF ReadsAs
  <2> QED BY <1>1, <1>2, <2>5, <2>8
<1> QED BY <1>5, <1>6

(* The rows of the output, by the rows of the table that was read.         *)
LEMMA ProjectedRows ==
    ASSUME NEW t, IsTable(t), NullsDeclared(t), NEW o, IsProjection(o), o.columns \subseteq DOMAIN t.columns,
           \A c \in DOMAIN o.expressions : ~DropsNull(o.expressions[c].nodes, BOOLEAN),
           NEW u, Outputs(u.chunks, o, t),
           \A k \in DOMAIN t.chunks : \A c \in DOMAIN o.expressions : u.chunks[k][c] = Projected(o, t, k, c)
    PROVE  Rows(u) = [i \in DOMAIN Rows(t) |->
                         [c \in DOMAIN o.expressions |-> SqlValue(o.expressions[c].nodes, Rows(t)[i])]]
<1>1. HasChunks(t)
  BY TableHasChunks
<1>2. PICK N \in Nat : N = Len(t.chunks) /\ DOMAIN t.chunks = 1 .. N
  BY <1>1 DEF HasChunks
<1>3. DOMAIN u.chunks = 1 .. N /\ Len(u.chunks) = N
  <2>1. PICK s : s = u.chunks
    OBVIOUS
  <2>2. DOMAIN s = 1 .. N /\ s = [k \in 1 .. N |-> s[k]]
    BY <1>2, <2>1 DEF Outputs
  <2>3. s \in [1 .. N -> {s[k] : k \in 1 .. N}]
    BY <2>2
  <2>4. Len(s) = N
    BY <2>3
  <2> QED BY <2>1, <2>2, <2>4
<1>4. ASSUME NEW k \in DOMAIN t.chunks
      PROVE  /\ ChunkSize(u.chunks[k]) = ChunkSize(t.chunks[k]) /\ ChunkSize(t.chunks[k]) \in Nat
             /\ \A i \in 1 .. ChunkSize(t.chunks[k]) :
                   RowAt(u.chunks[k], i) = [c \in DOMAIN o.expressions |->
                                               SqlValue(o.expressions[c].nodes, RowAt(t.chunks[k], i))]
  <2>1. PICK new : new = u.chunks[k]
    OBVIOUS
  <2>2. PICK chunk : chunk = t.chunks[k]
    OBVIOUS
  <2>3. DOMAIN new = DOMAIN o.expressions
    BY <2>1 DEF Outputs
  <2>4. \A c \in DOMAIN o.expressions : ReadsAs(new[c], o.expressions[c].nodes, chunk)
    BY <2>1, <2>2, ProjectedIsSql
  <2>5. ChunkSize(new) = ChunkSize(chunk)
    <3>1. 1 \in DOMAIN o.expressions
      BY DEF IsProjection
    <3>2. new # <<>>
      BY <2>3, <3>1
    <3>3. HasRows(new[1], ChunkSize(chunk))
      BY <2>4, <3>1 DEF ReadsAs
    <3>4. Len(new[1].values) = ChunkSize(chunk)
      BY <3>3 DEF HasRows
    <3> QED BY <3>2, <3>4 DEF ChunkSize
  <2>6. ASSUME NEW i \in 1 .. ChunkSize(chunk)
        PROVE  RowAt(new, i) = [c \in DOMAIN o.expressions |->
                                   SqlValue(o.expressions[c].nodes, RowAt(chunk, i))]
    <3>1. \A c \in DOMAIN o.expressions : Get(new[c], i) = SqlValue(o.expressions[c].nodes, RowAt(chunk, i))
      BY <2>4 DEF ReadsAs
    <3> QED BY <2>3, <3>1, Zenon DEF RowAt
  <2>7. ChunkSize(chunk) \in Nat
    BY <2>2, TableParts
  <2> QED BY <2>1, <2>2, <2>5, <2>6, <2>7
<1>5. HasChunks(u)
  BY <1>2, <1>3, <1>4 DEF HasChunks
<1>6. PICK c, p : RowsAt(c, p, t) /\ RowsAt(c, p, u)
  BY <1>1, <1>2, <1>3, <1>4, <1>5, RowsPlaced
<1>7. PICK r : r = Rows(t)
  OBVIOUS
<1>8. PICK z : z = Rows(u)
  OBVIOUS
<1>9. DOMAIN z = DOMAIN r /\ DOMAIN c = DOMAIN r
  BY <1>6, <1>7, <1>8 DEF RowsAt
<1>10. z \in Seq(RowSet(u))
  BY <1>2, <1>3, <1>4, <1>1, <1>5, <1>8, RowsPlaced
<1>11. z = [j \in DOMAIN z |-> z[j]]
  BY <1>10
<1>12. ASSUME NEW j \in DOMAIN r
       PROVE  z[j] = [d \in DOMAIN o.expressions |-> SqlValue(o.expressions[d].nodes, r[j])]
  <2>1. /\ c[j] \in DOMAIN t.chunks /\ p[j] \in 1 .. ChunkSize(t.chunks[c[j]])
        /\ r[j] = RowAt(t.chunks[c[j]], p[j])
    BY <1>6, <1>7, Zenon DEF RowsAt
  <2>2. z[j] = RowAt(u.chunks[c[j]], p[j])
    BY <1>6, <1>8, <1>9, Zenon DEF RowsAt
  <2>3. PICK k \in DOMAIN t.chunks : k = c[j]
    BY <2>1
  <2>4. PICK i \in 1 .. ChunkSize(t.chunks[k]) : i = p[j]
    BY <2>1, <2>3
  <2>5. RowAt(u.chunks[k], i) = [d \in DOMAIN o.expressions |->
                                    SqlValue(o.expressions[d].nodes, RowAt(t.chunks[k], i))]
    BY <1>4
  <2> QED BY <2>1, <2>2, <2>3, <2>4, <2>5, Zenon
<1>13. z = [j \in DOMAIN r |-> [d \in DOMAIN o.expressions |-> SqlValue(o.expressions[d].nodes, r[j])]]
  BY <1>9, <1>11, <1>12, Zenon
<1> QED BY <1>7, <1>8, <1>13

(* A projection that returns has computed each of its expressions on each  *)
(* row, in order (ProjectionOperator::OnExecute): for every list of        *)
(* expressions, every table, every number of jobs and every interleaving   *)
(* of them.  The rows are those of its input if it has not split it, and   *)
(* those of its input with each NULL replaced by the value below it if it  *)
(* has (ProjectionSource).  The input has segments of equal lengths in     *)
(* each chunk (IsTable) and its NULLs in columns declared nullable, and no *)
(* list of strings in an expression has a NULL.                            *)
THEOREM ProjectionsCompute == Spec => [](IsTable(input) => ProjectionComputes)
<1>1. OpInv /\ ProjectionInv => (IsTable(input) => ProjectionComputes)
  <2>1. SUFFICES ASSUME OpInv, ProjectionInv, IsTable(input), status = "ready", op.kind = "Projection",
                        NullsDeclared(input),
                        \A c \in DOMAIN op.expressions : ~DropsNull(op.expressions[c].nodes, BOOLEAN),
                        NEW rows, rows = Rows(ProjectionSource(input))
                 PROVE  Rows(table) = [i \in DOMAIN rows |->
                            [c \in DOMAIN op.expressions |->
                                SqlValue(op.expressions[c].nodes, rows[i])]]
    BY Zenon DEF ProjectionComputes, Finished
  <2>2. PICK t : t = Split(input)
    OBVIOUS
  <2>3. Reads("Projection")
    BY <2>1 DEF OpInv
  <2>4. IsProjection(op) /\ op.columns \subseteq DOMAIN input.columns
    BY <2>3, ReadsProjection DEF Reads
  <2>5. IsTable(t) /\ NullsDeclared(t) /\ op.columns \subseteq DOMAIN t.columns
    BY <2>1, <2>2, <2>4, SplitIsTable
  <2>6. Rows(t) = rows
    BY <2>1, <2>2, SourceRows
  <2>7. /\ Outputs(table.chunks, op, t)
        /\ \A k \in DOMAIN t.chunks : \A c \in DOMAIN op.expressions :
              table.chunks[k][c] = Projected(op, t, k, c)
    BY <2>1, <2>2 DEF ProjectionInv
  <2>8. Rows(table) = [i \in DOMAIN Rows(t) |->
            [c \in DOMAIN op.expressions |-> SqlValue(op.expressions[c].nodes, Rows(t)[i])]]
    BY <2>1, <2>4, <2>5, <2>7, ProjectedRows
  <2> QED BY <2>6, <2>8
<1> QED BY <1>1, OpInvInit, OpInvStep, ProjectionInvInit, ProjectionInvStep, PTL DEF Spec

-----------------------------------------------------------------------------
(* NULLs in columns that are declared nullable.                            *)

(* They are looked for place by place.                                     *)
LEMMA NullsByPlace ==
    ASSUME NEW t,
           \A k \in DOMAIN t.chunks : \A c \in DOMAIN t.chunks[k] :
              \A i \in DOMAIN t.chunks[k][c].values :
                 SegmentIsNull(t.chunks[k][c], i) => ColumnIsNullable(t, c)
    PROVE  NullsDeclared(t)
<1>1. ASSUME NEW m \in NullsOf(t) PROVE ColumnIsNullable(t, m[2])
  <2>1. /\ m \in UNION {{k} \X DOMAIN t.chunks[k] : k \in DOMAIN t.chunks}
        /\ \E i \in DOMAIN t.chunks[m[1]][m[2]].values : SegmentIsNull(t.chunks[m[1]][m[2]], i)
    BY Zenon DEF NullsOf
  <2>2. PICK k \in DOMAIN t.chunks : m \in {k} \X DOMAIN t.chunks[k]
    BY <2>1
  <2>3. m[1] \in DOMAIN t.chunks /\ m[2] \in DOMAIN t.chunks[m[1]]
    BY <2>2
  <2> QED BY <2>1, <2>3
<1> QED BY <1>1 DEF NullsDeclared

(* There are none where the flags of a column are declared.                *)
FlagsDeclared(t) ==
    \A k \in DOMAIN t.chunks : \A c \in DOMAIN t.chunks[k] :
       t.chunks[k][c].nullable => ColumnIsNullable(t, c)

(* A row is NULL only in a segment with flags.                             *)
LEMMA FlagsDeclareNulls ==
    ASSUME NEW t, FlagsDeclared(t)
    PROVE  NullsDeclared(t)
<1>1. ASSUME NEW k \in DOMAIN t.chunks, NEW c \in DOMAIN t.chunks[k],
             NEW i \in DOMAIN t.chunks[k][c].values, SegmentIsNull(t.chunks[k][c], i)
      PROVE  ColumnIsNullable(t, c)
  BY <1>1, Zenon DEF FlagsDeclared, SegmentIsNull
<1> QED BY <1>1, NullsByPlace, Zenon

(* The rows before a chunk.                                                *)
LEMMA RowsBeforeType ==
    ASSUME NEW N \in Nat, NEW chunks, DOMAIN chunks = 1 .. N,
           \A k \in 1 .. N : ChunkSize(chunks[k]) \in Nat, NEW k \in 1 .. N
    PROVE  RowsBefore(chunks, k) \in Nat
<1> DEFINE Equation(f) == f = [m \in DOMAIN chunks |->
              IF m = 1 THEN 0 ELSE f[m - 1] + ChunkSize(chunks[m - 1])]
           before == CHOOSE f : Equation(f)
<1>1. RowsBefore(chunks, k) = before[k]
  BY DEF RowsBefore
<1>2. \E f : Equation(f)
  <2>1. PICK step : step = [m \in 1 .. N |-> [a \in Nat |-> IF m = 1 THEN 0 ELSE a + ChunkSize(chunks[m - 1])]]
    OBVIOUS
  <2>2. PICK h : Iterates(h, N, 0, step)
    BY Iterations
  <2>3. DOMAIN h = 0 .. N /\ h[0] = 0 /\ \A m \in 1 .. N : h[m] = step[m][h[m - 1]]
    BY <2>2, Zenon DEF Iterates
  <2>4. \A m \in 1 .. N, a \in Nat : step[m][a] = IF m = 1 THEN 0 ELSE a + ChunkSize(chunks[m - 1])
    BY <2>1
  <2> DEFINE T == {m \in 0 .. N : h[m] \in Nat}
  <2>5. 0 \in T
    BY <2>3
  <2>6. ASSUME NEW n \in 0 .. N - 1, n \in T PROVE n + 1 \in T
    <3>1. PICK m \in 1 .. N : m = n + 1 /\ m - 1 = n
      OBVIOUS
    <3>2. h[m] = step[m][h[n]] /\ h[n] \in Nat
      BY <2>3, <2>6, <3>1
    <3>3. h[m] = IF m = 1 THEN 0 ELSE h[n] + ChunkSize(chunks[n])
      BY <2>4, <3>1, <3>2
    <3>4. m # 1 => ChunkSize(chunks[n]) \in Nat
      BY <3>1
    <3>5. h[m] \in Nat /\ m \in 0 .. N
      BY <3>2, <3>3, <3>4
    <3> QED BY <3>1, <3>5
  <2>7. \A n \in 0 .. N : n \in T
    <3> HIDE DEF T
    <3> QED BY <2>5, <2>6, BoundedInduction
  <2>8. PICK g : g = [m \in 1 .. N |-> h[m]]
    OBVIOUS
  <2>9. ASSUME NEW m \in 1 .. N PROVE g[m] = IF m = 1 THEN 0 ELSE g[m - 1] + ChunkSize(chunks[m - 1])
    <3>1. h[m - 1] \in Nat
      BY <2>7
    <3>2. h[m] = IF m = 1 THEN 0 ELSE h[m - 1] + ChunkSize(chunks[m - 1])
      BY <2>3, <2>4, <3>1
    <3>3. m # 1 => m - 1 \in 1 .. N /\ g[m - 1] = h[m - 1]
      BY <2>8
    <3> QED BY <2>8, <3>2, <3>3
  <2>10. Equation(g)
    <3>1. g = [m \in 1 .. N |-> g[m]]
      BY <2>8
    <3> QED BY <2>9, <3>1
  <2> HIDE DEF Equation
  <2> QED BY <2>10
<1>3. Equation(before)
  <2> HIDE DEF Equation
  <2> QED BY <1>2
<1> HIDE DEF before
<1>4. \A m \in 1 .. N : before[m] = IF m = 1 THEN 0 ELSE before[m - 1] + ChunkSize(chunks[m - 1])
  BY <1>3
<1> DEFINE T == {m \in 1 .. N : before[m] \in Nat}
<1>5. ASSUME NEW m \in 1 .. N, \A j \in 1 .. m - 1 : j \in T PROVE m \in T
  <2>1. CASE m = 1
    BY <1>4, <2>1
  <2>2. CASE m # 1
    <3>1. PICK j \in 1 .. m - 1 : j = m - 1 /\ j \in 1 .. N
      BY <2>2
    <3>2. before[j] \in Nat /\ ChunkSize(chunks[j]) \in Nat
      BY <1>5, <3>1
    <3>3. before[m] = before[j] + ChunkSize(chunks[j])
      BY <1>4, <2>2, <3>1
    <3> QED BY <3>2, <3>3
  <2> QED BY <2>1, <2>2
<1>6. \A m \in 1 .. N : m \in T
  <2> HIDE DEF T
  <2> QED BY <1>5, CourseOfValues
<1> QED BY <1>1, <1>6

(* A limit keeps chunks, and NULLs of the chunk that it cuts.              *)
LEMMA LimitDeclares ==
    ASSUME NEW t, IsTable(t), NullsDeclared(t), NEW n \in Nat
    PROVE  NullsDeclared(WithChunks(t, LimitChunks(t.chunks, n)))
<1>1. PICK chunks : chunks = t.chunks
  OBVIOUS
<1>2. PICK N \in Nat : DOMAIN chunks = 1 .. N /\ chunks \in Seq(Seq(Segments)) /\ Len(chunks) = N
  BY <1>1 DEF IsTable
<1>3. \A k \in 1 .. N : ChunkSize(chunks[k]) \in Nat
  BY <1>1, <1>2, TableParts
<1>4. PICK tooLong : tooLong = {k \in 1 .. N : RowsBefore(chunks, k) + ChunkSize(chunks[k]) > n}
  OBVIOUS
<1>5. PICK new : new = LimitChunks(chunks, n)
  OBVIOUS
<1>6. PICK u : u = WithChunks(t, new)
  OBVIOUS
<1>7. u.columns = t.columns /\ u.chunks = new
  BY <1>6 DEF WithChunks
<1>8. CASE tooLong = {}
  <2>1. new = chunks
    BY <1>2, <1>4, <1>5, <1>8 DEF LimitChunks
  <2>2. u = t
    BY <1>1, <1>6, <2>1 DEF WithChunks, IsTable
  <2> QED BY <1>1, <1>5, <1>6, <2>2
<1>9. CASE tooLong # {}
  <2>1. PICK k : k = Min(tooLong)
    OBVIOUS
  <2>2. k \in tooLong
    <3>1. tooLong \in SUBSET Nat
      BY <1>4
    <3>2. PICK x \in tooLong : \A y \in tooLong : x =< y
      BY <1>9, <3>1, LeastMember
    <3> QED BY <2>1, <3>2 DEF Min
  <2>3. PICK cut : cut = n - RowsBefore(chunks, k)
    OBVIOUS
  <2>4. k \in 1 .. N /\ cut \in Int /\ cut < ChunkSize(chunks[k])
    <3>1. k \in 1 .. N /\ RowsBefore(chunks, k) + ChunkSize(chunks[k]) > n
      BY <1>4, <2>2
    <3>2. RowsBefore(chunks, k) \in Nat /\ ChunkSize(chunks[k]) \in Nat
      BY <1>2, <1>3, <3>1, RowsBeforeType
    <3> QED BY <2>3, <3>1, <3>2
  <2>5. PICK slice : slice = SliceChunk(chunks[k], cut)
    OBVIOUS
  <2>6. PICK front : front = SubSeq(chunks, 1, k - 1)
    OBVIOUS
  <2>7. new = Append(front, slice)
    BY <1>2, <1>4, <1>5, <1>9, <2>1, <2>3, <2>5, <2>6 DEF LimitChunks
  <2>8. /\ \E S : front \in Seq(S)
        /\ Len(front) = k - 1 /\ \A m \in 1 .. k - 1 : front[m] = chunks[m]
    <3>1. PICK Z : Z = Seq(Segments)
      OBVIOUS
    <3>2. chunks \in Seq(Z)
      BY <1>2, <3>1
    <3>3. 1 \in Nat /\ k - 1 \in 0 .. Len(chunks)
      BY <1>2, <2>4
    <3>4. front \in Seq(Z) /\ Len(front) = k - 1 /\ \A m \in 1 .. k - 1 : front[m] = chunks[m]
      <4>1. front = [m \in 1 .. k - 1 |-> chunks[m]]
        BY <2>4, <2>6, <3>2
      <4>2. \A m \in 1 .. k - 1 : chunks[m] \in Z
        BY <1>2, <2>4, <3>2
      <4>3. front \in [1 .. k - 1 -> Z] /\ k - 1 \in Nat
        BY <2>4, <4>1, <4>2
      <4> QED BY <4>1, <4>3
    <3> QED BY <3>4
  <2>9. /\ DOMAIN new = 1 .. k /\ new[k] = slice /\ \A m \in 1 .. k - 1 : new[m] = chunks[m]
    <3>1. PICK S : front \in Seq(S)
      BY <2>8
    <3>2. PICK X : X = S \cup {slice}
      OBVIOUS
    <3>3. front \in Seq(X) /\ slice \in X
      BY <3>1, <3>2, SeqMonotonic
    <3>4. PICK j \in Nat : Len(front) = j /\ k = j + 1
      BY <2>4, <2>8
    <3>5. /\ DOMAIN new = 1 .. j + 1 /\ new[j + 1] = slice
          /\ \A m \in 1 .. j : new[m] = front[m]
      <4>1. new \in Seq(X) /\ Len(new) = j + 1 /\ new[j + 1] = slice
        BY <2>7, <3>3, <3>4, AppendProperties
      <4>2. \A m \in 1 .. j : new[m] = front[m]
        BY <2>7, <3>3, <3>4, AppendProperties
      <4> QED BY <4>1, <4>2
    <3> QED BY <2>4, <2>8, <3>4, <3>5
  <2>10. ASSUME NEW m \in 1 .. k, NEW c \in DOMAIN new[m], NEW i \in DOMAIN new[m][c].values,
                SegmentIsNull(new[m][c], i)
         PROVE  ColumnIsNullable(u, c)
    <3>1. CASE m # k
      <4>1. new[m] = t.chunks[m] /\ m \in DOMAIN t.chunks
        BY <1>1, <1>2, <2>4, <2>9, <3>1
      <4>2. ColumnIsNullable(t, c)
        BY <2>10, <4>1, NullsPointwise
      <4> QED BY <1>7, <4>2 DEF ColumnIsNullable
    <3>2. CASE m = k
      <4>1. PICK chunk : chunk = chunks[k]
        OBVIOUS
      <4>2. /\ c \in DOMAIN chunk
            /\ new[m][c] = Nullable([j \in 1 .. cut |-> IF SegmentIsNull(chunk[c], j) THEN Default ELSE chunk[c].values[j]],
                                    [j \in 1 .. cut |-> SegmentIsNull(chunk[c], j)])
        BY <2>5, <2>9, <2>10, <3>2, <4>1, Zenon DEF SliceChunk
      <4>3. PICK nulls : nulls = [j \in 1 .. cut |-> SegmentIsNull(chunk[c], j)]
        OBVIOUS
      <4>4. DOMAIN new[m][c].values = 1 .. cut /\ new[m][c].nulls = nulls
        BY <4>2, <4>3 DEF Nullable
      <4>5. i \in 1 .. cut /\ nulls[i]
        BY <2>10, <4>4, Zenon DEF SegmentIsNull
      <4>6. SegmentIsNull(chunk[c], i)
        BY <4>3, <4>5, Zenon
      <4>7. k \in DOMAIN t.chunks /\ chunk = t.chunks[k]
        BY <1>1, <1>2, <2>4, <4>1
      <4>8. i \in DOMAIN chunk[c].values
        <5>1. c \in DOMAIN t.columns /\ ChunkSize(chunk) \in Nat
          BY <4>2, <4>7, TableParts
        <5>2. chunk[c] \in Segments /\ HasRows(chunk[c], ChunkSize(chunk))
          BY <4>7, <5>1, TableParts
        <5>3. chunk[c].values \in Seq(Int) /\ Len(chunk[c].values) = ChunkSize(chunk)
          BY <5>2 DEF Segments, HasRows
        <5> QED BY <2>4, <4>1, <4>5, <5>1, <5>3
      <4>9. ColumnIsNullable(t, c)
        BY <4>2, <4>6, <4>7, <4>8, NullsPointwise
      <4> QED BY <1>7, <4>9 DEF ColumnIsNullable
    <3> QED BY <3>1, <3>2
  <2>11. NullsDeclared(u)
    BY <1>7, <2>9, <2>10, NullsByPlace
  <2> QED BY <1>1, <1>5, <1>6, <2>11
<1> QED BY <1>8, <1>9

(* Sorted rows have flags where the column is nullable.                    *)
LEMMA MaterializedFlags ==
    ASSUME NEW t, NEW ids
    PROVE  \A c \in DOMAIN MaterializeChunk(t, ids) :
              MaterializeChunk(t, ids)[c].nullable => ColumnIsNullable(t, c)
BY Zenon DEF MaterializeChunk, Plain

(* A sorted table declares its nulls (MaterializeOutputTable).             *)
LEMMA SortDeclares ==
    ASSUME NEW t, NEW ids, NEW size
    PROVE  NullsDeclared(MaterializeOutputTable(t, ids, size))
<1>1. PICK n : n = (Len(ids) + size - 1) \div size
  OBVIOUS
<1>2. PICK u : u = MaterializeOutputTable(t, ids, size)
  OBVIOUS
<1>3. u.columns = t.columns
  BY <1>2 DEF MaterializeOutputTable, WithChunks
<1>4. DOMAIN u.chunks = 1 .. n /\ \A k \in 1 .. n : \E part : u.chunks[k] = MaterializeChunk(t, part)
  BY <1>1, <1>2 DEF MaterializeOutputTable, WithChunks
<1>5. ASSUME NEW k \in DOMAIN u.chunks, NEW c \in DOMAIN u.chunks[k], u.chunks[k][c].nullable
      PROVE  ColumnIsNullable(u, c)
  <2>1. PICK part : u.chunks[k] = MaterializeChunk(t, part)
    BY <1>4
  <2>2. ColumnIsNullable(t, c)
    BY <1>5, <2>1, MaterializedFlags
  <2> QED BY <1>3, <2>2 DEF ColumnIsNullable
<1>6. FlagsDeclared(u)
  BY <1>5 DEF FlagsDeclared
<1> QED BY <1>2, <1>6, FlagsDeclareNulls

(* Partitions are copied without flags, and sorted like a table.           *)
LEMMA PartitionDeclares ==
    ASSUME NEW t, NEW o
    PROVE  NullsDeclared(WithChunks(t, PartitionChunks(t, o)))
<1>1. PICK u : u = WithChunks(t, PartitionChunks(t, o))
  OBVIOUS
<1>2. u.columns = t.columns /\ u.chunks = PartitionChunks(t, o)
  BY <1>1 DEF WithChunks
<1>3. ASSUME NEW k \in DOMAIN u.chunks, NEW c \in DOMAIN u.chunks[k], u.chunks[k][c].nullable
      PROVE  ColumnIsNullable(u, c)
  <2>1. \/ \E ids : u.chunks[k] = Copied(t, ids)
        \/ \E chunk : u.chunks[k] = SortPartition(t, chunk, o.columns)
    BY <1>2, <1>3 DEF PartitionChunks
  <2>2. CASE \E ids : u.chunks[k] = Copied(t, ids)
    <3>1. PICK ids : u.chunks[k] = Copied(t, ids)
      BY <2>2
    <3>2. u.chunks[k][c].nullable = FALSE
      BY <1>3, <3>1 DEF Copied, Plain
    <3> QED BY <1>3, <3>2
  <2>3. CASE \E chunk : u.chunks[k] = SortPartition(t, chunk, o.columns)
    <3>1. PICK chunk : u.chunks[k] = SortPartition(t, chunk, o.columns)
      BY <2>3
    <3>2. PICK part : part = WithChunks(t, <<chunk>>)
      OBVIOUS
    <3>3. \E ids : u.chunks[k] = MaterializeChunk(part, ids)
      BY <3>1, <3>2, Zenon DEF SortPartition
    <3>4. ColumnIsNullable(part, c)
      BY <1>3, <3>3, MaterializedFlags
    <3>5. part.columns = u.columns
      BY <1>2, <3>2 DEF WithChunks
    <3> QED BY <3>4, <3>5 DEF ColumnIsNullable
  <2> QED BY <2>1, <2>2, <2>3
<1>4. FlagsDeclared(u)
  BY <1>3 DEF FlagsDeclared
<1> QED BY <1>1, <1>4, FlagsDeclareNulls

(* Columns that are reordered keep their declarations.                     *)
Reorders(u, t, columns) ==
    u = [columns |-> [n \in DOMAIN columns |-> t.columns[columns[n]]],
         chunks |-> [k \in DOMAIN t.chunks |-> [n \in DOMAIN columns |-> t.chunks[k][columns[n]]]]]

(* An alias declares the nulls of its input (AliasOperator::OnExecute).    *)
LEMMA AliasDeclares ==
    ASSUME NEW t, IsTable(t), NullsDeclared(t), NEW columns \in Seq(Nat),
           ToSet(columns) \subseteq DOMAIN columns, Len(t.columns) = Len(columns),
           NEW u, Reorders(u, t, columns)
    PROVE  NullsDeclared(u)
<1>1. /\ \A n \in DOMAIN columns : u.columns[n] = t.columns[columns[n]]
      /\ DOMAIN u.chunks = DOMAIN t.chunks
      /\ \A k \in DOMAIN t.chunks : /\ DOMAIN u.chunks[k] = DOMAIN columns
                                    /\ \A n \in DOMAIN columns : u.chunks[k][n] = t.chunks[k][columns[n]]
  BY DEF Reorders
<1>2. \A n \in DOMAIN columns : columns[n] \in DOMAIN columns
  BY DEF ToSet
<1>3. ASSUME NEW k \in DOMAIN t.chunks, NEW n \in DOMAIN columns,
             NEW i \in DOMAIN u.chunks[k][n].values, SegmentIsNull(u.chunks[k][n], i)
      PROVE  ColumnIsNullable(u, n)
  <2>1. PICK c : c = columns[n]
    OBVIOUS
  <2>2. DOMAIN t.chunks[k] = DOMAIN t.columns /\ t.columns \in Seq(Definitions)
    BY TableParts
  <2>3. DOMAIN t.columns = DOMAIN columns
    BY <2>2
  <2>4. c \in DOMAIN t.chunks[k] /\ u.chunks[k][n] = t.chunks[k][c]
    BY <1>1, <1>2, <2>1, <2>2, <2>3
  <2>5. ColumnIsNullable(t, c)
    BY <1>3, <2>4, NullsPointwise
  <2> QED BY <1>1, <2>1, <2>5 DEF ColumnIsNullable
<1>4. ASSUME NEW k \in DOMAIN u.chunks, NEW n \in DOMAIN u.chunks[k],
             NEW i \in DOMAIN u.chunks[k][n].values, SegmentIsNull(u.chunks[k][n], i)
      PROVE  ColumnIsNullable(u, n)
  <2>1. k \in DOMAIN t.chunks /\ n \in DOMAIN columns
    BY <1>1
  <2> QED BY <1>3, <1>4, <2>1
<1> QED BY <1>4, NullsByPlace, Zenon

(* Segments and definitions that are joined.                               *)
FlagsMatch(segments, columns) ==
    \A c \in DOMAIN segments : segments[c].nullable => columns[c].nullable

(* Flags that match on both sides match once both are joined.              *)
LEMMA JoinedFlags ==
    ASSUME NEW X, NEW l \in Seq(X), NEW r \in Seq(X), NEW Y, NEW p \in Seq(Y), NEW q \in Seq(Y),
           Len(p) = Len(l), Len(q) = Len(r), FlagsMatch(p, l), FlagsMatch(q, r)
    PROVE  FlagsMatch(p \o q, l \o r)
<1>1. SUFFICES ASSUME NEW c \in DOMAIN Cat(p, q), Cat(p, q)[c].nullable PROVE Cat(l, r)[c].nullable
  BY DEF FlagsMatch, Cat
<1>2. PICK n \in Nat, m \in Nat : n = Len(p) /\ m = Len(q)
  OBVIOUS
<1>3. Cat(p, q) \in Seq(Y) /\ Len(Cat(p, q)) = n + m
  BY <1>2, Cats
<1>4. c \in 1 .. n + m
  BY <1>1, <1>3
<1>5. CASE c =< n
  <2>1. c \in 1 .. Len(p) /\ c \in 1 .. Len(l)
    BY <1>2, <1>4, <1>5
  <2>2. Cat(p, q)[c] = p[c] /\ Cat(l, r)[c] = l[c]
    BY <2>1, Cats, ZenonT(60)
  <2>3. c \in DOMAIN p
    BY <2>1
  <2> QED BY <1>1, <2>2, <2>3 DEF FlagsMatch
<1>6. CASE ~(c =< n)
  <2>1. PICK i \in 1 .. m : c = n + i
    BY <1>4, <1>6
  <2>2. i \in 1 .. Len(q) /\ i \in 1 .. Len(r) /\ Len(l) = n
    BY <1>2
  <2>3. Cat(p, q)[c] = q[i] /\ Cat(l, r)[c] = r[i]
    <3>1. Cat(p, q)[Len(p) + i] = q[i]
      BY <2>2, CatTail
    <3>2. Cat(l, r)[Len(l) + i] = r[i]
      BY <2>2, CatTail
    <3> QED BY <1>2, <2>1, <2>2, <3>1, <3>2
  <2>4. i \in DOMAIN q
    BY <2>2
  <2> QED BY <1>1, <2>3, <2>4 DEF FlagsMatch
<1> QED BY <1>5, <1>6

(* A table whose chunks match its columns.                                 *)
LEMMA MatchesDeclare ==
    ASSUME NEW u, \A k \in DOMAIN u.chunks : FlagsMatch(u.chunks[k], u.columns)
    PROVE  NullsDeclared(u)
<1>1. FlagsDeclared(u)
  BY Zenon DEF FlagsDeclared, FlagsMatch, ColumnIsNullable
<1> QED BY <1>1, FlagsDeclareNulls

(* Functions on 1 .. n are sequences.                                      *)
LEMMA Listed ==
    ASSUME NEW f, NEW n \in Nat, DOMAIN f = 1 .. n, f = [i \in DOMAIN f |-> f[i]]
    PROVE  f \in Seq({f[i] : i \in 1 .. n}) /\ Len(f) = n
<1>1. f \in [1 .. n -> {f[i] : i \in 1 .. n}]
  OBVIOUS
<1> QED BY <1>1

(* Columns of one side of a join: copied rows, or NULLs.                   *)
LEMMA JoinSides ==
    ASSUME NEW t, t.columns \in Seq(Definitions), NEW ids, NEW n
    PROVE  /\ \E S : Copied(t, ids) \in Seq(S) /\ Len(Copied(t, ids)) = Len(t.columns)
           /\ \E S : NullFilledSegments(t, n) \in Seq(S) /\ Len(NullFilledSegments(t, n)) = Len(t.columns)
           /\ MadeNullable(t.columns) \in Seq(Definitions) /\ Len(MadeNullable(t.columns)) = Len(t.columns)
           /\ FlagsMatch(Copied(t, ids), t.columns) /\ FlagsMatch(Copied(t, ids), MadeNullable(t.columns))
           /\ FlagsMatch(NullFilledSegments(t, n), MadeNullable(t.columns))
<1>1. PICK N \in Nat : N = Len(t.columns) /\ DOMAIN t.columns = 1 .. N
  OBVIOUS
<1>2. PICK p : p = Copied(t, ids)
  OBVIOUS
<1>3. /\ DOMAIN p = 1 .. N /\ p = [i \in DOMAIN p |-> p[i]]
      /\ \A c \in DOMAIN p : p[c].nullable = FALSE
  BY <1>1, <1>2 DEF Copied, Plain
<1>4. PICK q : q = NullFilledSegments(t, n)
  OBVIOUS
<1>5. DOMAIN q = 1 .. N /\ q = [i \in DOMAIN q |-> q[i]]
  BY <1>1, <1>4 DEF NullFilledSegments
<1>6. PICK m : m = MadeNullable(t.columns)
  OBVIOUS
<1>7. /\ DOMAIN m = 1 .. N /\ m = [i \in 1 .. N |-> m[i]]
      /\ \A c \in 1 .. N : m[c] = [t.columns[c] EXCEPT !.nullable = TRUE]
  BY <1>1, <1>6 DEF MadeNullable
<1>8. \A c \in 1 .. N : m[c] \in Definitions /\ m[c].nullable = TRUE
  <2>1. \A c \in 1 .. N : t.columns[c] \in Definitions
    BY <1>1
  <2> QED BY <1>7, <2>1 DEF Definitions
<1>9. m \in [1 .. N -> Definitions]
  BY <1>7, <1>8
<1>10. m \in Seq(Definitions) /\ Len(m) = N
  BY <1>9
<1>11. FlagsMatch(p, t.columns) /\ FlagsMatch(p, m)
  BY <1>3 DEF FlagsMatch
<1>12. FlagsMatch(q, m)
  BY <1>5, <1>8 DEF FlagsMatch
<1>13. \E S : p \in Seq(S) /\ Len(p) = N
  BY <1>3, Listed
<1>14. \E S : q \in Seq(S) /\ Len(q) = N
  BY <1>5, Listed
<1> QED BY <1>1, <1>2, <1>4, <1>6, <1>10, <1>11, <1>12, <1>13, <1>14, Zenon

(* Chunks of a join, by their two sides.                                   *)
LEMMA JoinChunkFlags ==
    ASSUME NEW l \in Seq(Definitions), NEW r \in Seq(Definitions), NEW p, NEW q,
           \E S : p \in Seq(S), \E S : q \in Seq(S), Len(p) = Len(l), Len(q) = Len(r),
           FlagsMatch(p, l), FlagsMatch(q, r)
    PROVE  FlagsMatch(p \o q, l \o r)
<1>1. PICK S : p \in Seq(S)
  OBVIOUS
<1>2. PICK T : q \in Seq(T)
  OBVIOUS
<1>3. PICK Y : Y = S \cup T
  OBVIOUS
<1>4. p \in Seq(Y) /\ q \in Seq(Y)
  BY <1>1, <1>2, <1>3, SeqMonotonic
<1> QED BY <1>4, JoinedFlags

(* A join declares the columns nullable that it fills with NULLs.          *)
LEMMA JoinDeclares ==
    ASSUME NEW left, NEW right, left.columns \in Seq(Definitions), right.columns \in Seq(Definitions),
           NEW mode, NEW pairs
    PROVE  NullsDeclared(JoinOutput(left, right, mode, pairs))
<1>1. PICK u : u = JoinOutput(left, right, mode, pairs)
  OBVIOUS
<1>2. PICK l, r : l = BuildLeftSchema(left, mode) /\ r = BuildRightSchema(right, mode)
  OBVIOUS
<1>3. /\ l \in Seq(Definitions) /\ Len(l) = Len(left.columns) /\ (l = left.columns \/ l = MadeNullable(left.columns))
      /\ r \in Seq(Definitions) /\ Len(r) = Len(right.columns) /\ (r = right.columns \/ r = MadeNullable(right.columns))
      /\ mode \in {"kRightOuter", "kFullOuter"} => l = MadeNullable(left.columns)
      /\ mode \in {"kLeftOuter", "kFullOuter"} => r = MadeNullable(right.columns)
  BY <1>2, JoinSides DEF BuildLeftSchema, BuildRightSchema
<1>4. PICK a, b, c : /\ a = MaterializeMatches(left, right, pairs)
                     /\ b = MaterializeDanglingTuplesOfLeftTable(left, right, pairs)
                     /\ c = MaterializeDanglingTuplesOfRightTable(left, right, pairs)
  OBVIOUS
<1>5. FlagsMatch(a, l \o r)
  <2>1. PICK p, q : /\ p = Copied(left, [n \in DOMAIN pairs |-> pairs[n].l])
                    /\ q = Copied(right, [n \in DOMAIN pairs |-> pairs[n].r])
    OBVIOUS
  <2>2. /\ \E S : p \in Seq(S) /\ Len(p) = Len(l)
        /\ FlagsMatch(p, l)
    BY <1>3, <2>1, JoinSides
  <2>3. /\ \E S : q \in Seq(S) /\ Len(q) = Len(r)
        /\ FlagsMatch(q, r)
    BY <1>3, <2>1, JoinSides
  <2>4. FlagsMatch(p \o q, l \o r)
    BY <1>3, <2>2, <2>3, JoinChunkFlags
  <2> QED BY <1>4, <2>1, <2>4 DEF MaterializeMatches
<1>6. mode \in {"kLeftOuter", "kFullOuter"} => FlagsMatch(b, l \o r)
  <2>1. SUFFICES ASSUME mode \in {"kLeftOuter", "kFullOuter"} PROVE FlagsMatch(b, l \o r)
    OBVIOUS
  <2>2. PICK ids : ids = DanglingLeft(left, pairs)
    OBVIOUS
  <2>3. PICK p, q : p = Copied(left, ids) /\ q = NullFilledSegments(right, Len(ids))
    OBVIOUS
  <2>4. (\E S : p \in Seq(S) /\ Len(p) = Len(l)) /\ FlagsMatch(p, l)
    BY <1>3, <2>3, JoinSides
  <2>5. (\E S : q \in Seq(S) /\ Len(q) = Len(r)) /\ FlagsMatch(q, r)
    BY <1>3, <2>1, <2>3, JoinSides
  <2>6. FlagsMatch(p \o q, l \o r)
    BY <1>3, <2>4, <2>5, JoinChunkFlags
  <2> QED BY <1>4, <2>2, <2>3, <2>6 DEF MaterializeDanglingTuplesOfLeftTable
<1>7. mode \in {"kRightOuter", "kFullOuter"} => FlagsMatch(c, l \o r)
  <2>1. SUFFICES ASSUME mode \in {"kRightOuter", "kFullOuter"} PROVE FlagsMatch(c, l \o r)
    OBVIOUS
  <2>2. PICK ids : ids = DanglingRight(right, pairs)
    OBVIOUS
  <2>3. PICK p, q : p = NullFilledSegments(left, Len(ids)) /\ q = Copied(right, ids)
    OBVIOUS
  <2>4. (\E S : p \in Seq(S) /\ Len(p) = Len(l)) /\ FlagsMatch(p, l)
    BY <1>3, <2>1, <2>3, JoinSides
  <2>5. (\E S : q \in Seq(S) /\ Len(q) = Len(r)) /\ FlagsMatch(q, r)
    BY <1>3, <2>3, JoinSides
  <2>6. FlagsMatch(p \o q, l \o r)
    BY <1>3, <2>4, <2>5, JoinChunkFlags
  <2> QED BY <1>4, <2>2, <2>3, <2>6 DEF MaterializeDanglingTuplesOfRightTable
<1>8. PICK s, z : /\ s = IF mode \in {"kLeftOuter", "kFullOuter"} THEN <<b>> ELSE <<>>
                  /\ z = IF mode \in {"kRightOuter", "kFullOuter"} THEN <<c>> ELSE <<>>
  OBVIOUS
<1>9. u.columns = l \o r /\ u.chunks = (<<a>> \o s) \o z
  BY <1>1, <1>2, <1>4, <1>8 DEF JoinOutput
<1> DEFINE D == {x \in {a, b, c} : FlagsMatch(x, l \o r)}
<1>10. <<a>> \in Seq(D) /\ s \in Seq(D) /\ z \in Seq(D)
  <2>1. a \in D /\ (mode \in {"kLeftOuter", "kFullOuter"} => b \in D)
        /\ (mode \in {"kRightOuter", "kFullOuter"} => c \in D)
    BY <1>5, <1>6, <1>7
  <2> HIDE DEF D
  <2>2. <<a>> \in Seq(D)
    BY <2>1
  <2>3. s \in Seq(D)
    BY <1>8, <2>1
  <2>4. z \in Seq(D)
    BY <1>8, <2>1
  <2> QED BY <2>2, <2>3, <2>4
<1>11. \A k \in DOMAIN u.chunks : u.chunks[k] \in D
  <2> HIDE DEF D
  <2>1. u.chunks \in Seq(D)
    BY <1>9, <1>10
  <2> QED BY <2>1
<1>12. \A k \in DOMAIN u.chunks : FlagsMatch(u.chunks[k], u.columns)
  BY <1>9, <1>11
<1>13. NullsDeclared(u)
  BY <1>12, MatchesDeclare
<1> QED BY <1>1, <1>13

(* Columns of an aggregation have flags only if they are declared          *)
(* nullable: the groups like their columns, functions unless they count.   *)
LEMMA AggregateDeclares ==
    ASSUME NEW t, NEW groups \in Seq(Nat \ {0}), NEW aggregates, Len(aggregates) \in Nat,
           DOMAIN aggregates = 1 .. Len(aggregates),
           \A a \in DOMAIN aggregates : aggregates[a].func \in Functions
    PROVE  NullsDeclared(AggregateOutput(t, groups, aggregates))
<1>1. PICK u : u = AggregateOutput(t, groups, aggregates)
  OBVIOUS
<1>2. PICK contexts : contexts = AggregateContexts(t, groups, aggregates)
  OBVIOUS
<1>3. PICK first : first = Filled(contexts[1])
  OBVIOUS
<1>4. PICK l : l = [g \in DOMAIN groups |-> t.columns[groups[g]]]
  OBVIOUS
<1>5. PICK r : r = [a \in DOMAIN aggregates |-> AggregateDefinition(t, aggregates[a])]
  OBVIOUS
<1>6. PICK p : p = [g \in DOMAIN groups |-> WriteGroupByOutput(t, groups[g], first)]
  OBVIOUS
<1>7. PICK q : q = [a \in DOMAIN aggregates |->
                      IF aggregates[a].func = "kAny" THEN WriteGroupByOutput(t, aggregates[a].column, first)
                      ELSE WriteAggregateValues(t, aggregates[a], Filled(contexts[a]), groups = <<>>)]
  OBVIOUS
<1>8. u.columns = l \o r /\ (u.chunks = <<p \o q>> \/ u.chunks = <<>>)
  <2>1. u = [columns |-> l \o r,
             chunks |-> IF Len((p \o q)[1].values) > 0 THEN <<p \o q>> ELSE <<>>]
    BY <1>1, <1>2, <1>3, <1>4, <1>5, <1>6, <1>7, Zenon DEF AggregateOutput
  <2> QED BY <2>1
<1>9. \A c, filled : WriteGroupByOutput(t, c, filled).nullable => t.columns[c].nullable
  <2>1. SUFFICES ASSUME NEW c, NEW filled, ~t.columns[c].nullable
                 PROVE  WriteGroupByOutput(t, c, filled).nullable = FALSE
    OBVIOUS
  <2>2. \E raw : WriteGroupByOutput(t, c, filled) = Plain(raw)
    BY <2>1, Zenon DEF WriteGroupByOutput, ColumnIsNullable
  <2> QED BY <2>2 DEF Plain
<1>10. FlagsMatch(p, l)
  BY <1>4, <1>6, <1>9 DEF FlagsMatch
<1>11. ASSUME NEW a \in DOMAIN aggregates, q[a].nullable PROVE r[a].nullable
  <2>1. r[a] = AggregateDefinition(t, aggregates[a])
    BY <1>5
  <2>2. CASE aggregates[a].func = "kAny"
    <3>1. q[a] = WriteGroupByOutput(t, aggregates[a].column, first)
      BY <1>7, <2>2
    <3>2. r[a] = t.columns[aggregates[a].column]
      BY <2>1, <2>2 DEF AggregateDefinition
    <3> QED BY <1>9, <1>11, <3>1, <3>2
  <2>3. CASE aggregates[a].func \in {"kCount", "kCountDistinct"}
    <3>1. \E values : q[a] = Plain(values)
      <4>1. q[a] = WriteAggregateValues(t, aggregates[a], Filled(contexts[a]), groups = <<>>)
        BY <1>7, <2>3
      <4> QED BY <2>3, <4>1, Zenon DEF WriteAggregateValues
    <3>2. q[a].nullable = FALSE
      BY <3>1 DEF Plain
    <3> QED BY <1>11, <3>2
  <2>4. CASE aggregates[a].func \notin {"kAny", "kCount", "kCountDistinct"}
    <3>1. aggregates[a].func \in {"kMin", "kMax", "kSum", "kAvg", "kStringAgg"}
      BY <2>4 DEF Functions
    <3>2. PICK func : func = aggregates[a].func
      OBVIOUS
    <3>3. CASE func = "kSum"
      BY <2>1, <3>2, <3>3 DEF AggregateDefinition
    <3>4. CASE func = "kAvg"
      BY <2>1, <3>2, <3>4 DEF AggregateDefinition
    <3>5. CASE func = "kStringAgg"
      BY <2>1, <3>2, <3>5 DEF AggregateDefinition
    <3>6. CASE func \in {"kMin", "kMax"}
      <4>1. r[a] = [type |-> t.columns[aggregates[a].column].type, nullable |-> TRUE]
        BY <2>1, <3>2, <3>6, Zenon DEF AggregateDefinition
      <4> QED BY <4>1
    <3> QED BY <3>1, <3>2, <3>3, <3>4, <3>5, <3>6
  <2> QED BY <2>2, <2>3, <2>4
<1>12. FlagsMatch(q, r)
  BY <1>7, <1>11 DEF FlagsMatch
<1>13. PICK n \in Nat, m \in Nat : DOMAIN groups = 1 .. n /\ DOMAIN aggregates = 1 .. m
  <2>1. Len(groups) \in Nat /\ DOMAIN groups = 1 .. Len(groups)
    OBVIOUS
  <2>2. PICK n \in Nat : DOMAIN groups = 1 .. n
    BY <2>1
  <2>3. PICK m \in Nat : DOMAIN aggregates = 1 .. m
    OBVIOUS
  <2> QED BY <2>2, <2>3
<1>14. (\E S : l \in Seq(S)) /\ Len(l) = n
  <2>1. DOMAIN l = 1 .. n /\ l = [i \in DOMAIN l |-> l[i]]
    BY <1>4, <1>13
  <2> QED BY <2>1, Listed
<1>15. (\E S : r \in Seq(S)) /\ Len(r) = m
  <2>1. DOMAIN r = 1 .. m /\ r = [i \in DOMAIN r |-> r[i]]
    BY <1>5, <1>13
  <2> QED BY <2>1, Listed
<1>16. (\E S : p \in Seq(S)) /\ Len(p) = n
  <2>1. DOMAIN p = 1 .. n /\ p = [i \in DOMAIN p |-> p[i]]
    BY <1>6, <1>13
  <2> QED BY <2>1, Listed
<1>17. (\E S : q \in Seq(S)) /\ Len(q) = m
  <2>1. DOMAIN q = 1 .. m /\ q = [i \in DOMAIN q |-> q[i]]
    BY <1>7, <1>13
  <2> QED BY <2>1, Listed
<1>18. FlagsMatch(p \o q, l \o r)
  <2>1. PICK X : l \in Seq(X) /\ r \in Seq(X)
    <3>1. PICK S, T : l \in Seq(S) /\ r \in Seq(T)
      BY <1>14, <1>15
    <3>2. PICK X : X = S \cup T
      OBVIOUS
    <3>3. l \in Seq(X) /\ r \in Seq(X)
      BY <3>1, <3>2, SeqMonotonic
    <3> QED BY <3>3
  <2>2. PICK Y : p \in Seq(Y) /\ q \in Seq(Y)
    <3>1. PICK S, T : p \in Seq(S) /\ q \in Seq(T)
      BY <1>16, <1>17
    <3>2. PICK Z : Z = S \cup T
      OBVIOUS
    <3>3. p \in Seq(Z) /\ q \in Seq(Z)
      BY <3>1, <3>2, SeqMonotonic
    <3> QED BY <3>3
  <2> QED BY <1>10, <1>12, <1>14, <1>15, <1>16, <1>17, <2>1, <2>2, JoinedFlags
<1>19. \A k \in DOMAIN u.chunks : FlagsMatch(u.chunks[k], u.columns)
  <2>1. PICK new : new = p \o q
    OBVIOUS
  <2>2. u.chunks = <<new>> \/ u.chunks = <<>>
    BY <1>8, <2>1
  <2>3. \A k \in DOMAIN u.chunks : u.chunks[k] = new
    BY <2>2
  <2> QED BY <1>8, <1>18, <2>1, <2>3
<1>20. NullsDeclared(u)
  BY <1>19, MatchesDeclare
<1> QED BY <1>1, <1>20

(* What an operator in one step returns.                                   *)
LEMMA OneStepDeclares ==
    ASSUME Limit \/ Sort \/ Partition \/ Alias \/ HashJoin \/ SortedMergeJoin \/ Aggregate,
           IsTable(table), NullsDeclared(table), status' = "ready"
    PROVE  NullsDeclared(table')
<1>0. table.columns \in Seq(Definitions)
  BY DEF IsTable
<1>1. CASE Limit
  <2>1. PICK o \in Of("Limit") : Execute(o, LimitOutcomes(o))
    BY <1>1 DEF Limit
  <2>2. IsOperation(o) /\ o.kind = "Limit"
    BY OperationsAssumption DEF Of
  <2>3. o.rows \in Nat \cup {NULL}
    BY <2>2 DEF IsOperation
  <2>4. o.rows # NULL /\ table' = WithChunks(table, LimitChunks(table.chunks, o.rows))
    BY <2>1 DEF Execute, LimitOutcomes, Returns, FailsWith
  <2>5. o.rows \in Nat
    BY <2>3, <2>4
  <2> QED BY <2>4, <2>5, LimitDeclares
<1>2. CASE Sort
  <2>1. PICK o \in Of("Sort") : Execute(o, SortOutcomes(o))
    BY <1>2 DEF Sort
  <2>2. table' = table \/ \E ids, size : table' = MaterializeOutputTable(table, ids, size)
    BY <2>1 DEF Execute, SortOutcomes, Returns, FailsWith
  <2> QED BY <2>2, SortDeclares
<1>3. CASE Partition
  <2>1. PICK o \in Of("Partition") : Execute(o, PartitionOutcomes(o))
    BY <1>3 DEF Partition
  <2>2. table' = WithChunks(table, PartitionChunks(table, o))
    BY <2>1 DEF Execute, PartitionOutcomes, Returns, FailsWith
  <2> QED BY <2>2, PartitionDeclares
<1>4. CASE Alias
  <2>1. PICK o \in Of("Alias") : Execute(o, AliasOutcomes(o))
    BY <1>4 DEF Alias
  <2>2. IsOperation(o) /\ o.kind = "Alias"
    BY OperationsAssumption DEF Of
  <2>3. PICK columns : columns = o.columns
    OBVIOUS
  <2>4. columns \in Seq(Nat) /\ ToSet(columns) \subseteq DOMAIN columns
    BY <2>2, <2>3 DEF IsOperation
  <2>5. Len(table.columns) = Len(columns) /\ Reorders(table', table, columns)
    <3>1. PICK u : Reorders(u, table, o.columns)
      BY DEF Reorders
    <3>2. AliasOutcomes(o) = {IF Len(table.columns) # Len(o.columns) THEN FailsWith("assert") ELSE Returns(u)}
      BY <3>1, Zenon DEF AliasOutcomes, Reorders
    <3>3. Len(table.columns) = Len(o.columns) /\ table' = u
      BY <2>1, <3>2 DEF Execute, Returns, FailsWith
    <3> QED BY <2>3, <3>1, <3>3
  <2> QED BY <2>4, <2>5, AliasDeclares
<1>5. CASE HashJoin
  <2>1. PICK o \in Of("HashJoin") : Execute(o, HashJoinOutcomes(o))
    BY <1>5 DEF HashJoin
  <2>2. IsOperation(o) /\ o.kind = "HashJoin"
    BY OperationsAssumption DEF Of
  <2>3. o.right.columns \in Seq(Definitions)
    BY <2>2 DEF IsOperation, IsTable
  <2>4. \E pairs : table' = JoinOutput(table, o.right, o.mode, pairs)
    BY <2>1 DEF Execute, HashJoinOutcomes, Returns, FailsWith
  <2> QED BY <1>0, <2>3, <2>4, JoinDeclares
<1>6. CASE SortedMergeJoin
  <2>1. PICK o \in Of("SortedMergeJoin") : Execute(o, SortedMergeJoinOutcomes(o))
    BY <1>6 DEF SortedMergeJoin
  <2>2. IsOperation(o) /\ o.kind = "SortedMergeJoin"
    BY OperationsAssumption DEF Of
  <2>3. o.right.columns \in Seq(Definitions)
    BY <2>2 DEF IsOperation, IsTable
  <2>4. \E pairs : table' = JoinOutput(table, o.right, o.mode, pairs)
    BY <2>1 DEF Execute, SortedMergeJoinOutcomes, Returns, FailsWith
  <2> QED BY <1>0, <2>3, <2>4, JoinDeclares
<1>7. CASE Aggregate
  <2>1. PICK o \in Of("Aggregate") : Execute(o, AggregateOutcomes(o))
    BY <1>7 DEF Aggregate
  <2>2. IsOperation(o) /\ o.kind = "Aggregate"
    BY OperationsAssumption DEF Of
  <2>3. PICK groups, aggregates : groups = o.groups /\ aggregates = o.aggregates
    OBVIOUS
  <2>4. /\ groups \in Seq(Nat \ {0}) /\ Len(aggregates) \in Nat /\ DOMAIN aggregates = 1 .. Len(aggregates)
        /\ \A a \in DOMAIN aggregates : aggregates[a].func \in Functions
    BY <2>2, <2>3 DEF IsOperation
  <2>5. table' = AggregateOutput(table, groups, aggregates)
    BY <2>1, <2>3 DEF Execute, AggregateOutcomes, Returns, FailsWith
  <2> QED BY <2>4, <2>5, AggregateDeclares
<1> QED BY <1>1, <1>2, <1>3, <1>4, <1>5, <1>6, <1>7

(* A filter passes chunks of its input on, or copies rows without flags.   *)
Passes(chunk, t) ==
    \/ \E k \in DOMAIN t.chunks : chunk = t.chunks[k]
    \/ \A c \in DOMAIN chunk : chunk[c].nullable = FALSE

(* A filter declares the nulls of its input (FilterOperator::OnExecute).   *)
LEMMA FilterDeclares ==
    ASSUME NEW t, NullsDeclared(t), NEW chunks, \A m \in DOMAIN chunks : Passes(chunks[m], t)
    PROVE  NullsDeclared(WithChunks(t, chunks))
<1>1. PICK u : u = WithChunks(t, chunks)
  OBVIOUS
<1>2. u.columns = t.columns /\ u.chunks = chunks
  BY <1>1 DEF WithChunks
<1>3. ASSUME NEW m \in DOMAIN u.chunks, NEW c \in DOMAIN u.chunks[m],
             NEW i \in DOMAIN u.chunks[m][c].values, SegmentIsNull(u.chunks[m][c], i)
      PROVE  ColumnIsNullable(u, c)
  <2>1. PICK chunk : chunk = u.chunks[m]
    OBVIOUS
  <2>2. CASE \E k \in DOMAIN t.chunks : chunk = t.chunks[k]
    <3>1. PICK k \in DOMAIN t.chunks : chunk = t.chunks[k]
      BY <2>2
    <3>2. ColumnIsNullable(t, c)
      BY <1>3, <2>1, <3>1, NullsPointwise
    <3> QED BY <1>2, <3>2 DEF ColumnIsNullable
  <2>3. CASE \A d \in DOMAIN chunk : chunk[d].nullable = FALSE
    BY <1>3, <2>1, <2>3, Zenon DEF SegmentIsNull
  <2> QED BY <1>2, <2>1, <2>2, <2>3 DEF Passes
<1>4. NullsDeclared(u)
  BY <1>3, NullsByPlace, Zenon
<1> QED BY <1>1, <1>4

(* The flags of a projection while no two jobs have met between the load   *)
(* and the store of one of them: a job that has loaded a flag is alone     *)
(* with it, and will store it raised if it was raised or has to be; what   *)
(* has been stored is declared.                                            *)
Loaded(k) == jobs[k].flag # NotLoaded

FlagsInv(o, t) ==
    /\ nullable \in [DOMAIN o.expressions -> BOOLEAN]
    /\ \A k \in DOMAIN jobs : Loaded(k) =>
          /\ jobs[k].at \in DOMAIN o.expressions
          /\ nullable[jobs[k].at] \/ Projected(o, t, k, jobs[k].at).nullable => TRUE \in jobs[k].flag
    /\ \A k, m \in DOMAIN jobs : k # m /\ Loaded(k) /\ Loaded(m) => jobs[k].at # jobs[m].at
    /\ \A k \in DOMAIN jobs : \A c \in DOMAIN o.expressions :
          ~Forwards(o.expressions[c]) /\ c < jobs[k].at /\ Projected(o, t, k, c).nullable => nullable[c]
    /\ \A c \in DOMAIN o.expressions :
          /\ Forwards(o.expressions[c]) /\ t.chunks # <<>>
          /\ ColumnIsNullable(t, o.expressions[c].nodes[1].column)
          => nullable[c]

NullInv ==
    /\ status = "ready" /\ ~overlap => NullsDeclared(table)
    /\ status = "filtering" /\ ~overlap =>
          /\ NullsDeclared(input) /\ \E C : out \in Seq(C)
          /\ \A m \in DOMAIN out : Passes(out[m], input)
    /\ status = "projecting" /\ ~overlap =>
          NullsDeclared(input) /\ (~Failing(op) => FlagsInv(op, Split(input)))

(* The tables of the start declare their NULLs.                            *)
LEMMA NullInvInit == Init => NullInv
BY InputsAssumption DEF Init, NullInv

(* Each job of a filter appends a chunk at most.                           *)
LEMMA FilterChunkDeclares ==
    ASSUME OpInv, FilterInv, NullInv, NEW k, FilterChunk(k)
    PROVE  NullInv'
<1>1. /\ status = "filtering" /\ UNCHANGED <<table, input, op>>
      /\ status' \in {"filtering", "undefined", "crashed"}
  BY Steady
<1>2. UNCHANGED overlap /\ k \in pending
  BY Zenon DEF FilterChunk
<1>3. SUFFICES ASSUME status' = "filtering", ~overlap
               PROVE  (\E C : out' \in Seq(C)) /\ \A m \in DOMAIN out' : Passes(out'[m], input)
  BY <1>1, <1>2 DEF NullInv
<1>4. PICK C : out \in Seq(C)
  BY <1>1, <1>3 DEF NullInv
<1>5. \A m \in DOMAIN out : Passes(out[m], input)
  BY <1>1, <1>3 DEF NullInv
<1>6. table = input /\ k \in DOMAIN input.chunks
  BY <1>1, <1>2 DEF OpInv, FilterInv
<1>7. PICK chunk : chunk = input.chunks[k]
  OBVIOUS
<1>8. \/ UNCHANGED out
      \/ out' = Append(out, chunk)
      \/ \E matches : out' = Append(out, Matching(chunk, matches))
  <2>1. chunk = table.chunks[k]
    BY <1>6, <1>7
  <2> QED BY <2>1, Zenon DEF FilterChunk
<1>9. CASE UNCHANGED out
  BY <1>4, <1>5, <1>9
<1>10. ASSUME NEW new, out' = Append(out, new), Passes(new, input)
       PROVE  (\E D : out' \in Seq(D)) /\ \A m \in DOMAIN out' : Passes(out'[m], input)
  <2>1. PICK D : D = C \cup {new}
    OBVIOUS
  <2>2. out \in Seq(D) /\ new \in D
    BY <1>4, <2>1, SeqMonotonic
  <2>3. PICK n \in Nat : n = Len(out) /\ DOMAIN out = 1 .. n
    BY <1>4
  <2>4. out' \in Seq(D) /\ Len(out') = n + 1 /\ out'[n + 1] = new
    BY <1>10, <2>2, <2>3, AppendProperties
  <2>5. \A m \in 1 .. n : out'[m] = out[m]
    BY <1>10, <2>2, <2>3, AppendProperties
  <2>6. ASSUME NEW m \in DOMAIN out' PROVE Passes(out'[m], input)
    <3>1. m \in 1 .. n + 1
      BY <2>4
    <3>2. CASE m = n + 1
      BY <1>10, <2>4, <3>2
    <3>3. CASE m \in 1 .. n
      BY <1>5, <2>3, <2>5, <3>3
    <3> QED BY <3>1, <3>2, <3>3
  <2> QED BY <2>4, <2>6
<1>11. Passes(chunk, input)
  BY <1>6, <1>7 DEF Passes
<1>12. \A matches : Passes(Matching(chunk, matches), input)
  <2>1. ASSUME NEW matches, NEW c \in DOMAIN Matching(chunk, matches)
        PROVE  Matching(chunk, matches)[c].nullable = FALSE
    <3>1. \E values : Matching(chunk, matches)[c] = Plain(values)
      BY Zenon DEF Matching
    <3> QED BY <3>1 DEF Plain
  <2> QED BY <2>1, Zenon DEF Passes
<1> QED BY <1>8, <1>9, <1>10, <1>11, <1>12

(* A flag as a set of at most one element.                                 *)
LEMMA FlagOf ==
    ASSUME NEW a \in BOOLEAN, NEW b
    PROVE  (a \/ b) => TRUE \in {a \/ b}
<1>1. CASE a \/ b
  <2>1. (a \/ b) = TRUE
    BY <1>1
  <2> QED BY <2>1
<1> QED BY <1>1

(* The flags at the start are those of the columns that are forwarded.     *)
LEMMA StartProjectionDeclares ==
    ASSUME NullInv, StartProjection
    PROVE  NullInv'
<1>1. PICK o \in Of("Projection") :
         /\ status = "ready" /\ op' = o /\ input' = table /\ status' = "projecting" /\ UNCHANGED overlap
         /\ nullable' = [c \in DOMAIN o.expressions |->
               /\ Split(table).chunks # <<>> /\ Forwards(o.expressions[c])
               /\ ColumnIsNullable(Split(table), o.expressions[c].nodes[1].column)]
         /\ jobs' = [k \in DOMAIN Split(table).chunks |-> Job(NextEvaluated(o, 1), NotLoaded)]
  BY Zenon DEF StartProjection, Starts
<1>2. SUFFICES ASSUME ~overlap PROVE NullsDeclared(input)' /\ FlagsInv(op, Split(input))'
  BY <1>1 DEF NullInv
<1>3. NullsDeclared(input')
  BY <1>1, <1>2 DEF NullInv
<1>4. PICK t : t = Split(table)
  OBVIOUS
<1>5. PICK at : at = NextEvaluated(o, 1)
  OBVIOUS
<1>6. \A k \in DOMAIN jobs' : jobs'[k].flag = NotLoaded /\ jobs'[k].at = at
  BY <1>1, <1>5 DEF Job
<1>7. \A d \in DOMAIN o.expressions : d < at => Forwards(o.expressions[d])
  <2>1. IsProjection(o)
    BY <1>1, ReadsProjection DEF Of
  <2>2. 1 \in 1 .. Len(o.expressions) + 1 /\ \A d \in DOMAIN o.expressions : 1 =< d
    BY <2>1 DEF IsProjection
  <2> QED BY <1>5, <2>1, <2>2, NextPlace
<1>8. nullable' \in [DOMAIN o.expressions -> BOOLEAN]
  BY <1>1
<1>9. ASSUME NEW c \in DOMAIN o.expressions, Forwards(o.expressions[c]), t.chunks # <<>>,
             ColumnIsNullable(t, o.expressions[c].nodes[1].column)
      PROVE  nullable'[c]
  BY <1>1, <1>4, <1>9
<1>10. \A k \in DOMAIN jobs' : ~Loaded(k)'
  BY <1>6 DEF Loaded
<1>11. ASSUME NEW k \in DOMAIN jobs', NEW c \in DOMAIN o.expressions,
              ~Forwards(o.expressions[c]), c < jobs'[k].at
       PROVE  FALSE
  BY <1>6, <1>7, <1>11
<1>12. FlagsInv(o, t)'
  BY <1>8, <1>9, <1>10, <1>11, Zenon DEF FlagsInv
<1>13. op' = o /\ Split(input)' = t
  BY <1>1, <1>4
<1> QED BY <1>3, <1>12, <1>13 DEF FlagsInv, Loaded, Projected

(* Where a job is.                                                         *)
LEMMA CurrentExpression ==
    ASSUME OpInv, ProjectionInv, NEW k \in DOMAIN jobs, Running(k)
    PROVE  jobs[k].at \in DOMAIN op.expressions
<1>1. status = "projecting" /\ jobs[k].at =< Len(op.expressions)
  BY Zenon DEF Running
<1>2. IsProjection(op)
  BY <1>1, ReadsProjection DEF OpInv, Reads
<1>3. jobs[k].at \in 1 .. Len(op.expressions) + 1
  BY <1>1 DEF ProjectionInv, JobsAt, IsPlace
<1> QED BY <1>1, <1>2, <1>3 DEF IsProjection

(* A job that loads a flag without a race is alone with it.                *)
LEMMA LoadDeclares ==
    ASSUME OpInv, ProjectionInv, NullInv, NEW k \in DOMAIN jobs, EvaluateAndLoad(k)
    PROVE  NullInv'
<1>1. /\ status = "projecting" /\ UNCHANGED <<table, input, op, out, nullable>>
      /\ status' \in {"projecting", "undefined"}
  BY Steady
<1>2. CASE status' = "undefined"
  BY <1>2 DEF NullInv
<1>3. CASE status' = "projecting" /\ overlap'
  BY <1>3 DEF NullInv
<1>4. CASE status' = "projecting" /\ ~overlap' /\ Failing(op)
  <2>1. ~overlap
    BY <1>4, Zenon DEF EvaluateAndLoad
  <2>2. NullsDeclared(input) /\ op' = op /\ input' = input
    BY <1>1, <2>1 DEF NullInv
  <2> QED BY <1>4, <2>2 DEF NullInv
<1>5. CASE status' = "projecting" /\ ~overlap' /\ ~Failing(op)
  <2>1. PICK o, t, at : o = op /\ t = Split(input) /\ at = jobs[k].at
    OBVIOUS
  <2>2. PICK s : s = EvaluateExpressionToSegment(o.expressions[at].nodes, t, t.chunks[k])
    OBVIOUS
  <2>3. /\ at =< Len(o.expressions) /\ ~overlap
        /\ jobs' = [jobs EXCEPT ![k].flag = {nullable[at] \/ s.nullable}]
        /\ ~\E m \in DOMAIN jobs \ {k} : jobs[m].at = jobs[k].at /\ jobs[m].flag # NotLoaded
    <3>1. \/ status' = "undefined"
          \/ SegmentFails(op.expressions[jobs[k].at].nodes)
          \/ /\ jobs' = [jobs EXCEPT ![k].flag = {nullable[Current(k)] \/ Evaluation(k).nullable}]
             /\ overlap' = (overlap \/ \E m \in DOMAIN jobs \ {k} :
                                          jobs[m].at = jobs[k].at /\ jobs[m].flag # NotLoaded)
      BY Zenon DEF EvaluateAndLoad, Current
    <3>2. Current(k) = at /\ Evaluation(k) = s
      BY <2>1, <2>2 DEF Current, Evaluation
    <3>3. at =< Len(o.expressions)
      BY <2>1, Zenon DEF EvaluateAndLoad, Running
    <3>4. status' # "undefined"
      BY <1>5
    <3>5. ~SegmentFails(op.expressions[jobs[k].at].nodes)
      <4>1. Running(k)
        BY Zenon DEF EvaluateAndLoad
      <4>2. jobs[k].at \in DOMAIN op.expressions
        BY <4>1, CurrentExpression
      <4> QED BY <1>5, <4>2 DEF Failing
    <3> QED BY <1>5, <3>1, <3>2, <3>3, <3>4, <3>5, Zenon
  <2>4. JobsAt(o, t) /\ FlagsInv(o, t) /\ NullsDeclared(input)
    BY <1>1, <1>5, <2>1, <2>3 DEF ProjectionInv, NullInv
  <2>5. IsProjection(o)
    BY <1>1, <2>1, ReadsProjection DEF OpInv, Reads
  <2>6. at \in DOMAIN o.expressions /\ ~Forwards(o.expressions[at])
    <3>1. IsPlace(at, o)
      BY <2>1, <2>4 DEF JobsAt
    <3> QED BY <2>3, <2>5, <3>1 DEF IsPlace, IsProjection
  <2>7. Projected(o, t, k, at) = s
    BY <2>2, <2>6 DEF Projected
  <2>8. /\ DOMAIN jobs' = DOMAIN jobs /\ \A m \in DOMAIN jobs : jobs'[m].at = jobs[m].at
        /\ jobs'[k].flag = {nullable[at] \/ s.nullable}
        /\ \A m \in DOMAIN jobs \ {k} : jobs'[m] = jobs[m]
    <3>1. \A m \in DOMAIN jobs : jobs[m] = [at |-> jobs[m].at, flag |-> jobs[m].flag]
      BY <2>4 DEF JobsAt, Job
    <3> QED BY <2>3, <3>1
  <2>9. nullable \in [DOMAIN o.expressions -> BOOLEAN]
    BY <2>4 DEF FlagsInv
  <2>10. nullable[at] \/ s.nullable => TRUE \in jobs'[k].flag
    BY <2>6, <2>8, <2>9, FlagOf
  <2>11. ASSUME NEW m \in DOMAIN jobs', Loaded(m)'
         PROVE  /\ jobs'[m].at \in DOMAIN o.expressions
                /\ nullable'[jobs'[m].at] \/ Projected(o, t, m, jobs'[m].at).nullable => TRUE \in jobs'[m].flag
    <3>1. CASE m = k
      BY <1>1, <2>1, <2>6, <2>7, <2>8, <2>10, <3>1
    <3>2. CASE m # k
      <4>1. jobs'[m] = jobs[m] /\ m \in DOMAIN jobs
        BY <2>8, <3>2
      <4>2. Loaded(m)
        BY <2>11, <4>1 DEF Loaded
      <4> QED BY <1>1, <2>4, <4>1, <4>2 DEF FlagsInv
    <3> QED BY <3>1, <3>2
  <2>12. ASSUME NEW h \in DOMAIN jobs', NEW m \in DOMAIN jobs', h # m, Loaded(h)', Loaded(m)'
         PROVE  jobs'[h].at # jobs'[m].at
    <3>1. h \in DOMAIN jobs /\ m \in DOMAIN jobs /\ jobs'[h].at = jobs[h].at /\ jobs'[m].at = jobs[m].at
      BY <2>8
    <3>2. CASE h = k
      <4>1. m \in DOMAIN jobs \ {k} /\ jobs[m].flag # NotLoaded
        BY <2>8, <2>12, <3>1, <3>2 DEF Loaded
      <4> QED BY <2>3, <3>1, <3>2, <4>1
    <3>3. CASE m = k
      <4>1. h \in DOMAIN jobs \ {k} /\ jobs[h].flag # NotLoaded
        BY <2>8, <2>12, <3>1, <3>3 DEF Loaded
      <4> QED BY <2>3, <3>1, <3>3, <4>1
    <3>4. CASE h # k /\ m # k
      <4>1. Loaded(h) /\ Loaded(m)
        BY <2>8, <2>12, <3>1, <3>4 DEF Loaded
      <4> QED BY <2>4, <2>12, <3>1, <4>1 DEF FlagsInv
    <3> QED BY <3>2, <3>3, <3>4
  <2>13. ASSUME NEW m \in DOMAIN jobs', NEW c \in DOMAIN o.expressions,
                ~Forwards(o.expressions[c]), c < jobs'[m].at, Projected(o, t, m, c).nullable
         PROVE  nullable'[c]
    <3>1. m \in DOMAIN jobs /\ c < jobs[m].at
      BY <2>8, <2>13
    <3> QED BY <1>1, <2>4, <2>13, <3>1 DEF FlagsInv
  <2>14. ASSUME NEW c \in DOMAIN o.expressions, Forwards(o.expressions[c]), t.chunks # <<>>,
                ColumnIsNullable(t, o.expressions[c].nodes[1].column)
         PROVE  nullable'[c]
    BY <1>1, <2>4, <2>14 DEF FlagsInv
  <2>15. nullable' \in [DOMAIN o.expressions -> BOOLEAN]
    BY <1>1, <2>9
  <2>16. FlagsInv(o, t)'
    BY <2>11, <2>12, <2>13, <2>14, <2>15, Zenon DEF FlagsInv
  <2>17. op' = o /\ Split(input)' = t /\ NullsDeclared(input)'
    BY <1>1, <2>1, <2>4
  <2> QED BY <1>5, <2>16, <2>17 DEF NullInv
<1> QED BY <1>1, <1>2, <1>3, <1>5, <1>4

(* It stores the flag as it has to be.                                     *)
LEMMA StoreDeclares ==
    ASSUME OpInv, ProjectionInv, NullInv, NEW k \in DOMAIN jobs, Store(k)
    PROVE  NullInv'
<1>1. status = "projecting" /\ UNCHANGED <<table, input, op, status>>
  BY Steady
<1>2. UNCHANGED overlap /\ Loaded(k)
  BY Zenon DEF Store, Loaded
<1>0. ~overlap => NullsDeclared(input)'
  BY <1>1 DEF NullInv
<1>3. SUFFICES ASSUME ~overlap, ~Failing(op) PROVE FlagsInv(op, Split(input))'
  BY <1>0, <1>1, <1>2 DEF NullInv, Failing
<1>4. PICK o, t, at : o = op /\ t = Split(input) /\ at = jobs[k].at
  OBVIOUS
<1>5. JobsAt(o, t) /\ FlagsInv(o, t)
  BY <1>1, <1>3, <1>4 DEF ProjectionInv, NullInv
<1>6. IsProjection(o)
  BY <1>1, <1>4, ReadsProjection DEF OpInv, Reads
<1>7. /\ at \in DOMAIN o.expressions /\ nullable \in [DOMAIN o.expressions -> BOOLEAN]
      /\ nullable[at] \/ Projected(o, t, k, at).nullable => TRUE \in jobs[k].flag
  BY <1>2, <1>4, <1>5 DEF FlagsInv
<1>8. PICK next : next = NextEvaluated(o, at + 1)
  OBVIOUS
<1>9. /\ nullable' = [nullable EXCEPT ![at] = TRUE \in jobs[k].flag]
      /\ jobs' = [jobs EXCEPT ![k] = Job(next, NotLoaded)]
  BY <1>4, <1>8 DEF Store, Current
<1>10. nullable' \in [DOMAIN o.expressions -> BOOLEAN]
  BY <1>7, <1>9
<1>11. /\ nullable[at] \/ Projected(o, t, k, at).nullable => nullable'[at]
       /\ \A c \in DOMAIN o.expressions : c # at => nullable'[c] = nullable[c]
  BY <1>7, <1>9
<1>12. \A c \in DOMAIN o.expressions : nullable[c] => nullable'[c]
  BY <1>11
<1>13. /\ DOMAIN jobs' = DOMAIN jobs /\ jobs'[k].at = next /\ jobs'[k].flag = NotLoaded
       /\ \A m \in DOMAIN jobs \ {k} : jobs'[m] = jobs[m]
  BY <1>9 DEF Job
<1>14. \A m \in DOMAIN jobs' : Loaded(m)' => m \in DOMAIN jobs \ {k} /\ Loaded(m) /\ jobs'[m] = jobs[m]
  BY <1>13 DEF Loaded
<1>15. ASSUME NEW m \in DOMAIN jobs', Loaded(m)'
       PROVE  /\ jobs'[m].at \in DOMAIN o.expressions
              /\ nullable'[jobs'[m].at] \/ Projected(o, t, m, jobs'[m].at).nullable => TRUE \in jobs'[m].flag
  <2>1. m \in DOMAIN jobs /\ m # k /\ Loaded(m) /\ jobs'[m] = jobs[m]
    BY <1>14, <1>15
  <2>2. jobs[m].at # at /\ jobs[m].at \in DOMAIN o.expressions
    BY <1>2, <1>4, <1>5, <2>1 DEF FlagsInv
  <2>3. nullable'[jobs[m].at] = nullable[jobs[m].at]
    BY <1>11, <2>2
  <2>4. nullable[jobs[m].at] \/ Projected(o, t, m, jobs[m].at).nullable => TRUE \in jobs[m].flag
    BY <1>5, <2>1 DEF FlagsInv
  <2> QED BY <2>1, <2>2, <2>3, <2>4
<1>16. ASSUME NEW h \in DOMAIN jobs', NEW m \in DOMAIN jobs', h # m, Loaded(h)', Loaded(m)'
       PROVE  jobs'[h].at # jobs'[m].at
  <2>1. /\ h \in DOMAIN jobs /\ Loaded(h) /\ jobs'[h] = jobs[h]
        /\ m \in DOMAIN jobs /\ Loaded(m) /\ jobs'[m] = jobs[m]
    BY <1>14, <1>16
  <2>2. jobs[h].at # jobs[m].at
    BY <1>5, <1>16, <2>1 DEF FlagsInv
  <2> QED BY <2>1, <2>2
<1>17. ASSUME NEW m \in DOMAIN jobs', NEW c \in DOMAIN o.expressions,
              ~Forwards(o.expressions[c]), c < jobs'[m].at, Projected(o, t, m, c).nullable
       PROVE  nullable'[c]
  <2>1. m \in DOMAIN jobs
    BY <1>13
  <2>2. CASE m = k /\ c = at
    BY <1>11, <1>17, <2>2
  <2>3. CASE m = k /\ c # at
    <3>1. at + 1 \in 1 .. Len(o.expressions) + 1
      BY <1>6, <1>7 DEF IsProjection
    <3>2. /\ IsPlace(next, o)
          /\ \A d \in DOMAIN o.expressions : at + 1 =< d /\ d < next => Forwards(o.expressions[d])
      BY <1>6, <1>8, <3>1, NextPlace
    <3>3. c \in Nat /\ at \in Nat /\ next \in Nat
      BY <1>6, <1>7, <3>2 DEF IsProjection, IsPlace
    <3>4. c < next
      BY <1>13, <1>17, <2>3
    <3>5. c < at
      BY <1>17, <2>3, <3>2, <3>3, <3>4
    <3>6. nullable[c]
      BY <1>4, <1>5, <1>17, <2>1, <2>3, <3>5 DEF FlagsInv
    <3> QED BY <1>12, <3>6
  <2>4. CASE m # k
    <3>1. jobs'[m] = jobs[m]
      BY <1>13, <2>1, <2>4
    <3>2. nullable[c]
      BY <1>5, <1>17, <2>1, <3>1 DEF FlagsInv
    <3> QED BY <1>12, <3>2
  <2> QED BY <2>2, <2>3, <2>4
<1>18. ASSUME NEW c \in DOMAIN o.expressions, Forwards(o.expressions[c]), t.chunks # <<>>,
              ColumnIsNullable(t, o.expressions[c].nodes[1].column)
       PROVE  nullable'[c]
  <2>1. nullable[c]
    BY <1>5, <1>18 DEF FlagsInv
  <2> QED BY <1>12, <2>1
<1>19. FlagsInv(o, t)'
  BY <1>10, <1>15, <1>16, <1>17, <1>18, Zenon DEF FlagsInv
<1>20. op' = o /\ Split(input)' = t
  BY <1>1, <1>4
<1> QED BY <1>19, <1>20 DEF FlagsInv, Loaded, Projected

(* When no job runs, every NULL is declared.                               *)
LEMMA FinishProjectionDeclares ==
    ASSUME OpInv, ProjectionInv, NullInv, IsTable(input), FinishProjection
    PROVE  NullInv'
<1>1. /\ status = "projecting" /\ UNCHANGED <<input, op>>
      /\ status' \in {"ready", "assert", "undefined"}
  BY Steady
<1>2. SUFFICES ASSUME ~overlap, status' = "ready" PROVE NullsDeclared(table')
  BY <1>1, Zenon DEF FinishProjection, NullInv
<1>3. PICK o, t, u : o = op /\ t = Split(input) /\ u = table'
  OBVIOUS
<1>4. /\ JobsAt(o, t) /\ Outputs(out, o, t) /\ NullsDeclared(input)
      /\ ~Failing(o) => FlagsInv(o, t)
  BY <1>1, <1>2, <1>3 DEF ProjectionInv, NullInv
<1>5. IsProjection(o) /\ o.columns \subseteq DOMAIN input.columns
  BY <1>1, <1>3, ReadsProjection DEF OpInv, Reads
<1>6. IsTable(t) /\ NullsDeclared(t) /\ o.columns \subseteq DOMAIN t.columns
  BY <1>3, <1>4, <1>5, SplitIsTable
<1>7. /\ u.chunks = out /\ \A c \in DOMAIN o.expressions : ColumnIsNullable(u, c) = nullable[c]
      /\ \A k \in DOMAIN jobs : ~(jobs[k].at =< Len(o.expressions))
  <2>1. table' = ProjectionOutput
    BY <1>2, Zenon DEF FinishProjection
  <2>2. \A k \in DOMAIN jobs : ~(jobs[k].at =< Len(op.expressions))
    BY DEF FinishProjection, Running
  <2> QED BY <1>3, <2>1, <2>2 DEF ProjectionOutput, ColumnIsNullable
<1>8. ASSUME NEW k \in DOMAIN u.chunks, NEW c \in DOMAIN u.chunks[k],
             NEW i \in DOMAIN u.chunks[k][c].values, SegmentIsNull(u.chunks[k][c], i)
      PROVE  ColumnIsNullable(u, c)
  <2>1. k \in DOMAIN jobs /\ k \in DOMAIN t.chunks /\ c \in DOMAIN o.expressions
    BY <1>4, <1>7 DEF JobsAt, Outputs
  <2>2. c < jobs[k].at
    BY <1>4, <1>5, <1>7, <2>1 DEF JobsAt, IsPlace, IsProjection
  <2>a. ~Failing(o) /\ FlagsInv(o, t)
    <3>1. ~LacksSegments(op)
      BY <1>2, Zenon DEF FinishProjection
    <3>2. jobs # <<>>
      BY <2>1
    <3>3. ~Failing(o)
      BY <1>3, <3>1, <3>2, Zenon DEF LacksSegments, Failing
    <3> QED BY <1>4, <3>3
  <2>3. PICK s : s = Projected(o, t, k, c)
    OBVIOUS
  <2>4. u.chunks[k][c] = s
    BY <1>1, <1>3, <1>7, <2>a, <2>1, <2>2, <2>3 DEF ProjectionInv, Done
  <2>5. i \in DOMAIN s.values /\ SegmentIsNull(s, i)
    BY <1>8, <2>4
  <2>6. CASE ~Forwards(o.expressions[c])
    <3>1. s.nullable
      BY <2>5, Zenon DEF SegmentIsNull
    <3>2. nullable[c]
      BY <2>a, <2>1, <2>2, <2>3, <2>6, <3>1 DEF FlagsInv
    <3> QED BY <1>7, <2>1, <3>2
  <2>7. CASE Forwards(o.expressions[c])
    <3>1. PICK e : e = o.expressions[c].nodes
      OBVIOUS
    <3>2. IsExpression(e, o.columns) /\ Len(e) = 1 /\ e[1].kind = "Column"
      BY <1>5, <2>1, <2>7, <3>1 DEF IsProjection, Forwards
    <3>3. PICK d : d = e[1].column
      OBVIOUS
    <3>4. d \in o.columns
      <4>1. 1 \in DOMAIN e
        BY <3>2 DEF IsExpression
      <4>2. IsNode(e[1], o.columns)
        BY <3>2, <4>1 DEF IsExpression
      <4> QED BY <3>2, <3>3, <4>2 DEF IsNode
    <3>5. s = t.chunks[k][d] /\ d \in DOMAIN t.chunks[k]
      <4>1. s = t.chunks[k][d]
        BY <2>3, <2>7, <3>1, <3>3 DEF Projected
      <4>2. d \in DOMAIN t.chunks[k]
        BY <1>6, <2>1, <3>4, TableParts
      <4> QED BY <4>1, <4>2
    <3>6. ColumnIsNullable(t, d)
      BY <1>6, <2>1, <2>5, <3>5, NullsPointwise
    <3>7. t.chunks # <<>>
      BY <2>1
    <3>8. nullable[c]
      BY <2>a, <2>1, <2>7, <3>1, <3>3, <3>6, <3>7 DEF FlagsInv
    <3> QED BY <1>7, <2>1, <3>8
  <2> QED BY <2>6, <2>7
<1>9. NullsDeclared(u)
  BY <1>8, NullsByPlace, Zenon
<1> QED BY <1>3, <1>9

(* Every step keeps it.                                                    *)
LEMMA NullInvStep ==
    ASSUME OpInv, FilterInv, ProjectionInv, NullInv, IsTable(input), IsTable(input)', [Next]_vars
    PROVE  NullInv'
<1>1. CASE Limit \/ Sort \/ Partition \/ Alias \/ HashJoin \/ SortedMergeJoin \/ Aggregate
  <2>1. /\ status = "ready" /\ status' \in Ends /\ input' = table /\ UNCHANGED overlap
    BY <1>1, OneStep DEF jobVars
  <2>2. SUFFICES ASSUME status' = "ready", ~overlap PROVE NullsDeclared(table')
    BY <2>1 DEF NullInv, Ends
  <2>3. IsTable(table) /\ NullsDeclared(table)
    BY <2>1, <2>2 DEF NullInv
  <2> QED BY <1>1, <2>2, <2>3, OneStepDeclares
<1>2. CASE StartFilter
  <2>1. /\ status = "ready" /\ input' = table /\ status' = "filtering" /\ out' = <<>> /\ UNCHANGED overlap
    BY <1>2 DEF StartFilter, Starts
  <2>2. out' \in Seq({}) /\ DOMAIN out' = {}
    BY <2>1
  <2>3. ~overlap => NullsDeclared(input')
    BY <2>1 DEF NullInv
  <2> QED BY <2>1, <2>2, <2>3 DEF NullInv
<1>3. CASE FinishFilter
  <2>1. /\ status = "filtering" /\ status' = "ready" /\ table' = WithChunks(table, out) /\ UNCHANGED overlap
    BY <1>3 DEF FinishFilter
  <2>2. table = input
    BY <2>1 DEF OpInv
  <2>3. ASSUME ~overlap PROVE NullsDeclared(table')
    <3>1. NullsDeclared(input) /\ \A m \in DOMAIN out : Passes(out[m], input)
      BY <2>1, <2>3 DEF NullInv
    <3> QED BY <2>1, <2>2, <3>1, FilterDeclares
  <2> QED BY <2>1, <2>3 DEF NullInv
<1>4. CASE StartProjection
  BY <1>4, StartProjectionDeclares
<1>5. CASE FinishProjection
  BY <1>5, FinishProjectionDeclares
<1>6. CASE \E k \in pending : FilterChunk(k)
  BY <1>6, FilterChunkDeclares
<1>7. CASE \E k \in DOMAIN jobs : EvaluateAndLoad(k)
  BY <1>7, LoadDeclares
<1>8. CASE \E k \in DOMAIN jobs : Store(k)
  BY <1>8, StoreDeclares
<1>9. CASE UNCHANGED vars
  BY <1>9, ZenonT(60) DEF vars, jobVars, NullInv, FlagsInv, Loaded
<1> QED BY <1>1, <1>2, <1>3, <1>4, <1>5, <1>6, <1>7, <1>8, <1>9 DEF Next

(* Unless two jobs of a projection meet between the load and the store of  *)
(* one flag (projection_operator.cpp), no operator of a pipeline leaves a  *)
(* NULL in a column that it declares not nullable: for every pipeline and  *)
(* every interleaving, where operators read tables whose segments agree on *)
(* the rows of their chunk.                                                *)
THEOREM NullsStayDeclared == Spec /\ []IsTable(input) => []NullsAreDeclared
<1>1. Init => OpInv /\ FilterInv /\ ProjectionInv /\ NullInv
  BY OpInvInit, FilterInvInit, ProjectionInvInit, NullInvInit
<1>2. OpInv /\ FilterInv /\ ProjectionInv /\ NullInv /\ IsTable(input) /\ IsTable(input)' /\ [Next]_vars
        => OpInv' /\ FilterInv' /\ ProjectionInv' /\ NullInv'
  BY OpInvStep, FilterInvStep, ProjectionInvStep, NullInvStep
<1>3. NullInv => NullsAreDeclared
  BY DEF NullInv, NullsAreDeclared
<1> QED BY <1>1, <1>2, <1>3, PTL DEF Spec
=============================================================================

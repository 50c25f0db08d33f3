--------------------------- MODULE PlanExpressions ---------------------------
(***************************************************************************)
(* The expressions of a physical plan, their way through JSON              *)
(* (src/lib/expression/expression_serialization.cpp) and what they         *)
(* evaluate to for a row.  Expressions has the ExpressionEvaluator itself; *)
(* the rows of these plans hold no NULL where an expression reads.  No     *)
(* plan has a Cast, an Extract, an IsNull or a UnaryMinus.                 *)
(*                                                                         *)
(* An expression is its class, its arguments and the one attribute that    *)
(* its class adds.  Columns count from 0, as in the code.  Integers stand  *)
(* for strings and dates, in their order, and for decimals.                *)
(***************************************************************************)
EXTENDS Integers, Sequences, SequencesExt

CONSTANT Scale   \* a quotient is kept in units of 1 / Scale

NoMember == 0
Expression(class, args, attr) == [class |-> class, args |-> args, attr |-> attr]

(***************************************************************************)
(* expression_functional.                                                  *)
(***************************************************************************)
Value_(v)            == Expression("Value", <<>>, v)
PqpColumn_(c)        == Expression("PqpColumn", <<>>, c)
List_(values)        == Expression("List", [i \in DOMAIN values |-> Value_(values[i])], NoMember)
Arithmetic(op, a, b) == Expression("Arithmetic", <<a, b>>, op)
Predicate(p, a, b)   == Expression("BinaryPredicate", <<a, b>>, p)
Between(p, a, lo, hi) == Expression("Between", <<a, lo, hi>>, p)
In_(p, a, list)      == Expression("In", <<a, list>>, p)
Logical(op, a, b)    == Expression("Logical", <<a, b>>, op)
Case_(when, a, b)    == Expression("Case", <<when, Value_(a), Value_(b)>>, NoMember)
Aggregate_(f, c)     == Expression("Aggregate", <<PqpColumn_(c)>>, f)
Mul_(a, b)           == Arithmetic("kMultiplication", a, b)

BinaryConditions == {"kEquals", "kNotEquals", "kLessThan", "kLessThanEquals",
                     "kGreaterThan", "kGreaterThanEquals"}
BetweenConditions == {"kBetweenInclusive", "kBetweenLowerExclusive",
                      "kBetweenUpperExclusive", "kBetweenExclusive"}

(***************************************************************************)
(* JSON has the type of an expression, not its class: the four predicate   *)
(* classes share kPredicate and are told apart by their condition.         *)
(***************************************************************************)
ExpressionType(class) ==
    IF class \in {"BinaryPredicate", "Between", "In", "IsNull"} THEN "kPredicate" ELSE class

(* The attribute of an expression, where its class has one.                *)
SpecialMember(e) ==
    IF e.class \in {"Case", "List", "UnaryMinus"} THEN NoMember ELSE e.attr

RECURSIVE SerializeExpression(_)
SerializeArguments(e) == [i \in DOMAIN e.args |-> SerializeExpression(e.args[i])]
SerializeExpression(e) ==
    [type |-> ExpressionType(e.class), member |-> SpecialMember(e), arguments |-> SerializeArguments(e)]

(* An Assert on the number of arguments.                                   *)
Malformed == Expression("Malformed", <<>>, NoMember)
Construct(class, arity, args, attr) ==
    IF Len(args) = arity THEN Expression(class, args, attr) ELSE Malformed

ConstructAggregateExpression(json, args)  == Construct("Aggregate", 1, args, json.member)
ConstructArithmeticExpression(json, args) == Construct("Arithmetic", 2, args, json.member)
ConstructCaseExpression(json, args)       == Construct("Case", 3, args, NoMember)
ConstructCastExpression(json, args)       == Construct("Cast", 1, args, json.member)
ConstructExtractExpression(json, args)    == Construct("Extract", 1, args, json.member)
ConstructListExpression(json, args)       == Expression("List", args, NoMember)
ConstructLogicalExpression(json, args)    == Construct("Logical", 2, args, json.member)
ConstructPqpColumnExpression(json, args)  == Construct("PqpColumn", 0, args, json.member)
ConstructUnaryMinusExpression(json, args) == Construct("UnaryMinus", 1, args, NoMember)
ConstructValueExpression(json, args)      == Expression("Value", <<>>, json.member)

ConstructPredicateExpression(json, args) ==
    CASE json.member \in BinaryConditions \cup {"kLike", "kNotLike"} -> Construct("BinaryPredicate", 2, args, json.member)
      [] json.member \in BetweenConditions -> Construct("Between", 3, args, json.member)
      [] json.member \in {"kIn", "kNotIn"} -> Construct("In", 2, args, json.member)
      [] json.member \in {"kIsNull", "kIsNotNull"} -> Construct("IsNull", 1, args, json.member)
      [] OTHER -> Malformed

RECURSIVE DeserializeExpression(_)
DeserializeExpressionArguments(json) ==
    [i \in DOMAIN json.arguments |-> DeserializeExpression(json.arguments[i])]
DeserializeExpression(json) ==
    LET args == DeserializeExpressionArguments(json)
    IN CASE json.type = "Aggregate" -> ConstructAggregateExpression(json, args)
         [] json.type = "Arithmetic" -> ConstructArithmeticExpression(json, args)
         [] json.type = "Case" -> ConstructCaseExpression(json, args)
         [] json.type = "Cast" -> ConstructCastExpression(json, args)
         [] json.type = "Extract" -> ConstructExtractExpression(json, args)
         [] json.type = "Logical" -> ConstructLogicalExpression(json, args)
         [] json.type = "List" -> ConstructListExpression(json, args)
         [] json.type = "PqpColumn" -> ConstructPqpColumnExpression(json, args)
         [] json.type = "kPredicate" -> ConstructPredicateExpression(json, args)
         [] json.type = "UnaryMinus" -> ConstructUnaryMinusExpression(json, args)
         [] json.type = "Value" -> ConstructValueExpression(json, args)

(***************************************************************************)
(* Evaluation.                                                             *)
(***************************************************************************)
RECURSIVE ColumnsRead(_)
ColumnsRead(e) ==
    (IF e.class = "PqpColumn" THEN {e.attr} ELSE {}) \cup UNION {ColumnsRead(e.args[i]) : i \in DOMAIN e.args}

Compares(condition, a, b) ==
    CASE condition = "kEquals" -> a = b
      [] condition = "kNotEquals" -> a # b
      [] condition = "kLessThan" -> a < b
      [] condition = "kLessThanEquals" -> a =< b
      [] condition = "kGreaterThan" -> a > b
      [] condition = "kGreaterThanEquals" -> a >= b

IsBetween(condition, v, lo, hi) ==
    /\ IF condition \in {"kBetweenInclusive", "kBetweenUpperExclusive"} THEN lo =< v ELSE lo < v
    /\ IF condition \in {"kBetweenInclusive", "kBetweenLowerExclusive"} THEN v =< hi ELSE v < hi

Calculate(op, a, b) ==
    CASE op = "kAddition" -> a + b
      [] op = "kSubtraction" -> a - b
      [] op = "kMultiplication" -> a * b
      [] op = "kDivision" -> (a * Scale) \div b

RECURSIVE Evaluate(_, _)
Evaluate(e, row) ==
    LET arg(i) == Evaluate(e.args[i], row)
    IN CASE e.class = "PqpColumn" -> row[e.attr + 1]
         [] e.class = "Value" -> e.attr
         [] e.class = "List" -> {arg(i) : i \in DOMAIN e.args}
         [] e.class = "Arithmetic" -> Calculate(e.attr, arg(1), arg(2))
         [] e.class = "BinaryPredicate" -> Compares(e.attr, arg(1), arg(2))
         [] e.class = "Between" -> IsBetween(e.attr, arg(1), arg(2), arg(3))
         [] e.class = "In" -> (arg(1) \in arg(2)) = (e.attr = "kIn")
         [] e.class = "Logical" -> IF e.attr = "kAnd" THEN arg(1) /\ arg(2) ELSE arg(1) \/ arg(2)
         [] e.class = "Case" -> IF arg(1) THEN arg(2) ELSE arg(3)
=============================================================================

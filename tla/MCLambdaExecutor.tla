-------------------------- MODULE MCLambdaExecutor --------------------------
(* Two pipelines, one reading the output of the other.  With a threshold   *)
(* of one, the coordinator invokes a single worker for the two fragments   *)
(* of the first, and that worker invokes the second one.                   *)
EXTENDS LambdaExecutor, TLC

CONSTANTS scan, join, h1, h2

ScanThenJoin    == [p \in Pipelines |-> IF p = join THEN {scan} ELSE {}]
TwoAndOne       == [p \in Pipelines |-> IF p = scan THEN 0 .. 1 ELSE {0}]
HandlerSymmetry == Permutations(Handlers)
=============================================================================

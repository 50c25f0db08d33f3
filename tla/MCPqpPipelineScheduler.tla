----------------------- MODULE MCPqpPipelineScheduler -----------------------
(* The diamond of the repository's DiamondTest, with two fragments in the  *)
(* first pipeline, one in the others.                                      *)
EXTENDS PqpPipelineScheduler

CONSTANTS A, B, C, D

DiamondPredecessors ==
    [p \in Pipelines |-> CASE p \in {B, C} -> {A} [] p = D -> {B, C} [] OTHER -> {}]
TwoThenOne == [p \in Pipelines |-> IF p \in {A, D} THEN {1, 2} ELSE {1}]
=============================================================================

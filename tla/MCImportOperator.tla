--------------------------- MODULE MCImportOperator ---------------------------
(* Three references: two to one small object, one to a large object.     *)
EXTENDS ImportOperator

CONSTANTS r1, r2, r3, small, large

TwoToOne == [r \in Refs |-> IF r = r3 THEN large ELSE small]
OneOrTwo == [o \in Objects |-> IF o = large THEN 2 ELSE 1]
=============================================================================

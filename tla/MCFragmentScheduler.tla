------------------------ MODULE MCFragmentScheduler ------------------------
(***************************************************************************)
(* Task graphs for FragmentScheduler.                                      *)
(*   Diamond   an import that feeds two operators joined by an export, the *)
(*             plan of the repository's test MultipleOperators, in which   *)
(*             one operator schedules a subtask;                           *)
(*   Join      two leaves, one of them with a subtask (an import reading   *)
(*             an object), feeding one operator;                           *)
(*   Wait      the same with a subtask in both leaves, so that every       *)
(*             executor thread may be in a nested wait at once;            *)
(*   Nested    an import that schedules two subtasks, and its export.      *)
(***************************************************************************)
EXTENDS FragmentScheduler, TLC

CONSTANTS import, left, right, export, job1, job2, t1, t2

DiamondTasks == {import, left, right, export, job1}
DiamondRoots == {import, left, right, export}
DiamondPredecessors ==
    [t \in DiamondTasks |->
        CASE t \in {left, right} -> {import}
          [] t = export -> {left, right}
          [] OTHER -> {}]

JoinTasks        == {left, right, export, job1}
JoinRoots        == {left, right, export}
JoinPredecessors == [t \in JoinTasks |-> IF t = export THEN {left, right} ELSE {}]

NestedTasks        == {import, export, job1, job2}
NestedRoots        == {import, export}
NestedPredecessors == [t \in NestedTasks |-> IF t = export THEN {import} ELSE {}]

WaitTasks        == {left, right, export, job1, job2}
WaitPredecessors == [t \in WaitTasks |-> IF t = export THEN {left, right} ELSE {}]

LeftHasSubtask    == [t \in Tasks |-> IF t = left THEN {job1} ELSE {}]
LeavesHaveSubtask == [t \in Tasks |-> CASE t = left -> {job1} [] t = right -> {job2} [] OTHER -> {}]
ImportHasSubtasks == [t \in Tasks |-> IF t = import THEN {job1, job2} ELSE {}]

AlwaysOk == [t \in Tasks |-> {"ok"}]
MayFail  == [t \in Tasks |-> {"ok", "assertion"}]

ThreadSymmetry == Permutations(Threads)
=============================================================================

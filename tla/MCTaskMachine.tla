--------------------------- MODULE MCTaskMachine ---------------------------
(* An instance of TaskMachine for TLC. *)
EXTENDS TaskMachine, TLC

CONSTANTS t1, c1, c2, c3

MCTasks == {t1}
MCCallers == {c1, c2, c3}
CallerSymmetry == Permutations(MCCallers)
=============================================================================

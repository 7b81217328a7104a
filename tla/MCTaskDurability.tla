-------------------------- MODULE MCTaskDurability --------------------------
(* Instances of TaskDurability for TLC. *)
EXTENDS TaskDurability

CONSTANT t1

MCTasks == {t1}
MCClassW1 == [t \in MCTasks |-> "W1"]
MCClassW2 == [t \in MCTasks |-> "W2"]
=============================================================================

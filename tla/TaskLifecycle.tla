--------------------------- MODULE TaskLifecycle ---------------------------
(***************************************************************************)
(* What tasks.status promises to everyone who reads it: a task is created  *)
(* as 'intent' and then moves along the edges of the transition table, one *)
(* edge at a time, and never out of a terminal status.                     *)
(***************************************************************************)
EXTENDS TaskStatus

CONSTANT Tasks
VARIABLE status

Init == status = [t \in Tasks |-> "absent"]

Create(t) ==
    /\ status[t] = "absent"
    /\ status' = [status EXCEPT ![t] = "intent"]

Move(t, to) ==
    /\ IsLegalTransition(status[t], to)
    /\ status[t] \notin Terminal
    /\ status' = [status EXCEPT ![t] = to]

Next == \E t \in Tasks : Create(t) \/ \E to \in Statuses : Move(t, to)

Spec == Init /\ [][Next]_status
=============================================================================

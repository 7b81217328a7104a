----------------------------- MODULE TaskStatus -----------------------------
(***************************************************************************)
(* The values of tasks.status and the table of legal transitions           *)
(* (task/machine.go).  "absent" stands for a task with no row yet,         *)
(* "retry_wait" for the code's 'bekliyor-yeniden-deneme'.                  *)
(***************************************************************************)

Terminal == {"done", "failed", "user_halted"}
Statuses == {"absent", "intent", "executing", "retry_wait", "blocked_user"} \cup Terminal

\* allowedTransitions: done, failed and user_halted have no way out.
IsLegalTransition(from, to) ==
    \/ from = "intent" /\ to = "executing"
    \/ from = "executing" /\
          to \in {"done", "failed", "blocked_user", "retry_wait", "user_halted"}
    \/ from = "retry_wait" /\ to \in {"executing", "user_halted"}
    \/ from = "blocked_user" /\ to \in {"executing", "failed", "user_halted"}
=============================================================================

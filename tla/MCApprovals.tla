---------------------------- MODULE MCApprovals ----------------------------
(* Instances of Approvals for TLC. *)
EXTENDS Approvals, TLC

CONSTANTS r1, r2, t1, a1, a2

MCRequests == {r1, r2}
MCTasks == {t1}
MCPair == {a1, a2}
MCSerial == {a1}
MCLevels == {1, 4}
MCLow == {1}
MCTask == [r \in MCRequests |-> t1]
MCClassW1W3 == (r1 :> "W1" @@ r2 :> "W3")
MCClassW2 == [r \in MCRequests |-> "W2"]
MCClassW1 == [r \in MCRequests |-> "W1"]
ActorSymmetry == Permutations(MCPair)
=============================================================================

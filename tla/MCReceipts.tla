----------------------------- MODULE MCReceipts -----------------------------
(* Instances of Receipts for TLC. *)
EXTENDS Receipts

CONSTANTS k1, k2, p1, p2

MCKeys == {k1, k2}
MCCallers == {p1, p2}
MCKey == {k1}
=============================================================================

---------------------------- MODULE MCSettlement ----------------------------
(* Instance of Settlement for TLC. *)
EXTENDS Settlement

CONSTANTS m1, m2, g1
=============================================================================

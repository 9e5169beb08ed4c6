--------------------------- MODULE MCSystemSlots ----------------------------
(* Instance of SystemSlots for TLC. *)
EXTENDS SystemSlots
=============================================================================

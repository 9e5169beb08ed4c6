----------------------------- MODULE MCBootGuard ----------------------------
EXTENDS BootGuard

CONSTANTS good, long, quick, slow, hung

(* good never crashes; long crashes after 400 s, quick and slow within the  *)
(* first minute; hung hangs.                                                *)
MCUptimes ==
  [b \in Versions |-> CASE b = good  -> {}
                      [] b = long  -> {400}
                      [] b = quick -> {1, 30}
                      [] b = slow  -> {59}
                      [] b = hung  -> {}]
=============================================================================

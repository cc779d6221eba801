----------------------------- MODULE MCIdlePause ----------------------------
(* Instances for TLC.  The sweepers are interchangeable where no liveness  *)
(* is checked; so are the regions, one of which Init picks.                *)
EXTENDS IdlePause, TLC

Symmetry == Permutations(Sweepers)
=============================================================================

---------------------------- MODULE MCStateOutbox ---------------------------
(* Instances for TLC.  Without symmetry: ChangesArrive is a liveness       *)
(* property.                                                               *)
EXTENDS StateOutbox, TLC
=============================================================================

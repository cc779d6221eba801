---------------------------- MODULE MCMoveSaga ----------------------------
(* Bounds and symmetry for the forward saga and its refinement of AppHome. *)
EXTENDS MoveRefinesHome, TLC

RowSymmetry == Permutations(Migrations)

===========================================================================

-------------------------- MODULE MoveRefinesHome --------------------------
(***************************************************************************)
(* The forward saga implements AppHome: an attempt is an active migration  *)
(* row, a store is a tenant database, and a write is promised when it was  *)
(* acknowledged and did not land behind a dump.                            *)
(***************************************************************************)
EXTENDS MoveSaga

CONSTANT NoMove

ASSUME NoMoveAssumption == \A from, to \in Regions : NoMove # <<from, to>>

Attempt ==
  IF \E m \in Migrations : Active(m)
  THEN LET m == CHOOSE n \in Migrations : Active(n) IN <<src[m], dst[m]>>
  ELSE NoMove

Promised == {w \in PgWrites : writeAt[w] = "acked"} \ late

Home == INSTANCE AppHome
        WITH Writes <- PgWrites, moving <- Attempt, store <- pg, promised <- Promised

(* The saga keeps the promise of AppHome in every interleaving of driver   *)
(* ticks, failures, crashes, abort requests and client writes.             *)
MoveImplementsAppHome == Home!Spec

===========================================================================

--------------------------- MODULE MCReverseMove ---------------------------
(***************************************************************************)
(* Bounds and symmetry for the saga with reverse moves.                    *)
(*                                                                         *)
(* AfterTwoMovesSpec starts where two undisturbed moves have taken the app *)
(* from A over B to C, both with a live replica: the states in which a     *)
(* reverse of a move that is no longer the last one can be asked for,      *)
(* without the exploration of everything that leads there.                 *)
(***************************************************************************)
EXTENDS ReverseMove, TLC

CONSTANTS A, B, C, m1, m2

(* The rows after A -> B (m1) and B -> C (m2).                             *)
Done == {m1, m2}
Passed(r) == CASE r = A -> m1 [] r = B -> m2 [] OTHER -> None

AfterTwoMoves ==
  /\ step = [m \in Migrations |-> IF m \in Done THEN "completed" ELSE "absent"]
  /\ src = [m \in Migrations |-> IF m = m2 THEN B ELSE A]
  /\ dst = [m \in Migrations |-> CASE m = m1 -> B [] m = m2 -> C [] OTHER -> A]
  /\ retry = [m \in Migrations |-> 0]
  /\ destReserved = [m \in Migrations |-> m \in Done]
  /\ replica = [m \in Migrations |-> IF m \in Done THEN "replicating" ELSE "none"]
  /\ home = C /\ indexLock = "free" /\ edge = C
  /\ appRow = [r \in Regions |-> "ready"]
  /\ paused = [r \in Regions |-> FALSE]
  /\ statusCache = [r \in Regions |-> None]
  /\ pg = [r \in Regions |-> {}]
  /\ pgDump = [m \in Migrations |-> IF m \in Done THEN {} ELSE None]
  /\ kvHome = C
  /\ kv = [r \in Regions |-> {}]
  /\ kvDump = [m \in Migrations |-> IF m \in Done THEN {} ELSE None]
  /\ kvBlock = [r \in Regions |-> FALSE]
  /\ rtVersion = [r \in Regions |-> 1]
  /\ rtTag = [r \in Regions |-> Passed(r)]
  /\ writeAt = [w \in PgWrites \cup KvWrites |-> "unsent"]
  /\ late = {} /\ pauseAck = FALSE
  /\ held = NoRow /\ pc = 0 /\ abortReq = {} /\ crashes = 0
  /\ revPc = 0 /\ revOf = NoRow /\ revRow = NoRow /\ revDump = {} /\ promoted = {}

AfterTwoMovesSpec == AfterTwoMoves /\ [][ReverseNext]_allVars

===========================================================================

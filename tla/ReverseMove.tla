---------------------------- MODULE ReverseMove ----------------------------
(***************************************************************************)
(* Reverse-move and replica teardown on top of the saga.  The fast path    *)
(* (runReverseMove) runs inside its HTTP request: it inserts a migration   *)
(* row like any other, which the driver sees and may run too, and then     *)
(* moves the app back by itself.  The slow path only inserts the row.      *)
(*                                                                         *)
(* Bounds and simplifications: one fast reverse runs at a time; the KV     *)
(* restore of the fast path is one effect; the deprovision task of a       *)
(* teardown goes to the control plane's neon_tasks, which no worker polls, *)
(* and has no effect here.                                                 *)
(***************************************************************************)
EXTENDS MoveSaga

VARIABLES
  revPc,       \* effects the running fast reverse has had, 0 when none runs
  revOf,       \* the forward migration it reverses
  revRow,      \* the row it inserted
  revDump,     \* the KV dump it took
  promoted     \* forward migrations whose subscription is gone

reverseVars == <<revPc, revOf, revRow, revDump, promoted>>
allVars == <<vars, reverseVars>>

ReverseInit ==
  /\ Init
  /\ revPc = 0
  /\ revOf = NoRow
  /\ revRow = NoRow
  /\ revDump = {}
  /\ promoted = {}

---------------------------------------------------------------------------
(* POST /reverse.                                                          *)

RequestFastReverse(f, m) ==
  /\ revPc = 0
  /\ step[f] = "completed" /\ replica[f] = "replicating"
  /\ CreateMigration(m, dst[f], src[f])
  /\ revPc' = 1
  /\ revOf' = f
  /\ revRow' = m
  /\ UNCHANGED <<storeVars, driverVars, envVars, revDump, promoted>>

(* The slow path clears the archive tags before its INSERT, which may then *)
(* be rejected.                                                            *)
UntagRuntimeRow(r, f) == rtTag' = [rtTag EXCEPT ![r] = IF @ = f THEN None ELSE @]

SlowReverse(f) ==
  /\ step[f] = "completed" /\ replica[f] # "replicating"
  /\ UntagRuntimeRow(src[f], f)
  /\ UNCHANGED <<routeVars, rowsVars, statusCache, pgVars, kvVars, rtVersion, clientVars,
                 driverVars, envVars, reverseVars>>

SlowReverseInserts(f, m) ==
  /\ SlowReverse(f)
  /\ CreateMigration(m, dst[f], src[f])

SlowReverseRejected(f) ==
  /\ SlowReverse(f)
  /\ \E n \in Migrations : Active(n)
  /\ UNCHANGED rowVars

---------------------------------------------------------------------------
(* The fast path, effect by effect.                                        *)

Back(i) ==
  /\ revPc = i
  /\ revPc' = i + 1
  /\ UNCHANGED <<rowVars, statusCache, clientVars, driverVars, envVars, revOf, revRow>>

RevFrom == dst[revOf]
RevTo   == src[revOf]

ReverseBlocksWrites ==
  /\ Back(1)
  /\ appRow' = [appRow EXCEPT ![RevFrom] = IF @ = "none" THEN @ ELSE "migrating"]
  /\ UNCHANGED <<routeVars, paused, pgVars, kvVars, rtVars, revDump, promoted>>

(* waitForReplicationCaughtUp throws when the subscription is not there;   *)
(* promoteSourceToPrimary drops it.                                        *)
ReversePromotes ==
  /\ Back(2)
  /\ revOf \notin promoted
  /\ pg' = [pg EXCEPT ![RevTo] = pg[RevFrom]]
  /\ promoted' = promoted \cup {revOf}
  /\ UNCHANGED <<routeVars, rowsVars, pgDump, kvVars, rtVars, revDump>>

ReverseDumpsKv ==
  /\ Back(3)
  /\ revDump' = kv[RevFrom]
  /\ UNCHANGED <<routeVars, rowsVars, pgVars, kvVars, rtVars, promoted>>

(* clearKvScope unlinks every key of the app, the sentinel included.       *)
ReverseClearsKv ==
  /\ Back(4)
  /\ kv' = [kv EXCEPT ![RevTo] = {}]
  /\ kvBlock' = [kvBlock EXCEPT ![RevTo] = FALSE]
  /\ UNCHANGED <<routeVars, rowsVars, pgVars, kvHome, kvDump, rtVars, revDump, promoted>>

ReverseRestoresKv ==
  /\ Back(5)
  /\ kv[RevTo] = {} /\ ~ kvBlock[RevTo]
  /\ kv' = [kv EXCEPT ![RevTo] = revDump]
  /\ UNCHANGED <<routeVars, rowsVars, pgVars, kvHome, kvDump, kvBlock, rtVars, revDump,
                 promoted>>

ReverseFlipsKvCredentials ==
  /\ Back(6)
  /\ kvHome' = RevTo
  /\ UNCHANGED <<routeVars, rowsVars, pgVars, kv, kvDump, kvBlock, rtVars, revDump,
                 promoted>>

ReverseCutoverPrepares ==
  /\ Back(7)
  /\ CutoverPrepares("reverse", RevFrom, RevTo)
  /\ UNCHANGED <<pgVars, kvVars, rtVars, revDump, promoted>>

ReverseCutoverCommits ==
  /\ Back(8)
  /\ CutoverCommits(RevTo)
  /\ UNCHANGED <<pgVars, kvVars, rtVars, revDump, promoted>>

ReverseCutoverAlreadyDone ==
  /\ revPc = 7
  /\ CutoverDone(RevTo)
  /\ revPc' = 9
  /\ UNCHANGED <<vars, revOf, revRow, revDump, promoted>>

ReverseFlipsEdge ==
  /\ Back(9)
  /\ edge' = RevTo
  /\ UNCHANGED <<home, indexLock, rowsVars, pgVars, kvVars, rtVars, revDump, promoted>>

ReverseUntags ==
  /\ Back(10)
  /\ UntagRuntimeRow(RevTo, revOf)
  /\ UNCHANGED <<routeVars, rowsVars, pgVars, kvVars, rtVersion, revDump, promoted>>

(* markCompleted waits for the driver to let go of the row.                *)
ReverseCompletes ==
  /\ revPc = 11
  /\ held # revRow
  /\ MarkTerminal(revRow, "completed")
  /\ revPc' = 0
  /\ UNCHANGED <<storeVars, driverVars, envVars, revOf, revRow, revDump, promoted>>

(* Any call throws, or the process dies: the request answers 409 or not at *)
(* all, and its row stays where it is.                                     *)
ReverseFails ==
  /\ revPc # 0
  /\ revPc' = 0
  /\ indexLock' = IF indexLock = "reverse" THEN "free" ELSE indexLock
  /\ UNCHANGED <<rowVars, home, edge, rowsVars, statusCache, pgVars, kvVars, rtVars,
                 clientVars, driverVars, envVars, revOf, revRow, revDump, promoted>>

(* DELETE /source-replicas: teardownSourceReplica.                         *)
TeardownReplica(f) ==
  /\ step[f] # "absent" /\ replica[f] = "replicating"
  /\ held # f
  /\ replica' = [replica EXCEPT ![f] = "torn_down"]
  /\ promoted' = promoted \cup {f}
  /\ UNCHANGED <<step, src, dst, retry, destReserved, storeVars, driverVars, envVars,
                 revPc, revOf, revRow, revDump>>

---------------------------------------------------------------------------
ReverseStep ==
  \/ \E f, m \in Migrations : RequestFastReverse(f, m) \/ SlowReverseInserts(f, m)
  \/ \E f \in Migrations : SlowReverseRejected(f) \/ TeardownReplica(f)
  \/ ReverseBlocksWrites \/ ReversePromotes \/ ReverseDumpsKv \/ ReverseClearsKv
  \/ ReverseRestoresKv \/ ReverseFlipsKvCredentials
  \/ ReverseCutoverPrepares \/ ReverseCutoverCommits \/ ReverseCutoverAlreadyDone
  \/ ReverseFlipsEdge \/ ReverseUntags \/ ReverseCompletes \/ ReverseFails

ReverseNext == (Next /\ UNCHANGED reverseVars) \/ ReverseStep

ReverseSpec == ReverseInit /\ [][ReverseNext]_allVars

---------------------------------------------------------------------------
(* Correctness.                                                            *)

ReverseTypeOK ==
  /\ TypeOK
  /\ revPc \in 0 .. 11
  /\ revOf \in Migrations \cup {NoRow} /\ revRow \in Migrations \cup {NoRow}
  /\ revDump \subseteq KvWrites
  /\ promoted \subseteq Migrations

(* A row that ended never runs again, whoever ends it: the driver, an      *)
(* abort request that read it before, or the fast reverse after the driver *)
(* took its row to an end of its own.                                      *)
TerminalIsFinal ==
  [][\A m \in Migrations : step[m] \in TerminalSteps => step'[m] \in TerminalSteps]_allVars

(* However many sagas, reverses and requests for moves long gone are about, *)
(* the home only moves along a migration that is under way and whose source *)
(* it is at that moment.                                                    *)
UnderWay(m) == Active(m) \/ (revPc # 0 /\ m = revRow)

HomeMovesFromItsSource ==
  [][home' # home =>
       \E m \in Migrations : UnderWay(m) /\ src[m] = home /\ dst[m] = home']_allVars

===========================================================================

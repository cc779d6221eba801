----------------------------- MODULE MoveSaga -----------------------------
(***************************************************************************)
(* Moving an app to another region: the saga driver (driveOnce), its step  *)
(* handlers, the compensation handler, and the move and abort routes.      *)
(*                                                                         *)
(* A tick of the driver locks the migration row (FOR UPDATE SKIP LOCKED)   *)
(* for as long as the handler of its step runs: `held' is that row and     *)
(* `pc' counts the durable effects the handler has had.  Effects live in   *)
(* other databases than the row, so between any two of them the handler    *)
(* may throw (the retry counter grows) or its process may die (the row's   *)
(* transaction rolls back and nothing is recorded); either way the next    *)
(* tick runs the step again from its start.  At most one row of an app is  *)
(* active, so several driver instances are one as far as an app can tell.  *)
(*                                                                         *)
(* Simplifications: the app's plan, staging links and video work (other    *)
(* reasons for ineligibility) are not modelled; the eligibility query and  *)
(* the INSERT of the move route are one step; every app has a subdomain    *)
(* and KV credentials; blobs live in R2, which every region reads.         *)
(***************************************************************************)
EXTENDS AppStores

CONSTANTS NoRow,        \* no migration row is locked
          MaxCrashes    \* bound on the number of process deaths

ASSUME DriverAssumption == NoRow \notin Migrations /\ MaxCrashes \in Nat

VARIABLES
  held,       \* the row locked by the driver's transaction, or NoRow
  pc,         \* effects the running handler has had
  abortReq,   \* abort requests between their read of the row and their UPDATE
  crashes

driverVars == <<held, pc>>
envVars == <<abortReq, crashes>>
vars == <<rowVars, storeVars, driverVars, envVars>>

Init ==
  /\ RowInit
  /\ StoresInit
  /\ held = NoRow
  /\ pc = 0
  /\ abortReq = {}
  /\ crashes = 0

---------------------------------------------------------------------------
(* Routes.                                                                 *)

(* POST /move: eligible when the app lives elsewhere and nothing is in     *)
(* flight; the source is the home read from org_app_index.                 *)
RequestMove(m, to) ==
  /\ to # home
  /\ CreateMigration(m, home, to)
  /\ UNCHANGED <<storeVars, driverVars, envVars>>

(* POST /abort reads the row ...                                           *)
AbortRouteReads(m) ==
  /\ step[m] \notin AbortRouteRefuses \cup {"absent"}
  /\ m \notin abortReq
  /\ abortReq' = abortReq \cup {m}
  /\ UNCHANGED <<rowVars, storeVars, driverVars, crashes>>

(* Mutant: the route asks for compensation, still without looking again.   *)
AbortRouteCompensates(m) ==
  /\ m \in abortReq
  /\ held # m
  /\ AdvanceStep(m, "aborting")
  /\ abortReq' = abortReq \ {m}
  /\ UNCHANGED <<src, dst, destReserved, replica, storeVars, driverVars, crashes>>

(* ... and marks it aborted in a second statement, which waits while the   *)
(* driver holds the row and does not look at the step again.               *)
AbortRouteWrites(m) ==
  /\ m \in abortReq
  /\ held # m
  /\ MarkTerminal(m, "aborted")
  /\ abortReq' = abortReq \ {m}
  /\ UNCHANGED <<storeVars, driverVars, crashes>>

---------------------------------------------------------------------------
(* The driver.                                                             *)

(* Mutant: one retry too many.                                             *)
ClaimRowOnceMore(m) ==
  /\ held = NoRow
  /\ Active(m)
  /\ retry[m] <= MaxRetries
  /\ held' = m
  /\ pc' = 0
  /\ UNCHANGED <<rowVars, storeVars, envVars>>

ClaimRow(m) ==
  /\ held = NoRow
  /\ Active(m)
  /\ retry[m] < MaxRetries
  /\ held' = m
  /\ pc' = 0
  /\ UNCHANGED <<rowVars, storeVars, envVars>>

(* Mutant: compensation past the cutover too.                              *)
ExhaustRetriesAborts(m) ==
  /\ held = NoRow
  /\ Active(m)
  /\ retry[m] >= MaxRetries
  /\ AdvanceStep(m, "aborting")
  /\ UNCHANGED <<src, dst, destReserved, replica, storeVars, driverVars, envVars>>

ExhaustRetries(m) ==
  /\ held = NoRow
  /\ Active(m)
  /\ retry[m] >= MaxRetries
  /\ AdvanceStep(m, IF step[m] \in AUTO_ABORTABLE_STEPS THEN "aborting" ELSE "failed")
  /\ UNCHANGED <<src, dst, destReserved, replica, storeVars, driverVars, envVars>>

(* Ends the tick: the row is unlocked, and with it the lock of a cutover   *)
(* that did not get to its commit.                                         *)
Release ==
  /\ held' = NoRow
  /\ pc' = 0
  /\ indexLock' = IF indexLock = "driver" THEN "free" ELSE indexLock

(* Mutant: the replication handler never gives up.                         *)
MayThrowForever(m) == step[m] # "aborting"

(* The compensation handler catches everything it awaits; the replication  *)
(* handler gives up instead of throwing once MaxReplicationTries is near.  *)
MayThrow(m) ==
  CASE step[m] = "aborting" -> FALSE
    [] step[m] = "setting_up_reverse_replication" -> retry[m] + 1 < MaxReplicationTries
    [] OTHER -> TRUE

HandlerThrows(m) ==
  /\ held = m
  /\ MayThrow(m)
  /\ RecordError(m)
  /\ Release
  /\ UNCHANGED <<home, edge, rowsVars, statusCache, pgVars, kvVars, rtVars, clientVars,
                 envVars>>

ProcessDies ==
  /\ held # NoRow
  /\ crashes < MaxCrashes
  /\ crashes' = crashes + 1
  /\ Release
  /\ UNCHANGED <<rowVars, home, edge, rowsVars, statusCache, pgVars, kvVars, rtVars,
                 clientVars, abortReq>>

(* The handler of step s has had i effects; it has one more.               *)
At(m, s, i) == held = m /\ step[m] = s /\ pc = i

Effect(m, s, i) ==
  /\ At(m, s, i)
  /\ pc' = i + 1
  /\ UNCHANGED <<rowVars, held, envVars, clientVars, statusCache>>

(* The handler of step s returns after its i-th effect; the row moves on   *)
(* and the transaction commits.                                            *)
HandlerReturns(m, s, i, next) ==
  /\ At(m, s, i)
  /\ AdvanceStep(m, next)
  /\ held' = NoRow
  /\ pc' = 0
  /\ UNCHANGED <<src, dst, storeVars, envVars>>

---------------------------------------------------------------------------
(* Step handlers.                                                          *)

Requested(m) ==
  /\ HandlerReturns(m, "requested", 0, "reserving_dest")
  /\ UNCHANGED <<destReserved, replica>>

(* The destination row is the source row with a reserved status; a row     *)
(* left there by an earlier move is overwritten.                           *)
ReserveDestRow(m) ==
  /\ Effect(m, "reserving_dest", 0)
  /\ src[m] # dst[m]
  /\ appRow[src[m]] # "none"
  /\ appRow' = [appRow EXCEPT ![dst[m]] = "migration_target_reserved"]
  /\ paused' = [paused EXCEPT ![dst[m]] = paused[src[m]]]
  /\ UNCHANGED <<routeVars, pgVars, kvVars, rtVars>>

(* provisionAppDb created the destination database, or found the one an    *)
(* earlier move left there.                                                *)
ReserveDestReturns(m) ==
  /\ HandlerReturns(m, "reserving_dest", 1, "blocking_writes")
  /\ destReserved' = [destReserved EXCEPT ![m] = TRUE]
  /\ UNCHANGED replica

BlockPgWrites(m) ==
  /\ Effect(m, "blocking_writes", 0)
  /\ appRow' = [appRow EXCEPT ![src[m]] = IF @ = "ready" THEN "migrating" ELSE @]
  /\ UNCHANGED <<routeVars, paused, pgVars, kvVars, rtVars>>

BlockKvWrites(m) ==
  /\ Effect(m, "blocking_writes", 1)
  /\ kvBlock' = [kvBlock EXCEPT ![src[m]] = TRUE]
  /\ UNCHANGED <<routeVars, rowsVars, pgVars, kvHome, kv, kvDump, rtVars>>

BlockWritesReturns(m) ==
  /\ HandlerReturns(m, "blocking_writes", 2, "dumping_data")
  /\ UNCHANGED <<destReserved, replica>>

DumpData(m) ==
  /\ Effect(m, "dumping_data", 0)
  /\ pgDump' = [pgDump EXCEPT ![m] = pg[src[m]]]
  /\ UNCHANGED <<routeVars, rowsVars, pg, kvVars, rtVars>>

DumpDataReturns(m) ==
  /\ HandlerReturns(m, "dumping_data", 1, "restoring_data")
  /\ UNCHANGED <<destReserved, replica>>

(* psql --single-transaction on a dump made with --clean: all or nothing,  *)
(* and whatever the database held before is gone.                          *)
RestoreData(m) ==
  /\ Effect(m, "restoring_data", 0)
  /\ pgDump[m] # None
  /\ pg' = [pg EXCEPT ![dst[m]] = pgDump[m]]
  /\ UNCHANGED <<routeVars, rowsVars, pgDump, kvVars, rtVars>>

(* Mutant: a psql that failed is taken for one that succeeded.             *)
RestoreDataFailsSilently(m) ==
  /\ \/ HandlerReturns(m, "restoring_data", 0, "dumping_kv")
     \/ HandlerReturns(m, "restoring_data", 1, "dumping_kv")
  /\ UNCHANGED <<destReserved, replica>>

RestoreDataReturns(m) ==
  /\ HandlerReturns(m, "restoring_data", 1, "dumping_kv")
  /\ UNCHANGED <<destReserved, replica>>

DumpKv(m) ==
  /\ Effect(m, "dumping_kv", 0)
  /\ kvDump' = [kvDump EXCEPT ![m] = kv[src[m]]]
  /\ UNCHANGED <<routeVars, rowsVars, pgVars, kvHome, kv, kvBlock, rtVars>>

DumpKvReturns(m) ==
  /\ HandlerReturns(m, "dumping_kv", 1, "restoring_kv")
  /\ UNCHANGED <<destReserved, replica>>

(* assertDestEmpty: any key of the app, the sentinel included, makes the   *)
(* handler throw.                                                          *)
AssertDestKvEmpty(m) ==
  /\ Effect(m, "restoring_kv", 0)
  /\ kvDump[m] # None
  /\ kv[dst[m]] = {} /\ ~ kvBlock[dst[m]]
  /\ UNCHANGED <<routeVars, rowsVars, pgVars, kvVars, rtVars>>

(* Records are restored one by one; the pc stays.                          *)
RestoreKvRecord(m, k) ==
  /\ At(m, "restoring_kv", 1)
  /\ k \in kvDump[m] \ kv[dst[m]]
  /\ kv' = [kv EXCEPT ![dst[m]] = @ \cup {k}]
  /\ UNCHANGED <<rowVars, routeVars, rowsVars, statusCache, pgVars, kvHome, kvDump,
                 kvBlock, rtVars, clientVars, driverVars, envVars>>

FlipKvCredentials(m) ==
  /\ Effect(m, "restoring_kv", 1)
  /\ kvDump[m] \subseteq kv[dst[m]]
  /\ kvHome' = dst[m]
  /\ UNCHANGED <<routeVars, rowsVars, pgVars, kv, kvDump, kvBlock, rtVars>>

RestoreKvReturns(m) ==
  /\ HandlerReturns(m, "restoring_kv", 2, "copying_blobs")
  /\ UNCHANGED <<destReserved, replica>>

CopyBlobs(m) ==
  /\ HandlerReturns(m, "copying_blobs", 0, "copying_runtime")
  /\ UNCHANGED <<destReserved, replica>>

(* SELECT ... WHERE archived_after_move IS NULL on the source, INSERT ...  *)
(* ON CONFLICT DO NOTHING on the destination.                              *)
CopyRuntimeRow(m) ==
  LET carried == rtVersion[src[m]] > 0 /\ rtTag[src[m]] = None
      absent  == rtVersion[dst[m]] = 0
  IN /\ Effect(m, "copying_runtime", 0)
     /\ rtVersion' = IF carried /\ absent
                     THEN [rtVersion EXCEPT ![dst[m]] = rtVersion[src[m]]] ELSE rtVersion
     /\ UNCHANGED <<rtTag, routeVars, rowsVars, pgVars, kvVars>>

TagRuntimeRow(m) ==
  /\ Effect(m, "copying_runtime", 1)
  /\ rtTag' = [rtTag EXCEPT ![src[m]] =
                 IF @ = None /\ rtVersion[src[m]] > 0 THEN m ELSE @]
  /\ UNCHANGED <<rtVersion, routeVars, rowsVars, pgVars, kvVars>>

CopyRuntimeReturns(m) ==
  /\ HandlerReturns(m, "copying_runtime", 2, "flipping_routing")
  /\ UNCHANGED <<destReserved, replica>>

---------------------------------------------------------------------------
(* Cutover (cutover-app-state.ts), under the org_app_index row lock: the   *)
(* destination row is prepared, then the commit publishes the new home.    *)

CutoverDone(to) == indexLock = "free" /\ home = to

(* Mutant: the home is not compared with the source.                       *)
CutoverFromAnywhere(who, from, to) ==
  /\ indexLock = "free"
  /\ home # to
  /\ appRow[from] # "none" /\ appRow[to] # "none"
  /\ indexLock' = who
  /\ appRow' = [appRow EXCEPT ![to] = "ready"]
  /\ paused' = [paused EXCEPT ![to] = paused[from]]
  /\ UNCHANGED <<home, edge>>

(* Mutant: the reserved status is left on the destination row.             *)
CutoverKeepsStatus(who, from, to) ==
  /\ indexLock = "free"
  /\ home = from /\ from # to
  /\ appRow[from] # "none" /\ appRow[to] # "none"
  /\ indexLock' = who
  /\ paused' = [paused EXCEPT ![to] = paused[from]]
  /\ UNCHANGED <<home, edge, appRow>>

(* Mutant: the index row is not locked while the pause state is copied.    *)
CutoverUnlocked(who, from, to) ==
  /\ home = from /\ from # to
  /\ appRow[from] # "none" /\ appRow[to] # "none"
  /\ appRow' = [appRow EXCEPT ![to] = "ready"]
  /\ paused' = [paused EXCEPT ![to] = paused[from]]
  /\ UNCHANGED <<home, edge, indexLock>>

CutoverPrepares(who, from, to) ==
  /\ indexLock = "free"
  /\ home = from /\ from # to
  /\ appRow[from] # "none" /\ appRow[to] # "none"
  /\ indexLock' = who
  /\ appRow' = [appRow EXCEPT ![to] = "ready"]
  /\ paused' = [paused EXCEPT ![to] = paused[from]]
  /\ UNCHANGED <<home, edge>>

CutoverCommits(to) ==
  /\ home' = to
  /\ indexLock' = "free"
  /\ UNCHANGED <<edge, rowsVars>>

FlipPrepares(m) ==
  /\ Effect(m, "flipping_routing", 0)
  /\ CutoverPrepares("driver", src[m], dst[m])
  /\ UNCHANGED <<pgVars, kvVars, rtVars>>

FlipCommits(m) ==
  /\ Effect(m, "flipping_routing", 1)
  /\ CutoverCommits(dst[m])
  /\ UNCHANGED <<pgVars, kvVars, rtVars>>

(* Mutant: a retry that finds the home already moved skips the edge.       *)
FlipDoneSkipsEdge(m) ==
  /\ At(m, "flipping_routing", 0)
  /\ CutoverDone(dst[m])
  /\ pc' = 3
  /\ UNCHANGED <<rowVars, storeVars, held, envVars>>

(* A retry finds the home already moved and goes on to the edge.           *)
FlipAlreadyDone(m) ==
  /\ At(m, "flipping_routing", 0)
  /\ CutoverDone(dst[m])
  /\ pc' = 2
  /\ UNCHANGED <<rowVars, storeVars, held, envVars>>

FlipEdge(m) ==
  /\ Effect(m, "flipping_routing", 2)
  /\ edge' = dst[m]
  /\ UNCHANGED <<home, indexLock, rowsVars, pgVars, kvVars, rtVars>>

FlipReturns(m) ==
  /\ HandlerReturns(m, "flipping_routing", 3, "setting_up_reverse_replication")
  /\ UNCHANGED <<destReserved, replica>>

(* Replication is configured, or skipped as not injected, unrecoverable or *)
(* given up.                                                               *)
SetUpReplicationReturns(m, state) ==
  /\ HandlerReturns(m, "setting_up_reverse_replication", 0, "unblocking_writes")
  /\ replica' = [replica EXCEPT ![m] = state]
  /\ UNCHANGED destReserved

UnblockPgWrites(m) ==
  /\ Effect(m, "unblocking_writes", 0)
  /\ appRow' = [appRow EXCEPT ![src[m]] = IF @ = "migrating" THEN "ready" ELSE @]
  /\ UNCHANGED <<routeVars, paused, pgVars, kvVars, rtVars>>

(* Best effort: `cleared' holds the regions whose sentinel did go.         *)
ClearKvBlocks(cleared) ==
  kvBlock' = [r \in Regions |-> kvBlock[r] /\ r \notin cleared]

UnblockKvWrites(m, cleared) ==
  /\ Effect(m, "unblocking_writes", 1)
  /\ cleared \subseteq {src[m]}
  /\ ClearKvBlocks(cleared)
  /\ UNCHANGED <<routeVars, rowsVars, pgVars, kvHome, kv, kvDump, rtVars>>

UnblockReturns(m) ==
  /\ At(m, "unblocking_writes", 2)
  /\ MarkTerminal(m, "completed")
  /\ held' = NoRow
  /\ pc' = 0
  /\ UNCHANGED <<storeVars, envVars>>

---------------------------------------------------------------------------
(* Compensation (step-abort.ts).  Every part is best effort: `ok' is       *)
(* whether it worked.                                                      *)

(* The reserved row goes, and the runtime rows that cascade from it.       *)
AbortDropsRow(m, ok) ==
  LET gone == ok /\ destReserved[m] /\ appRow[dst[m]] = "migration_target_reserved"
  IN /\ Effect(m, "aborting", 0)
     /\ appRow' = IF gone THEN [appRow EXCEPT ![dst[m]] = "none"] ELSE appRow
     /\ rtVersion' = IF gone THEN [rtVersion EXCEPT ![dst[m]] = 0] ELSE rtVersion
     /\ rtTag' = IF gone THEN [rtTag EXCEPT ![dst[m]] = None] ELSE rtTag
     /\ UNCHANGED <<routeVars, paused, pgVars, kvVars>>

(* teardownAppDb knows what to delete from dest_resources only.            *)
AbortDropsDb(m, ok) ==
  /\ Effect(m, "aborting", 1)
  /\ pg' = IF ok /\ destReserved[m] THEN [pg EXCEPT ![dst[m]] = {}] ELSE pg
  /\ UNCHANGED <<routeVars, rowsVars, pgDump, kvVars, rtVars>>

AbortUnblocksPg(m, ok) ==
  /\ Effect(m, "aborting", 2)
  /\ appRow' = [appRow EXCEPT ![src[m]] = IF ok /\ @ = "migrating" THEN "ready" ELSE @]
  /\ UNCHANGED <<routeVars, paused, pgVars, kvVars, rtVars>>

AbortUnblocksKv(m, cleared) ==
  /\ Effect(m, "aborting", 3)
  /\ cleared \subseteq {src[m], dst[m]}
  /\ ClearKvBlocks(cleared)
  /\ UNCHANGED <<routeVars, rowsVars, pgVars, kvHome, kv, kvDump, rtVars>>

AbortReturns(m) ==
  /\ At(m, "aborting", 4)
  /\ MarkTerminal(m, "aborted")
  /\ held' = NoRow
  /\ pc' = 0
  /\ UNCHANGED <<storeVars, envVars>>

---------------------------------------------------------------------------
(* Next state.                                                             *)

HandlerStep(m) ==
  \/ Requested(m)
  \/ ReserveDestRow(m) \/ ReserveDestReturns(m)
  \/ BlockPgWrites(m) \/ BlockKvWrites(m) \/ BlockWritesReturns(m)
  \/ DumpData(m) \/ DumpDataReturns(m)
  \/ RestoreData(m) \/ RestoreDataReturns(m)
  \/ DumpKv(m) \/ DumpKvReturns(m)
  \/ AssertDestKvEmpty(m) \/ (\E k \in KvWrites : RestoreKvRecord(m, k))
  \/ FlipKvCredentials(m) \/ RestoreKvReturns(m)
  \/ CopyBlobs(m)
  \/ CopyRuntimeRow(m) \/ TagRuntimeRow(m) \/ CopyRuntimeReturns(m)
  \/ FlipPrepares(m) \/ FlipCommits(m) \/ FlipAlreadyDone(m) \/ FlipEdge(m)
  \/ FlipReturns(m)
  \/ (\E state \in {"none", "replicating"} : SetUpReplicationReturns(m, state))
  \/ UnblockPgWrites(m) \/ (\E c \in SUBSET Regions : UnblockKvWrites(m, c))
  \/ UnblockReturns(m)
  \/ (\E ok \in BOOLEAN :
        AbortDropsRow(m, ok) \/ AbortDropsDb(m, ok) \/ AbortUnblocksPg(m, ok))
  \/ (\E c \in SUBSET Regions : AbortUnblocksKv(m, c))
  \/ AbortReturns(m)

DriverStep ==
  \E m \in Migrations :
    ClaimRow(m) \/ ExhaustRetries(m) \/ HandlerStep(m) \/ HandlerThrows(m)

RouteStep ==
  \E m \in Migrations :
    \/ \E to \in Regions : RequestMove(m, to)
    \/ AbortRouteReads(m)
    \/ AbortRouteWrites(m)

(* A write that lands outside the home, or at the home while an active     *)
(* move has already dumped it, will not be in what the move restores.      *)
BehindDump(r) ==
  \/ r # home
  \/ \E m \in Migrations : Active(m) /\ src[m] = home /\ pgDump[m] # None

ClientStep ==
  /\ \/ \E w \in PgWrites : PassGuard(w) \/ RefuseWrite(w) \/ LandPgWrite(w, BehindDump(writeAt[w]))
     \/ \E k \in KvWrites : PassKvSentinel(k) \/ LandKvWrite(k)
     \/ \E r \in Regions : StatusCacheExpires(r) \/ KvBlockExpires(r)
     \/ RuntimeWrite
     \/ \E value \in PauseStates : SetPaused(value)
  /\ UNCHANGED <<rowVars, driverVars, envVars>>

Next == DriverStep \/ RouteStep \/ ClientStep \/ ProcessDies

Spec == Init /\ [][Next]_vars

(* The cron driver keeps ticking and every awaited call returns or throws. *)
FairSpec == Spec /\ WF_vars(DriverStep)

---------------------------------------------------------------------------
(* Correctness.                                                            *)

TypeOK ==
  /\ RowTypeOK
  /\ StoresTypeOK
  /\ held \in Migrations \cup {NoRow} /\ pc \in 0 .. 4
  /\ abortReq \subseteq Migrations /\ crashes \in 0 .. MaxCrashes

(* Two active rows would be two sagas writing one destination.             *)
OneActiveMove == \A m, n \in Migrations : Active(m) /\ Active(n) => m = n

(* Up to the cutover, and while it is being compensated, a move has the    *)
(* home as its source: nothing it overwrites or deletes at its destination *)
(* serves the app.                                                         *)
SourceIsHome ==
  \A m \in Migrations :
    step[m] \in AUTO_ABORTABLE_STEPS \cup {"aborting"} =>
      home = src[m] /\ home # dst[m]

(* The home always has an apps row that requests can be served from: it is *)
(* never deleted by a compensation nor turned into a reserved target.      *)
HomeServes == appRow[home] \in {"ready", "migrating"}

(* Past flipping_routing every routing authority names the destination:    *)
(* org_app_index, the Cloudflare mapping and the KV credentials, and the   *)
(* KV scope there holds the whole dump.                                    *)
CutoverComplete ==
  \A m \in Migrations :
    step[m] \in PostFlipSteps =>
      /\ home = dst[m] /\ edge = dst[m] /\ kvHome = dst[m]
      /\ kvDump[m] \subseteq kv[dst[m]]

(* Whatever fails, crashes, is retried or aborted, the only acknowledged   *)
(* tenant writes that the home may lack are those that landed behind a     *)
(* dump.                                                                   *)
OnlyLateWritesLost ==
  \A w \in PgWrites : writeAt[w] = "acked" /\ w \notin late => w \in pg[home]

(* A pause or resume acknowledged at any moment of a move is the state of  *)
(* the home's apps row: the cutover and the owner's request exclude each   *)
(* other on the org_app_index row.                                         *)
PauseSurvivesCutover == paused[home] = pauseAck

(* The replication step gives up before the executor does: a move past the *)
(* cutover is never marked failed because replication cannot be set up.    *)
ReplicationNeverStrands ==
  [][\A m \in Migrations :
       step[m] = "setting_up_reverse_replication" => step'[m] # "failed"]_vars

(* Every accepted move ends: completed, aborted or failed.                 *)
EveryMoveEnds ==
  \A m \in Migrations : Active(m) ~> step[m] \in TerminalSteps


===========================================================================

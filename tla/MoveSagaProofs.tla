--------------------------- MODULE MoveSagaProofs ---------------------------
(***************************************************************************)
(* Proofs about the forward saga, for any regions, migrations, writes,     *)
(* retry bounds and number of crashes.                                     *)
(*                                                                         *)
(* The argument is one inductive invariant in two layers.  TypeInv says    *)
(* that the variables have their types and that a row is only worked on    *)
(* while it has retries left.  SafeInv adds to the safety invariants what  *)
(* they rest on between two effects of one handler: which step the held    *)
(* row is at, who holds the org_app_index row, how far the cutover and the *)
(* KV restore have come.  Each layer has one lemma per kind of step and    *)
(* one proof step per action.                                              *)
(***************************************************************************)
EXTENDS MoveSaga, TLAPS

(* A row is only worked on while it has retries left.                      *)
HeldHasRetries == held # NoRow => retry[held] < MaxRetries

TypeInv == TypeOK /\ HeldHasRetries

(* The row the driver holds is active: the abort route waits for it.       *)
HeldIsActive == held # NoRow => Active(held)

(* A move goes somewhere else.                                             *)
EndsDiffer == \A m \in Migrations : Active(m) => src[m] # dst[m]

(* Only a cutover between its two effects holds the org_app_index row.     *)
LockIsHeld ==
  /\ indexLock \in {"free", "driver"}
  /\ indexLock = "driver" =>
       held # NoRow /\ step[held] = "flipping_routing" /\ pc = 1

(* How far the cutover has come.                                           *)
FlipProgress ==
  \A m \in Migrations : step[m] = "flipping_routing" =>
    /\ home \in {src[m], dst[m]}
    /\ held = m /\ pc = 1 =>
         /\ indexLock = "driver" /\ home = src[m]
         /\ appRow[dst[m]] = "ready" /\ paused[dst[m]] = paused[src[m]]
    /\ held = m /\ pc > 1 => home = dst[m]
    /\ held = m /\ pc > 2 => edge = dst[m]

PastFlip ==
  \A m \in Migrations :
    step[m] \in PostFlipSteps => home = dst[m] /\ edge = dst[m]

(* Once the KV scope is restored, it and the credentials stay.             *)
KvStepsDone == {"copying_blobs", "copying_runtime", "flipping_routing"} \cup PostFlipSteps

KvMoved ==
  \A m \in Migrations :
    step[m] \in KvStepsDone \/ (held = m /\ step[m] = "restoring_kv" /\ pc > 1) =>
      kvHome = dst[m] /\ kvDump[m] \subseteq kv[dst[m]]

(* The replication step has retries left whenever it runs.                 *)
ReplicationRetries ==
  \A m \in Migrations :
    step[m] = "setting_up_reverse_replication" => retry[m] < MaxReplicationTries

(* What the inductive invariant is made of, beside the types.              *)
SafeInv ==
  /\ OneActiveMove /\ SourceIsHome /\ HomeServes /\ PauseSurvivesCutover
  /\ HeldIsActive /\ EndsDiffer /\ LockIsHeld /\ FlipProgress /\ PastFlip
  /\ KvMoved /\ ReplicationRetries

---------------------------------------------------------------------------
(* Types.                                                                  *)

(* The initial rows, stores and driver have their types.                   *)
LEMMA TypeInit == Init => TypeInv
<1> SUFFICES ASSUME Init PROVE TypeInv
  OBVIOUS
<1>1. RowTypeOK
  BY RegionsAssumption, RetriesAssumption
  DEF Init, RowInit, RowTypeOK, Steps
<1>2. StoresTypeOK
  <2>1. FirstHome \in Regions /\ {0, 1} \subseteq 0 .. MaxVersion
    BY RegionsAssumption, StoresAssumption
  <2> QED BY <2>1 DEF Init, StoresInit, StoresTypeOK, AppStatus
<1> QED
  BY <1>1, <1>2, DriverAssumption DEF Init, TypeInv, TypeOK, HeldHasRetries

(* One effect, or the return, of a step handler keeps the types.           *)
LEMMA TypeHandler ==
  ASSUME TypeInv, NEW m \in Migrations, HandlerStep(m) PROVE TypeInv'
<1> USE RetriesAssumption, StoresAssumption, DriverAssumption
    DEF TypeInv, TypeOK, RowTypeOK, StoresTypeOK, HeldHasRetries, AppStatus, Steps,
        ActiveSteps, AUTO_ABORTABLE_STEPS, TerminalSteps, PostFlipSteps, rowVars,
        storeVars, routeVars, rowsVars, pgVars, kvVars, rtVars, clientVars, driverVars,
        envVars
<1>1. ASSUME Requested(m) PROVE TypeInv'
  BY <1>1 DEF Requested, HandlerReturns, AdvanceStep, At
<1>2. ASSUME ReserveDestRow(m) PROVE TypeInv'
  BY <1>2 DEF ReserveDestRow, Effect, At
<1>3. ASSUME ReserveDestReturns(m) PROVE TypeInv'
  BY <1>3 DEF ReserveDestReturns, HandlerReturns, AdvanceStep, At
<1>4. ASSUME BlockPgWrites(m) PROVE TypeInv'
  BY <1>4 DEF BlockPgWrites, Effect, At
<1>5. ASSUME BlockKvWrites(m) PROVE TypeInv'
  BY <1>5 DEF BlockKvWrites, Effect, At
<1>6. ASSUME BlockWritesReturns(m) PROVE TypeInv'
  BY <1>6 DEF BlockWritesReturns, HandlerReturns, AdvanceStep, At
<1>7. ASSUME DumpData(m) PROVE TypeInv'
  BY <1>7 DEF DumpData, Effect, At
<1>8. ASSUME DumpDataReturns(m) PROVE TypeInv'
  BY <1>8 DEF DumpDataReturns, HandlerReturns, AdvanceStep, At
<1>9. ASSUME RestoreData(m) PROVE TypeInv'
  BY <1>9 DEF RestoreData, Effect, At
<1>10. ASSUME RestoreDataReturns(m) PROVE TypeInv'
  BY <1>10 DEF RestoreDataReturns, HandlerReturns, AdvanceStep, At
<1>11. ASSUME DumpKv(m) PROVE TypeInv'
  BY <1>11 DEF DumpKv, Effect, At
<1>12. ASSUME DumpKvReturns(m) PROVE TypeInv'
  BY <1>12 DEF DumpKvReturns, HandlerReturns, AdvanceStep, At
<1>13. ASSUME AssertDestKvEmpty(m) PROVE TypeInv'
  BY <1>13 DEF AssertDestKvEmpty, Effect, At
<1>14. ASSUME NEW k \in KvWrites, RestoreKvRecord(m, k) PROVE TypeInv'
  BY <1>14 DEF RestoreKvRecord, At
<1>15. ASSUME FlipKvCredentials(m) PROVE TypeInv'
  BY <1>15 DEF FlipKvCredentials, Effect, At
<1>16. ASSUME RestoreKvReturns(m) PROVE TypeInv'
  BY <1>16 DEF RestoreKvReturns, HandlerReturns, AdvanceStep, At
<1>17. ASSUME CopyBlobs(m) PROVE TypeInv'
  BY <1>17 DEF CopyBlobs, HandlerReturns, AdvanceStep, At
<1>18. ASSUME CopyRuntimeRow(m) PROVE TypeInv'
  BY <1>18 DEF CopyRuntimeRow, Effect, At
<1>19. ASSUME TagRuntimeRow(m) PROVE TypeInv'
  BY <1>19 DEF TagRuntimeRow, Effect, At
<1>20. ASSUME CopyRuntimeReturns(m) PROVE TypeInv'
  BY <1>20 DEF CopyRuntimeReturns, HandlerReturns, AdvanceStep, At
<1>21. ASSUME FlipPrepares(m) PROVE TypeInv'
  BY <1>21 DEF FlipPrepares, Effect, CutoverPrepares, At
<1>22. ASSUME FlipCommits(m) PROVE TypeInv'
  BY <1>22 DEF FlipCommits, Effect, CutoverCommits, At
<1>23. ASSUME FlipAlreadyDone(m) PROVE TypeInv'
  BY <1>23 DEF FlipAlreadyDone, At, CutoverDone
<1>24. ASSUME FlipEdge(m) PROVE TypeInv'
  BY <1>24 DEF FlipEdge, Effect, At
<1>25. ASSUME FlipReturns(m) PROVE TypeInv'
  BY <1>25 DEF FlipReturns, HandlerReturns, AdvanceStep, At
<1>26. ASSUME NEW state \in {"none", "replicating"}, SetUpReplicationReturns(m, state)
       PROVE  TypeInv'
  BY <1>26 DEF SetUpReplicationReturns, HandlerReturns, AdvanceStep, At
<1>27. ASSUME UnblockPgWrites(m) PROVE TypeInv'
  BY <1>27 DEF UnblockPgWrites, Effect, At
<1>28. ASSUME NEW c \in SUBSET Regions, UnblockKvWrites(m, c) PROVE TypeInv'
  BY <1>28 DEF UnblockKvWrites, Effect, ClearKvBlocks, At
<1>29. ASSUME UnblockReturns(m) PROVE TypeInv'
  BY <1>29 DEF UnblockReturns, At, MarkTerminal
<1>30. ASSUME NEW ok \in BOOLEAN, AbortDropsRow(m, ok) PROVE TypeInv'
  BY <1>30 DEF AbortDropsRow, Effect, At
<1>31. ASSUME NEW ok \in BOOLEAN, AbortDropsDb(m, ok) PROVE TypeInv'
  <2>1. pg' \in [Regions -> SUBSET PgWrites]
    BY <1>31 DEF AbortDropsDb
  <2> QED BY <1>31, <2>1 DEF AbortDropsDb, Effect, At
<1>32. ASSUME NEW ok \in BOOLEAN, AbortUnblocksPg(m, ok) PROVE TypeInv'
  BY <1>32 DEF AbortUnblocksPg, Effect, At
<1>33. ASSUME NEW c \in SUBSET Regions, AbortUnblocksKv(m, c) PROVE TypeInv'
  BY <1>33 DEF AbortUnblocksKv, Effect, ClearKvBlocks, At
<1>34. ASSUME AbortReturns(m) PROVE TypeInv'
  BY <1>34 DEF AbortReturns, At, MarkTerminal
<1> QED
  BY <1>1, <1>2, <1>3, <1>4, <1>5, <1>6, <1>7, <1>8, <1>9, <1>10, <1>11, <1>12,
     <1>13, <1>14, <1>15, <1>16, <1>17, <1>18, <1>19, <1>20, <1>21, <1>22,
     <1>23, <1>24, <1>25, <1>26, <1>27, <1>28, <1>29, <1>30, <1>31, <1>32,
     <1>33, <1>34 DEF HandlerStep

(* So do the rest of a tick, the routes and a process death.               *)
LEMMA TypeControl ==
  ASSUME TypeInv,
         \/ \E m \in Migrations : ClaimRow(m) \/ ExhaustRetries(m) \/ HandlerThrows(m)
         \/ RouteStep
         \/ ProcessDies
  PROVE  TypeInv'
<1> USE RetriesAssumption, StoresAssumption, DriverAssumption
    DEF TypeInv, TypeOK, RowTypeOK, StoresTypeOK, HeldHasRetries, AppStatus, Steps,
        ActiveSteps, AUTO_ABORTABLE_STEPS, TerminalSteps, PostFlipSteps, rowVars,
        storeVars, routeVars, rowsVars, pgVars, kvVars, rtVars, clientVars, driverVars,
        envVars
<1>1. ASSUME NEW m \in Migrations, ClaimRow(m) PROVE TypeInv'
  BY <1>1 DEF ClaimRow
<1>2. ASSUME NEW m \in Migrations, ExhaustRetries(m) PROVE TypeInv'
  BY <1>2 DEF ExhaustRetries, AdvanceStep
<1>3. ASSUME NEW m \in Migrations, HandlerThrows(m) PROVE TypeInv'
  BY <1>3 DEF HandlerThrows, Release, MayThrow, RecordError
<1>4. ASSUME NEW m \in Migrations, NEW to \in Regions, RequestMove(m, to) PROVE TypeInv'
  BY <1>4 DEF RequestMove, CreateMigration
<1>5. ASSUME NEW m \in Migrations, AbortRouteReads(m) PROVE TypeInv'
  BY <1>5 DEF AbortRouteReads
<1>6. ASSUME NEW m \in Migrations, AbortRouteWrites(m) PROVE TypeInv'
  BY <1>6 DEF AbortRouteWrites, MarkTerminal
<1>7. ASSUME ProcessDies PROVE TypeInv'
  BY <1>7 DEF ProcessDies, Release
<1> QED
  BY <1>1, <1>2, <1>3, <1>4, <1>5, <1>6, <1>7 DEF RouteStep

(* And the clients.                                                        *)
LEMMA TypeClient == ASSUME TypeInv, ClientStep PROVE TypeInv'
<1> USE RetriesAssumption, StoresAssumption, DriverAssumption
    DEF TypeInv, TypeOK, RowTypeOK, StoresTypeOK, HeldHasRetries, AppStatus, Steps,
        ActiveSteps, AUTO_ABORTABLE_STEPS, TerminalSteps, PostFlipSteps, rowVars,
        storeVars, routeVars, rowsVars, pgVars, kvVars, rtVars, clientVars, driverVars,
        envVars
<1>0. UNCHANGED <<rowVars, driverVars, envVars>>
  BY DEF ClientStep
<1>1. ASSUME NEW w \in PgWrites, PassGuard(w) PROVE TypeInv'
  BY <1>1, <1>0 DEF PassGuard, GuardStatus, StatusAfterLookup
<1>2. ASSUME NEW w \in PgWrites, RefuseWrite(w) PROVE TypeInv'
  BY <1>2, <1>0 DEF RefuseWrite, GuardStatus
<1>3. ASSUME NEW w \in PgWrites, LandPgWrite(w, BehindDump(writeAt[w])) PROVE TypeInv'
  BY <1>3, <1>0 DEF LandPgWrite
<1>4. ASSUME NEW k \in KvWrites, PassKvSentinel(k) PROVE TypeInv'
  BY <1>4, <1>0 DEF PassKvSentinel
<1>5. ASSUME NEW k \in KvWrites, LandKvWrite(k) PROVE TypeInv'
  BY <1>5, <1>0 DEF LandKvWrite
<1>6. ASSUME NEW r \in Regions, StatusCacheExpires(r) PROVE TypeInv'
  BY <1>6, <1>0 DEF StatusCacheExpires
<1>7. ASSUME NEW r \in Regions, KvBlockExpires(r) PROVE TypeInv'
  BY <1>7, <1>0 DEF KvBlockExpires
<1>8. ASSUME RuntimeWrite PROVE TypeInv'
  BY <1>8, <1>0 DEF RuntimeWrite
<1>9. ASSUME NEW value \in PauseStates, SetPaused(value) PROVE TypeInv'
  BY <1>9, <1>0 DEF SetPaused
<1> QED
  BY <1>1, <1>2, <1>3, <1>4, <1>5, <1>6, <1>7, <1>8, <1>9 DEF ClientStep

(* Every step keeps the types.                                             *)
LEMMA TypeStep == TypeInv /\ [Next]_vars => TypeInv'
<1> SUFFICES ASSUME TypeInv, [Next]_vars PROVE TypeInv'
  OBVIOUS
<1>1. CASE DriverStep
  BY <1>1, TypeHandler, TypeControl DEF DriverStep
<1>2. CASE RouteStep \/ ProcessDies
  BY <1>2, TypeControl
<1>3. CASE ClientStep
  BY <1>3, TypeClient
<1>4. CASE UNCHANGED vars
  BY <1>4 DEF vars, TypeInv, TypeOK, RowTypeOK, StoresTypeOK, HeldHasRetries, rowVars,
     storeVars, routeVars, rowsVars, pgVars, kvVars, rtVars, clientVars, driverVars, envVars
<1> QED
  BY <1>1, <1>2, <1>3, <1>4 DEF Next

(* No step of the driver, the routes or a client takes a variable of the   *)
(* saga out of its type; in particular no row has more retries than the    *)
(* executor allows.                                                        *)
THEOREM TypeCorrect == Spec => []TypeOK
<1>1. TypeInv => TypeOK
  BY DEF TypeInv
<1> QED
  BY <1>1, TypeInit, TypeStep, PTL DEF Spec

---------------------------------------------------------------------------
(* Safety.                                                                 *)

(* Nothing is under way at first and the app serves from its only row.     *)
LEMMA SafeInit == Init => SafeInv
<1> SUFFICES ASSUME Init PROVE SafeInv
  OBVIOUS
<1>1. \A m \in Migrations : step[m] = "absent"
  BY DEF Init, RowInit
<1>2. HomeServes /\ PauseSurvivesCutover
  BY RegionsAssumption DEF Init, StoresInit, HomeServes, PauseSurvivesCutover
<1>3. held = NoRow /\ indexLock = "free"
  BY DEF Init, StoresInit
<1> QED
  BY <1>1, <1>2, <1>3
  DEF SafeInv, OneActiveMove, SourceIsHome, HeldIsActive, EndsDiffer, LockIsHeld,
      FlipProgress, PastFlip, KvMoved, KvStepsDone, ReplicationRetries, Active,
      ActiveSteps, AUTO_ABORTABLE_STEPS, PostFlipSteps

(* One effect, or the return, of a step handler keeps the move safe.       *)
LEMMA SafeHandler ==
  ASSUME TypeInv, SafeInv, NEW m \in Migrations, HandlerStep(m) PROVE SafeInv'
<1> USE RetriesAssumption, DriverAssumption
    DEF SafeInv, OneActiveMove, SourceIsHome, HomeServes, PauseSurvivesCutover,
        HeldIsActive, EndsDiffer, LockIsHeld, FlipProgress, PastFlip, KvMoved, KvStepsDone,
        ReplicationRetries, Active, TypeInv, TypeOK, RowTypeOK, StoresTypeOK,
        HeldHasRetries, ActiveSteps, AUTO_ABORTABLE_STEPS, TerminalSteps, PostFlipSteps,
        rowVars, storeVars, routeVars, rowsVars, pgVars, kvVars, rtVars, clientVars,
        driverVars, envVars
<1>1. ASSUME Requested(m) PROVE SafeInv'
  BY <1>1 DEF Requested, HandlerReturns, AdvanceStep, At
<1>2. ASSUME ReserveDestRow(m) PROVE SafeInv'
  BY <1>2 DEF ReserveDestRow, Effect, At
<1>3. ASSUME ReserveDestReturns(m) PROVE SafeInv'
  BY <1>3 DEF ReserveDestReturns, HandlerReturns, AdvanceStep, At
<1>4. ASSUME BlockPgWrites(m) PROVE SafeInv'
  BY <1>4 DEF BlockPgWrites, Effect, At
<1>5. ASSUME BlockKvWrites(m) PROVE SafeInv'
  BY <1>5 DEF BlockKvWrites, Effect, At
<1>6. ASSUME BlockWritesReturns(m) PROVE SafeInv'
  BY <1>6 DEF BlockWritesReturns, HandlerReturns, AdvanceStep, At
<1>7. ASSUME DumpData(m) PROVE SafeInv'
  BY <1>7 DEF DumpData, Effect, At
<1>8. ASSUME DumpDataReturns(m) PROVE SafeInv'
  BY <1>8 DEF DumpDataReturns, HandlerReturns, AdvanceStep, At
<1>9. ASSUME RestoreData(m) PROVE SafeInv'
  BY <1>9 DEF RestoreData, Effect, At
<1>10. ASSUME RestoreDataReturns(m) PROVE SafeInv'
  BY <1>10 DEF RestoreDataReturns, HandlerReturns, AdvanceStep, At
<1>11. ASSUME DumpKv(m) PROVE SafeInv'
  BY <1>11 DEF DumpKv, Effect, At
<1>12. ASSUME DumpKvReturns(m) PROVE SafeInv'
  BY <1>12 DEF DumpKvReturns, HandlerReturns, AdvanceStep, At
<1>13. ASSUME AssertDestKvEmpty(m) PROVE SafeInv'
  BY <1>13 DEF AssertDestKvEmpty, Effect, At
<1>14. ASSUME NEW k \in KvWrites, RestoreKvRecord(m, k) PROVE SafeInv'
  BY <1>14 DEF RestoreKvRecord, At
<1>15. ASSUME FlipKvCredentials(m) PROVE SafeInv'
  BY <1>15 DEF FlipKvCredentials, Effect, At
<1>16. ASSUME RestoreKvReturns(m) PROVE SafeInv'
  BY <1>16 DEF RestoreKvReturns, HandlerReturns, AdvanceStep, At
<1>17. ASSUME CopyBlobs(m) PROVE SafeInv'
  BY <1>17 DEF CopyBlobs, HandlerReturns, AdvanceStep, At
<1>18. ASSUME CopyRuntimeRow(m) PROVE SafeInv'
  BY <1>18 DEF CopyRuntimeRow, Effect, At
<1>19. ASSUME TagRuntimeRow(m) PROVE SafeInv'
  BY <1>19 DEF TagRuntimeRow, Effect, At
<1>20. ASSUME CopyRuntimeReturns(m) PROVE SafeInv'
  BY <1>20 DEF CopyRuntimeReturns, HandlerReturns, AdvanceStep, At
<1>21. ASSUME FlipPrepares(m) PROVE SafeInv'
  BY <1>21 DEF FlipPrepares, Effect, CutoverPrepares, At
<1>22. ASSUME FlipCommits(m) PROVE SafeInv'
  BY <1>22 DEF FlipCommits, Effect, CutoverCommits, At
<1>23. ASSUME FlipAlreadyDone(m) PROVE SafeInv'
  BY <1>23 DEF FlipAlreadyDone, At, CutoverDone
<1>24. ASSUME FlipEdge(m) PROVE SafeInv'
  BY <1>24 DEF FlipEdge, Effect, At
<1>25. ASSUME FlipReturns(m) PROVE SafeInv'
  BY <1>25 DEF FlipReturns, HandlerReturns, AdvanceStep, At
<1>26. ASSUME NEW state \in {"none", "replicating"}, SetUpReplicationReturns(m, state)
       PROVE  SafeInv'
  BY <1>26 DEF SetUpReplicationReturns, HandlerReturns, AdvanceStep, At
<1>27. ASSUME UnblockPgWrites(m) PROVE SafeInv'
  BY <1>27 DEF UnblockPgWrites, Effect, At
<1>28. ASSUME NEW c \in SUBSET Regions, UnblockKvWrites(m, c) PROVE SafeInv'
  BY <1>28 DEF UnblockKvWrites, Effect, ClearKvBlocks, At
<1>29. ASSUME UnblockReturns(m) PROVE SafeInv'
  BY <1>29 DEF UnblockReturns, At, MarkTerminal
<1>30. ASSUME NEW ok \in BOOLEAN, AbortDropsRow(m, ok) PROVE SafeInv'
  BY <1>30 DEF AbortDropsRow, Effect, At
<1>31. ASSUME NEW ok \in BOOLEAN, AbortDropsDb(m, ok) PROVE SafeInv'
  BY <1>31 DEF AbortDropsDb, Effect, At
<1>32. ASSUME NEW ok \in BOOLEAN, AbortUnblocksPg(m, ok) PROVE SafeInv'
  BY <1>32 DEF AbortUnblocksPg, Effect, At
<1>33. ASSUME NEW c \in SUBSET Regions, AbortUnblocksKv(m, c) PROVE SafeInv'
  BY <1>33 DEF AbortUnblocksKv, Effect, ClearKvBlocks, At
<1>34. ASSUME AbortReturns(m) PROVE SafeInv'
  BY <1>34 DEF AbortReturns, At, MarkTerminal
<1> QED
  BY <1>1, <1>2, <1>3, <1>4, <1>5, <1>6, <1>7, <1>8, <1>9, <1>10, <1>11, <1>12,
     <1>13, <1>14, <1>15, <1>16, <1>17, <1>18, <1>19, <1>20, <1>21, <1>22,
     <1>23, <1>24, <1>25, <1>26, <1>27, <1>28, <1>29, <1>30, <1>31, <1>32,
     <1>33, <1>34 DEF HandlerStep

(* So do the rest of a tick, the routes and a process death.               *)
LEMMA SafeControl ==
  ASSUME TypeInv, SafeInv,
         \/ \E m \in Migrations : ClaimRow(m) \/ ExhaustRetries(m) \/ HandlerThrows(m)
         \/ RouteStep
         \/ ProcessDies
  PROVE  SafeInv'
<1> USE RetriesAssumption, DriverAssumption
    DEF SafeInv, OneActiveMove, SourceIsHome, HomeServes, PauseSurvivesCutover,
        HeldIsActive, EndsDiffer, LockIsHeld, FlipProgress, PastFlip, KvMoved, KvStepsDone,
        ReplicationRetries, Active, TypeInv, TypeOK, RowTypeOK, StoresTypeOK,
        HeldHasRetries, ActiveSteps, AUTO_ABORTABLE_STEPS, TerminalSteps, PostFlipSteps,
        rowVars, storeVars, routeVars, rowsVars, pgVars, kvVars, rtVars, clientVars,
        driverVars, envVars
<1>1. ASSUME NEW m \in Migrations, ClaimRow(m) PROVE SafeInv'
  BY <1>1 DEF ClaimRow
<1>2. ASSUME NEW m \in Migrations, ExhaustRetries(m) PROVE SafeInv'
  BY <1>2 DEF ExhaustRetries, AdvanceStep
<1>3. ASSUME NEW m \in Migrations, HandlerThrows(m) PROVE SafeInv'
  BY <1>3 DEF HandlerThrows, Release, MayThrow, RecordError
<1>4. ASSUME NEW m \in Migrations, NEW to \in Regions, RequestMove(m, to) PROVE SafeInv'
  BY <1>4 DEF RequestMove, CreateMigration
<1>5. ASSUME NEW m \in Migrations, AbortRouteReads(m) PROVE SafeInv'
  BY <1>5 DEF AbortRouteReads
<1>6. ASSUME NEW m \in Migrations, AbortRouteWrites(m) PROVE SafeInv'
  BY <1>6 DEF AbortRouteWrites, MarkTerminal
<1>7. ASSUME ProcessDies PROVE SafeInv'
  BY <1>7 DEF ProcessDies, Release
<1> QED
  BY <1>1, <1>2, <1>3, <1>4, <1>5, <1>6, <1>7 DEF RouteStep

(* And the clients, of whom only the owner's pause request and a landing   *)
(* KV write touch what SafeInv speaks of.                                  *)
LEMMA SafeClient == ASSUME TypeInv, SafeInv, ClientStep PROVE SafeInv'
<1> USE RetriesAssumption, DriverAssumption
    DEF SafeInv, OneActiveMove, SourceIsHome, HomeServes, PauseSurvivesCutover,
        HeldIsActive, EndsDiffer, LockIsHeld, FlipProgress, PastFlip, KvMoved, KvStepsDone,
        ReplicationRetries, Active, TypeInv, TypeOK, RowTypeOK, StoresTypeOK,
        HeldHasRetries, ActiveSteps, AUTO_ABORTABLE_STEPS, TerminalSteps, PostFlipSteps,
        rowVars, storeVars, routeVars, rowsVars, pgVars, kvVars, rtVars, clientVars,
        driverVars, envVars
<1>0. UNCHANGED <<rowVars, driverVars, envVars>>
  BY DEF ClientStep
<1>1. ASSUME NEW w \in PgWrites, PassGuard(w) PROVE SafeInv'
  BY <1>1, <1>0 DEF PassGuard, GuardStatus, StatusAfterLookup
<1>2. ASSUME NEW w \in PgWrites, RefuseWrite(w) PROVE SafeInv'
  BY <1>2, <1>0 DEF RefuseWrite, GuardStatus
<1>3. ASSUME NEW w \in PgWrites, LandPgWrite(w, BehindDump(writeAt[w])) PROVE SafeInv'
  BY <1>3, <1>0 DEF LandPgWrite
<1>4. ASSUME NEW k \in KvWrites, PassKvSentinel(k) PROVE SafeInv'
  BY <1>4, <1>0 DEF PassKvSentinel
<1>5. ASSUME NEW k \in KvWrites, LandKvWrite(k) PROVE SafeInv'
  BY <1>5, <1>0 DEF LandKvWrite
<1>6. ASSUME NEW r \in Regions, StatusCacheExpires(r) PROVE SafeInv'
  BY <1>6, <1>0 DEF StatusCacheExpires
<1>7. ASSUME NEW r \in Regions, KvBlockExpires(r) PROVE SafeInv'
  BY <1>7, <1>0 DEF KvBlockExpires
<1>8. ASSUME RuntimeWrite PROVE SafeInv'
  BY <1>8, <1>0 DEF RuntimeWrite
<1>9. ASSUME NEW value \in PauseStates, SetPaused(value) PROVE SafeInv'
  BY <1>9, <1>0 DEF SetPaused
<1> QED
  BY <1>1, <1>2, <1>3, <1>4, <1>5, <1>6, <1>7, <1>8, <1>9 DEF ClientStep

(* Every step keeps the move safe.                                         *)
LEMMA SafeStep == TypeInv /\ SafeInv /\ [Next]_vars => SafeInv'
<1> SUFFICES ASSUME TypeInv, SafeInv, [Next]_vars PROVE SafeInv'
  OBVIOUS
<1>1. CASE DriverStep
  BY <1>1, SafeHandler, SafeControl DEF DriverStep
<1>2. CASE RouteStep \/ ProcessDies
  BY <1>2, SafeControl
<1>3. CASE ClientStep
  BY <1>3, SafeClient
<1>4. CASE UNCHANGED vars
  BY <1>4 DEF vars, SafeInv, OneActiveMove, SourceIsHome, HomeServes,
     PauseSurvivesCutover, HeldIsActive, EndsDiffer, LockIsHeld, FlipProgress, PastFlip,
     KvMoved, ReplicationRetries, Active, rowVars, storeVars, routeVars, rowsVars, pgVars,
     kvVars, rtVars, clientVars, driverVars, envVars
<1> QED
  BY <1>1, <1>2, <1>3, <1>4 DEF Next

(* Only the executor marks a row failed.                                   *)
LEMMA HandlersNeverFail ==
  ASSUME TypeInv, NEW n \in Migrations, HandlerStep(n), NEW m \in Migrations,
         step'[m] = "failed"
  PROVE  step[m] = "failed"
  BY DEF HandlerStep, Requested, ReserveDestRow, ReserveDestReturns, BlockPgWrites,
     BlockKvWrites, BlockWritesReturns, DumpData, DumpDataReturns, RestoreData,
     RestoreDataReturns, DumpKv, DumpKvReturns, AssertDestKvEmpty, RestoreKvRecord,
     FlipKvCredentials, RestoreKvReturns, CopyBlobs, CopyRuntimeRow, TagRuntimeRow,
     CopyRuntimeReturns, FlipPrepares, FlipCommits, FlipAlreadyDone, FlipEdge, FlipReturns,
     SetUpReplicationReturns, UnblockPgWrites, UnblockKvWrites, UnblockReturns,
     AbortDropsRow, AbortDropsDb, AbortUnblocksPg, AbortUnblocksKv, AbortReturns, Effect,
     HandlerReturns, AdvanceStep, MarkTerminal, TypeInv, TypeOK, RowTypeOK, rowVars

LEMMA SafeAlways == Spec => [](TypeInv /\ SafeInv)
  BY TypeInit, SafeInit, TypeStep, SafeStep, PTL DEF Spec

(* There is at most one active migration row of an app, whatever the       *)
(* routes do with one that is being aborted (createMigration, move.ts).    *)
THEOREM OneMoveAtATime == Spec => []OneActiveMove
<1>1. SafeInv => OneActiveMove
  BY DEF SafeInv
<1> QED
  BY <1>1, SafeAlways, PTL

(* Up to the cutover and during compensation the source is the home        *)
(* (step-flip-routing.ts, compensation.ts).                                *)
THEOREM HomeIsSafe == Spec => []SourceIsHome
<1>1. SafeInv => SourceIsHome
  BY DEF SafeInv
<1> QED
  BY <1>1, SafeAlways, PTL

(* The home always has an apps row that requests can be served from, in    *)
(* spite of the rows a move reserves and drops (step-reserve-dest.ts,      *)
(* step-abort.ts).                                                         *)
THEOREM HomeAlwaysServes == Spec => []HomeServes
<1>1. SafeInv => HomeServes
  BY DEF SafeInv
<1> QED
  BY <1>1, SafeAlways, PTL

(* Past flipping_routing all three routing authorities name the            *)
(* destination, and its KV scope holds the whole dump.                     *)
THEOREM CutoverIsComplete == Spec => []CutoverComplete
<1>1. SafeInv => CutoverComplete
  BY DEF SafeInv, PastFlip, KvMoved, KvStepsDone, CutoverComplete
<1> QED
  BY <1>1, SafeAlways, PTL

(* A pause acknowledged at any moment of a move survives the cutover.      *)
THEOREM PauseIsKept == Spec => []PauseSurvivesCutover
<1>1. SafeInv => PauseSurvivesCutover
  BY DEF SafeInv
<1> QED
  BY <1>1, SafeAlways, PTL

(* The executor never marks a move failed at the replication step.         *)
THEOREM ReplicationGivesUpFirst == Spec => ReplicationNeverStrands
<1>1. TypeInv /\ SafeInv /\ [Next]_vars =>
        [\A m \in Migrations :
           step[m] = "setting_up_reverse_replication" => step'[m] # "failed"]_vars
  <2> SUFFICES ASSUME TypeInv, SafeInv, [Next]_vars, NEW m \in Migrations,
                      step[m] = "setting_up_reverse_replication", step'[m] = "failed"
               PROVE  FALSE
    OBVIOUS
  <2> USE DEF TypeInv, TypeOK, RowTypeOK
  <2>1. retry[m] < MaxReplicationTries /\ MaxReplicationTries <= MaxRetries
    BY RetriesAssumption DEF SafeInv, ReplicationRetries
  <2>2. ASSUME NEW n \in Migrations, HandlerStep(n) PROVE FALSE
    BY <2>2, HandlersNeverFail
  <2>3. ASSUME NEW n \in Migrations, ExhaustRetries(n) PROVE FALSE
    BY <2>1, <2>3, RetriesAssumption
    DEF ExhaustRetries, AdvanceStep, AUTO_ABORTABLE_STEPS
  <2>4. ASSUME NEW n \in Migrations, ClaimRow(n) \/ HandlerThrows(n) PROVE FALSE
    BY <2>4 DEF ClaimRow, HandlerThrows, RecordError, rowVars
  <2>5. CASE RouteStep
    BY <2>5 DEF RouteStep, RequestMove, CreateMigration, AbortRouteReads, AbortRouteWrites,
       MarkTerminal, rowVars
  <2>6. CASE ClientStep \/ ProcessDies \/ UNCHANGED vars
    BY <2>6 DEF ClientStep, ProcessDies, vars, rowVars
  <2> QED
    BY <2>2, <2>3, <2>4, <2>5, <2>6 DEF Next, DriverStep
<1> QED
  BY <1>1, SafeAlways, PTL DEF Spec, ReplicationNeverStrands

===========================================================================

----------------------- MODULE MoveRefinesHomeProofs -----------------------
(***************************************************************************)
(* The forward saga implements AppHome, for any values of the constants.   *)
(*                                                                         *)
(* DataInv follows the promised writes through a move: they are in the     *)
(* home's database, in the dump once it is taken, and in the destination's *)
(* database once the dump is restored there, so that the cutover may       *)
(* switch.  It rests on TypeInv and SafeInv of MoveSagaProofs.             *)
(***************************************************************************)
EXTENDS MoveRefinesHome, MoveSagaProofs

(* A write is only late once it is acknowledged.                           *)
LateAcked == \A w \in late : writeAt[w] = "acked"

(* A dump taken from the home has every promised write: one that lands     *)
(* after it is late.                                                       *)
DumpPromises ==
  \A m \in Migrations :
    Active(m) /\ home = src[m] /\ pgDump[m] # None => Promised \subseteq pgDump[m]

AfterRestore ==
  {"dumping_kv", "restoring_kv", "copying_blobs", "copying_runtime", "flipping_routing"}

DumpTaken ==
  \A m \in Migrations :
    \/ step[m] \in {"restoring_data"} \cup AfterRestore
    \/ held = m /\ step[m] = "dumping_data" /\ pc = 1
    => pgDump[m] # None

RestoreDone ==
  \A m \in Migrations :
    /\ home = src[m]
    /\ \/ step[m] \in AfterRestore
       \/ held = m /\ step[m] = "restoring_data" /\ pc = 1
    => Promised \subseteq pg[dst[m]]

NotDumpedYet == \A m \in Migrations : step[m] = "absent" => pgDump[m] = None

DataInv ==
  /\ LateAcked /\ OnlyLateWritesLost /\ DumpPromises /\ DumpTaken /\ RestoreDone
  /\ NotDumpedYet

---------------------------------------------------------------------------
(* No promised write is lost.                                              *)

(* Nothing is promised at first.                                           *)
LEMMA DataInit == Init => DataInv
<1> SUFFICES ASSUME Init PROVE DataInv
  OBVIOUS
<1>1. \A m \in Migrations : step[m] = "absent" /\ pgDump[m] = None
  BY DEF Init, RowInit, StoresInit
<1>2. late = {} /\ Promised = {} /\ \A w \in PgWrites : writeAt[w] # "acked"
  BY DEF Init, StoresInit, Promised
<1> QED
  BY <1>1, <1>2
  DEF DataInv, LateAcked, OnlyLateWritesLost, DumpPromises, DumpTaken, RestoreDone,
      NotDumpedYet, AfterRestore, Active, ActiveSteps, AUTO_ABORTABLE_STEPS, PostFlipSteps

(* One effect, or the return, of a step handler keeps the promises.        *)
LEMMA DataHandler ==
  ASSUME TypeInv, SafeInv, DataInv, NEW m \in Migrations, HandlerStep(m) PROVE DataInv'
<1> USE RetriesAssumption, StoresAssumption, DriverAssumption
    DEF DataInv, LateAcked, OnlyLateWritesLost, DumpPromises, DumpTaken, RestoreDone,
        NotDumpedYet, AfterRestore, Promised, SafeInv, OneActiveMove, SourceIsHome,
        HeldIsActive, EndsDiffer, FlipProgress, PastFlip, Active, TypeInv, TypeOK,
        RowTypeOK, StoresTypeOK, ActiveSteps, AUTO_ABORTABLE_STEPS, TerminalSteps,
        PostFlipSteps, rowVars, storeVars, routeVars, rowsVars, pgVars, kvVars, rtVars,
        clientVars, driverVars, envVars
<1>1. ASSUME Requested(m) PROVE DataInv'
  BY <1>1 DEF Requested, HandlerReturns, AdvanceStep, At
<1>2. ASSUME ReserveDestRow(m) PROVE DataInv'
  BY <1>2 DEF ReserveDestRow, Effect, At
<1>3. ASSUME ReserveDestReturns(m) PROVE DataInv'
  BY <1>3 DEF ReserveDestReturns, HandlerReturns, AdvanceStep, At
<1>4. ASSUME BlockPgWrites(m) PROVE DataInv'
  BY <1>4 DEF BlockPgWrites, Effect, At
<1>5. ASSUME BlockKvWrites(m) PROVE DataInv'
  BY <1>5 DEF BlockKvWrites, Effect, At
<1>6. ASSUME BlockWritesReturns(m) PROVE DataInv'
  BY <1>6 DEF BlockWritesReturns, HandlerReturns, AdvanceStep, At
<1>7. ASSUME DumpData(m) PROVE DataInv'
  BY <1>7 DEF DumpData, Effect, At
<1>8. ASSUME DumpDataReturns(m) PROVE DataInv'
  BY <1>8 DEF DumpDataReturns, HandlerReturns, AdvanceStep, At
<1>9. ASSUME RestoreData(m) PROVE DataInv'
  BY <1>9 DEF RestoreData, Effect, At
<1>10. ASSUME RestoreDataReturns(m) PROVE DataInv'
  BY <1>10 DEF RestoreDataReturns, HandlerReturns, AdvanceStep, At
<1>11. ASSUME DumpKv(m) PROVE DataInv'
  BY <1>11 DEF DumpKv, Effect, At
<1>12. ASSUME DumpKvReturns(m) PROVE DataInv'
  BY <1>12 DEF DumpKvReturns, HandlerReturns, AdvanceStep, At
<1>13. ASSUME AssertDestKvEmpty(m) PROVE DataInv'
  BY <1>13 DEF AssertDestKvEmpty, Effect, At
<1>14. ASSUME NEW k \in KvWrites, RestoreKvRecord(m, k) PROVE DataInv'
  BY <1>14 DEF RestoreKvRecord, At
<1>15. ASSUME FlipKvCredentials(m) PROVE DataInv'
  BY <1>15 DEF FlipKvCredentials, Effect, At
<1>16. ASSUME RestoreKvReturns(m) PROVE DataInv'
  BY <1>16 DEF RestoreKvReturns, HandlerReturns, AdvanceStep, At
<1>17. ASSUME CopyBlobs(m) PROVE DataInv'
  BY <1>17 DEF CopyBlobs, HandlerReturns, AdvanceStep, At
<1>18. ASSUME CopyRuntimeRow(m) PROVE DataInv'
  BY <1>18 DEF CopyRuntimeRow, Effect, At
<1>19. ASSUME TagRuntimeRow(m) PROVE DataInv'
  BY <1>19 DEF TagRuntimeRow, Effect, At
<1>20. ASSUME CopyRuntimeReturns(m) PROVE DataInv'
  BY <1>20 DEF CopyRuntimeReturns, HandlerReturns, AdvanceStep, At
<1>21. ASSUME FlipPrepares(m) PROVE DataInv'
  BY <1>21 DEF FlipPrepares, Effect, CutoverPrepares, At
<1>22. ASSUME FlipCommits(m) PROVE DataInv'
  BY <1>22 DEF FlipCommits, Effect, CutoverCommits, At
<1>23. ASSUME FlipAlreadyDone(m) PROVE DataInv'
  BY <1>23 DEF FlipAlreadyDone, At, CutoverDone
<1>24. ASSUME FlipEdge(m) PROVE DataInv'
  BY <1>24 DEF FlipEdge, Effect, At
<1>25. ASSUME FlipReturns(m) PROVE DataInv'
  BY <1>25 DEF FlipReturns, HandlerReturns, AdvanceStep, At
<1>26. ASSUME NEW state \in {"none", "replicating"}, SetUpReplicationReturns(m, state)
       PROVE  DataInv'
  BY <1>26 DEF SetUpReplicationReturns, HandlerReturns, AdvanceStep, At
<1>27. ASSUME UnblockPgWrites(m) PROVE DataInv'
  BY <1>27 DEF UnblockPgWrites, Effect, At
<1>28. ASSUME NEW c \in SUBSET Regions, UnblockKvWrites(m, c) PROVE DataInv'
  BY <1>28 DEF UnblockKvWrites, Effect, ClearKvBlocks, At
<1>29. ASSUME UnblockReturns(m) PROVE DataInv'
  BY <1>29 DEF UnblockReturns, At, MarkTerminal
<1>30. ASSUME NEW ok \in BOOLEAN, AbortDropsRow(m, ok) PROVE DataInv'
  BY <1>30 DEF AbortDropsRow, Effect, At
<1>31. ASSUME NEW ok \in BOOLEAN, AbortDropsDb(m, ok) PROVE DataInv'
  BY <1>31 DEF AbortDropsDb, Effect, At
<1>32. ASSUME NEW ok \in BOOLEAN, AbortUnblocksPg(m, ok) PROVE DataInv'
  BY <1>32 DEF AbortUnblocksPg, Effect, At
<1>33. ASSUME NEW c \in SUBSET Regions, AbortUnblocksKv(m, c) PROVE DataInv'
  BY <1>33 DEF AbortUnblocksKv, Effect, ClearKvBlocks, At
<1>34. ASSUME AbortReturns(m) PROVE DataInv'
  BY <1>34 DEF AbortReturns, At, MarkTerminal
<1> HIDE DEF DataInv
<1> QED
  BY <1>1, <1>2, <1>3, <1>4, <1>5, <1>6, <1>7, <1>8, <1>9, <1>10, <1>11, <1>12,
     <1>13, <1>14, <1>15, <1>16, <1>17, <1>18, <1>19, <1>20, <1>21, <1>22,
     <1>23, <1>24, <1>25, <1>26, <1>27, <1>28, <1>29, <1>30, <1>31, <1>32,
     <1>33, <1>34 DEF HandlerStep

(* So do the rest of a tick, the routes and a process death.               *)
LEMMA DataControl ==
  ASSUME TypeInv, SafeInv, DataInv,
         \/ \E m \in Migrations : ClaimRow(m) \/ ExhaustRetries(m) \/ HandlerThrows(m)
         \/ RouteStep
         \/ ProcessDies
  PROVE  DataInv'
<1> USE RetriesAssumption, StoresAssumption, DriverAssumption
    DEF DataInv, LateAcked, OnlyLateWritesLost, DumpPromises, DumpTaken, RestoreDone,
        NotDumpedYet, AfterRestore, Promised, SafeInv, OneActiveMove, SourceIsHome,
        HeldIsActive, EndsDiffer, FlipProgress, PastFlip, Active, TypeInv, TypeOK,
        RowTypeOK, StoresTypeOK, ActiveSteps, AUTO_ABORTABLE_STEPS, TerminalSteps,
        PostFlipSteps, rowVars, storeVars, routeVars, rowsVars, pgVars, kvVars, rtVars,
        clientVars, driverVars, envVars
<1>1. ASSUME NEW m \in Migrations, ClaimRow(m) PROVE DataInv'
  BY <1>1 DEF ClaimRow
<1>2. ASSUME NEW m \in Migrations, ExhaustRetries(m) PROVE DataInv'
  BY <1>2 DEF ExhaustRetries, AdvanceStep
<1>3. ASSUME NEW m \in Migrations, HandlerThrows(m) PROVE DataInv'
  BY <1>3 DEF HandlerThrows, Release, MayThrow, RecordError
<1>4. ASSUME NEW m \in Migrations, NEW to \in Regions, RequestMove(m, to) PROVE DataInv'
  BY <1>4 DEF RequestMove, CreateMigration
<1>5. ASSUME NEW m \in Migrations, AbortRouteReads(m) PROVE DataInv'
  BY <1>5 DEF AbortRouteReads
<1>6. ASSUME NEW m \in Migrations, AbortRouteWrites(m) PROVE DataInv'
  BY <1>6 DEF AbortRouteWrites, MarkTerminal
<1>7. ASSUME ProcessDies PROVE DataInv'
  BY <1>7 DEF ProcessDies, Release
<1> QED
  BY <1>1, <1>2, <1>3, <1>4, <1>5, <1>6, <1>7 DEF RouteStep

(* And the clients: a write that is promised when it lands finds no dump.  *)
LEMMA DataClient == ASSUME TypeInv, SafeInv, DataInv, ClientStep PROVE DataInv'
<1> USE RetriesAssumption, StoresAssumption, DriverAssumption
    DEF DataInv, LateAcked, OnlyLateWritesLost, DumpPromises, DumpTaken, RestoreDone,
        NotDumpedYet, AfterRestore, Promised, SafeInv, OneActiveMove, SourceIsHome,
        HeldIsActive, EndsDiffer, FlipProgress, PastFlip, Active, TypeInv, TypeOK,
        RowTypeOK, StoresTypeOK, ActiveSteps, AUTO_ABORTABLE_STEPS, TerminalSteps,
        PostFlipSteps, rowVars, storeVars, routeVars, rowsVars, pgVars, kvVars, rtVars,
        clientVars, driverVars, envVars
<1>0. UNCHANGED <<rowVars, driverVars, envVars>>
  BY DEF ClientStep
<1>1. ASSUME NEW w \in PgWrites, PassGuard(w) PROVE DataInv'
  BY <1>1, <1>0 DEF PassGuard, GuardStatus, StatusAfterLookup
<1>2. ASSUME NEW w \in PgWrites, RefuseWrite(w) PROVE DataInv'
  BY <1>2, <1>0 DEF RefuseWrite, GuardStatus
<1>3. ASSUME NEW w \in PgWrites, LandPgWrite(w, BehindDump(writeAt[w])) PROVE DataInv'
  BY <1>3, <1>0 DEF LandPgWrite, BehindDump
<1>4. ASSUME NEW k \in KvWrites, PassKvSentinel(k) PROVE DataInv'
  BY <1>4, <1>0 DEF PassKvSentinel
<1>5. ASSUME NEW k \in KvWrites, LandKvWrite(k) PROVE DataInv'
  BY <1>5, <1>0 DEF LandKvWrite
<1>6. ASSUME NEW r \in Regions, StatusCacheExpires(r) PROVE DataInv'
  BY <1>6, <1>0 DEF StatusCacheExpires
<1>7. ASSUME NEW r \in Regions, KvBlockExpires(r) PROVE DataInv'
  BY <1>7, <1>0 DEF KvBlockExpires
<1>8. ASSUME RuntimeWrite PROVE DataInv'
  BY <1>8, <1>0 DEF RuntimeWrite
<1>9. ASSUME NEW value \in PauseStates, SetPaused(value) PROVE DataInv'
  BY <1>9, <1>0 DEF SetPaused
<1> QED
  BY <1>1, <1>2, <1>3, <1>4, <1>5, <1>6, <1>7, <1>8, <1>9 DEF ClientStep

(* Every step keeps the promises.                                          *)
LEMMA DataStep == TypeInv /\ SafeInv /\ DataInv /\ [Next]_vars => DataInv'
<1> SUFFICES ASSUME TypeInv, SafeInv, DataInv, [Next]_vars PROVE DataInv'
  OBVIOUS
<1>1. CASE DriverStep
  BY <1>1, DataHandler, DataControl DEF DriverStep
<1>2. CASE RouteStep \/ ProcessDies
  BY <1>2, DataControl
<1>3. CASE ClientStep
  BY <1>3, DataClient
<1>4. CASE UNCHANGED vars
  BY <1>4 DEF vars, DataInv, LateAcked, OnlyLateWritesLost, DumpPromises, DumpTaken,
     RestoreDone, NotDumpedYet, Promised, Active, rowVars, storeVars, routeVars, rowsVars,
     pgVars, kvVars, rtVars, clientVars, driverVars, envVars
<1> QED
  BY <1>1, <1>2, <1>3, <1>4 DEF Next

LEMMA DataAlways == Spec => [](TypeInv /\ SafeInv /\ DataInv)
  BY DataInit, DataStep, SafeAlways, PTL DEF Spec

(* Whatever throws, crashes, is retried or aborted, the home has every     *)
(* acknowledged tenant write that did not land behind a dump.              *)
THEOREM NoPromisedWriteIsLost == Spec => []OnlyLateWritesLost
<1>1. DataInv => OnlyLateWritesLost
  BY DEF DataInv
<1> QED
  BY <1>1, DataAlways, PTL

---------------------------------------------------------------------------
(* Every step is a step of AppHome or none.                                *)

(* The attempt in progress is the active row, whichever CHOOSE would take. *)
LEMMA AttemptIs ==
  ASSUME OneActiveMove, NEW m \in Migrations, Active(m)
  PROVE  Attempt = <<src[m], dst[m]>>
<1> DEFINE it == CHOOSE n \in Migrations : Active(n)
<1>1. it \in Migrations /\ Active(it)
  OBVIOUS
<1>2. it = m
  BY <1>1 DEF OneActiveMove, Active
<1> QED
  BY <1>2 DEF Attempt

LEMMA AttemptIsNext ==
  ASSUME OneActiveMove', NEW m \in Migrations, step'[m] \in ActiveSteps
  PROVE  Attempt' = <<src'[m], dst'[m]>>
<1> DEFINE it == CHOOSE n \in Migrations : step'[n] \in ActiveSteps
<1>1. it \in Migrations /\ step'[it] \in ActiveSteps
  OBVIOUS
<1>2. it = m
  BY <1>1 DEF OneActiveMove, Active
<1> QED
  BY <1>2 DEF Attempt, Active

(* A step that neither moves, starts or ends an attempt nor touches what   *)
(* is stored and promised is none of AppHome's.                            *)
Quiet ==
  /\ UNCHANGED <<home, src, dst, writeAt, late>>
  /\ \A n \in Migrations : (step'[n] \in ActiveSteps) <=> Active(n)

LEMMA AttemptKept == OneActiveMove /\ OneActiveMove' /\ Quiet => Attempt' = Attempt
<1> SUFFICES ASSUME OneActiveMove, OneActiveMove', Quiet PROVE Attempt' = Attempt
  OBVIOUS
<1>1. CASE \E m \in Migrations : Active(m)
  <2>1. PICK m \in Migrations : Active(m)
    BY <1>1
  <2>2. Attempt = <<src[m], dst[m]>>
    BY <2>1, AttemptIs
  <2>3. step'[m] \in ActiveSteps
    BY <2>1 DEF Quiet
  <2>4. Attempt' = <<src'[m], dst'[m]>>
    BY <2>3, AttemptIsNext
  <2> QED BY <2>2, <2>4 DEF Quiet
<1>2. CASE ~ \E m \in Migrations : Active(m)
  <2>1. ~ \E m \in Migrations : step'[m] \in ActiveSteps
    BY <1>2 DEF Quiet
  <2> QED BY <1>2, <2>1 DEF Attempt, Active
<1> QED BY <1>1, <1>2

LEMMA QuietStutters ==
  OneActiveMove /\ OneActiveMove' /\ Quiet /\ pg' = pg => UNCHANGED Home!vars
  BY AttemptKept DEF Home!vars, Quiet, Promised

(* Stores that are filled, overwritten or deleted beside the home.         *)
LEMMA QuietReplicates ==
  ASSUME TypeInv, TypeInv', OneActiveMove, OneActiveMove', Quiet, pg[home] \subseteq pg'[home]
  PROVE  Home!Replicas
<1>1. Promised' = Promised
  BY DEF Quiet, Promised
<1>2. pg' \in [Regions -> SUBSET PgWrites]
  BY DEF TypeInv, TypeOK, StoresTypeOK
<1> QED
  BY <1>1, <1>2, AttemptKept DEF Home!Replicas, Quiet

(* An attempt ends when the active row does.                               *)
LEMMA EndingEnds ==
  ASSUME RowTypeOK, OneActiveMove, NEW m \in Migrations, Active(m),
         step'[m] \notin ActiveSteps,
         \A n \in Migrations \ {m} : (step'[n] \in ActiveSteps) <=> Active(n),
         UNCHANGED <<home, pg, writeAt, late>>
  PROVE  Home!End
<1>1. Attempt # NoMove
  BY AttemptIs, NoMoveAssumption DEF RowTypeOK
<1>2. Attempt' = NoMove
  BY DEF Attempt, OneActiveMove, Active
<1> QED
  BY <1>1, <1>2 DEF Home!End, Promised

(* All of a handler's effects and returns but five are quiet.              *)
LEMMA HandlerRefines ==
  ASSUME TypeInv, SafeInv, DataInv, TypeInv', SafeInv', NEW m \in Migrations,
         HandlerStep(m)
  PROVE  [Home!Next]_(Home!vars)
<1> USE DEF TypeInv, TypeOK, RowTypeOK, SafeInv
<1>1. CASE FlipCommits(m)
  <2>1. /\ held = m /\ step[m] = "flipping_routing" /\ pc = 1
        /\ home' = dst[m] /\ UNCHANGED <<pg, src, dst, step, writeAt, late>>
    BY <1>1 DEF FlipCommits, Effect, At, CutoverCommits, rowVars, pgVars, clientVars
  <2>2. Active(m) /\ step'[m] \in ActiveSteps
    BY <2>1 DEF Active, ActiveSteps
  <2>3. home = src[m]
    BY <2>1 DEF FlipProgress
  <2>4. Attempt = <<home, dst[m]>> /\ Attempt' = Attempt
    BY <2>1, <2>2, <2>3, AttemptIs, AttemptIsNext
  <2>5. Promised \subseteq pg[dst[m]] /\ Promised' = Promised
    BY <2>1, <2>3 DEF DataInv, RestoreDone, AfterRestore, Promised
  <2>6. Home!Switch(dst[m]) /\ dst[m] \in Regions
    BY <2>1, <2>4, <2>5 DEF Home!Switch
  <2> QED BY <2>6 DEF Home!Next
<1>2. CASE UnblockReturns(m) \/ AbortReturns(m)
  <2>1. /\ Active(m) /\ step'[m] \notin ActiveSteps
        /\ \A n \in Migrations \ {m} : (step'[n] \in ActiveSteps) <=> Active(n)
        /\ UNCHANGED <<home, pg, writeAt, late>>
    BY <1>2 DEF UnblockReturns, AbortReturns, At, MarkTerminal, Active, ActiveSteps,
       AUTO_ABORTABLE_STEPS, PostFlipSteps, storeVars, routeVars, pgVars, clientVars
  <2> QED BY <2>1, EndingEnds DEF Home!Next
<1>3. ASSUME RestoreData(m) \/ \E ok \in BOOLEAN : AbortDropsDb(m, ok)
      PROVE  Home!Replicas
  <2>1. dst[m] # home
    BY <1>3 DEF RestoreData, AbortDropsDb, Effect, At, SourceIsHome, AUTO_ABORTABLE_STEPS
  <2>2. Quiet
    BY <1>3 DEF RestoreData, AbortDropsDb, Effect, Quiet, Active, rowVars, routeVars,
       clientVars
  <2>3. pg'[home] = pg[home]
    BY <1>3, <2>1 DEF RestoreData, AbortDropsDb, StoresTypeOK
  <2> QED BY <2>2, <2>3, QuietReplicates
<1>4. ASSUME HandlerStep(m), ~ FlipCommits(m), ~ UnblockReturns(m), ~ AbortReturns(m),
             ~ RestoreData(m), ~ \E ok \in BOOLEAN : AbortDropsDb(m, ok)
      PROVE  Quiet /\ pg' = pg
  <2> USE DEF Quiet, Active, At, rowVars, storeVars, routeVars, rowsVars, pgVars, kvVars,
              clientVars
  <2>1. ASSUME \/ Requested(m) \/ ReserveDestReturns(m) \/ BlockWritesReturns(m)
               \/ DumpDataReturns(m) \/ RestoreDataReturns(m) \/ DumpKvReturns(m)
               \/ RestoreKvReturns(m) \/ CopyBlobs(m) \/ CopyRuntimeReturns(m)
               \/ FlipReturns(m)
               \/ \E state \in {"none", "replicating"} : SetUpReplicationReturns(m, state)
        PROVE  Quiet /\ pg' = pg
    BY <2>1 DEF Requested, ReserveDestReturns, BlockWritesReturns, DumpDataReturns,
       RestoreDataReturns, DumpKvReturns, RestoreKvReturns, CopyBlobs, CopyRuntimeReturns,
       FlipReturns, SetUpReplicationReturns, HandlerReturns, AdvanceStep, ActiveSteps,
       AUTO_ABORTABLE_STEPS, PostFlipSteps
  <2>2. ASSUME \/ ReserveDestRow(m) \/ BlockPgWrites(m) \/ BlockKvWrites(m) \/ DumpData(m)
               \/ DumpKv(m) \/ AssertDestKvEmpty(m)
               \/ (\E k \in KvWrites : RestoreKvRecord(m, k)) \/ FlipKvCredentials(m)
        PROVE  Quiet /\ pg' = pg
    BY <2>2 DEF ReserveDestRow, BlockPgWrites, BlockKvWrites, DumpData, DumpKv,
       AssertDestKvEmpty, RestoreKvRecord, FlipKvCredentials, Effect
  <2>3. ASSUME \/ CopyRuntimeRow(m) \/ TagRuntimeRow(m) \/ FlipPrepares(m)
               \/ FlipAlreadyDone(m) \/ FlipEdge(m)
        PROVE  Quiet /\ pg' = pg
    BY <2>3 DEF CopyRuntimeRow, TagRuntimeRow, FlipPrepares, FlipAlreadyDone, FlipEdge,
       CutoverPrepares, Effect
  <2>4. ASSUME \/ UnblockPgWrites(m) \/ (\E c \in SUBSET Regions : UnblockKvWrites(m, c))
               \/ (\E ok \in BOOLEAN : AbortDropsRow(m, ok) \/ AbortUnblocksPg(m, ok))
               \/ (\E c \in SUBSET Regions : AbortUnblocksKv(m, c))
        PROVE  Quiet /\ pg' = pg
    BY <2>4 DEF UnblockPgWrites, UnblockKvWrites, AbortDropsRow, AbortUnblocksPg,
       AbortUnblocksKv, ClearKvBlocks, Effect
  <2> HIDE DEF Quiet
  <2> QED BY <1>4, <2>1, <2>2, <2>3, <2>4 DEF HandlerStep
<1> QED
  BY <1>1, <1>2, <1>3, <1>4, QuietStutters DEF Home!Next

(* A move begins with its row and ends with it.                            *)
LEMMA ControlRefines ==
  ASSUME TypeInv, SafeInv, TypeInv', SafeInv',
         \/ \E m \in Migrations : ClaimRow(m) \/ ExhaustRetries(m) \/ HandlerThrows(m)
         \/ RouteStep
         \/ ProcessDies
  PROVE  [Home!Next]_(Home!vars)
<1> USE DEF TypeInv, TypeOK, RowTypeOK, SafeInv
<1>1. ASSUME NEW m \in Migrations, NEW to \in Regions, RequestMove(m, to)
      PROVE  Home!Begin(to)
  <2>1. /\ to # home /\ UNCHANGED <<home, pg, writeAt, late>>
        /\ \A n \in Migrations : ~ Active(n)
        /\ step' = [step EXCEPT ![m] = "requested"]
        /\ src' = [src EXCEPT ![m] = home] /\ dst' = [dst EXCEPT ![m] = to]
    BY <1>1 DEF RequestMove, CreateMigration, storeVars, routeVars, pgVars, clientVars
  <2>2. Attempt = NoMove
    BY <2>1 DEF Attempt
  <2>3. Attempt' = <<home, to>>
    BY <2>1, AttemptIsNext DEF ActiveSteps, AUTO_ABORTABLE_STEPS
  <2> QED BY <2>1, <2>2, <2>3 DEF Home!Begin, Promised
<1>2. ASSUME NEW m \in Migrations, ExhaustRetries(m) \/ AbortRouteWrites(m)
      PROVE  [Home!Next]_(Home!vars)
  <2>1. /\ UNCHANGED <<home, pg, src, dst, writeAt, late>>
        /\ \A n \in Migrations \ {m} : step'[n] = step[n]
    BY <1>2 DEF ExhaustRetries, AdvanceStep, AbortRouteWrites, MarkTerminal, storeVars,
       routeVars, pgVars, clientVars
  <2>2. CASE Active(m) /\ step'[m] \notin ActiveSteps
    <3>0. \A n \in Migrations \ {m} : (step'[n] \in ActiveSteps) <=> Active(n)
      BY <2>1 DEF Active
    <3>1. Home!End
      BY <2>1, <2>2, <3>0, EndingEnds
    <3> QED BY <3>1 DEF Home!Next
  <2>3. CASE ~ (Active(m) /\ step'[m] \notin ActiveSteps)
    <3>1. (step'[m] \in ActiveSteps) <=> Active(m)
      BY <1>2, <2>3 DEF ExhaustRetries, AdvanceStep, AbortRouteWrites, MarkTerminal,
         Active, ActiveSteps, AUTO_ABORTABLE_STEPS, PostFlipSteps
    <3>2. Quiet
      BY <2>1, <3>1 DEF Quiet, Active
    <3> QED BY <2>1, <3>2, QuietStutters
  <2> QED BY <2>2, <2>3
<1>3. ASSUME NEW m \in Migrations, ClaimRow(m) \/ HandlerThrows(m) \/ AbortRouteReads(m)
      PROVE  Quiet /\ pg' = pg
  BY <1>3 DEF Quiet, Active, ClaimRow, HandlerThrows, RecordError, AbortRouteReads,
     rowVars, storeVars, routeVars, pgVars, clientVars
<1>4. ASSUME ProcessDies PROVE Quiet /\ pg' = pg
  BY <1>4 DEF Quiet, Active, ProcessDies, rowVars, pgVars, clientVars
<1> QED
  BY <1>1, <1>2, <1>3, <1>4, QuietStutters DEF Home!Next, RouteStep

(* A write is promised when it is acknowledged at the home and no dump of  *)
(* an active move is behind it.                                            *)
LEMMA ClientRefines ==
  ASSUME TypeInv, SafeInv, DataInv, TypeInv', SafeInv', ClientStep
  PROVE  [Home!Next]_(Home!vars)
<1> USE StoresAssumption DEF TypeInv, TypeOK, StoresTypeOK, SafeInv
<1>0. UNCHANGED <<step, src, dst>>
  BY DEF ClientStep, rowVars
<1>a. UNCHANGED home
  BY DEF ClientStep, PassGuard, RefuseWrite, LandPgWrite, PassKvSentinel, LandKvWrite,
     StatusCacheExpires, KvBlockExpires, RuntimeWrite, SetPaused, routeVars
<1>b. Attempt' = Attempt
  BY <1>0 DEF Attempt, Active
<1>1. ASSUME NEW w \in PgWrites, LandPgWrite(w, BehindDump(writeAt[w]))
      PROVE  Home!Promise(w) \/ Home!Replicas
  <2>1. /\ writeAt[w] \in Regions /\ w \notin late
        /\ writeAt' = [writeAt EXCEPT ![w] = "acked"]
        /\ pg' = [pg EXCEPT ![writeAt[w]] = @ \cup {w}]
        /\ late' = IF BehindDump(writeAt[w]) THEN late \cup {w} ELSE late
    BY <1>1 DEF LandPgWrite, DataInv, LateAcked
  <2>2. CASE BehindDump(writeAt[w])
    <3>1. Promised' = Promised
      BY <2>1, <2>2 DEF Promised
    <3>2. pg' \in [Regions -> SUBSET PgWrites] /\ pg[home] \subseteq pg'[home]
      BY <2>1
    <3> QED BY <1>a, <1>b, <3>1, <3>2 DEF Home!Replicas
  <2>3. CASE ~ BehindDump(writeAt[w])
    <3>1. writeAt[w] = home
      BY <2>3 DEF BehindDump
    <3>2. Promised' = Promised \cup {w}
      BY <2>1, <2>3 DEF Promised
    <3> QED BY <1>a, <1>b, <2>1, <3>1, <3>2 DEF Home!Promise
  <2> QED BY <2>2, <2>3
<1>2. ASSUME ~ \E w \in PgWrites : LandPgWrite(w, BehindDump(writeAt[w]))
      PROVE  Promised' = Promised /\ pg' = pg
  BY <1>2 DEF ClientStep, PassGuard, RefuseWrite, PassKvSentinel, LandKvWrite,
     StatusCacheExpires, KvBlockExpires, RuntimeWrite, SetPaused, Promised, pgVars,
     clientVars
<1> QED
  BY <1>a, <1>b, <1>1, <1>2 DEF Home!Next, Home!vars

(* Every behaviour of the saga is one of AppHome: under any interleaving   *)
(* of ticks, failures, crashes, aborts and writes the app has one home,    *)
(* which switches once per attempt, to a region that holds every promised  *)
(* write.                                                                  *)
THEOREM SagaImplementsAppHome == Spec => MoveImplementsAppHome
<1>1. Init => Home!Init
  BY DEF Init, RowInit, StoresInit, Home!Init, Attempt, Active, ActiveSteps,
     AUTO_ABORTABLE_STEPS, PostFlipSteps, Promised
<1>2. /\ TypeInv /\ SafeInv /\ DataInv /\ TypeInv' /\ SafeInv'
      /\ [Next]_vars
      => [Home!Next]_(Home!vars)
  <2> SUFFICES ASSUME TypeInv, SafeInv, DataInv, TypeInv', SafeInv', [Next]_vars
               PROVE  [Home!Next]_(Home!vars)
    OBVIOUS
  <2>1. CASE DriverStep
    BY <2>1, HandlerRefines, ControlRefines DEF DriverStep
  <2>2. CASE RouteStep \/ ProcessDies
    BY <2>2, ControlRefines
  <2>3. CASE ClientStep
    BY <2>3, ClientRefines
  <2>4. CASE UNCHANGED vars
    BY <2>4 DEF vars, Home!vars, Attempt, Active, Promised, rowVars, storeVars, routeVars,
       pgVars, clientVars
  <2> QED BY <2>1, <2>2, <2>3, <2>4 DEF Next
<1> QED
  BY <1>1, <1>2, DataAlways, PTL DEF Spec, Home!Spec, MoveImplementsAppHome

===========================================================================

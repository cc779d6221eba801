------------------------- MODULE ReverseMoveProofs -------------------------
(***************************************************************************)
(* Proofs about sagas, fast and slow reverses and teardowns together, for  *)
(* any regions, migrations, writes, retry bounds and number of crashes.    *)
(*                                                                         *)
(* The saga and the fast reverse both cut over, and the routes may end any *)
(* row meanwhile.  What keeps the home on its way is the org_app_index row *)
(* lock: whoever holds it is between the two effects of its own cutover,   *)
(* and found the home at its source when it took the lock.                 *)
(***************************************************************************)
EXTENDS ReverseMove, MoveSagaProofs

(* The driver is between the two effects of its cutover.                   *)
AtCutover == held # NoRow /\ step[held] = "flipping_routing" /\ pc = 1

ReverseTypes ==
  /\ revPc \in 0 .. 11
  /\ revOf \in Migrations \cup {NoRow} /\ revRow \in Migrations \cup {NoRow}
  /\ revDump \subseteq KvWrites
  /\ promoted \subseteq Migrations

(* The row of a fast reverse goes back along the move it reverses.         *)
ReverseRow ==
  revPc # 0 =>
    /\ revOf \in Migrations /\ step[revOf] # "absent"
    /\ revRow \in Migrations /\ step[revRow] # "absent"
    /\ src[revRow] = dst[revOf] /\ dst[revRow] = src[revOf]

(* The lock says who cuts over, and from where.                            *)
CutoverLock ==
  /\ indexLock = "driver" <=> AtCutover
  /\ indexLock = "reverse" <=> revPc = 8
  /\ AtCutover => home = src[held]
  /\ revPc = 8 => home = src[revRow]

(* What the inductive invariant is made of.                                *)
AllTypes == TypeInv /\ ReverseTypes

RowAndLock == HeldIsActive /\ ReverseRow /\ CutoverLock

ReverseInv == AllTypes /\ RowAndLock

---------------------------------------------------------------------------
(* The saga's own steps.                                                   *)

(* A handler works on the held row, neither creates nor redirects a        *)
(* migration, and leaves its row only by letting go of it.                 *)
LEMMA HandlerRow ==
  ASSUME TypeInv, NEW m \in Migrations, HandlerStep(m)
  PROVE  /\ held = m
         /\ UNCHANGED <<src, dst>>
         /\ \A n \in Migrations \ {m} : step'[n] = step[n]
         /\ step[m] # "absent" /\ step'[m] # "absent"
         /\ held' = NoRow \/ (held' = held /\ step' = step)
  BY DEF HandlerStep, Requested, ReserveDestRow, ReserveDestReturns, BlockPgWrites,
     BlockKvWrites, BlockWritesReturns, DumpData, DumpDataReturns, RestoreData,
     RestoreDataReturns, DumpKv, DumpKvReturns, AssertDestKvEmpty, RestoreKvRecord,
     FlipKvCredentials, RestoreKvReturns, CopyBlobs, CopyRuntimeRow, TagRuntimeRow,
     CopyRuntimeReturns, FlipPrepares, FlipCommits, FlipAlreadyDone, FlipEdge,
     FlipReturns, SetUpReplicationReturns, UnblockPgWrites, UnblockKvWrites,
     UnblockReturns, AbortDropsRow, AbortDropsDb, AbortUnblocksPg, AbortUnblocksKv,
     AbortReturns, Effect, At, HandlerReturns, AdvanceStep, MarkTerminal, TypeInv,
     TypeOK, RowTypeOK, rowVars, driverVars

(* Only the two effects of a cutover touch the home and its lock.          *)
LEMMA HandlerCut ==
  ASSUME TypeInv, NEW m \in Migrations, HandlerStep(m)
  PROVE  \/ FlipPrepares(m)
         \/ FlipCommits(m)
         \/ ~ AtCutover /\ ~ AtCutover' /\ UNCHANGED <<home, indexLock>>
  BY DriverAssumption DEF HandlerStep, Requested, ReserveDestRow, ReserveDestReturns,
     BlockPgWrites, BlockKvWrites, BlockWritesReturns, DumpData, DumpDataReturns,
     RestoreData, RestoreDataReturns, DumpKv, DumpKvReturns, AssertDestKvEmpty,
     RestoreKvRecord, FlipKvCredentials, RestoreKvReturns, CopyBlobs, CopyRuntimeRow,
     TagRuntimeRow, CopyRuntimeReturns, FlipAlreadyDone, FlipEdge, FlipReturns,
     SetUpReplicationReturns, UnblockPgWrites, UnblockKvWrites, UnblockReturns,
     AbortDropsRow, AbortDropsDb, AbortUnblocksPg, AbortUnblocksKv, AbortReturns,
     Effect, At, HandlerReturns, AdvanceStep, MarkTerminal, TypeInv, TypeOK, RowTypeOK,
     rowVars, driverVars, routeVars, storeVars, AtCutover

(* Whoever runs the saga, the fast reverse keeps its row, its way back and *)
(* its lock.                                                               *)
LEMMA SagaKeeps ==
  ASSUME ReverseInv, Next, UNCHANGED reverseVars PROVE ReverseInv'
<1> USE DEF ReverseInv, AllTypes, RowAndLock, ReverseTypes, ReverseRow, reverseVars
<1>1. TypeInv'
  BY TypeStep
<1>2. ASSUME NEW m \in Migrations, HandlerStep(m) PROVE ReverseInv'
  <2>1. HeldIsActive' /\ ReverseTypes' /\ ReverseRow'
    BY <1>2, HandlerRow DEF HeldIsActive, Active
  <2>2. CutoverLock'
    <3>1. CASE FlipPrepares(m)
      BY <3>1, <1>2, DriverAssumption DEF CutoverLock, AtCutover, FlipPrepares, Effect,
         At, CutoverPrepares, rowVars
    <3>2. CASE FlipCommits(m)
      BY <3>2, <1>2, DriverAssumption DEF CutoverLock, AtCutover, FlipCommits, Effect,
         At, CutoverCommits, rowVars
    <3>3. CASE ~ AtCutover /\ ~ AtCutover' /\ UNCHANGED <<home, indexLock>>
      <4>1. UNCHANGED src
        BY <1>2, HandlerRow
      <4> QED BY <3>3, <4>1 DEF CutoverLock
    <3> QED BY <1>2, <3>1, <3>2, <3>3, HandlerCut
  <2> QED BY <1>1, <2>1, <2>2
<1> USE DriverAssumption
    DEF HeldIsActive, Active, CutoverLock, AtCutover, ActiveSteps, AUTO_ABORTABLE_STEPS,
        PostFlipSteps, TerminalSteps, TypeInv, TypeOK, RowTypeOK, rowVars, storeVars,
        routeVars, driverVars, envVars
<1>3. ASSUME NEW m \in Migrations, ClaimRow(m) PROVE ReverseInv'
  BY <1>1, <1>3 DEF ClaimRow
<1>4. ASSUME NEW m \in Migrations, ExhaustRetries(m) PROVE ReverseInv'
  BY <1>1, <1>4 DEF ExhaustRetries, AdvanceStep
<1>5. ASSUME NEW m \in Migrations, HandlerThrows(m) PROVE ReverseInv'
  BY <1>1, <1>5 DEF HandlerThrows, Release, RecordError
<1>6. ASSUME NEW m \in Migrations, NEW to \in Regions, RequestMove(m, to)
      PROVE  ReverseInv'
  BY <1>1, <1>6 DEF RequestMove, CreateMigration
<1>7. ASSUME NEW m \in Migrations, AbortRouteReads(m) PROVE ReverseInv'
  BY <1>1, <1>7 DEF AbortRouteReads
<1>8. ASSUME NEW m \in Migrations, AbortRouteWrites(m) PROVE ReverseInv'
  BY <1>1, <1>8 DEF AbortRouteWrites, MarkTerminal
<1>9. CASE ProcessDies
  BY <1>1, <1>9 DEF ProcessDies, Release
<1>10. CASE ClientStep
  <2>1. UNCHANGED <<home, indexLock, rowVars, driverVars>>
    BY <1>10 DEF ClientStep, PassGuard, RefuseWrite, LandPgWrite, PassKvSentinel,
       LandKvWrite, StatusCacheExpires, KvBlockExpires, RuntimeWrite, SetPaused
  <2> QED BY <1>1, <2>1
<1> QED
  BY <1>2, <1>3, <1>4, <1>5, <1>6, <1>7, <1>8, <1>9, <1>10 DEF Next, DriverStep,
     RouteStep

---------------------------------------------------------------------------
(* The steps of the reverse requests and of a teardown.                    *)

(* They keep the types.                                                    *)
LEMMA ReverseStepTypes ==
  ASSUME ReverseInv, ReverseStep PROVE AllTypes'
<1> USE RetriesAssumption, StoresAssumption, DriverAssumption
    DEF TypeInv, TypeOK, RowTypeOK, StoresTypeOK, HeldHasRetries, AppStatus, Steps,
        ActiveSteps, AUTO_ABORTABLE_STEPS, TerminalSteps, PostFlipSteps, rowVars,
        storeVars, routeVars, rowsVars, pgVars, kvVars, rtVars, clientVars, driverVars,
        envVars, ReverseInv, AllTypes, RowAndLock, ReverseTypes, ReverseRow
<1>1. ASSUME NEW f \in Migrations, NEW m \in Migrations, RequestFastReverse(f, m)
      PROVE  AllTypes'
  BY <1>1 DEF RequestFastReverse, CreateMigration
<1>2. ASSUME NEW f \in Migrations, NEW m \in Migrations, SlowReverseInserts(f, m)
      PROVE  AllTypes'
  BY <1>2 DEF SlowReverseInserts, SlowReverse, UntagRuntimeRow, reverseVars,
     CreateMigration
<1>3. ASSUME NEW f \in Migrations, SlowReverseRejected(f) PROVE AllTypes'
  BY <1>3 DEF SlowReverseRejected, SlowReverse, UntagRuntimeRow, reverseVars
<1>4. ASSUME NEW f \in Migrations, TeardownReplica(f) PROVE AllTypes'
  BY <1>4 DEF TeardownReplica
<1>5. ASSUME ReversePromotes PROVE AllTypes'
  BY <1>5 DEF ReversePromotes, Back, RevFrom, RevTo
<1>6. ASSUME ReverseDumpsKv PROVE AllTypes'
  BY <1>6 DEF ReverseDumpsKv, Back, RevFrom
<1>7. ASSUME ReverseBlocksWrites PROVE AllTypes'
  BY <1>7 DEF ReverseBlocksWrites, Back, RevFrom
<1>8. ASSUME ReverseClearsKv PROVE AllTypes'
  BY <1>8 DEF ReverseClearsKv, Back, RevTo
<1>9. ASSUME ReverseRestoresKv PROVE AllTypes'
  BY <1>9 DEF ReverseRestoresKv, Back, RevTo
<1>10. ASSUME ReverseFlipsKvCredentials PROVE AllTypes'
  BY <1>10 DEF ReverseFlipsKvCredentials, Back, RevTo
<1>11. ASSUME ReverseCutoverPrepares PROVE AllTypes'
  BY <1>11 DEF ReverseCutoverPrepares, Back, CutoverPrepares, RevFrom, RevTo
<1>12. ASSUME ReverseCutoverCommits PROVE AllTypes'
  BY <1>12 DEF ReverseCutoverCommits, Back, CutoverCommits, RevTo
<1>13. ASSUME ReverseCutoverAlreadyDone PROVE AllTypes'
  BY <1>13 DEF ReverseCutoverAlreadyDone, CutoverDone, RevTo, vars
<1>14. ASSUME ReverseFlipsEdge PROVE AllTypes'
  BY <1>14 DEF ReverseFlipsEdge, Back, RevTo
<1>15. ASSUME ReverseUntags PROVE AllTypes'
  BY <1>15 DEF ReverseUntags, Back, UntagRuntimeRow, RevTo
<1>16. ASSUME ReverseCompletes PROVE AllTypes'
  BY <1>16 DEF ReverseCompletes, MarkTerminal
<1>17. ASSUME ReverseFails PROVE AllTypes'
  BY <1>17 DEF ReverseFails
<1> QED
  BY <1>1, <1>2, <1>3, <1>4, <1>5, <1>6, <1>7, <1>8, <1>9, <1>10, <1>11, <1>12,
     <1>13, <1>14, <1>15, <1>16, <1>17 DEF ReverseStep

(* They let no row end under the driver, and a fast reverse cuts over from *)
(* where its own move went.                                                *)
LEMMA ReverseStepLock ==
  ASSUME ReverseInv, ReverseStep PROVE RowAndLock'
<1> USE RetriesAssumption, StoresAssumption, DriverAssumption
    DEF TypeInv, TypeOK, RowTypeOK, StoresTypeOK, HeldHasRetries, AppStatus, Steps,
        ActiveSteps, AUTO_ABORTABLE_STEPS, TerminalSteps, PostFlipSteps, rowVars,
        storeVars, routeVars, rowsVars, pgVars, kvVars, rtVars, clientVars, driverVars,
        envVars, ReverseInv, AllTypes, RowAndLock, ReverseTypes, ReverseRow,
        HeldIsActive, Active, CutoverLock, AtCutover
<1>1. ASSUME NEW f \in Migrations, NEW m \in Migrations, RequestFastReverse(f, m)
      PROVE  RowAndLock'
  BY <1>1 DEF RequestFastReverse, CreateMigration
<1>2. ASSUME NEW f \in Migrations, NEW m \in Migrations, SlowReverseInserts(f, m)
      PROVE  RowAndLock'
  BY <1>2 DEF SlowReverseInserts, SlowReverse, UntagRuntimeRow, reverseVars,
     CreateMigration
<1>3. ASSUME NEW f \in Migrations, SlowReverseRejected(f) PROVE RowAndLock'
  BY <1>3 DEF SlowReverseRejected, SlowReverse, UntagRuntimeRow, reverseVars
<1>4. ASSUME NEW f \in Migrations, TeardownReplica(f) PROVE RowAndLock'
  BY <1>4 DEF TeardownReplica
<1>5. ASSUME ReversePromotes PROVE RowAndLock'
  BY <1>5 DEF ReversePromotes, Back, RevFrom, RevTo
<1>6. ASSUME ReverseDumpsKv PROVE RowAndLock'
  BY <1>6 DEF ReverseDumpsKv, Back, RevFrom
<1>7. ASSUME ReverseBlocksWrites PROVE RowAndLock'
  BY <1>7 DEF ReverseBlocksWrites, Back, RevFrom
<1>8. ASSUME ReverseClearsKv PROVE RowAndLock'
  BY <1>8 DEF ReverseClearsKv, Back, RevTo
<1>9. ASSUME ReverseRestoresKv PROVE RowAndLock'
  BY <1>9 DEF ReverseRestoresKv, Back, RevTo
<1>10. ASSUME ReverseFlipsKvCredentials PROVE RowAndLock'
  BY <1>10 DEF ReverseFlipsKvCredentials, Back, RevTo
<1>11. ASSUME ReverseCutoverPrepares PROVE RowAndLock'
  BY <1>11 DEF ReverseCutoverPrepares, Back, CutoverPrepares, RevFrom, RevTo
<1>12. ASSUME ReverseCutoverCommits PROVE RowAndLock'
  BY <1>12 DEF ReverseCutoverCommits, Back, CutoverCommits, RevTo
<1>13. ASSUME ReverseCutoverAlreadyDone PROVE RowAndLock'
  BY <1>13 DEF ReverseCutoverAlreadyDone, CutoverDone, RevTo, vars
<1>14. ASSUME ReverseFlipsEdge PROVE RowAndLock'
  BY <1>14 DEF ReverseFlipsEdge, Back, RevTo
<1>15. ASSUME ReverseUntags PROVE RowAndLock'
  BY <1>15 DEF ReverseUntags, Back, UntagRuntimeRow, RevTo
<1>16. ASSUME ReverseCompletes PROVE RowAndLock'
  BY <1>16 DEF ReverseCompletes, MarkTerminal
<1>17. ASSUME ReverseFails PROVE RowAndLock'
  BY <1>17 DEF ReverseFails
<1> QED
  BY <1>1, <1>2, <1>3, <1>4, <1>5, <1>6, <1>7, <1>8, <1>9, <1>10, <1>11, <1>12,
     <1>13, <1>14, <1>15, <1>16, <1>17 DEF ReverseStep

---------------------------------------------------------------------------
(* The invariant: first nothing runs and the lock is free ...              *)
LEMMA ReverseInvInit == ReverseInit => ReverseInv
<1> SUFFICES ASSUME ReverseInit PROVE ReverseInv
  OBVIOUS
<1>1. TypeInv
  BY TypeInit DEF ReverseInit
<1>2. held = NoRow /\ indexLock = "free" /\ revPc = 0
  BY DEF ReverseInit, Init, StoresInit
<1> QED
  BY <1>1, <1>2 DEF ReverseInit, ReverseInv, AllTypes, RowAndLock, HeldIsActive,
     ReverseTypes, ReverseRow, CutoverLock, AtCutover

(* ... every step of either saga keeps it ...                              *)
LEMMA ReverseInvStep == ReverseInv /\ [ReverseNext]_allVars => ReverseInv'
<1> SUFFICES ASSUME ReverseInv, [ReverseNext]_allVars PROVE ReverseInv'
  OBVIOUS
<1>1. CASE Next /\ UNCHANGED reverseVars
  BY <1>1, SagaKeeps
<1>2. CASE ReverseStep
  BY <1>2, ReverseStepTypes, ReverseStepLock DEF ReverseInv
<1>3. CASE UNCHANGED allVars
  <2>1. UNCHANGED vars /\ UNCHANGED reverseVars
    BY <1>3 DEF allVars
  <2>2. TypeInv'
    BY <2>1, TypeStep DEF ReverseInv, AllTypes
  <2> QED
    BY <2>1, <2>2 DEF ReverseInv, AllTypes, RowAndLock, HeldIsActive, Active,
       ReverseTypes, ReverseRow, CutoverLock, AtCutover, vars, reverseVars, rowVars,
       storeVars, routeVars, driverVars
<1> QED
  BY <1>1, <1>2, <1>3 DEF ReverseNext

(* ... so it holds throughout.                                            *)
LEMMA ReverseInvAlways == ReverseSpec => []ReverseInv
  BY ReverseInvInit, ReverseInvStep, PTL DEF ReverseSpec

(* Sagas, reverses and teardowns together keep every variable in its type: *)
(* no row has more retries than the executor allows, no region is None.    *)
THEOREM ReverseTypeCorrect == ReverseSpec => []ReverseTypeOK
<1>1. ReverseInv => ReverseTypeOK
  BY DEF ReverseInv, AllTypes, TypeInv, ReverseTypes, ReverseTypeOK
<1> QED
  BY <1>1, ReverseInvAlways, PTL

---------------------------------------------------------------------------
(* What a step may never do.                                               *)

(* A row that ended stays ended, whoever ends it and in whatever order     *)
(* (saga-executor.ts, abort route, markCompleted of reverse-move.ts).      *)
THEOREM EndedRowsStay == ReverseSpec => TerminalIsFinal
<1>1. ReverseInv /\ [ReverseNext]_allVars =>
        [\A m \in Migrations :
           step[m] \in TerminalSteps => step'[m] \in TerminalSteps]_allVars
  <2> SUFFICES ASSUME ReverseInv, [ReverseNext]_allVars, NEW m \in Migrations,
                      step[m] \in TerminalSteps
               PROVE  step'[m] \in TerminalSteps
    OBVIOUS
  <2> USE DEF ReverseInv, AllTypes, RowAndLock, TypeInv, TypeOK, RowTypeOK,
              TerminalSteps
  <2>0. ~ Active(m) /\ held # m
    BY DriverAssumption DEF HeldIsActive, Active, ActiveSteps, AUTO_ABORTABLE_STEPS,
       PostFlipSteps
  <2>1. ASSUME NEW n \in Migrations, HandlerStep(n) PROVE step'[m] \in TerminalSteps
    BY <2>0, <2>1, HandlerRow
  <2>2. ASSUME NEW n \in Migrations,
               ClaimRow(n) \/ ExhaustRetries(n) \/ HandlerThrows(n)
        PROVE  step'[m] \in TerminalSteps
    BY <2>0, <2>2 DEF ClaimRow, ExhaustRetries, HandlerThrows, RecordError, AdvanceStep,
       rowVars
  <2>3. CASE RouteStep
    BY <2>3 DEF RouteStep, RequestMove, CreateMigration, AbortRouteReads,
       AbortRouteWrites, MarkTerminal, rowVars
  <2>4. CASE ClientStep \/ ProcessDies
    BY <2>4 DEF ClientStep, ProcessDies, rowVars
  <2>5. CASE ReverseStep
    BY <2>5 DEF ReverseStep, RequestFastReverse, SlowReverseInserts,
       SlowReverseRejected, TeardownReplica, CreateMigration, ReverseBlocksWrites,
       ReversePromotes, ReverseDumpsKv, ReverseClearsKv, ReverseRestoresKv,
       ReverseFlipsKvCredentials, ReverseCutoverPrepares, ReverseCutoverCommits,
       ReverseCutoverAlreadyDone, ReverseFlipsEdge, ReverseUntags, ReverseCompletes,
       ReverseFails, Back, MarkTerminal, vars, rowVars
  <2>6. CASE UNCHANGED allVars
    BY <2>6 DEF allVars, vars, rowVars
  <2> QED
    BY <2>1, <2>2, <2>3, <2>4, <2>5, <2>6 DEF ReverseNext, Next, DriverStep
<1> QED
  BY <1>1, ReverseInvAlways, PTL DEF ReverseSpec, TerminalIsFinal

(* Two cutovers, two sources, one lock: the home moves only from the       *)
(* source of a migration that is under way (cutover-app-state.ts,          *)
(* step-flip-routing.ts, reverse-move.ts).                                 *)
THEOREM HomeGoesFromItsSource == ReverseSpec => HomeMovesFromItsSource
<1>1. ReverseInv /\ [ReverseNext]_allVars =>
        [home' # home =>
           \E m \in Migrations : UnderWay(m) /\ src[m] = home /\ dst[m] = home']_allVars
  <2> SUFFICES ASSUME ReverseInv, [ReverseNext]_allVars, home' # home
               PROVE  \E m \in Migrations : UnderWay(m) /\ src[m] = home /\ dst[m] = home'
    OBVIOUS
  <2>1. ASSUME NEW m \in Migrations, HandlerStep(m)
        PROVE  UnderWay(m) /\ src[m] = home /\ dst[m] = home'
    <3>1. TypeInv /\ ~ FlipPrepares(m)
      BY DEF ReverseInv, AllTypes, FlipPrepares, CutoverPrepares
    <3>2. FlipCommits(m)
      BY <2>1, <3>1, HandlerCut
    <3>3. AtCutover /\ held = m
      BY <3>2, DriverAssumption DEF AtCutover, FlipCommits, Effect, At
    <3>4. src[m] = home /\ Active(m)
      BY <3>3, DriverAssumption DEF ReverseInv, RowAndLock, CutoverLock, HeldIsActive
    <3> QED BY <3>2, <3>4 DEF FlipCommits, CutoverCommits, UnderWay
  <2>2. CASE ReverseCutoverCommits
    <3>1. revPc = 8 /\ home' = src[revOf]
      BY <2>2 DEF ReverseCutoverCommits, Back, CutoverCommits, RevTo
    <3> QED
      BY <3>1 DEF ReverseInv, RowAndLock, ReverseRow, CutoverLock, UnderWay
  <2>3. ASSUME NEW m \in Migrations,
               ClaimRow(m) \/ ExhaustRetries(m) \/ HandlerThrows(m)
        PROVE  FALSE
    BY <2>3 DEF ClaimRow, ExhaustRetries, HandlerThrows, storeVars, routeVars
  <2>4. CASE RouteStep \/ ProcessDies
    BY <2>4 DEF RouteStep, RequestMove, AbortRouteReads, AbortRouteWrites, ProcessDies,
       storeVars, routeVars
  <2>5. CASE ClientStep
    BY <2>5 DEF ClientStep, PassGuard, RefuseWrite, LandPgWrite, PassKvSentinel,
       LandKvWrite, StatusCacheExpires, KvBlockExpires, RuntimeWrite, SetPaused,
       routeVars
  <2>6. CASE ReverseStep /\ ~ ReverseCutoverCommits
    BY <2>6 DEF ReverseStep, RequestFastReverse, SlowReverseInserts,
       SlowReverseRejected, SlowReverse, TeardownReplica, ReverseBlocksWrites,
       ReversePromotes, ReverseDumpsKv, ReverseClearsKv, ReverseRestoresKv,
       ReverseFlipsKvCredentials, ReverseCutoverPrepares, ReverseCutoverAlreadyDone,
       ReverseFlipsEdge, ReverseUntags, ReverseCompletes, ReverseFails, CutoverPrepares,
       vars, storeVars, routeVars
  <2>7. CASE UNCHANGED allVars
    BY <2>7 DEF allVars, vars, storeVars, routeVars
  <2> QED
    BY <2>1, <2>2, <2>3, <2>4, <2>5, <2>6, <2>7 DEF ReverseNext, Next, DriverStep
<1> QED
  BY <1>1, ReverseInvAlways, PTL DEF ReverseSpec, HomeMovesFromItsSource

===========================================================================

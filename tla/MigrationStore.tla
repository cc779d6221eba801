-------------------------- MODULE MigrationStore --------------------------
(***************************************************************************)
(* The control-plane table app_migrations, for one app: one row per        *)
(* attempt to move the app to another region.  Each action below is one    *)
(* SQL statement of migration-store.ts or saga-executor.ts; it says what   *)
(* happens to the row and leaves the regional stores to AppStores.         *)
(*                                                                         *)
(* Of the JSON column dest_resources only dest_app_id is kept: every other *)
(* marker is written by the very UPDATE that leaves the step which tests   *)
(* it, so no handler ever starts with its own marker set.                  *)
(***************************************************************************)
EXTENDS Naturals, FiniteSets

CONSTANTS
  Regions,              \* the regions with a runtime plane
  FirstHome,            \* the region the app is created in
  Migrations,           \* row ids, each used once
  MaxRetries,           \* MAX_RETRIES_PER_STEP (5 in the code)
  MaxReplicationTries   \* MAX_TRIES of step-reverse-replication (3 in the code)

ASSUME RegionsAssumption == FirstHome \in Regions

ASSUME RetriesAssumption ==
  /\ MaxRetries \in Nat \ {0}
  /\ MaxReplicationTries \in 1 .. MaxRetries

VARIABLES
  step,           \* current_step of each row; "absent": not inserted yet
  src, dst,       \* source_region, dest_region
  retry,          \* retry_count
  destReserved,   \* dest_resources.dest_app_id is set
  replica         \* source_replica_state

rowVars == <<step, src, dst, retry, destReserved, replica>>

---------------------------------------------------------------------------
(* Steps.                                                                  *)

AUTO_ABORTABLE_STEPS ==
  { "requested", "reserving_dest", "blocking_writes", "dumping_data",
    "restoring_data", "dumping_kv", "restoring_kv", "copying_blobs",
    "copying_runtime" }

PostFlipSteps == {"setting_up_reverse_replication", "unblocking_writes"}

TerminalSteps == {"completed", "aborted", "failed"}

ActiveSteps ==
  AUTO_ABORTABLE_STEPS \cup {"flipping_routing", "aborting"} \cup PostFlipSteps

Steps == ActiveSteps \cup TerminalSteps \cup {"absent"}

(* The abort route compares positions in its own copy of the happy path.   *)
(* Steps missing from that copy (dumping_kv, restoring_kv, aborting,       *)
(* aborted, failed) have position -1 and pass.                             *)
AbortRouteRefuses == {"flipping_routing", "completed"} \cup PostFlipSteps

Active(m) == step[m] \in ActiveSteps

---------------------------------------------------------------------------
(* Statements.                                                             *)

RowInit ==
  /\ step = [m \in Migrations |-> "absent"]
  /\ src = [m \in Migrations |-> FirstHome]
  /\ dst = [m \in Migrations |-> FirstHome]
  /\ retry = [m \in Migrations |-> 0]
  /\ destReserved = [m \in Migrations |-> FALSE]
  /\ replica = [m \in Migrations |-> "none"]

(* Mutant: the exclusion constraint is missing.                            *)
CreateMigrationUnchecked(m, from, to) ==
  /\ step[m] = "absent"
  /\ step' = [step EXCEPT ![m] = "requested"]
  /\ src' = [src EXCEPT ![m] = from]
  /\ dst' = [dst EXCEPT ![m] = to]
  /\ UNCHANGED <<retry, destReserved, replica>>

(* INSERT.  The exclusion constraint one_active_migration_per_app rejects  *)
(* a second row that is not terminal.                                      *)
CreateMigration(m, from, to) ==
  /\ step[m] = "absent"
  /\ \A n \in Migrations : ~ Active(n)
  /\ step' = [step EXCEPT ![m] = "requested"]
  /\ src' = [src EXCEPT ![m] = from]
  /\ dst' = [dst EXCEPT ![m] = to]
  /\ UNCHANGED <<retry, destReserved, replica>>

(* A handler returned "next": the executor moves the row and resets the    *)
(* retry counter.                                                          *)
AdvanceStep(m, next) ==
  /\ step' = [step EXCEPT ![m] = next]
  /\ retry' = [retry EXCEPT ![m] = 0]

(* Mutant: the error is recorded and the retry is not counted.             *)
RecordErrorUncounted(m) == UNCHANGED rowVars

(* A handler threw.                                                        *)
RecordError(m) ==
  /\ retry' = [retry EXCEPT ![m] = @ + 1]
  /\ UNCHANGED <<step, src, dst, destReserved, replica>>

(* markCompleted and markAborted update by id alone: the step the row has  *)
(* by then is not looked at.                                               *)
MarkTerminal(m, how) ==
  /\ step' = [step EXCEPT ![m] = how]
  /\ UNCHANGED <<src, dst, retry, destReserved, replica>>

---------------------------------------------------------------------------
RowTypeOK ==
  /\ step \in [Migrations -> Steps]
  /\ src \in [Migrations -> Regions] /\ dst \in [Migrations -> Regions]
  /\ retry \in [Migrations -> 0 .. MaxRetries]
  /\ destReserved \in [Migrations -> BOOLEAN]
  /\ replica \in [Migrations -> {"none", "replicating", "torn_down"}]

===========================================================================

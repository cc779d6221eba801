-------------------------- MODULE MCAppProvisioning --------------------------
(***************************************************************************)
(* Symmetry of the workers, and starts behind the request that created the *)
(* apps: either nobody will delete them and their tasks have every attempt *)
(* before them, or somebody may and the tasks are at their last attempt    *)
(* (those before it having thrown at once).                                *)
(***************************************************************************)
EXTENDS AppProvisioning, TLC

Symmetry == Permutations(Workers)

CreatedInit ==
  /\ task = [t \in Tasks |-> IF t.type = "provision" THEN "pending" ELSE "absent"]
  /\ \/ /\ route = [a \in Apps |-> "dead"]
        /\ attempts = [t \in Tasks |-> 0]
     \/ /\ route = [a \in Apps |-> "created"]
        /\ attempts = [t \in Tasks |-> IF t.type = "provision" THEN MaxAttempts - 1 ELSE 0]
  /\ overdue = {}
  /\ job = [w \in Workers |-> Resting]
  /\ crashes = 0 /\ lost = 0
  /\ row = [a \in Apps |-> "provisioning"]
  /\ indexed = Apps
  /\ conn = [a \in Apps |-> NoResource]
  /\ resources = {} /\ migrated = {} /\ aged = {}
  /\ made = [a \in Apps |-> 0]
  /\ sweep = NoSweep

CreatedSpec == CreatedInit /\ [][Next]_vars /\ Fairness

=============================================================================

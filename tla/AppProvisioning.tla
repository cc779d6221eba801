-------------------------- MODULE AppProvisioning --------------------------
(***************************************************************************)
(* The life of an app's database: the routes that create and delete an     *)
(* app (init.ts), the executors of its provision and deprovision tasks     *)
(* (neon-task-worker.ts) over the queue of NeonQueue, and the reconcilers  *)
(* that drop what nobody owns (neon-orphan-reconciler.ts in a shared Neon  *)
(* project, neon-tenant-reconciler.ts for one project per app).            *)
(*                                                                         *)
(* A resource is what Neon bills: a database of the shared project, or a   *)
(* project of its own.  Simplifications: one region; Neon deletes what it  *)
(* is told to; the reconcilers are enabled, do not run dry, and drop every *)
(* orphan they found; an execution ends within their grace period, so a    *)
(* resource passes it only while no worker executes a task of its app.     *)
(***************************************************************************)
EXTENDS NeonQueue

CONSTANTS
  Apps,
  PerTenant,      \* BUTTERBASE_PROJECT_PER_TENANT
  MaxMade,        \* bound on the resources made for an app
  MaxLost         \* bound on failures of a write to org_app_index

AppTasks == [app : Apps, type : {"provision", "deprovision"}]

ASSUME ProvisioningAssumption ==
  Tasks = AppTasks /\ PerTenant \in BOOLEAN /\ MaxMade \in Nat \ {0} /\ MaxLost \in Nat

VARIABLES
  row,            \* app -> provisioning_status; "absent": no row in apps
  indexed,        \* apps that org_app_index lists
  route,          \* app -> how far its create and delete requests came
  conn,           \* app -> the resource of its app_db_connections row
  resources,      \* those that exist at Neon
  made,           \* app -> number of resources ever made for it
  migrated,       \* resources that have the platform's tables
  aged,           \* resources older than the grace period
  sweep,          \* the reconciler's run
  lost

appVars == <<row, indexed, route, conn>>
neonVars == <<resources, made, migrated, aged>>
vars == <<queueVars, appVars, neonVars, sweep, lost>>

Resources == Apps \X (1 .. MaxMade)
Provision(a) == [app |-> a, type |-> "provision"]
Deprovision(a) == [app |-> a, type |-> "deprovision"]

NoSweep == [pc |-> "rest", listed |-> {}]

Init ==
  /\ QueueInit
  /\ row = [a \in Apps |-> "absent"]
  /\ indexed = {}
  /\ route = [a \in Apps |-> "unborn"]
  /\ conn = [a \in Apps |-> NoResource]
  /\ resources = {} /\ migrated = {} /\ aged = {}
  /\ made = [a \in Apps |-> 0]
  /\ sweep = NoSweep
  /\ lost = 0

---------------------------------------------------------------------------
(* POST /init and DELETE /apps/:app_id.                                    *)

Route(a, from, to) == route[a] = from /\ route' = [route EXCEPT ![a] = to]

InsertAppRow(a) ==
  /\ Route(a, "unborn", "inserted")
  /\ row' = [row EXCEPT ![a] = "provisioning"]
  /\ UNCHANGED <<queueVars, indexed, conn, neonVars, sweep, lost>>

(* addOrgAppIndex(...).catch(warn).                                        *)
IndexApp(a) ==
  /\ Route(a, "inserted", "indexed")
  /\ \/ indexed' = indexed \union {a} /\ UNCHANGED lost
     \/ lost < MaxLost /\ lost' = lost + 1 /\ UNCHANGED indexed
  /\ UNCHANGED <<queueVars, row, conn, neonVars, sweep>>

EnqueueProvision(a) ==
  /\ Route(a, "indexed", "created")
  /\ Enqueue(Provision(a))
  /\ UNCHANGED <<attempts, overdue, job, crashes, row, indexed, conn, neonVars, sweep, lost>>

(* An app that the index lists and that has a row is marked at once.       *)
MarkDeleting(a) ==
  /\ Route(a, "created", "marked")
  /\ a \in indexed /\ row[a] # "absent"
  /\ row' = [row EXCEPT ![a] = "deleting"]
  /\ UNCHANGED <<queueVars, indexed, conn, neonVars, sweep, lost>>

(* removeOrgAppIndex(...).catch(warn).                                     *)
Unindex(a) ==
  /\ Route(a, "marked", "unindexed")
  /\ \/ indexed' = indexed \ {a} /\ UNCHANGED lost
     \/ lost < MaxLost /\ lost' = lost + 1 /\ UNCHANGED indexed
  /\ UNCHANGED <<queueVars, row, conn, neonVars, sweep>>

EnqueueDeprovision(a) ==
  /\ Route(a, "unindexed", "deleted")
  /\ Enqueue(Deprovision(a))
  /\ UNCHANGED <<attempts, overdue, job, crashes, row, indexed, conn, neonVars, sweep, lost>>

(* A later DELETE of an app whose row is gone but whose index entry is not.*)
CleanIndex(a) ==
  /\ route[a] = "deleted" /\ a \in indexed /\ row[a] = "absent"
  /\ indexed' = indexed \ {a}
  /\ UNCHANGED <<queueVars, row, route, conn, neonVars, sweep, lost>>

(* The process dies between two statements of a request; nobody resumes it.*)
RouteDies(a) ==
  /\ route[a] \in {"inserted", "indexed", "marked", "unindexed"}
  /\ crashes < MaxCrashes /\ crashes' = crashes + 1
  /\ route' = [route EXCEPT ![a] = "dead"]
  /\ UNCHANGED <<task, attempts, overdue, job, row, indexed, conn, neonVars, sweep, lost>>

---------------------------------------------------------------------------
(* executeProvision.                                                       *)

Own(a) == {r \in resources : r[1] = a}

(* Mutant: the name of the last one is used again.                         *)
LastMade(a) == <<a, made[a]>>

Fresh(a) == <<a, made[a] + 1>>

ProvisionUnchanged == UNCHANGED <<task, attempts, overdue, crashes, indexed, route, sweep, lost>>

(* getRuntimeDbForApp needs the index entry, and the region the row.       *)
ProvisionResolves(w) ==
  LET a == job[w].task.app IN
  /\ At(w, "start", "provision")
  /\ Goto(w, IF a \in indexed /\ row[a] # "absent" THEN "find" ELSE "threw")
  /\ ProvisionUnchanged /\ UNCHANGED <<row, conn, neonVars>>

(* findProjectByName.                                                      *)
ProvisionFinds(w) ==
  LET a == job[w].task.app IN
  /\ PerTenant /\ At(w, "find", "provision")
  /\ \/ Own(a) = {} /\ Hold(w, "make", NoResource)
     \/ \E r \in Own(a) : Hold(w, "connect", r)
  /\ ProvisionUnchanged /\ UNCHANGED <<row, conn, neonVars>>

Make(a) ==
  /\ made[a] < MaxMade
  /\ made' = [made EXCEPT ![a] = @ + 1]
  /\ resources' = resources \union {Fresh(a)}

(* createProjectForApp, or its answer is lost after the project was made.  *)
ProvisionMakes(w) ==
  LET a == job[w].task.app IN
  /\ PerTenant /\ At(w, "make", "provision")
  /\ Make(a)
  /\ Hold(w, "connect", Fresh(a)) \/ Goto(w, "threw")
  /\ ProvisionUnchanged /\ UNCHANGED <<row, conn, migrated, aged>>

(* createDatabase under the lock of the shared project: a database of that *)
(* name is adopted.                                                        *)
ProvisionCreates(w) ==
  LET a == job[w].task.app IN
  /\ ~ PerTenant /\ At(w, "find", "provision")
  /\ \/ /\ Own(a) = {} /\ Make(a)
        /\ Hold(w, "connect", Fresh(a)) \/ Goto(w, "threw")
     \/ /\ \E r \in Own(a) : Hold(w, "connect", r)
        /\ UNCHANGED <<resources, made>>
  /\ ProvisionUnchanged /\ UNCHANGED <<row, conn, migrated, aged>>

(* The resource answers, and INSERT INTO app_db_connections ... DO UPDATE  *)
(* finds the app it refers to.                                             *)
ProvisionConnects(w) ==
  LET a == job[w].task.app IN
  /\ At(w, "connect", "provision")
  /\ IF job[w].db \in resources /\ row[a] # "absent"
     THEN conn' = [conn EXCEPT ![a] = job[w].db] /\ Goto(w, "migrate")
     ELSE UNCHANGED conn /\ Goto(w, "threw")
  /\ ProvisionUnchanged /\ UNCHANGED <<row, neonVars>>

SetRow(a, s) == row' = [row EXCEPT ![a] = IF @ = "absent" THEN @ ELSE s]

(* Mutant: an app is ready as soon as it is connected.                     *)
ProvisionMigratesLater(w) ==
  /\ At(w, "migrate", "provision")
  /\ SetRow(job[w].task.app, "ready")
  /\ Goto(w, "ready")
  /\ ProvisionUnchanged /\ UNCHANGED <<conn, neonVars>>

ProvisionMigrates(w) ==
  /\ At(w, "migrate", "provision")
  /\ IF job[w].db \in resources
     THEN migrated' = migrated \union {job[w].db} /\ Goto(w, "ready")
     ELSE UNCHANGED migrated /\ Goto(w, "threw")
  /\ ProvisionUnchanged /\ UNCHANGED <<row, conn, resources, made, aged>>

(* UPDATE apps SET provisioning_status = 'ready' WHERE id.                 *)
ProvisionReady(w) ==
  /\ At(w, "ready", "provision")
  /\ SetRow(job[w].task.app, "ready")
  /\ Goto(w, "done")
  /\ ProvisionUnchanged /\ UNCHANGED <<conn, neonVars>>

(* The task is failed: the app is told, if its region can be looked up.    *)
TellApp(w) ==
  LET a == job[w].task.app IN
  /\ At(w, "tell", "provision")
  /\ IF a \in indexed THEN SetRow(a, "failed") ELSE UNCHANGED row
  /\ job' = [job EXCEPT ![w] = Resting]
  /\ ProvisionUnchanged /\ UNCHANGED <<conn, neonVars>>

---------------------------------------------------------------------------
(* executeDeprovision, which reads its own region and needs no index.      *)

DeprovisionReads(w) ==
  /\ At(w, "start", "deprovision")
  /\ Hold(w, "teardown", conn[job[w].task.app])
  /\ ProvisionUnchanged /\ UNCHANGED <<row, conn, neonVars>>

(* teardownAppDb; without a connection there is nothing to tear down.      *)
DeprovisionTearsDown(w) ==
  /\ At(w, "teardown", "deprovision")
  /\ resources' = resources \ {job[w].db}
  /\ aged' = aged \ {job[w].db}
  /\ Goto(w, "deleteRow")
  /\ ProvisionUnchanged /\ UNCHANGED <<row, conn, made, migrated>>

(* DELETE FROM apps: the connection and every task of the app cascade.     *)
DeprovisionDeletes(w) ==
  LET a == job[w].task.app IN
  /\ At(w, "deleteRow", "deprovision")
  /\ row' = [row EXCEPT ![a] = "absent"]
  /\ conn' = [conn EXCEPT ![a] = NoResource]
  /\ task' = [t \in Tasks |-> IF t.app = a THEN "absent" ELSE task[t]]
  /\ Goto(w, "unindex")
  /\ UNCHANGED <<attempts, overdue, crashes, indexed, route, neonVars, sweep, lost>>

DeprovisionUnindexes(w) ==
  /\ At(w, "unindex", "deprovision")
  /\ Goto(w, "done")
  /\ \/ indexed' = indexed \ {job[w].task.app} /\ UNCHANGED lost
     \/ lost < MaxLost /\ lost' = lost + 1 /\ UNCHANGED indexed
  /\ UNCHANGED <<task, attempts, overdue, crashes, row, route, conn, neonVars, sweep>>

(* Any statement or call may throw before it has an effect; a throw that   *)
(* leaves the same behind as an earlier one is not told apart.             *)
Throw(w) ==
  /\ job[w].pc \in {"start", "connect", "migrate", "ready", "deleteRow"}
  /\ Goto(w, "threw")
  /\ ProvisionUnchanged /\ UNCHANGED <<row, conn, neonVars>>

---------------------------------------------------------------------------
(* The reconcilers.  One run at a time: a Redis lock.                      *)

PassGrace(r) ==
  /\ r \in resources \ aged
  /\ \A w \in Workers : job[w].task.app # r[1]
  /\ aged' = aged \union {r}
  /\ UNCHANGED <<queueVars, appVars, resources, made, migrated, sweep, lost>>

SweepUnchanged == UNCHANGED <<queueVars, appVars, made, migrated, lost>>

SweepLists ==
  /\ sweep.pc = "rest" /\ aged # {}
  /\ sweep' = [pc |-> "listed", listed |-> aged]
  /\ SweepUnchanged /\ UNCHANGED <<resources, aged>>

(* Mutant: in the shared project, too, a connection is what counts.        *)
ClaimedByConnection(r) == conn[r[1]] = r

(* Live is an app row in the shared project, and a connection that names   *)
(* the project otherwise.                                                  *)
Claimed(r) == IF PerTenant THEN conn[r[1]] = r ELSE row[r[1]] # "absent"

SweepReadsOwners ==
  /\ sweep.pc = "listed"
  /\ sweep' = [pc |-> "unowned", listed |-> {r \in sweep.listed : ~ Claimed(r)}]
  /\ SweepUnchanged /\ UNCHANGED <<resources, aged>>

InFlight(a) == \E t \in Tasks : t.app = a /\ task[t] \in {"pending", "processing"}

SweepReadsTasks ==
  /\ sweep.pc = "unowned"
  /\ sweep' = [pc |-> "drop", listed |-> {r \in sweep.listed : ~ InFlight(r[1])}]
  /\ SweepUnchanged /\ UNCHANGED <<resources, aged>>

(* Mutant: the run stays dry.                                              *)
SweepRunsDry ==
  \E r \in sweep.listed :
    /\ sweep.pc = "drop"
    /\ sweep' = [sweep EXCEPT !.listed = @ \ {r}]
    /\ SweepUnchanged /\ UNCHANGED <<resources, aged>>

SweepDrops ==
  \E r \in sweep.listed :
    /\ sweep.pc = "drop"
    /\ resources' = resources \ {r} /\ aged' = aged \ {r}
    /\ sweep' = [sweep EXCEPT !.listed = @ \ {r}]
    /\ SweepUnchanged

SweepEnds ==
  /\ sweep.pc = "drop" /\ sweep.listed = {}
  /\ sweep' = NoSweep
  /\ SweepUnchanged /\ UNCHANGED <<resources, aged>>

---------------------------------------------------------------------------

Executor(w) ==
  \/ ProvisionResolves(w) \/ ProvisionFinds(w) \/ ProvisionMakes(w) \/ ProvisionCreates(w)
  \/ ProvisionConnects(w) \/ ProvisionMigrates(w) \/ ProvisionReady(w) \/ TellApp(w)
  \/ DeprovisionReads(w) \/ DeprovisionTearsDown(w) \/ DeprovisionDeletes(w)
  \/ DeprovisionUnindexes(w) \/ Throw(w)

Poll(w) ==
  /\ Claim(w) \/ Complete(w) \/ BackOff(w) \/ GiveUp(w) \/ Recover(w) \/ Exhaust(w)
  /\ UNCHANGED <<appVars, neonVars, sweep, lost>>

Clock ==
  /\ \E t \in Tasks : PassThreshold(t)
  /\ UNCHANGED <<appVars, neonVars, sweep, lost>>

Request(a) ==
  \/ InsertAppRow(a) \/ IndexApp(a) \/ EnqueueProvision(a)
  \/ MarkDeleting(a) \/ Unindex(a) \/ EnqueueDeprovision(a) \/ CleanIndex(a)

Death ==
  \/ /\ \E w \in Workers : Die(w)
     /\ UNCHANGED <<appVars, neonVars, sweep, lost>>
  \/ \E a \in Apps : RouteDies(a)

Sweep == SweepLists \/ SweepReadsOwners \/ SweepReadsTasks \/ SweepDrops \/ SweepEnds

Next ==
  \/ \E w \in Workers : Executor(w) \/ Poll(w)
  \/ \E a \in Apps : Request(a)
  \/ \E r \in Resources : PassGrace(r)
  \/ Clock \/ Death \/ Sweep

Spec == Init /\ [][Next]_vars

(* Every process polls each second and finishes what it executes, time     *)
(* passes, and the reconciler runs again and again.  A request's own       *)
(* statements follow one another; nobody has to create or delete an app.   *)
Fairness ==
  /\ \A w \in Workers : WF_vars(Executor(w)) /\ WF_vars(Poll(w))
  /\ \A a \in Apps : WF_vars(IndexApp(a) \/ EnqueueProvision(a)) /\ WF_vars(Unindex(a) \/ EnqueueDeprovision(a))
  /\ \A r \in Resources : WF_vars(PassGrace(r))
  /\ WF_vars(Clock) /\ WF_vars(Sweep)

FairSpec == Spec /\ Fairness

---------------------------------------------------------------------------

TypeOK ==
  /\ task \in [Tasks -> {"absent", "pending", "processing", "completed", "failed"}]
  /\ attempts \in [Tasks -> Nat] /\ overdue \subseteq Tasks
  /\ job \in [Workers -> [pc : {"rest", "start", "find", "make", "connect", "migrate", "ready",
                                "teardown", "deleteRow", "unindex", "done", "threw", "tell"},
                          task : Tasks \union {NoTask}, attempt : Nat,
                          db : Resources \union {NoResource}]]
  /\ crashes \in 0 .. MaxCrashes /\ lost \in 0 .. MaxLost
  /\ row \in [Apps -> {"absent", "provisioning", "ready", "failed", "deleting"}]
  /\ indexed \subseteq Apps
  /\ route \in [Apps -> {"unborn", "inserted", "indexed", "created", "marked", "unindexed",
                         "deleted", "dead"}]
  /\ conn \in [Apps -> Resources \union {NoResource}]
  /\ resources \subseteq Resources /\ migrated \subseteq Resources /\ aged \subseteq resources
  /\ made \in [Apps -> 0 .. MaxMade]
  /\ sweep \in [pc : {"rest", "listed", "unowned", "drop"}, listed : SUBSET Resources]

(* An app that is ready is connected to a resource that exists and has the *)
(* platform's tables until its deprovision task is enqueued, whatever      *)
(* workers were recovered, overtaken or killed on the way                  *)
(* (executeProvision), and whatever the reconcilers dropped.               *)
ReadyIsUsable ==
  \A a \in Apps :
    row[a] = "ready" /\ route[a] # "deleted"
      => conn[a] \in resources \intersect migrated

(* A reconciler never drops what a living app is connected to, or is being *)
(* connected to, although it decides on lists that it reads one after the  *)
(* other (neon-orphan-reconciler.ts, neon-tenant-reconciler.ts).           *)
SweepsOnlyOrphans ==
  [][\A r \in resources \ resources' :
       sweep' # sweep /\ row[r[1]] # "absent" =>
         /\ conn[r[1]] # r
         /\ \A w \in Workers : job[w].task.type = "provision" => job[w].db # r]_vars

(* Every task ends, and stays ended, for all the attempts that overtaken   *)
(* workers put back (neon-task-worker.ts).                                 *)
TasksSettle ==
  <>[](\A t \in Tasks : task[t] \in {"absent", "completed", "failed"})

(* What Neon bills for an app that no longer exists is dropped in the end, *)
(* also when its deletion overtook its provisioning.                       *)
OrphansGo ==
  \A r \in Resources :
    (r \in resources /\ row[r[1]] = "absent") ~> (r \notin resources)

(* An app does not stay provisioning: it becomes ready, fails or is        *)
(* deleted, unless a process died or an index write was lost on the way.   *)
AppsSettle ==
  \A a \in Apps :
    (row[a] = "provisioning") ~> (row[a] # "provisioning" \/ crashes + lost > 0)

=============================================================================

----------------------- MODULE AppProvisioningProofs -----------------------
(***************************************************************************)
(* Proofs about provisioning into a shared project, for any apps and       *)
(* workers, any number of attempts, deaths and lost index writes.          *)
(*                                                                         *)
(* The argument: until its deprovision task is enqueued an app with a row  *)
(* is Kept, and of a kept app there is one resource at most, which nothing *)
(* drops: not the reconciler, because it drops for apps without a row and  *)
(* a row never comes back, and not a deprovision task, because there is    *)
(* none.  So whichever of several overtaken executions of its provision    *)
(* task writes last, all of them write the same.                           *)
(***************************************************************************)
EXTENDS AppProvisioning, TLAPS

(* One project for all apps (BUTTERBASE_PROJECT_PER_TENANT is off).        *)
SharedProject == ~ PerTenant

(* The first resource that is made for an app.                             *)
First(a) == <<a, 1>>

(* An app with a row, whose deprovision task is not yet enqueued.          *)
Kept(a) == row[a] # "absent" /\ route[a] # "deleted"

(* What a worker executes is a task.                                       *)
Executes(w, a) == job[w].task \in Tasks /\ job[w].task.app = a

(* Before POST /init an app has nothing.                                   *)
BornFirst ==
  \A a \in Apps : route[a] = "unborn" =>
    /\ row[a] = "absent" /\ made[a] = 0 /\ conn[a] = NoResource
    /\ \A t \in Tasks : t.app = a => task[t] = "absent"
    /\ \A w \in Workers : ~ Executes(w, a)

(* Deprovision tasks come from the end of DELETE.                          *)
DeletedLast ==
  /\ \A t \in Tasks : t.type = "deprovision" /\ task[t] # "absent" => route[t.app] = "deleted"
  /\ \A w \in Workers :
       job[w].task \in Tasks /\ job[w].task.type = "deprovision"
         => route[job[w].task.app] = "deleted"

(* Apps do not meet.                                                       *)
OwnThings ==
  /\ \A r \in resources : r[2] <= made[r[1]]
  /\ \A a \in Apps : conn[a] = NoResource \/ conn[a][1] = a
  /\ \A w \in Workers : job[w].db = NoResource \/ Executes(w, job[w].db[1])

(* A kept app has one resource at most, and it is whole when it is ready.  *)
KeptWhole ==
  \A a \in Apps : Kept(a) =>
    /\ made[a] \in {0, 1}
    /\ made[a] = 1 => First(a) \in resources
    /\ row[a] = "ready" => conn[a] = First(a) /\ made[a] = 1 /\ First(a) \in migrated

(* How far an execution of its provision task has come.                    *)
KeptJobs ==
  \A w \in Workers, a \in Apps : Kept(a) /\ job[w].task = Provision(a) =>
    /\ job[w].pc \in {"connect", "migrate", "ready"} => job[w].db = First(a) /\ made[a] = 1
    /\ job[w].pc \in {"migrate", "ready"} => conn[a] = First(a)
    /\ job[w].pc = "ready" => First(a) \in migrated

(* The reconciler drops for apps whose row is gone.                        *)
SweepAsks ==
  \A r \in sweep.listed :
    /\ route[r[1]] # "unborn"
    /\ sweep.pc \in {"unowned", "drop"} => row[r[1]] = "absent"

SafeInv == BornFirst /\ DeletedLast /\ OwnThings /\ KeptWhole /\ KeptJobs /\ SweepAsks

---------------------------------------------------------------------------
(* Types.                                                                  *)

Places == {"rest", "start", "find", "make", "connect", "migrate", "ready", "teardown",
           "deleteRow", "unindex", "done", "threw", "tell"}
JobType == [pc : Places, task : Tasks \union {NoTask}, attempt : Nat,
            db : Resources \union {NoResource}]

(* Everything starts empty.                                                *)
LEMMA TypeInit == Init => TypeOK
BY QueueAssumption, ProvisioningAssumption
DEF Init, QueueInit, TypeOK, Resting, NoSweep

(* What Goto and Hold change of a worker's job.                            *)
LEMMA GotoMoves ==
  ASSUME TypeOK, NEW w \in Workers, NEW pc, Goto(w, pc)
  PROVE /\ job'[w].pc = pc /\ job'[w].db = job[w].db /\ job'[w].task = job[w].task
        /\ \A x \in Workers \ {w} : job'[x] = job[x]
BY DEF Goto, TypeOK

LEMMA HoldMoves ==
  ASSUME TypeOK, NEW w \in Workers, NEW pc, NEW db, Hold(w, pc, db)
  PROVE /\ job'[w].pc = pc /\ job'[w].db = db /\ job'[w].task = job[w].task
        /\ \A x \in Workers \ {w} : job'[x] = job[x]
<1>1. job' = [job EXCEPT ![w] = [job[w] EXCEPT !.pc = pc, !.db = db]]
  BY DEF Hold, TypeOK
<1> QED
  BY <1>1 DEF TypeOK

(* They keep its type.                                                     *)
LEMMA GotoType ==
  ASSUME job \in [Workers -> JobType], NEW w \in Workers, NEW pc \in Places, Goto(w, pc)
  PROVE job' \in [Workers -> JobType]
BY DEF Goto, JobType

LEMMA HoldType ==
  ASSUME job \in [Workers -> JobType], NEW w \in Workers, NEW pc \in Places,
         NEW db \in Resources \union {NoResource}, Hold(w, pc, db)
  PROVE job' \in [Workers -> JobType]
<1>1. [job[w] EXCEPT !.pc = pc, !.db = db] \in JobType
  BY DEF JobType
<1>2. job' = [job EXCEPT ![w] = [job[w] EXCEPT !.pc = pc, !.db = db]]
  BY DEF Hold, JobType
<1> QED BY <1>1, <1>2

(* A poll of the queue, or the clock.                                      *)
LEMMA TypeQueue ==
  ASSUME TypeOK,
         (\E w \in Workers : Poll(w) \/ (Die(w) /\ UNCHANGED <<appVars, neonVars, sweep, lost>>))
           \/ Clock
  PROVE TypeOK'
<1> USE QueueAssumption
<1>1. Resting \in JobType
  BY DEF Resting, JobType, Places
<1>2. job \in [Workers -> JobType]
  BY DEF TypeOK, JobType, Places
<1>3. /\ row' = row /\ indexed' = indexed /\ route' = route /\ conn' = conn
      /\ resources' = resources /\ made' = made /\ migrated' = migrated /\ aged' = aged
      /\ sweep' = sweep /\ lost' = lost
  BY DEF Poll, Clock, appVars, neonVars
<1> DEFINE QueueTyped ==
      /\ task' \in [Tasks -> {"absent", "pending", "processing", "completed", "failed"}]
      /\ attempts' \in [Tasks -> Nat] /\ overdue' \subseteq Tasks /\ crashes' \in 0 .. MaxCrashes
<1>4. QueueTyped
  <2>1. ASSUME NEW w \in Workers, Claim(w) PROVE QueueTyped
    BY <2>1 DEF Claim, TypeOK
  <2>2. ASSUME NEW w \in Workers, Complete(w) \/ BackOff(w) \/ GiveUp(w) PROVE QueueTyped
    BY <2>2 DEF Complete, BackOff, GiveUp, Write, TypeOK
  <2>3. ASSUME NEW w \in Workers, Recover(w) \/ Exhaust(w) PROVE QueueTyped
    BY <2>3 DEF Recover, Exhaust, TypeOK
  <2>5. ASSUME NEW w \in Workers, Die(w) PROVE QueueTyped
    BY <2>5 DEF Die, TypeOK
  <2>4. ASSUME Clock PROVE QueueTyped
    BY <2>4 DEF Clock, PassThreshold, TypeOK
  <2> QED
    BY <2>1, <2>2, <2>3, <2>4, <2>5 DEF Poll
<1>6. job' \in [Workers -> JobType]
  <2>1. ASSUME NEW w \in Workers, Claim(w) PROVE job' \in [Workers -> JobType]
    <3>1. PICK t \in Tasks :
            job' = [job EXCEPT ![w] = [Resting EXCEPT !.pc = "start", !.task = t,
                                                      !.attempt = attempts[t] + 1]]
      BY <2>1 DEF Claim
    <3>2. [Resting EXCEPT !.pc = "start", !.task = t, !.attempt = attempts[t] + 1] \in JobType
      <4>1. attempts[t] + 1 \in Nat
        BY DEF TypeOK
      <4> QED BY <1>1, <4>1 DEF Resting, JobType, Places
    <3> QED BY <1>2, <3>1, <3>2
  <2>2. ASSUME NEW w \in Workers, Complete(w) \/ BackOff(w) \/ Recover(w) \/ Die(w)
        PROVE job' \in [Workers -> JobType]
    BY <1>1, <1>2, <2>2 DEF Complete, BackOff, Recover, Die
  <2>3. ASSUME NEW w \in Workers, GiveUp(w) PROVE job' \in [Workers -> JobType]
    BY <1>1, <1>2, <2>3 DEF GiveUp, Goto, JobType, Places
  <2>4. ASSUME NEW w \in Workers, Exhaust(w) PROVE job' \in [Workers -> JobType]
    <3>1. PICK t \in Tasks :
            job' = IF t.type = "provision"
                   THEN [job EXCEPT ![w] = [Resting EXCEPT !.pc = "tell", !.task = t]]
                   ELSE job
      BY <2>4 DEF Exhaust
    <3>2. [Resting EXCEPT !.pc = "tell", !.task = t] \in JobType
      BY <1>1 DEF Resting, JobType, Places
    <3> QED BY <1>2, <3>1, <3>2
  <2> QED
    BY <1>2, <2>1, <2>2, <2>3, <2>4 DEF Poll, Clock, PassThreshold
<1> QED
  BY <1>3, <1>4, <1>6 DEF TypeOK, JobType, Places

(* A statement of an executor.                                             *)
LEMMA TypeExecutor ==
  ASSUME TypeOK, NEW w \in Workers, Executor(w) PROVE TypeOK'
<1> USE QueueAssumption, ProvisioningAssumption
<1> DEFINE a == job[w].task.app
           Same == UNCHANGED <<task, attempts, overdue, crashes, indexed, route, sweep, lost>>
<1>0. /\ job \in [Workers -> JobType] /\ job[w].db \in Resources \union {NoResource}
      /\ \A pc, type : type # "none" /\ At(w, pc, type) => job[w].task \in Tasks /\ a \in Apps
  BY DEF TypeOK, JobType, Places, At, NoTask, AppTasks
<1> HIDE DEF a
<1>1. ASSUME ProvisionResolves(w) PROVE TypeOK'
  <2>1. job' \in [Workers -> JobType]
    BY <1>0, <1>1, GotoType DEF Places, ProvisionResolves
  <2> QED BY <1>1, <2>1 DEF ProvisionResolves, ProvisionUnchanged, TypeOK, JobType, Places, neonVars
<1>2. ASSUME ProvisionFinds(w) PROVE TypeOK'
  <2>1. job' \in [Workers -> JobType]
    BY <1>0, <1>2, GotoType, HoldType DEF Places, ProvisionFinds, Own, TypeOK
  <2> QED BY <1>2, <2>1 DEF ProvisionFinds, ProvisionUnchanged, TypeOK, JobType, Places, neonVars
<1>3. ASSUME Make(a), a \in Apps
      PROVE /\ Fresh(a) \in Resources /\ made' \in [Apps -> 0 .. MaxMade]
            /\ resources' \subseteq Resources /\ resources \subseteq resources'
  BY <1>3 DEF Make, Fresh, Resources, TypeOK
<1>4. ASSUME ProvisionMakes(w) PROVE TypeOK'
  <2>1. /\ a \in Apps /\ Make(a) /\ (Hold(w, "connect", Fresh(a)) \/ Goto(w, "threw"))
        /\ Same /\ UNCHANGED <<row, conn, migrated, aged>>
    BY <1>0, <1>4 DEF ProvisionMakes, ProvisionUnchanged, a
  <2>2. job' \in [Workers -> JobType]
    BY <1>0, <1>3, <2>1, GotoType, HoldType DEF Places
  <2> QED BY <1>3, <2>1, <2>2 DEF TypeOK, JobType, Places
<1>5. ASSUME ProvisionCreates(w) PROVE TypeOK'
  <2>1. a \in Apps /\ Same /\ UNCHANGED <<row, conn, migrated, aged>>
    BY <1>0, <1>5 DEF ProvisionCreates, ProvisionUnchanged
  <2>2. CASE Make(a) /\ (Hold(w, "connect", Fresh(a)) \/ Goto(w, "threw"))
    <3>1. job' \in [Workers -> JobType]
      BY <1>0, <1>3, <2>1, <2>2, GotoType, HoldType DEF Places
    <3> QED BY <1>3, <2>1, <2>2, <3>1 DEF TypeOK, JobType, Places
  <2>3. ASSUME NEW r \in Own(a), Hold(w, "connect", r), UNCHANGED <<resources, made>>
        PROVE TypeOK'
    <3>1. r \in Resources
      BY DEF Own, TypeOK
    <3>2. job' \in [Workers -> JobType]
      BY <1>0, <3>1, <2>3, HoldType DEF Places
    <3> QED BY <2>1, <2>3, <3>2 DEF TypeOK, JobType, Places
  <2> QED BY <1>5, <2>2, <2>3 DEF ProvisionCreates, a
<1>6. ASSUME ProvisionConnects(w) PROVE TypeOK'
  <2>1. job' \in [Workers -> JobType]
    BY <1>0, <1>6, GotoType, HoldType DEF Places, ProvisionConnects
  <2>2. conn' \in [Apps -> Resources \union {NoResource}]
    BY <1>0, <1>6 DEF ProvisionConnects, TypeOK
  <2> QED BY <1>6, <2>1, <2>2 DEF ProvisionConnects, ProvisionUnchanged, TypeOK, JobType, Places, neonVars
<1>7. ASSUME ProvisionMigrates(w) PROVE TypeOK'
  <2>1. job' \in [Workers -> JobType]
    BY <1>0, <1>7, GotoType, HoldType DEF Places, ProvisionMigrates
  <2>2. migrated' \subseteq Resources
    BY <1>0, <1>7 DEF ProvisionMigrates, TypeOK
  <2> QED BY <1>7, <2>1, <2>2 DEF ProvisionMigrates, ProvisionUnchanged, TypeOK, JobType, Places
<1>8. ASSUME ProvisionReady(w) PROVE TypeOK'
  <2>1. job' \in [Workers -> JobType]
    BY <1>0, <1>8, GotoType, HoldType DEF Places, ProvisionReady
  <2>2. row' \in [Apps -> {"absent", "provisioning", "ready", "failed", "deleting"}]
    BY <1>8 DEF ProvisionReady, SetRow, TypeOK
  <2> QED BY <1>8, <2>1, <2>2 DEF ProvisionReady, ProvisionUnchanged, TypeOK, JobType, Places, neonVars
<1>9. ASSUME TellApp(w) PROVE TypeOK'
  <2>1. job' \in [Workers -> JobType]
    BY <1>0, <1>9 DEF TellApp, Resting, JobType, Places
  <2>2. row' \in [Apps -> {"absent", "provisioning", "ready", "failed", "deleting"}]
    BY <1>9 DEF TellApp, SetRow, TypeOK
  <2> QED BY <1>9, <2>1, <2>2 DEF TellApp, ProvisionUnchanged, TypeOK, JobType, Places, neonVars
<1>10. ASSUME DeprovisionReads(w) PROVE TypeOK'
  <2>1. a \in Apps /\ Hold(w, "teardown", conn[a])
    BY <1>0, <1>10 DEF DeprovisionReads, a
  <2>2. job' \in [Workers -> JobType]
    <3>1. conn[a] \in Resources \union {NoResource}
      BY <2>1 DEF TypeOK
    <3> QED BY <1>0, <2>1, <3>1, HoldType DEF Places
  <2> QED BY <1>10, <2>2 DEF DeprovisionReads, ProvisionUnchanged, TypeOK, JobType, Places, neonVars
<1>11. ASSUME DeprovisionTearsDown(w) PROVE TypeOK'
  <2>1. job' \in [Workers -> JobType]
    BY <1>0, <1>11, GotoType, HoldType DEF Places, DeprovisionTearsDown
  <2> QED BY <1>11, <2>1 DEF DeprovisionTearsDown, ProvisionUnchanged, TypeOK, JobType, Places
<1>12. ASSUME DeprovisionDeletes(w) PROVE TypeOK'
  <2>1. job' \in [Workers -> JobType]
    BY <1>0, <1>12, GotoType, HoldType DEF Places, DeprovisionDeletes
  <2>2. /\ row' \in [Apps -> {"absent", "provisioning", "ready", "failed", "deleting"}]
        /\ conn' \in [Apps -> Resources \union {NoResource}]
        /\ task' \in [Tasks -> {"absent", "pending", "processing", "completed", "failed"}]
    BY <1>12 DEF DeprovisionDeletes, TypeOK
  <2> QED BY <1>12, <2>1, <2>2 DEF DeprovisionDeletes, TypeOK, JobType, Places, neonVars
<1>13. ASSUME DeprovisionUnindexes(w) PROVE TypeOK'
  <2>1. job' \in [Workers -> JobType]
    BY <1>0, <1>13, GotoType, HoldType DEF Places, DeprovisionUnindexes
  <2> QED BY <1>13, <2>1 DEF DeprovisionUnindexes, TypeOK, JobType, Places, neonVars
<1>14. ASSUME Throw(w) PROVE TypeOK'
  <2>1. job' \in [Workers -> JobType]
    BY <1>0, <1>14, GotoType, HoldType DEF Places, Throw
  <2> QED BY <1>14, <2>1 DEF Throw, ProvisionUnchanged, TypeOK, JobType, Places, neonVars
<1> QED
  BY <1>1, <1>2, <1>4, <1>5, <1>6, <1>7, <1>8, <1>9, <1>10, <1>11, <1>12, <1>13, <1>14 DEF Executor

(* A statement of a request, or its death.                                 *)
LEMMA TypeRequest ==
  ASSUME TypeOK, NEW a \in Apps, Request(a) \/ RouteDies(a) PROVE TypeOK'
<1> USE QueueAssumption, ProvisioningAssumption
<1>1. Provision(a) \in Tasks /\ Deprovision(a) \in Tasks
  BY DEF Provision, Deprovision, AppTasks
<1>2. /\ task' \in [Tasks -> {"absent", "pending", "processing", "completed", "failed"}]
      /\ attempts' = attempts /\ overdue' = overdue /\ job' = job /\ crashes' \in 0 .. MaxCrashes
  BY <1>1 DEF Request, InsertAppRow, IndexApp, EnqueueProvision, MarkDeleting, Unindex,
       EnqueueDeprovision, CleanIndex, RouteDies, Enqueue, queueVars, TypeOK
<1>3. /\ row' \in [Apps -> {"absent", "provisioning", "ready", "failed", "deleting"}]
      /\ indexed' \subseteq Apps /\ conn' = conn /\ sweep' = sweep /\ lost' \in 0 .. MaxLost
      /\ resources' = resources /\ made' = made /\ migrated' = migrated /\ aged' = aged
  BY DEF Request, InsertAppRow, IndexApp, EnqueueProvision, MarkDeleting, Unindex,
         EnqueueDeprovision, CleanIndex, RouteDies, neonVars, TypeOK
<1>4. route' \in [Apps -> {"unborn", "inserted", "indexed", "created", "marked", "unindexed",
                           "deleted", "dead"}]
  BY DEF Request, InsertAppRow, IndexApp, EnqueueProvision, MarkDeleting, Unindex,
         EnqueueDeprovision, CleanIndex, RouteDies, Route, TypeOK
<1> QED
  BY <1>2, <1>3, <1>4 DEF TypeOK

(* The reconciler.                                                         *)
LEMMA TypeSweep ==
  ASSUME TypeOK, Sweep \/ (\E r \in Resources : PassGrace(r)) PROVE TypeOK'
<1>1. /\ UNCHANGED <<queueVars, appVars, made, migrated, lost>>
      /\ resources' \subseteq Resources /\ aged' \subseteq resources'
      /\ sweep' \in [pc : {"rest", "listed", "unowned", "drop"}, listed : SUBSET Resources]
  BY DEF Sweep, SweepLists, SweepReadsOwners, SweepReadsTasks, SweepDrops, SweepEnds, PassGrace,
         SweepUnchanged, NoSweep, TypeOK
<1> QED
  BY <1>1 DEF TypeOK, queueVars, appVars

(* Every step keeps the types.                                             *)
LEMMA TypeNext == TypeOK /\ [Next]_vars => TypeOK'
<1> SUFFICES ASSUME TypeOK, [Next]_vars PROVE TypeOK'
  OBVIOUS
<1>1. CASE UNCHANGED vars
  BY <1>1 DEF vars, queueVars, appVars, neonVars, TypeOK
<1> QED
  BY <1>1, TypeQueue, TypeExecutor, TypeRequest, TypeSweep DEF Next, Death

---------------------------------------------------------------------------
(* What every step leaves alone.                                           *)

(* An app is born once: then its request never starts again, a row that is *)
(* gone stays away, and a deletion that came to its task stays there.      *)
Onward ==
  \A a \in Apps :
    /\ route[a] # "unborn" => route'[a] # "unborn" /\ (row[a] = "absent" => row'[a] = "absent")
    /\ route[a] = "deleted" => route'[a] = "deleted"

RowSteps(w) == ProvisionReady(w) \/ TellApp(w) \/ DeprovisionDeletes(w)

(* Every step goes onward.                                                 *)
LEMMA NextOnward == TypeOK /\ [Next]_vars => Onward
<1> SUFFICES ASSUME TypeOK, [Next]_vars PROVE Onward
  OBVIOUS
<1>1. CASE UNCHANGED <<row, route>>
  BY <1>1 DEF Onward
<1>2. ASSUME NEW w \in Workers, ProvisionReady(w) \/ TellApp(w) PROVE Onward
  BY <1>2 DEF ProvisionReady, TellApp, SetRow, ProvisionUnchanged, TypeOK, Onward
<1>3. ASSUME NEW w \in Workers, DeprovisionDeletes(w) PROVE Onward
  BY <1>3 DEF DeprovisionDeletes, TypeOK, Onward
<1>4. ASSUME NEW a \in Apps, Request(a) \/ RouteDies(a) PROVE Onward
  BY <1>4 DEF Request, InsertAppRow, IndexApp, EnqueueProvision, MarkDeleting, Unindex,
       EnqueueDeprovision, CleanIndex, RouteDies, Route, TypeOK, Onward
<1>5. ASSUME NEW w \in Workers, Executor(w), ~ RowSteps(w) PROVE UNCHANGED <<row, route>>
  BY <1>5 DEF Executor, RowSteps, ProvisionResolves, ProvisionFinds, ProvisionMakes,
       ProvisionCreates, ProvisionConnects, ProvisionMigrates, DeprovisionReads,
       DeprovisionTearsDown, DeprovisionUnindexes, Throw, ProvisionUnchanged
<1>6. ASSUME Clock \/ Sweep \/ (\E w \in Workers : Poll(w)) \/ (\E r \in Resources : PassGrace(r))
      PROVE UNCHANGED <<row, route>>
  BY <1>6 DEF Clock, Sweep, Poll, PassGrace, SweepLists, SweepReadsOwners, SweepReadsTasks,
       SweepDrops, SweepEnds, SweepUnchanged, appVars
<1>7. ASSUME UNCHANGED vars PROVE UNCHANGED <<row, route>>
  BY <1>7 DEF vars, appVars
<1> QED
  BY <1>1, <1>2, <1>3, <1>4, <1>5, <1>6, <1>7 DEF Next, Death, RowSteps, appVars

---------------------------------------------------------------------------
(* Safety, for the initial state.                                          *)

(* Nothing exists at first.                                                *)
LEMMA SafeInit == Init => SafeInv
<1>1. \A t \in Tasks : t # NoTask
  BY ProvisioningAssumption DEF AppTasks, NoTask
<1> QED
  BY <1>1, ProvisioningAssumption DEF Init, QueueInit, Resting, NoSweep,
       SafeInv, BornFirst, DeletedLast, OwnThings,
       KeptWhole, KeptJobs, SweepAsks, Executes, Kept, Provision, AppTasks

---------------------------------------------------------------------------
(* The reconciler.                                                         *)

(* Only a resource of an app whose row is gone for good is dropped.        *)
LEMMA SafeSweep ==
  ASSUME TypeOK, SharedProject, SafeInv, Sweep \/ (\E r \in Resources : PassGrace(r))
  PROVE SafeInv'
<1> USE DEF SafeInv
<1>1. UNCHANGED <<queueVars, appVars, made, migrated>>
  BY DEF Sweep, SweepLists, SweepReadsOwners, SweepReadsTasks, SweepDrops, SweepEnds, PassGrace,
         SweepUnchanged
<1>2. BornFirst' /\ DeletedLast' /\ KeptJobs'
  BY <1>1 DEF BornFirst, DeletedLast, KeptJobs, Executes, Kept, queueVars, appVars
<1>3. resources' \subseteq resources
  BY DEF Sweep, SweepLists, SweepReadsOwners, SweepReadsTasks, SweepDrops, SweepEnds, PassGrace
<1>4. OwnThings'
  BY <1>1, <1>3 DEF OwnThings, Executes, queueVars, appVars
<1>5. ASSUME NEW r \in resources \ resources' PROVE row[r[1]] = "absent"
  BY <1>5 DEF Sweep, SweepLists, SweepReadsOwners, SweepReadsTasks, SweepDrops, SweepEnds,
       PassGrace, SweepAsks
<1>6. KeptWhole'
  <2>1. ASSUME NEW a \in Apps, Kept(a), First(a) \in resources PROVE First(a) \in resources'
    <3>1. First(a)[1] = a
      BY DEF First
    <3> QED BY <1>5, <2>1, <3>1 DEF Kept
  <2> QED BY <1>1, <2>1 DEF KeptWhole, Kept, appVars
<1>7. SweepAsks'
  <2>1. \A r \in resources : route[r[1]] # "unborn"
    <3>1. ASSUME NEW r \in resources, route[r[1]] = "unborn" PROVE FALSE
      <4>1. r \in Resources /\ r[1] \in Apps /\ r[2] \in Nat /\ r[2] # 0 /\ r[2] <= made[r[1]]
        BY ProvisioningAssumption DEF TypeOK, Resources, OwnThings
      <4>2. made[r[1]] = 0
        BY <3>1, <4>1 DEF BornFirst
      <4> QED BY <4>1, <4>2
    <3> QED BY <3>1
  <2>2. route' = route /\ row' = row
    BY <1>1 DEF appVars
  <2>3. CASE UNCHANGED sweep
    BY <2>2, <2>3 DEF SweepAsks
  <2>4. CASE SweepLists
    BY <2>1, <2>2, <2>4 DEF SweepLists, SweepAsks, TypeOK
  <2>5. CASE SweepReadsOwners
    BY <2>2, <2>5 DEF SweepReadsOwners, SweepAsks, Claimed, SharedProject
  <2>6. CASE SweepReadsTasks
    BY <2>2, <2>6 DEF SweepReadsTasks, SweepAsks
  <2>7. CASE SweepDrops
    BY <2>2, <2>7 DEF SweepDrops, SweepAsks, TypeOK
  <2>8. CASE SweepEnds
    BY <2>8 DEF SweepEnds, NoSweep, SweepAsks
  <2> QED
    BY <2>3, <2>4, <2>5, <2>6, <2>7, <2>8 DEF Sweep, PassGrace
<1> QED
  BY <1>2, <1>4, <1>6, <1>7

(* The lists of the reconciler stay right while others work.               *)
LEMMA SweepAsksStays ==
  ASSUME TypeOK, SweepAsks, Onward, UNCHANGED sweep PROVE SweepAsks'
<1>1. \A r \in sweep.listed : r[1] \in Apps
  BY DEF TypeOK, Resources
<1> QED
  BY <1>1 DEF SweepAsks, Onward

---------------------------------------------------------------------------
(* The requests.                                                           *)

(* A new row starts with nothing, and a deletion ends the promise before   *)
(* its task is there.                                                      *)
LEMMA SafeRequest ==
  ASSUME TypeOK, SafeInv, Onward, NEW b \in Apps, Request(b) \/ RouteDies(b) PROVE SafeInv'
<1> USE DEF SafeInv
<1>1. UNCHANGED <<job, conn, resources, made, migrated, sweep>>
  BY DEF Request, InsertAppRow, IndexApp, EnqueueProvision, MarkDeleting, Unindex,
         EnqueueDeprovision, CleanIndex, RouteDies, queueVars, neonVars
<1>2. OwnThings' /\ SweepAsks'
  BY <1>1, SweepAsksStays DEF OwnThings, Executes
<1>3. ASSUME NEW a \in Apps
      PROVE /\ a # b => route'[a] = route[a] /\ row'[a] = row[a]
            /\ route'[b] # "unborn"
            /\ route[b] # "unborn" /\ row'[b] # "absent" /\ row'[b] # row[b] => row'[b] = "deleting"
            /\ route[b] = "unborn" => row'[b] \in {"absent", "provisioning"}
  BY DEF Request, InsertAppRow, IndexApp, EnqueueProvision, MarkDeleting, Unindex,
         EnqueueDeprovision, CleanIndex, RouteDies, Route, TypeOK
<1>4. \A t \in Tasks : task'[t] = task[t] \/ t = Provision(b) \/
        (t = Deprovision(b) /\ route'[b] = "deleted")
  BY DEF Request, InsertAppRow, IndexApp, EnqueueProvision, MarkDeleting, Unindex,
         EnqueueDeprovision, CleanIndex, RouteDies, Route, Enqueue, queueVars, TypeOK
<1>5. BornFirst'
  BY <1>1, <1>3, <1>4 DEF BornFirst, Executes, Provision, Deprovision
<1>6. DeletedLast'
  <2>1. ASSUME NEW a \in Apps, route[a] = "deleted" PROVE route'[a] = "deleted"
    BY <2>1 DEF Onward
  <2> QED BY <1>1, <1>4, <2>1, ProvisioningAssumption DEF DeletedLast, Provision, Deprovision, AppTasks
<1>7. ASSUME NEW a \in Apps, Kept(a)', ~ Kept(a)
      PROVE /\ made[a] = 0 /\ row'[a] # "ready"
            /\ \A w \in Workers : job[w].task # Provision(a)
  <2>1. a = b /\ route[b] = "unborn"
    BY <1>3, <1>7 DEF Kept, Onward
  <2>2. Provision(a) \in Tasks /\ Provision(a).app = a
    BY ProvisioningAssumption DEF Provision, AppTasks
  <2> QED BY <1>3, <2>1, <2>2 DEF BornFirst, Executes
<1>8. ASSUME NEW a \in Apps, Kept(a)', Kept(a), row'[a] = "ready" PROVE row[a] = "ready"
  BY <1>3, <1>8 DEF Kept, BornFirst
<1>9. KeptWhole'
  BY <1>1, <1>7, <1>8 DEF KeptWhole, First
<1>10. KeptJobs'
  BY <1>1, <1>7 DEF KeptJobs, First
<1> QED
  BY <1>2, <1>5, <1>6, <1>9, <1>10

---------------------------------------------------------------------------
(* The queue.                                                              *)

(* Polls, recoveries and deaths start executions of tasks that exist, and  *)
(* end them.                                                               *)
LEMMA SafeQueue ==
  ASSUME TypeOK, SafeInv,
         (\E w \in Workers : Poll(w) \/ (Die(w) /\ UNCHANGED <<appVars, neonVars, sweep, lost>>))
           \/ Clock
  PROVE SafeInv'
<1> USE DEF SafeInv
<1> DEFINE Ended(w) == job'[w] = Resting
           Moved(w) == /\ job'[w].pc \in {"rest", "start", "tell"}
                       /\ job'[w].db = job[w].db /\ job'[w].task = job[w].task
           Begun(w) == /\ job'[w].pc \in {"start", "tell"} /\ job'[w].db = NoResource
                       /\ job'[w].task \in Tasks /\ task[job'[w].task] # "absent"
           JobSteps == \A w \in Workers : job'[w] = job[w] \/ Ended(w) \/ Moved(w) \/ Begun(w)
<1>1. UNCHANGED <<row, route, conn, resources, made, migrated, sweep>>
  BY DEF Poll, Clock, appVars, neonVars
<1>2. ASSUME NEW t \in Tasks, task[t] = "absent" PROVE task'[t] = "absent"
  <2>1. ASSUME NEW w \in Workers, Claim(w) \/ Recover(w) \/ Exhaust(w) PROVE task'[t] = "absent"
    BY <1>2, <2>1 DEF Claim, Recover, Exhaust, Stale, TypeOK
  <2>2. ASSUME NEW w \in Workers, Complete(w) \/ BackOff(w) \/ GiveUp(w)
        PROVE task'[t] = "absent"
    BY <1>2, <2>2 DEF Complete, BackOff, GiveUp, Write, TypeOK
  <2>3. ASSUME UNCHANGED task PROVE task'[t] = "absent"
    BY <1>2, <2>3
  <2> QED BY <2>1, <2>2, <2>3 DEF Poll, Clock, PassThreshold, Die
<1>3. JobSteps
  <2>1. ASSUME NEW x \in Workers, Claim(x) PROVE JobSteps
    <3>1. PICK t \in Tasks :
            /\ task[t] = "pending"
            /\ job' = [job EXCEPT ![x] = [Resting EXCEPT !.pc = "start", !.task = t,
                                                      !.attempt = attempts[t] + 1]]
      BY <2>1 DEF Claim
    <3>2. job'[x].pc = "start" /\ job'[x].db = NoResource /\ job'[x].task = t
      BY <3>1 DEF Resting, TypeOK
    <3>3. Begun(x)
      BY <3>1, <3>2
    <3> QED BY <3>1, <3>3 DEF TypeOK
  <2>2. ASSUME NEW x \in Workers, Complete(x) \/ BackOff(x) \/ Recover(x) \/ Die(x) PROVE JobSteps
    BY <2>2 DEF Complete, BackOff, Recover, Die, TypeOK
  <2>3. ASSUME NEW x \in Workers, GiveUp(x) PROVE JobSteps
    <3>1. CASE job' = [job EXCEPT ![x] = Resting]
      BY <3>1 DEF TypeOK
    <3>2. CASE Goto(x, "tell")
      <4>1. /\ job'[x].pc = "tell" /\ job'[x].db = job[x].db /\ job'[x].task = job[x].task
            /\ \A y \in Workers \ {x} : job'[y] = job[y]
        BY <3>2, GotoMoves, HoldMoves
      <4> QED BY <4>1
    <3> QED BY <2>3, <3>1, <3>2 DEF GiveUp
  <2>4. ASSUME NEW x \in Workers, Exhaust(x) PROVE JobSteps
    <3>1. PICK t \in Tasks :
            /\ task[t] = "processing"
            /\ job' = IF t.type = "provision"
                      THEN [job EXCEPT ![x] = [Resting EXCEPT !.pc = "tell", !.task = t]]
                      ELSE job
      BY <2>4 DEF Exhaust, Stale
    <3>2. CASE t.type = "provision"
      <4>1. job'[x].pc = "tell" /\ job'[x].db = NoResource /\ job'[x].task = t
        BY <3>1, <3>2 DEF Resting, TypeOK
      <4>2. Begun(x)
        BY <3>1, <4>1
      <4> QED BY <3>1, <3>2, <4>2 DEF TypeOK
    <3> QED BY <3>1, <3>2
  <2>5. ASSUME UNCHANGED job PROVE JobSteps
    BY <2>5
  <2> QED BY <2>1, <2>2, <2>3, <2>4, <2>5 DEF Poll, Clock, PassThreshold
<1>4. Resting.task \notin Tasks /\ Resting.db = NoResource /\ Resting.pc = "rest"
  BY ProvisioningAssumption DEF Resting, NoTask, AppTasks
<1> HIDE DEF JobSteps
<1>5. ASSUME NEW w \in Workers, job'[w].task \in Tasks
      PROVE job'[w].task = job[w].task \/ task[job'[w].task] # "absent"
  BY <1>3, <1>4, <1>5 DEF JobSteps
<1>6. BornFirst'
  BY <1>1, <1>2, <1>5 DEF BornFirst, Executes
<1>7. DeletedLast'
  BY <1>1, <1>2, <1>5 DEF DeletedLast
<1>8. OwnThings'
  BY <1>1, <1>3, <1>4 DEF JobSteps, OwnThings, Executes
<1>9. KeptWhole'
  BY <1>1 DEF KeptWhole, Kept
<1>10. KeptJobs'
  BY <1>1, <1>3, <1>4 DEF JobSteps, KeptJobs, Kept
<1>11. SweepAsks'
  BY <1>1 DEF SweepAsks
<1> QED
  BY <1>6, <1>7, <1>8, <1>9, <1>10, <1>11

---------------------------------------------------------------------------
(* The executors.                                                          *)

(* An executor works for its app alone and makes no rows and no tasks.     *)
LEMMA ExecutorFrame ==
  ASSUME TypeOK, NEW w \in Workers, Executor(w)
  PROVE /\ UNCHANGED <<route, sweep>>
        /\ \A x \in Workers \ {w} : job'[x] = job[x]
        /\ job'[w].task = job[w].task \/ job'[w] = Resting
        /\ \A t \in Tasks : task[t] = "absent" => task'[t] = "absent"
        /\ \A a \in Apps : /\ row[a] = "absent" => row'[a] = "absent"
                           /\ ~ Executes(w, a) => made'[a] = made[a] /\ conn'[a] = conn[a]
<1>1. UNCHANGED <<route, sweep>>
  BY DEF Executor, ProvisionResolves, ProvisionFinds, ProvisionMakes, ProvisionCreates,
       ProvisionConnects, ProvisionMigrates, ProvisionReady, TellApp, DeprovisionReads,
       DeprovisionTearsDown, DeprovisionDeletes, DeprovisionUnindexes, Throw, ProvisionUnchanged
<1> DEFINE OneJob == /\ \A x \in Workers \ {w} : job'[x] = job[x]
                     /\ job'[w].task = job[w].task \/ job'[w] = Resting
<1>2. OneJob
  <2>1. ASSUME NEW pc, Goto(w, pc) PROVE OneJob
    BY <2>1, GotoMoves
  <2>3. ASSUME NEW pc, NEW db, Hold(w, pc, db) PROVE OneJob
    BY <2>3, HoldMoves
  <2>2. ASSUME TellApp(w) PROVE OneJob
    BY <2>2 DEF TellApp, TypeOK
  <2> QED
    BY <2>1, <2>2, <2>3 DEF Executor, ProvisionResolves, ProvisionFinds, ProvisionMakes,
       ProvisionCreates, ProvisionConnects, ProvisionMigrates, ProvisionReady, DeprovisionReads,
       DeprovisionTearsDown, DeprovisionDeletes, DeprovisionUnindexes, Throw
<1>3. \A t \in Tasks : task[t] = "absent" => task'[t] = "absent"
  BY DEF Executor, ProvisionResolves, ProvisionFinds, ProvisionMakes, ProvisionCreates,
       ProvisionConnects, ProvisionMigrates, ProvisionReady, TellApp, DeprovisionReads,
       DeprovisionTearsDown, DeprovisionDeletes, DeprovisionUnindexes, Throw, ProvisionUnchanged
<1>4. \A a \in Apps : row[a] = "absent" => row'[a] = "absent"
  BY DEF Executor, ProvisionResolves, ProvisionFinds, ProvisionMakes, ProvisionCreates,
       ProvisionConnects, ProvisionMigrates, ProvisionReady, TellApp, DeprovisionReads, SetRow,
       DeprovisionTearsDown, DeprovisionDeletes, DeprovisionUnindexes, Throw, TypeOK
<1>5. ASSUME NEW a \in Apps, ~ Executes(w, a) PROVE made'[a] = made[a] /\ conn'[a] = conn[a]
  <2>1. \A pc, type : type # "none" /\ At(w, pc, type) => job[w].task \in Tasks
    BY DEF TypeOK, At, NoTask
  <2> QED
    BY <1>5, <2>1 DEF Executor, ProvisionResolves, ProvisionFinds, ProvisionMakes,
       ProvisionCreates, ProvisionConnects, ProvisionMigrates, ProvisionReady, TellApp,
       DeprovisionReads, DeprovisionTearsDown, DeprovisionDeletes, DeprovisionUnindexes, Throw,
       Executes, Make, neonVars, TypeOK
<1> QED
  BY <1>1, <1>2, <1>3, <1>4, <1>5

(* A statement that leaves the app's database alone.                       *)
LEMMA SafeQuiet ==
  ASSUME TypeOK, SafeInv, NEW w \in Workers, Executor(w),
         UNCHANGED <<conn, resources, made, migrated>>,
         \A a \in Apps : row'[a] = "ready" => row[a] = "ready",
         job'[w].pc \notin {"connect", "migrate", "ready"},
         \/ job'[w].db \in {NoResource, job[w].db} /\ job'[w].task = job[w].task
         \/ job'[w] = Resting
         \/ job[w].task \in Tasks /\ job'[w].db = conn[job[w].task.app] /\ job'[w].task = job[w].task
  PROVE OwnThings' /\ KeptWhole' /\ KeptJobs'
<1> USE ExecutorFrame DEF SafeInv
<1>1. Resting.db = NoResource
  BY DEF Resting
<1>2. OwnThings'
  <2>1. \A t \in Tasks : t.app \in Apps
    BY ProvisioningAssumption DEF AppTasks
  <2> QED BY <1>1, <2>1 DEF OwnThings, Executes
<1>3. ASSUME NEW a \in Apps, Kept(a)' PROVE Kept(a)
  BY <1>3 DEF Kept
<1>4. KeptWhole'
  BY <1>3 DEF KeptWhole
<1>5. KeptJobs'
  BY <1>3 DEF KeptJobs
<1> QED
  BY <1>2, <1>4, <1>5

(* An execution of the provision task: every one of them comes to the same *)
(* resource.                                                               *)
LEMMA SafeProvision ==
  ASSUME TypeOK, SafeInv, SharedProject, NEW w \in Workers, Executor(w),
         \/ ProvisionCreates(w) \/ ProvisionConnects(w) \/ ProvisionMigrates(w) \/ ProvisionReady(w)
  PROVE OwnThings' /\ KeptWhole' /\ KeptJobs'
<1> USE DEF SafeInv
<1> DEFINE a == job[w].task.app
<1>1. /\ job[w].task \in Tasks /\ a \in Apps /\ job[w].task = Provision(a) /\ Executes(w, a)
  BY ProvisioningAssumption DEF ProvisionCreates, ProvisionConnects,
         ProvisionMigrates, ProvisionReady, At, TypeOK,
         NoTask, AppTasks, Provision, Executes
<1>2. \A x \in Workers \ {w} : job'[x] = job[x]
  BY ExecutorFrame
<1>3. \A b \in Apps : Kept(b)' => Kept(b)
  BY ExecutorFrame DEF Kept
<1>4. \A b \in Apps \ {a} : ~ Executes(w, b) /\ First(b) # First(a) /\ job[w].task # Provision(b)
  BY <1>1 DEF Executes, First, Provision
<1>5. \A b \in Apps \ {a} : made'[b] = made[b] /\ conn'[b] = conn[b]
  BY <1>4, ExecutorFrame
<1> HIDE DEF a
<1>6. CASE ProvisionCreates(w)
  <2>1. UNCHANGED <<row, conn, migrated>>
    BY <1>6 DEF ProvisionCreates
  <2>2. CASE /\ Own(a) = {} /\ Make(a)
             /\ Hold(w, "connect", Fresh(a)) \/ Goto(w, "threw")
    <3>1. /\ made' = [made EXCEPT ![a] = @ + 1] /\ resources' = resources \union {Fresh(a)}
          /\ made[a] \in Nat /\ made'[a] = made[a] + 1
      BY <1>1, <2>2 DEF Make, TypeOK
    <3>2. /\ job'[w].task = job[w].task
          /\ \/ job'[w].pc = "connect" /\ job'[w].db = Fresh(a)
             \/ job'[w].pc = "threw" /\ job'[w].db = job[w].db
      BY <2>2, GotoMoves, HoldMoves
    <3>3. ASSUME Kept(a) PROVE made[a] = 0 /\ Fresh(a) = First(a)
      <4>1. First(a) \notin resources
        BY <2>2 DEF Own, First
      <4> QED BY <1>1, <3>3, <4>1 DEF KeptWhole, Fresh, First
    <3>4. OwnThings'
      <4>1. \A r \in resources : r \in Resources /\ r[1] \in Apps /\ made[r[1]] \in Nat
                                  /\ r[2] \in Nat
        BY ProvisioningAssumption DEF TypeOK, Resources
      <4>2. \A r \in resources' : r[2] <= made'[r[1]]
        <5>1. ASSUME NEW r \in resources PROVE r[2] <= made'[r[1]]
          <6>1. made[r[1]] <= made'[r[1]]
            BY <1>5, <3>1, <4>1
          <6>2. r[2] <= made[r[1]] /\ made'[r[1]] \in Nat
            BY <1>5, <3>1, <4>1 DEF OwnThings
          <6> QED BY <4>1, <6>1, <6>2
        <5>2. Fresh(a)[2] <= made'[Fresh(a)[1]]
          BY <3>1 DEF Fresh
        <5> QED BY <3>1, <5>1, <5>2
      <4>3. \A x \in Workers : job'[x].db = NoResource \/ Executes(x, job[x].db[1])'
        BY <1>1, <1>2, <3>2 DEF OwnThings, Executes, Fresh
      <4> QED BY <2>1, <4>2, <4>3 DEF OwnThings
    <3>5. KeptWhole'
      <4>1. ASSUME NEW b \in Apps \ {a}, Kept(b)
            PROVE /\ made'[b] \in {0, 1} /\ (made'[b] = 1 => First(b) \in resources')
                  /\ (row[b] = "ready" => conn[b] = First(b) /\ made'[b] = 1 /\ First(b) \in migrated)
        BY <1>5, <3>1, <4>1 DEF KeptWhole
      <4>2. ASSUME Kept(a)
            PROVE made'[a] = 1 /\ First(a) \in resources' /\ row[a] # "ready"
        BY <1>1, <3>1, <3>3, <4>2 DEF KeptWhole
      <4> QED BY <1>3, <2>1, <4>1, <4>2 DEF KeptWhole
    <3>6. KeptJobs'
      <4>1. ASSUME NEW x \in Workers, NEW b \in Apps \ {a}, Kept(b), job'[x].task = Provision(b)
            PROVE x # w /\ made'[b] = made[b]
        BY <1>4, <1>5, <3>2, <4>1
      <4>2. ASSUME NEW x \in Workers \ {w}, Kept(a), job[x].task = Provision(a)
            PROVE job[x].pc \notin {"connect", "migrate", "ready"}
        BY <1>1, <3>3, <4>2 DEF KeptJobs
      <4>3. ASSUME Kept(a), job'[w].pc = "connect" PROVE job'[w].db = First(a) /\ made'[a] = 1
        BY <3>1, <3>2, <3>3, <4>3
      <4> QED BY <1>1, <1>2, <1>3, <2>1, <3>2, <4>1, <4>2, <4>3 DEF KeptJobs
    <3> QED BY <3>4, <3>5, <3>6
  <2>3. ASSUME NEW r \in Own(a), Hold(w, "connect", r), UNCHANGED <<resources, made>>
        PROVE OwnThings' /\ KeptWhole' /\ KeptJobs'
    <3>1. /\ job'[w].task = job[w].task /\ job'[w].pc = "connect" /\ job'[w].db = r
      BY <2>3, GotoMoves, HoldMoves
    <3>2. ASSUME Kept(a) PROVE r = First(a) /\ made[a] = 1
      <4>1. r \in resources /\ r[1] = a /\ r[2] <= made[r[1]] /\ r \in Resources
        BY DEF Own, OwnThings, TypeOK
      <4>2. PICK n \in 1 .. MaxMade : r = <<a, n>>
        BY <4>1 DEF Resources
      <4>3. made[a] \in {0, 1} /\ n <= made[a]
        BY <1>1, <3>2, <4>1, <4>2 DEF KeptWhole
      <4> QED BY <4>2, <4>3, ProvisioningAssumption DEF First
    <3>3. OwnThings'
      BY <1>1, <1>2, <2>1, <2>3, <3>1 DEF OwnThings, Own, Executes
    <3>4. KeptWhole'
      BY <1>3, <2>1, <2>3 DEF KeptWhole
    <3>5. KeptJobs'
      BY <1>1, <1>2, <1>3, <1>4, <2>1, <2>3, <3>1, <3>2 DEF KeptJobs
    <3> QED BY <3>3, <3>4, <3>5
  <2> QED BY <1>6, <2>2, <2>3 DEF ProvisionCreates, a
<1>7. CASE ProvisionConnects(w)
  <2>1. /\ UNCHANGED <<row, resources, made, migrated>> /\ job[w].pc = "connect"
        /\ \/ conn' = [conn EXCEPT ![a] = job[w].db] /\ job[w].db \in resources /\ Goto(w, "migrate")
           \/ conn' = conn /\ Goto(w, "threw")
    BY <1>7 DEF ProvisionConnects, neonVars, At, a
  <2>2. /\ job'[w].task = job[w].task /\ job'[w].db = job[w].db
        /\ \/ job'[w].pc = "migrate" /\ conn'[a] = job[w].db /\ job[w].db \in resources
           \/ job'[w].pc = "threw" /\ conn'[a] = conn[a]
    BY <1>1, <2>1, GotoMoves, HoldMoves DEF TypeOK
  <2>3. ASSUME Kept(a) PROVE job[w].db = First(a) /\ made[a] = 1
    BY <1>1, <2>1, <2>3 DEF KeptJobs
  <2>4. OwnThings'
    <3>1. job[w].db = NoResource \/ job[w].db[1] = a
      BY <1>1 DEF OwnThings, Executes, a
    <3>2. \A b \in Apps : conn'[b] = NoResource \/ conn'[b][1] = b
      BY <1>5, <2>2, <3>1 DEF OwnThings
    <3> QED BY <1>2, <2>1, <2>2, <3>2 DEF OwnThings, Executes
  <2>5. KeptWhole'
    BY <1>3, <1>5, <2>1, <2>2, <2>3 DEF KeptWhole
  <2>6. KeptJobs'
    BY <1>1, <1>2, <1>3, <1>4, <1>5, <2>1, <2>2, <2>3 DEF KeptJobs
  <2> QED BY <2>4, <2>5, <2>6
<1>8. CASE ProvisionMigrates(w)
  <2>1. /\ UNCHANGED <<row, conn, resources, made>> /\ job[w].pc = "migrate"
        /\ \/ migrated' = migrated \union {job[w].db} /\ Goto(w, "ready")
           \/ migrated' = migrated /\ Goto(w, "threw")
    BY <1>8 DEF ProvisionMigrates, At
  <2>2. /\ job'[w].task = job[w].task /\ job'[w].db = job[w].db /\ migrated \subseteq migrated'
        /\ \/ job'[w].pc = "ready" /\ job[w].db \in migrated'
           \/ job'[w].pc = "threw"
    BY <2>1, GotoMoves, HoldMoves
  <2>3. OwnThings'
    BY <1>2, <2>1, <2>2 DEF OwnThings, Executes
  <2>4. KeptWhole'
    BY <1>3, <2>1, <2>2 DEF KeptWhole
  <2>5. KeptJobs'
    BY <1>1, <1>2, <1>3, <1>4, <2>1, <2>2 DEF KeptJobs
  <2> QED BY <2>3, <2>4, <2>5
<1>9. CASE ProvisionReady(w)
  <2>1. /\ UNCHANGED <<conn, resources, made, migrated>> /\ job[w].pc = "ready" /\ Goto(w, "done")
        /\ \A b \in Apps \ {a} : row'[b] = row[b]
    BY <1>9 DEF ProvisionReady, SetRow, neonVars, At, TypeOK, a
  <2>2. /\ job'[w].task = job[w].task /\ job'[w].db = job[w].db /\ job'[w].pc = "done"
    BY <2>1, GotoMoves, HoldMoves
  <2>3. OwnThings'
    BY <1>2, <2>1, <2>2 DEF OwnThings, Executes
  <2>4. ASSUME Kept(a) PROVE conn[a] = First(a) /\ made[a] = 1 /\ First(a) \in migrated
    BY <1>1, <2>1, <2>4 DEF KeptJobs
  <2>5. KeptWhole'
    BY <1>3, <2>1, <2>4 DEF KeptWhole
  <2>6. KeptJobs'
    BY <1>2, <1>3, <2>1, <2>2 DEF KeptJobs
  <2> QED BY <2>3, <2>5, <2>6
<1> QED
  BY <1>6, <1>7, <1>8, <1>9

(* An execution of the deprovision task comes when the app is kept no more.*)
LEMMA SafeDeprovision ==
  ASSUME TypeOK, SafeInv, NEW w \in Workers, Executor(w),
         DeprovisionTearsDown(w) \/ DeprovisionDeletes(w)
  PROVE OwnThings' /\ KeptWhole' /\ KeptJobs'
<1> USE DEF SafeInv
<1> DEFINE a == job[w].task.app
<1>1. /\ job[w].task \in Tasks /\ a \in Apps /\ job[w].task = Deprovision(a) /\ Executes(w, a)
  BY ProvisioningAssumption DEF DeprovisionTearsDown, DeprovisionDeletes, At, TypeOK,
         NoTask, AppTasks, Deprovision,
         Executes
<1>2. ~ Kept(a)
  BY <1>1 DEF DeletedLast, Deprovision, Kept
<1>3. /\ \A x \in Workers \ {w} : job'[x] = job[x]
      /\ \A b \in Apps : Kept(b)' => Kept(b)
      /\ \A b \in Apps \ {a} : made'[b] = made[b] /\ conn'[b] = conn[b]
  BY <1>1, ExecutorFrame DEF Kept, Executes
<1>4. job'[w].task = job[w].task /\ job'[w].db = job[w].db
      /\ job'[w].pc \in {"deleteRow", "unindex"}
  BY GotoMoves, HoldMoves DEF DeprovisionTearsDown, DeprovisionDeletes
<1>5. UNCHANGED <<made, migrated>> /\ resources' \subseteq resources
      /\ \A b \in Apps \ {a} : row'[b] = row[b]
  BY DEF DeprovisionTearsDown, DeprovisionDeletes, neonVars, TypeOK
<1>6. ASSUME NEW b \in Apps, Kept(b), First(b) \in resources PROVE First(b) \in resources'
  <2>1. First(b) # job[w].db
    <3>1. First(b)[1] = b /\ First(b) # NoResource
      BY DEF First, NoResource
    <3> QED BY <1>1, <1>2, <1>6, <3>1 DEF OwnThings, Executes
  <2> QED BY <1>6, <2>1 DEF DeprovisionTearsDown, DeprovisionDeletes, neonVars
<1>7. OwnThings'
  <2>1. \A b \in Apps : conn'[b] = conn[b] \/ conn'[b] = NoResource
    BY DEF DeprovisionTearsDown, DeprovisionDeletes, TypeOK
  <2> QED BY <1>3, <1>4, <1>5, <2>1 DEF OwnThings, Executes
<1>8. KeptWhole'
  BY <1>2, <1>3, <1>5, <1>6 DEF KeptWhole
<1>9. KeptJobs'
  BY <1>2, <1>3, <1>4, <1>5 DEF KeptJobs
<1> QED
  BY <1>7, <1>8, <1>9

(* Every statement of an executor.                                         *)
LEMMA SafeExecutor ==
  ASSUME TypeOK, SafeInv, SharedProject, NEW w \in Workers, Executor(w) PROVE SafeInv'
<1>1. Onward
  <2>1. Next
    BY DEF Next
  <2> QED BY <2>1, NextOnward
<1>2. SweepAsks'
  BY <1>1, ExecutorFrame, SweepAsksStays DEF SafeInv
<1>3. Resting.task \notin Tasks
  BY ProvisioningAssumption DEF Resting, NoTask, AppTasks
<1>4. \A x \in Workers : job'[x].task \in Tasks => job'[x].task = job[x].task
  BY <1>3, ExecutorFrame
<1>5. BornFirst'
  <2>1. ASSUME NEW a \in Apps, route[a] = "unborn" PROVE ~ Executes(w, a)
    BY <2>1 DEF SafeInv, BornFirst
  <2> QED BY <1>4, <2>1, ExecutorFrame DEF SafeInv, BornFirst, Executes
<1>6. DeletedLast'
  BY <1>4, ExecutorFrame DEF SafeInv, DeletedLast
<1>7. OwnThings' /\ KeptWhole' /\ KeptJobs'
  <2>1. CASE \/ ProvisionCreates(w) \/ ProvisionConnects(w) \/ ProvisionMigrates(w)
             \/ ProvisionReady(w)
    BY <2>1, SafeProvision
  <2>2. CASE DeprovisionTearsDown(w) \/ DeprovisionDeletes(w)
    BY <2>2, SafeDeprovision
  <2>3. CASE ProvisionResolves(w) \/ Throw(w) \/ DeprovisionUnindexes(w)
    <3>1. /\ UNCHANGED <<row, conn, resources, made, migrated>>
          /\ Goto(w, "find") \/ Goto(w, "threw") \/ Goto(w, "done")
      BY <2>3 DEF ProvisionResolves, Throw, DeprovisionUnindexes, neonVars
    <3>2. /\ job'[w].pc \in {"find", "threw", "done"} /\ job'[w].db = job[w].db
          /\ job'[w].task = job[w].task
      BY <3>1, GotoMoves, HoldMoves
    <3> QED BY <3>1, <3>2, SafeQuiet
  <2>4. CASE DeprovisionReads(w)
    <3>1. /\ UNCHANGED <<row, conn, resources, made, migrated>>
          /\ Hold(w, "teardown", conn[job[w].task.app]) /\ job[w].task \in Tasks
      BY <2>4 DEF DeprovisionReads, neonVars, At, TypeOK, NoTask
    <3>2. /\ job'[w].pc = "teardown" /\ job'[w].db = conn[job[w].task.app]
          /\ job'[w].task = job[w].task
      BY <3>1, GotoMoves, HoldMoves
    <3> QED BY <3>1, <3>2, SafeQuiet
  <2>5. CASE TellApp(w)
    <3>1. /\ UNCHANGED <<conn, resources, made, migrated>> /\ job'[w] = Resting
          /\ \A a \in Apps : row'[a] = "ready" => row[a] = "ready"
      BY <2>5 DEF TellApp, SetRow, neonVars, TypeOK
    <3>2. job'[w].pc = "rest"
      BY <3>1 DEF Resting
    <3> QED BY <3>1, <3>2, SafeQuiet
  <2> QED
    BY <2>1, <2>2, <2>3, <2>4, <2>5
    DEF Executor, SharedProject, ProvisionFinds, ProvisionMakes
<1> QED
  BY <1>2, <1>5, <1>6, <1>7 DEF SafeInv

---------------------------------------------------------------------------
(* The inductive invariant and what follows from it.                       *)

(* Every step keeps it.                                                    *)
LEMMA SafeNext == SharedProject /\ TypeOK /\ SafeInv /\ [Next]_vars => SafeInv'
<1> SUFFICES ASSUME SharedProject, TypeOK, SafeInv, [Next]_vars PROVE SafeInv'
  OBVIOUS
<1>1. CASE UNCHANGED vars
  BY <1>1 DEF vars, queueVars, appVars, neonVars, SafeInv, BornFirst, DeletedLast, OwnThings,
       KeptWhole, KeptJobs, SweepAsks, Executes, Kept
<1> QED
  BY <1>1, SafeQueue, SafeExecutor, SafeRequest, SafeSweep, NextOnward DEF Next, Death

(* It is an invariant of a shared project.                                 *)
LEMMA Inductive == SharedProject => (Spec => [](TypeOK /\ SafeInv))
<1> SUFFICES ASSUME SharedProject PROVE Spec => [](TypeOK /\ SafeInv)
  OBVIOUS
<1>1. Init => TypeOK /\ SafeInv
  BY TypeInit, SafeInit
<1>2. TypeOK /\ SafeInv /\ [Next]_vars => (TypeOK /\ SafeInv)'
  BY TypeNext, SafeNext
<1> QED
  BY <1>1, <1>2, PTL DEF Spec

(* The rows, jobs and lists keep their shapes, with one project per app    *)
(* too (neon-task-worker.ts).                                              *)
THEOREM ProvisioningTypes == Spec => []TypeOK
<1>1. Init => TypeOK
  BY TypeInit
<1>2. TypeOK /\ [Next]_vars => TypeOK'
  BY TypeNext
<1> QED
  BY <1>1, <1>2, PTL DEF Spec

(* In a shared project an app that is ready stays usable until its         *)
(* deprovision task is there, however many executions of its provision     *)
(* task overtake one another (executeProvision).                           *)
THEOREM ReadyAppsAreUsable == SharedProject => (Spec => []ReadyIsUsable)
<1> SUFFICES ASSUME SharedProject PROVE Spec => []ReadyIsUsable
  OBVIOUS
<1>1. TypeOK /\ SafeInv => ReadyIsUsable
  BY DEF SafeInv, KeptWhole, Kept, ReadyIsUsable
<1> QED
  BY <1>1, Inductive, PTL

(* The reconciler of a shared project never drops what a living app has or *)
(* is being given, on lists however old (neon-orphan-reconciler.ts).       *)
THEOREM ReconcilerSparesTheLiving == SharedProject => (Spec => SweepsOnlyOrphans)
<1> SUFFICES ASSUME SharedProject PROVE Spec => SweepsOnlyOrphans
  OBVIOUS
<1> DEFINE Spared == \A r \in resources \ resources' :
       sweep' # sweep /\ row[r[1]] # "absent" =>
         /\ conn[r[1]] # r
         /\ \A w \in Workers : job[w].task.type = "provision" => job[w].db # r
<1>1. ASSUME TypeOK, SafeInv, [Next]_vars PROVE [Spared]_vars
  <2>1. CASE sweep' = sweep
    BY <2>1
  <2>2. CASE Sweep
    <3>1. ASSUME NEW r \in resources \ resources' PROVE row[r[1]] = "absent"
      BY <1>1, <2>2, <3>1 DEF Sweep, SweepLists, SweepReadsOwners, SweepReadsTasks, SweepDrops,
           SweepEnds, SafeInv, SweepAsks
    <3> QED BY <3>1
  <2>3. sweep' = sweep \/ Sweep
    <3>1. ASSUME NEW w \in Workers, Executor(w) PROVE sweep' = sweep
      BY <3>1, <1>1, ExecutorFrame
    <3>2. ASSUME NEW a \in Apps, Request(a) \/ RouteDies(a) PROVE sweep' = sweep
      BY <3>2 DEF Request, InsertAppRow, IndexApp, EnqueueProvision, MarkDeleting, Unindex,
           EnqueueDeprovision, CleanIndex, RouteDies
    <3> QED BY <1>1, <3>1, <3>2 DEF Next, Poll, Clock, Death, PassGrace, vars
  <2> QED BY <2>1, <2>2, <2>3
<1>2. TypeOK /\ SafeInv /\ [Next]_vars => [Spared]_vars
  BY <1>1
<1> QED
  BY <1>2, Inductive, PTL DEF Spec, SweepsOnlyOrphans

=============================================================================

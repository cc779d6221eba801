------------------------ MODULE TemplateUpdateProofs ------------------------
(***************************************************************************)
(* Proofs about in-place template updates, for any workers, requests,      *)
(* jobs, attempts, retries and deaths.                                     *)
(*                                                                         *)
(* The argument for NoJobIsLeftBehind: an execution that comes to its end  *)
(* leaves its job ended, so that a job which is active again has another   *)
(* hold: the retry that revived it, a task on which no ending execution    *)
(* works, or an executor that is not at its end.  That such a task is not  *)
(* ended under the eyes of the job needs that a task has one executor,     *)
(* which is true of a task that was never taken back from one at work.     *)
(*                                                                         *)
(* The arguments for what the fork holds stand in front of their lemmas:   *)
(* OwnerWorkSurvives, UndoEscapes, NeverTrapped.                           *)
(***************************************************************************)
EXTENDS TemplateUpdate, TLAPS

TaskStates == {"absent", "pending", "processing", "completed", "failed"}
JobStates == {"unborn", "deleted", "pending", "processing"} \union MidStage \union Ended
JobType == [pc : Places, task : Tasks \union {NoTask}, attempt : Nat, db : {NoResource}]
RequestType == [pc : {"new", "asked", "created", "over"}, target : 1 .. MaxReleases,
                job : Jobs \union {NoJob}]
RetryType == [pc : {"rest", "allowed", "counted"}, job : Jobs \union {NoJob}]

(* The queue, the jobs, and who has a job in hand.                         *)
WorkTypes ==
  /\ task \in [Tasks -> TaskStates] /\ attempts \in [Tasks -> Nat]
  /\ overdue \subseteq Tasks /\ overtaken \subseteq Tasks /\ crashes \in 0 .. MaxCrashes
  /\ job \in [Workers -> JobType]
  /\ \A w \in Workers : IF job[w].pc = "rest" THEN job[w] = Resting ELSE job[w].task \in Tasks
  /\ status \in [Jobs -> JobStates] /\ tries \in [Jobs -> 0 .. MaxRetries]
  /\ request \in [Clients -> RequestType]
  /\ \A c \in Clients : request[c].pc = "created" => request[c].job \in Jobs
  /\ retry \in RetryType
  /\ retry.pc # "rest" => retry.job \in Jobs
  /\ retry.pc = "allowed" => tries[retry.job] < MaxRetries
  /\ reaped \in Jobs \union {NoJob} /\ releases \in 1 .. MaxReleases

Holds(w, t) == job[w].pc # "rest" /\ job[w].task = t

(* What is executed has been enqueued.                                     *)
ExecutedExists == \A w \in Workers : job[w].pc # "rest" => task[job[w].task] # "absent"

(* A task that was not taken back from an executor has at most one, which  *)
(* holds it as it was claimed, or exhausted.                               *)
OneExecutor ==
  \A v, w \in Workers : v # w /\ job[v].pc # "rest" /\ job[w].pc # "rest"
    /\ job[v].task = job[w].task => job[v].task \in overtaken

ExecutorHolds ==
  \A w \in Workers : job[w].pc # "rest" /\ job[w].task \notin overtaken =>
    /\ job[w].attempt = attempts[job[w].task]
    /\ \/ task[job[w].task] = "processing"
       \/ task[job[w].task] = "failed" /\ attempts[job[w].task] >= MaxAttempts

(* Without a death a task that is processing has an executor.              *)
ProcessingHeld ==
  \A t \in Tasks \ overtaken : task[t] = "processing" /\ crashes = 0 => \E w \in Workers : Holds(w, t)

(* Tasks of a retry are enqueued by it.                                    *)
LaterTries ==
  /\ \A t \in Tasks : t.try > tries[t.job] => task[t] = "absent"
  /\ retry.pc = "counted" => task[Queued(retry.job)] = "absent"

(* Nothing but the request that created it knows of job j.                 *)
Untouched(j) ==
  /\ \A t \in Tasks : t.job = j => task[t] = "absent"
  /\ tries[j] = 0
  /\ retry.pc # "rest" => retry.job # j
  /\ reaped # j

NewJobs ==
  /\ \A j \in Jobs : status[j] = "unborn" => Untouched(j)
  /\ \A c \in Clients, j \in Jobs : request[c].pc = "created" /\ request[c].job = j =>
       status[j] = "pending" /\ Untouched(j)
  /\ \A c, d \in Clients : c # d /\ request[c].pc = "created" /\ request[d].pc = "created"
       => request[c].job # request[d].job

(* w is going to end its task.                                             *)
Finishing(w) ==
  \/ job[w].pc \in {"done", "rollback"}
  \/ job[w].pc = "threw" /\ job[w].attempt >= MaxAttempts

WorkedOn(j) == \E w \in Workers : job[w].pc # "rest" /\ JobOf(w) = j /\ ~ Finishing(w)
Waiting(t) == task[t] \in {"pending", "processing"} /\ \A w \in Workers : Holds(w, t) => ~ Finishing(w)
TaskWaits(j) == \E t \in Tasks : t.job = j /\ Waiting(t)
Requested(j) == \/ \E c \in Clients : request[c].pc = "created" /\ request[c].job = j
                \/ retry.pc = "counted" /\ retry.job = j
Excused(j) == crashes > 0 \/ \E t \in overtaken : t.job = j

(* A job that the reaper would not see has a hold that no ending execution *)
(* takes away.                                                             *)
JobsHeld ==
  \A j \in Jobs : status[j] \in {"pending", "processing"} =>
    WorkedOn(j) \/ TaskWaits(j) \/ Requested(j) \/ Excused(j)

WorkInv == ExecutedExists /\ OneExecutor /\ ExecutorHolds /\ ProcessingHeld /\ LaterTries
           /\ NewJobs /\ JobsHeld

workVars == <<queueVars, status, tries, request, retry, reaped, overtaken>>

---------------------------------------------------------------------------
(* Steps, as far as they concern the jobs.                                 *)

(* A statement of executeUpdate.  It changes its own job only, and comes   *)
(* to its end only with a job that is ended.                               *)
Executes(w) ==
  /\ job[w].pc # "rest"
  /\ \E pc \in Places \ {"rest"} : Goto(w, pc)
  /\ UNCHANGED <<task, attempts, overdue, tries, request, retry, reaped, overtaken>>
  /\ crashes' \in crashes .. MaxCrashes
  /\ \/ status' = status
     \/ \E s \in {"processing"} \union MidStage \union Ended :
          status' = [status EXCEPT ![JobOf(w)] = s]
  /\ crashes' = 0 /\ Finishing(w)' =>
       \/ Finishing(w) /\ status' = status
       \/ status'[JobOf(w)] \in Ended

(* What Goto changes of a worker's job.                                    *)
LEMMA GotoMoves ==
  ASSUME WorkTypes, NEW w \in Workers, NEW pc \in Places, Goto(w, pc)
  PROVE /\ job'[w].pc = pc /\ job'[w].task = job[w].task /\ job'[w].attempt = job[w].attempt
        /\ \A x \in Workers \ {w} : job'[x] = job[x]
        /\ job' \in [Workers -> JobType]
BY DEF Goto, WorkTypes, JobType

(* Every statement of executeUpdate is such a step.                        *)
LEMMA UpdateStepExecutes ==
  ASSUME WorkTypes, NEW w \in Workers, UpdateStep(w), UNCHANGED overtaken
  PROVE Executes(w)
<1> USE DEF routeVars, jobVars, ownVars, counters
<1>0. crashes \in crashes .. MaxCrashes /\ crashes \in 0 .. MaxCrashes /\ JobOf(w) = JobOf(w)
  BY UpdateAssumption, QueueAssumption DEF WorkTypes
<1>1. \A pc \in Places : Goto(w, pc) => JobOf(w)' = JobOf(w)
  BY GotoMoves DEF JobOf
<1>2. ASSUME Begins(w) PROVE Executes(w)
  <2>1. job[w].pc = "start" /\ job[w].task \in Tasks /\ JobOf(w) \in Jobs
    BY <1>2, UpdateAssumption DEF Begins, Running, WorkTypes, JobOf, UpdateTasks
  <2>2. CASE status[JobOf(w)] \in Ended
    BY <1>0, <1>2, <2>1, <2>2 DEF Begins, Executes, Places
  <2>3. CASE status[JobOf(w)] \notin Ended
    <3>1. Goto(w, "prepare") /\ status' = [status EXCEPT ![JobOf(w)] = "processing"]
      BY <1>2, <2>3 DEF Begins, SetStatus
    <3>2. ~ Finishing(w)'
      BY <3>1, GotoMoves DEF Finishing, Places
    <3> QED BY <1>0, <1>2, <2>1, <3>1, <3>2 DEF Begins, Executes, Places
  <2> QED BY <2>2, <2>3
<1>3. ASSUME FailsEarly(w) PROVE Executes(w)
  <2>1. crashes' \in crashes .. MaxCrashes /\ crashes' # 0
    BY <1>0, <1>3, QueueAssumption DEF FailsEarly
  <2> QED BY <1>3, <2>1 DEF FailsEarly, Running, Executes, Places
<1>4. ASSUME CopiesRepo(w) PROVE Executes(w)
  <2>1. ~ Finishing(w)'
    BY <1>4, GotoMoves DEF CopiesRepo, Steps, Finishing, Places
  <2> QED BY <1>0, <1>4, <2>1 DEF CopiesRepo, Steps, Running, SetStatus, Executes, Places, MidStage
<1>5. ASSUME Decides(w) PROVE Executes(w)
  <2>1. job[w].pc = "decide" /\ JobOf(w) \in Jobs
    BY <1>5, UpdateAssumption DEF Decides, Steps, Running, WorkTypes, JobOf, UpdateTasks
  <2>2. CASE Passes(w)
    <3>1. PICK pc \in {"publish", "record"} : Goto(w, pc) /\ UNCHANGED status
      BY <1>5, <2>2 DEF Decides, Steps
    <3>2. ~ Finishing(w)'
      BY <3>1, GotoMoves DEF Finishing, Places
    <3> QED BY <1>0, <1>5, <2>1, <2>2, <3>1, <3>2 DEF Decides, Steps, Executes, Places
  <2>3. CASE ~ Passes(w)
    <3>1. Goto(w, "done") /\ status' = [status EXCEPT ![JobOf(w)] = "failed"]
      BY <1>5, <2>3 DEF Decides, Steps
    <3>2. status'[JobOf(w)] \in Ended
      BY <2>1, <3>1 DEF Ended, WorkTypes
    <3> QED BY <1>0, <1>5, <2>1, <2>3, <3>1, <3>2 DEF Decides, Steps, Executes, Places, Ended
  <2> QED BY <2>2, <2>3
<1>6. ASSUME RecordsPreSync(w) PROVE Executes(w)
  <2>1. ~ Finishing(w)'
    BY <1>6, GotoMoves DEF RecordsPreSync, Steps, Finishing, Places
  <2> QED BY <1>0, <1>6, <2>1 DEF RecordsPreSync, Steps, Running, Executes, Places
<1>7. ASSUME NEW from \in {"publish", "replay"}, NEW to \in {"replay", "advance"}, OnTo(w, from, to),
             UNCHANGED <<tries, request, retry, reaped>>
      PROVE Executes(w)
  <2>1. \E pc \in {"replay", "advance", "refused"} : Goto(w, pc)
    BY <1>7 DEF OnTo
  <2>2. ~ Finishing(w)'
    BY <2>1, GotoMoves DEF Finishing, Places
  <2> QED BY <1>0, <1>7, <2>1, <2>2 DEF OnTo, Running, SetStatus, Executes, Places, MidStage
<1>8. ASSUME AdvancesLineage(w) PROVE Executes(w)
  <2>1. ~ Finishing(w)'
    BY <1>8, GotoMoves DEF AdvancesLineage, Steps, Finishing, Places
  <2> QED BY <1>0, <1>8, <2>1 DEF AdvancesLineage, Steps, Running, Executes, Places
<1>9. ASSUME Completes(w) PROVE Executes(w)
  <2>1. job[w].pc = "complete" /\ JobOf(w) \in Jobs
    BY <1>9, UpdateAssumption DEF Completes, Steps, Running, WorkTypes, JobOf, UpdateTasks
  <2>2. status'[JobOf(w)] \in Ended
    BY <1>9, <2>1 DEF Completes, Ended, WorkTypes
  <2> QED BY <1>0, <1>1, <1>9, <2>1, <2>2 DEF Completes, Steps, Executes, Places, Ended
<1>10. ASSUME Throws(w) PROVE Executes(w)
  <2>1. job[w].pc # "rest" /\ JobOf(w) \in Jobs
    BY <1>10, UpdateAssumption DEF Throws, WorkTypes, JobOf, UpdateTasks
  <2>2. CASE job[w].attempt < MaxAttempts
    <3>1. Goto(w, "threw") /\ UNCHANGED status
      BY <1>10, <2>2 DEF Throws
    <3>2. job[w].attempt \in Nat
      BY DEF WorkTypes, JobType
    <3>3. ~ Finishing(w)'
      BY <2>2, <3>1, <3>2, GotoMoves, QueueAssumption DEF Finishing, Places
    <3> QED BY <1>0, <1>10, <2>1, <2>2, <3>1, <3>3 DEF Throws, Executes, Places
  <2>3. CASE ~ (job[w].attempt < MaxAttempts)
    <3>1. \E pc \in {"rollback", "threw"} : Goto(w, pc)
      BY <1>10, <2>3 DEF Throws
    <3>2. status' = [status EXCEPT ![JobOf(w)] = "failed"]
      BY <1>10, <2>3 DEF Throws
    <3>3. status'[JobOf(w)] \in Ended
      BY <2>1, <3>2 DEF Ended, WorkTypes
    <3> QED BY <1>0, <1>10, <2>1, <3>1, <3>2, <3>3 DEF Throws, Executes, Places, Ended
  <2> QED BY <2>2, <2>3
<1>11. ASSUME RollsBack(w) PROVE Executes(w)
  BY <1>0, <1>11 DEF RollsBack, Steps, Running, Executes, Places, Finishing
<1> QED
  BY <1>2, <1>3, <1>4, <1>5, <1>6, <1>7, <1>8, <1>9, <1>10, <1>11
  DEF UpdateStep, Publishes, ReplaysFunctions

(* The routes and the reaper that deal with jobs.                          *)
JobRoutes ==
  \/ \E c \in Clients : \/ RequestReads(c) \/ CreateUpdateJob(c) \/ EnqueueUpdate(c)
                        \/ EnqueueFails(c) \/ RequestDies(c)
  \/ RetryReads \/ IncrementRetry \/ RetryEnqueues \/ RetryDies
  \/ ReaperLooks \/ ReaperFails

(* The rest: an undo, the owners, or nothing.                              *)
Elsewhere ==
  /\ UNCHANGED <<task, attempts, overdue, job, status, tries, request, retry, reaped, overtaken>>
  /\ crashes' \in crashes .. MaxCrashes /\ releases' \in 1 .. MaxReleases

(* A poll takes a task back, or ends one whose attempts are used up.       *)
Polls(w) ==
  \/ /\ Recover(w)
     /\ overtaken' = overtaken \union {t \in overdue \ overdue' : \E v \in Workers : job[v].task = t}
  \/ Exhaust(w) /\ UNCHANGED overtaken

(* The queue.                                                              *)
QueueMoves(w) ==
  /\ UNCHANGED <<status, tries, request, retry, reaped, releases>>
  /\ \/ Polls(w)
     \/ (Claim(w) \/ Complete(w) \/ BackOff(w) \/ GiveUp(w) \/ Die(w)) /\ UNCHANGED overtaken

ClockMoves ==
  /\ \E t \in Tasks : PassThreshold(t)
  /\ UNCHANGED <<status, tries, request, retry, reaped, releases, overtaken>>

(* Every step is one of these.                                             *)
LEMMA StepKinds ==
  ASSUME WorkTypes, [Next]_vars
  PROVE \/ \E w \in Workers : QueueMoves(w)
        \/ releases' = releases /\ \E w \in Workers : Executes(w)
        \/ ClockMoves
        \/ JobRoutes /\ UNCHANGED <<releases, overtaken>>
        \/ Elsewhere
<1> USE DEF queueVars, jobVars, routeVars, ownVars, counters
<1>0. /\ crashes \in crashes .. MaxCrashes /\ releases \in 1 .. MaxReleases
      /\ crashes < MaxCrashes => crashes + 1 \in crashes .. MaxCrashes
      /\ releases < MaxReleases => releases + 1 \in 1 .. MaxReleases
  BY QueueAssumption, UpdateAssumption DEF WorkTypes
<1>1. CASE UNCHANGED vars
  BY <1>0, <1>1 DEF vars, Elsewhere
<1>2. ASSUME NEW w \in Workers, UpdateStep(w), UNCHANGED overtaken
      PROVE Executes(w) /\ releases' = releases
  <2>1. releases' = releases
    BY <1>2 DEF UpdateStep, Begins, FailsEarly, CopiesRepo, Decides, RecordsPreSync, Publishes,
         ReplaysFunctions, AdvancesLineage, Completes, Throws, RollsBack
  <2> QED BY <1>2, <2>1, UpdateStepExecutes
<1>3. ASSUME JobRoutes PROVE releases' = releases
  BY <1>3 DEF JobRoutes, RequestReads, CreateUpdateJob, EnqueueUpdate, EnqueueFails, RequestDies,
       RetryReads, IncrementRetry, RetryEnqueues, RetryDies, ReaperLooks, ReaperFails
<1>4. ASSUME UndoReads \/ RestoreFunctions \/ RestoreRepo \/ RestoreLineage \/ UndoDies,
             UNCHANGED overtaken
      PROVE Elsewhere
  BY <1>0, <1>4 DEF UndoReads, RestoreFunctions, RestoreRepo, RestoreLineage, UndoDies, Elsewhere
<1>5. ASSUME PushRepo \/ DeployFunctions \/ PublishRelease, UNCHANGED overtaken
      PROVE Elsewhere
  BY <1>0, <1>5 DEF PushRepo, DeployFunctions, Owns, PublishRelease, Elsewhere
<1>6. ASSUME NEW w \in Workers, QueueStep(w), UNCHANGED overtaken PROVE QueueMoves(w)
  BY <1>6 DEF QueueStep, OfQueue, QueueMoves, Polls
<1>7. ASSUME NEW t \in Tasks, PassThreshold(t), OfQueue, UNCHANGED overtaken PROVE ClockMoves
  BY <1>7 DEF OfQueue, ClockMoves
<1>9. ASSUME NEW w \in Workers, TakesBack(w) PROVE QueueMoves(w)
  BY <1>9 DEF TakesBack, OfQueue, QueueMoves, Polls
<1>8. CASE Keeps /\ UNCHANGED overtaken
  <2>1. Route => JobRoutes \/ UndoReads \/ RestoreFunctions \/ RestoreRepo \/ RestoreLineage \/ UndoDies
    BY DEF Route, JobRoutes
  <2>2. ReaperLooks \/ ReaperFails => JobRoutes
    BY DEF JobRoutes
  <2>3. CASE \E w \in Workers : QueueStep(w) \/ UpdateStep(w)
    <3>1. PICK w \in Workers : QueueStep(w) \/ UpdateStep(w)
      BY <2>3
    <3>2. CASE QueueStep(w)
      BY <1>6, <1>8, <3>2
    <3>3. CASE UpdateStep(w)
      BY <1>2, <1>8, <3>3
    <3> QED BY <3>1, <3>2, <3>3
  <2>4. CASE \E t \in Tasks : PassThreshold(t) /\ OfQueue /\ UNCHANGED run
    BY <1>7, <1>8, <2>4
  <2>5. CASE JobRoutes
    BY <1>3, <1>8, <2>5
  <2>6. CASE UndoReads \/ RestoreFunctions \/ RestoreRepo \/ RestoreLineage \/ UndoDies
    BY <1>4, <1>8, <2>6
  <2>7. CASE PushRepo \/ DeployFunctions \/ PublishRelease
    BY <1>5, <1>8, <2>7
  <2> QED BY <1>8, <2>1, <2>2, <2>3, <2>4, <2>5, <2>6, <2>7 DEF Keeps
<1>10. CASE \E w \in Workers : TakesBack(w)
  <2>1. PICK w \in Workers : TakesBack(w)
    BY <1>10
  <2>2. QueueMoves(w)
    BY <1>9, <2>1
  <2> QED BY <2>2
<1> QED BY <1>1, <1>8, <1>10 DEF Next

---------------------------------------------------------------------------
(* Types of the queue and the jobs.                                        *)

LEMMA WorkInit == Init => WorkTypes
<1> SUFFICES ASSUME Init PROVE WorkTypes
  OBVIOUS
<1>1. Resting \in JobType
  BY DEF Resting, JobType, Places
<1> QED BY <1>1, QueueAssumption, UpdateAssumption
  DEF Init, QueueInit, WorkTypes, TaskStates, JobStates, RequestType, RetryType, NoJob, Resting

LEMMA WorkTypesExecutes ==
  ASSUME WorkTypes, NEW w \in Workers, Executes(w), releases' = releases PROVE WorkTypes'
<1>1. job[w].task \in Tasks /\ JobOf(w) \in Jobs
  BY UpdateAssumption DEF Executes, WorkTypes, JobOf, UpdateTasks
<1>2. /\ job' \in [Workers -> JobType] /\ job'[w].task = job[w].task /\ job'[w].pc # "rest"
      /\ \A x \in Workers \ {w} : job'[x] = job[x]
  BY GotoMoves DEF Executes
<1>3. status' \in [Jobs -> JobStates]
  BY <1>1 DEF Executes, WorkTypes, JobStates
<1>4. crashes' \in 0 .. MaxCrashes
  BY QueueAssumption DEF Executes, WorkTypes
<1> QED BY <1>1, <1>2, <1>3, <1>4 DEF Executes, WorkTypes

LEMMA WorkTypesQueue ==
  ASSUME WorkTypes, NEW w \in Workers, QueueMoves(w) PROVE WorkTypes'
<1> USE QueueAssumption, UpdateAssumption
<1>1. Resting \in JobType /\ Resting.pc = "rest" /\ \A t \in Tasks : t.type # "provision"
  BY DEF Resting, JobType, Places, UpdateTasks
<1>2. UNCHANGED <<status, tries, request, retry, reaped, releases>>
  BY DEF QueueMoves
<1>3. overtaken' \subseteq Tasks
  BY DEF QueueMoves, Polls, WorkTypes
<1> DEFINE QueueTyped == /\ task' \in [Tasks -> TaskStates] /\ attempts' \in [Tasks -> Nat]
                         /\ overdue' \subseteq Tasks /\ crashes' \in 0 .. MaxCrashes
           JobTyped == /\ job' \in [Workers -> JobType]
                       /\ \A x \in Workers : IF job'[x].pc = "rest" THEN job'[x] = Resting
                                            ELSE job'[x].task \in Tasks
<1>4. ASSUME Recover(w) PROVE QueueTyped /\ JobTyped
  BY <1>4 DEF Recover, WorkTypes, TaskStates
<1>5. ASSUME Claim(w) PROVE QueueTyped /\ JobTyped
  <2>1. PICK t \in Tasks :
          /\ task' = [task EXCEPT ![t] = "processing"]
          /\ attempts' = [attempts EXCEPT ![t] = @ + 1]
          /\ overdue' = overdue \ {t}
          /\ job' = [job EXCEPT ![w] = [Resting EXCEPT !.pc = "start", !.task = t,
                                                      !.attempt = attempts[t] + 1]]
          /\ UNCHANGED crashes
    BY <1>5 DEF Claim
  <2>2. attempts[t] + 1 \in Nat
    BY DEF WorkTypes
  <2>3. [Resting EXCEPT !.pc = "start", !.task = t, !.attempt = attempts[t] + 1] \in JobType
    BY <1>1, <2>2 DEF Resting, JobType, Places
  <2>4. JobTyped
    BY <2>1, <2>3 DEF WorkTypes, JobType, Resting
  <2> QED BY <2>1, <2>2, <2>4 DEF WorkTypes, TaskStates
<1>6. ASSUME Exhaust(w) PROVE QueueTyped /\ JobTyped
  BY <1>1, <1>6 DEF Exhaust, WorkTypes, TaskStates
<1>7. ASSUME Complete(w) \/ BackOff(w) \/ Die(w) PROVE QueueTyped /\ JobTyped
  BY <1>1, <1>7 DEF Complete, BackOff, Die, Write, WorkTypes, TaskStates
<1>8. ASSUME GiveUp(w) PROVE QueueTyped /\ JobTyped
  <2>1. job[w].task \in Tasks
    BY <1>8 DEF GiveUp, WorkTypes
  <2> QED BY <1>1, <1>8, <2>1 DEF GiveUp, Write, WorkTypes, TaskStates
<1>9. QueueTyped /\ JobTyped
  BY <1>4, <1>5, <1>6, <1>7, <1>8 DEF QueueMoves, Polls
<1> QED BY <1>2, <1>3, <1>9 DEF WorkTypes

LEMMA WorkTypesRoutes ==
  ASSUME WorkTypes, JobRoutes, releases' = releases, UNCHANGED overtaken PROVE WorkTypes'
<1> USE QueueAssumption, UpdateAssumption DEF queueVars, jobVars, routeVars
<1>0. /\ crashes \in 0 .. MaxCrashes
      /\ crashes < MaxCrashes => crashes + 1 \in 0 .. MaxCrashes
  BY DEF WorkTypes
<1>1. attempts' = attempts /\ overdue' = overdue /\ job' = job /\ crashes' \in 0 .. MaxCrashes
  BY <1>0 DEF JobRoutes, RequestReads, CreateUpdateJob, EnqueueUpdate, EnqueueFails, RequestDies,
       RetryReads, IncrementRetry, RetryEnqueues, RetryDies, ReaperLooks, ReaperFails
<1>2. task' \in [Tasks -> TaskStates]
  BY DEF JobRoutes, RequestReads, CreateUpdateJob, EnqueueUpdate, EnqueueFails, RequestDies,
       RetryReads, IncrementRetry, RetryEnqueues, RetryDies, ReaperLooks, ReaperFails, WorkTypes,
       Enqueue, TaskStates
<1>3. status' \in [Jobs -> JobStates]
  BY DEF JobRoutes, RequestReads, CreateUpdateJob, EnqueueUpdate, EnqueueFails, RequestDies,
       RetryReads, IncrementRetry, RetryEnqueues, RetryDies, ReaperLooks, ReaperFails, WorkTypes,
       JobStates, Ended
<1>4. reaped' \in Jobs \union {NoJob}
  BY DEF JobRoutes, RequestReads, CreateUpdateJob, EnqueueUpdate, EnqueueFails, RequestDies,
       RetryReads, IncrementRetry, RetryEnqueues, RetryDies, ReaperLooks, ReaperFails, WorkTypes
<1>5. /\ retry' \in RetryType /\ (retry'.pc # "rest" => retry'.job \in Jobs)
      /\ tries' \in [Jobs -> 0 .. MaxRetries]
      /\ retry'.pc = "allowed" => tries'[retry'.job] < MaxRetries
  <2>1. CASE UNCHANGED <<retry, tries>>
    BY <2>1 DEF WorkTypes
  <2>2. CASE RetryReads
    BY <2>2 DEF RetryReads, RetryType, WorkTypes
  <2>3. CASE IncrementRetry
    BY <2>3 DEF IncrementRetry, RetryType, WorkTypes, NoJob
  <2>4. CASE RetryEnqueues \/ RetryDies
    BY <2>4 DEF RetryEnqueues, RetryDies, RetryType, WorkTypes, NoJob
  <2> QED BY <2>1, <2>2, <2>3, <2>4 DEF JobRoutes, RequestReads, CreateUpdateJob, EnqueueUpdate,
       EnqueueFails, RequestDies, ReaperLooks, ReaperFails
<1> DEFINE RequestTyped == /\ request' \in [Clients -> RequestType]
                           /\ \A c \in Clients : request'[c].pc = "created" => request'[c].job \in Jobs
<1>6. RequestTyped
  <2>1. CASE UNCHANGED request
    BY <2>1 DEF WorkTypes
  <2>2. ASSUME NEW c \in Clients, RequestReads(c) \/ EnqueueUpdate(c) \/ EnqueueFails(c) \/ RequestDies(c)
        PROVE RequestTyped
    BY <2>2 DEF RequestReads, EnqueueUpdate, EnqueueFails, RequestDies, Asks, RequestType, WorkTypes
  <2>3. ASSUME NEW c \in Clients, CreateUpdateJob(c) PROVE RequestTyped
    <3>1. PICK j \in Jobs :
            \/ request' = [request EXCEPT ![c] = [request[c] EXCEPT !.pc = "created", !.job = j]]
            \/ request' = [request EXCEPT ![c] = [request[c] EXCEPT !.pc = "over"]]
      BY <2>3 DEF CreateUpdateJob, Asks
    <3>2. /\ [request[c] EXCEPT !.pc = "created", !.job = j] \in RequestType
          /\ [request[c] EXCEPT !.pc = "over"] \in RequestType
      BY DEF RequestType, WorkTypes
    <3>3. ASSUME NEW q \in RequestType, q.pc = "created" => q.job \in Jobs,
                 request' = [request EXCEPT ![c] = q]
          PROVE RequestTyped
      BY <3>3 DEF WorkTypes
    <3>4. [request[c] EXCEPT !.pc = "created", !.job = j].job = j /\ j \in Jobs
          /\ [request[c] EXCEPT !.pc = "over"].pc = "over"
      BY DEF WorkTypes, RequestType
    <3> HIDE DEF RequestTyped
    <3> QED BY <3>1, <3>2, <3>3, <3>4
  <2> QED BY <2>1, <2>2, <2>3 DEF JobRoutes, RetryReads, IncrementRetry, RetryEnqueues, RetryDies,
       ReaperLooks, ReaperFails
<1> QED BY <1>1, <1>2, <1>3, <1>4, <1>5, <1>6 DEF WorkTypes

LEMMA WorkTypesNext == WorkTypes /\ [Next]_vars => WorkTypes'
<1> SUFFICES ASSUME WorkTypes, [Next]_vars PROVE WorkTypes'
  OBVIOUS
<1>1. CASE ClockMoves
  BY <1>1 DEF ClockMoves, PassThreshold, WorkTypes
<1>2. CASE Elsewhere
  BY <1>2, QueueAssumption DEF Elsewhere, WorkTypes
<1>3. CASE JobRoutes /\ UNCHANGED <<releases, overtaken>>
  BY <1>3, WorkTypesRoutes
<1>4. CASE \E w \in Workers : QueueMoves(w)
  BY <1>4, WorkTypesQueue
<1>5. CASE releases' = releases /\ \E w \in Workers : Executes(w)
  BY <1>5, WorkTypesExecutes
<1> QED BY <1>1, <1>2, <1>3, <1>4, <1>5, StepKinds

---------------------------------------------------------------------------
(* No job is left behind, class by class.                                  *)

LEMMA WorkInvElsewhere == ASSUME WorkTypes, WorkInv, Elsewhere PROVE WorkInv'
<1>1. crashes' = 0 => crashes = 0
  BY QueueAssumption DEF Elsewhere, WorkTypes
<1>2. crashes > 0 => crashes' > 0
  BY QueueAssumption DEF Elsewhere, WorkTypes
<1>3. ExecutedExists' /\ OneExecutor' /\ ExecutorHolds' /\ LaterTries'
  BY DEF WorkInv, Elsewhere, ExecutedExists, OneExecutor, ExecutorHolds, LaterTries, Queued
<1>4. ProcessingHeld'
  BY <1>1 DEF WorkInv, Elsewhere, ProcessingHeld, Holds
<1>5. NewJobs'
  BY DEF WorkInv, Elsewhere, NewJobs, Untouched
<1>6. JobsHeld'
  BY <1>2 DEF WorkInv, Elsewhere, JobsHeld, WorkedOn, TaskWaits, Waiting, Holds, Requested,
     Excused, Finishing, JobOf
<1> QED BY <1>3, <1>4, <1>5, <1>6 DEF WorkInv

LEMMA WorkInvClock == ASSUME WorkTypes, WorkInv, ClockMoves PROVE WorkInv'
<1>1. UNCHANGED <<task, attempts, job, crashes, status, tries, request, retry, reaped, overtaken>>
  BY DEF ClockMoves, PassThreshold
<1>2. ExecutedExists' /\ OneExecutor' /\ ExecutorHolds' /\ LaterTries'
  BY <1>1 DEF WorkInv, ExecutedExists, OneExecutor, ExecutorHolds, LaterTries, Queued
<1>3. ProcessingHeld'
  BY <1>1 DEF WorkInv, ProcessingHeld, Holds
<1>4. NewJobs'
  BY <1>1 DEF WorkInv, NewJobs, Untouched
<1>5. JobsHeld'
  BY <1>1 DEF WorkInv, JobsHeld, WorkedOn, TaskWaits, Waiting, Holds, Requested,
     Excused, Finishing, JobOf
<1> QED BY <1>2, <1>3, <1>4, <1>5 DEF WorkInv

LEMMA WorkInvExecutes == ASSUME WorkTypes, WorkInv, NEW w \in Workers, Executes(w) PROVE WorkInv'
<1>1. /\ job'[w].pc # "rest" /\ job'[w].task = job[w].task /\ job'[w].attempt = job[w].attempt
      /\ job[w].pc # "rest"
      /\ \A x \in Workers \ {w} : job'[x] = job[x]
  BY GotoMoves DEF Executes
<1>2. UNCHANGED <<task, attempts, tries, request, retry, reaped, overtaken>>
  BY DEF Executes
<1>3. (crashes' = 0 => crashes = 0) /\ (crashes > 0 => crashes' > 0) /\ (crashes' = 0 \/ crashes' > 0)
  BY QueueAssumption DEF Executes, WorkTypes
<1>4. \A x \in Workers : /\ job'[x].pc # "rest" <=> job[x].pc # "rest"
                         /\ job'[x].task = job[x].task /\ job'[x].attempt = job[x].attempt
  BY <1>1
<1>5. ExecutedExists' /\ OneExecutor' /\ ExecutorHolds' /\ LaterTries'
  BY <1>2, <1>4 DEF WorkInv, ExecutedExists, OneExecutor, ExecutorHolds, LaterTries, Queued
<1>6. ProcessingHeld'
  BY <1>2, <1>3, <1>4 DEF WorkInv, ProcessingHeld, Holds
<1>7. job[w].task \in Tasks /\ JobOf(w) \in Jobs /\ task[job[w].task] # "absent"
  BY <1>1, UpdateAssumption DEF WorkTypes, JobOf, UpdateTasks, WorkInv, ExecutedExists
<1>8. \A j \in Jobs : Untouched(j) => j # JobOf(w)
  BY <1>7 DEF Untouched, JobOf
<1>9. /\ \A j \in Jobs \ {JobOf(w)} : status'[j] = status[j]
      /\ status'[JobOf(w)] # "unborn" \/ status' = status
  BY <1>7 DEF Executes, WorkTypes, MidStage, Ended
<1>10. NewJobs'
  <2>1. \A j \in Jobs : Untouched(j) => Untouched(j)'
    BY <1>2 DEF Untouched
  <2> QED BY <1>2, <1>8, <1>9, <2>1 DEF WorkInv, NewJobs, WorkTypes
<1>11. JobsHeld'
  <2> SUFFICES ASSUME NEW j \in Jobs, status'[j] \in {"pending", "processing"}, ~ Excused(j)'
               PROVE WorkedOn(j)' \/ TaskWaits(j)' \/ Requested(j)'
    BY DEF JobsHeld
  <2>1. crashes' = 0 /\ ~ Excused(j)
    BY <1>2, <1>3 DEF Excused
  <2>2. Requested(j) => Requested(j)'
    BY <1>2 DEF Requested
  <2>3. \A x \in Workers \ {w} : Finishing(x)' = Finishing(x) /\ JobOf(x)' = JobOf(x)
    BY <1>1 DEF Finishing, JobOf
  <2>4. JobOf(w)' = JobOf(w)
    BY <1>1 DEF JobOf
  <2>5. CASE j # JobOf(w)
    <3>1. WorkedOn(j) \/ TaskWaits(j) \/ Requested(j)
      BY <1>9, <2>1, <2>5 DEF WorkInv, JobsHeld
    <3>2. WorkedOn(j) => WorkedOn(j)'
      BY <1>4, <2>3, <2>5 DEF WorkedOn
    <3>3. TaskWaits(j) => TaskWaits(j)'
      BY <1>2, <1>4, <2>3, <2>5 DEF TaskWaits, Waiting, Holds, JobOf
    <3> QED BY <2>2, <3>1, <3>2, <3>3
  <2>6. CASE j = JobOf(w) /\ ~ Finishing(w)'
    BY <1>1, <2>4, <2>6 DEF WorkedOn
  <2>7. CASE j = JobOf(w) /\ Finishing(w)'
    <3>1. Finishing(w) /\ status' = status
      BY <2>1, <2>7 DEF Executes, Ended
    <3>2. WorkedOn(j) \/ TaskWaits(j) \/ Requested(j)
      BY <3>1, <2>1 DEF WorkInv, JobsHeld
    <3>3. WorkedOn(j) => WorkedOn(j)'
      BY <1>4, <2>3, <3>1 DEF WorkedOn
    <3>4. TaskWaits(j) => TaskWaits(j)'
      <4>1. \A t \in Tasks : Waiting(t) => ~ Holds(w, t)
        BY <3>1 DEF Waiting
      <4>2. \A t \in Tasks, x \in Workers : Holds(x, t)' <=> Holds(x, t)
        BY <1>4 DEF Holds
      <4>3. \A t \in Tasks : Waiting(t) => Waiting(t)'
        BY <1>2, <2>3, <4>1, <4>2 DEF Waiting
      <4> QED BY <4>3 DEF TaskWaits
    <3> QED BY <2>2, <3>2, <3>3, <3>4
  <2> QED BY <2>5, <2>6, <2>7
<1> QED BY <1>5, <1>6, <1>10, <1>11 DEF WorkInv

LEMMA WorkInvPolls ==
  ASSUME WorkTypes, WorkInv, NEW w \in Workers, Polls(w),
         UNCHANGED <<status, tries, request, retry, reaped>>
  PROVE WorkInv'
<1>0. \A t \in Tasks : t.type # "provision" /\ t.job \in Jobs
  BY UpdateAssumption DEF UpdateTasks
<1>1. UNCHANGED <<attempts, job, crashes, status, tries, request, retry, reaped>>
      /\ overtaken \subseteq overtaken'
  BY <1>0 DEF Polls, Recover, Exhaust
<1>2. PICK t \in Tasks :
        /\ task[t] = "processing"
        /\ \/ /\ task' = [task EXCEPT ![t] = "pending"]
              /\ \A x \in Workers : job[x].task = t => t \in overtaken'
           \/ /\ task' = [task EXCEPT ![t] = "failed"]
              /\ attempts[t] >= MaxAttempts
  <2>1. CASE Exhaust(w) /\ UNCHANGED overtaken
    BY <2>1 DEF Exhaust, Stale
  <2>2. CASE Recover(w) /\ overtaken' = overtaken
               \union {t \in overdue \ overdue' : \E v \in Workers : job[v].task = t}
    BY <2>2 DEF Recover, Stale
  <2> QED BY <2>1, <2>2 DEF Polls
<1>3. \A u \in Tasks : (u # t => task'[u] = task[u]) /\ (task'[u] = "absent" <=> task[u] = "absent")
  BY <1>2 DEF WorkTypes
<1>4. \A x \in Workers : job[x].pc # "rest" => job[x].task \in Tasks
  BY DEF WorkTypes
<1>5. ExecutedExists' /\ OneExecutor'
  BY <1>1, <1>3, <1>4 DEF WorkInv, ExecutedExists, OneExecutor
<1>6. ExecutorHolds'
  <2> SUFFICES ASSUME NEW x \in Workers, job[x].pc # "rest", job[x].task \notin overtaken'
               PROVE /\ job[x].attempt = attempts[job[x].task]
                     /\ \/ task'[job[x].task] = "processing"
                        \/ task'[job[x].task] = "failed" /\ attempts[job[x].task] >= MaxAttempts
    BY <1>1 DEF ExecutorHolds
  <2>1. /\ job[x].attempt = attempts[job[x].task]
        /\ \/ task[job[x].task] = "processing"
           \/ task[job[x].task] = "failed" /\ attempts[job[x].task] >= MaxAttempts
    BY <1>1 DEF WorkInv, ExecutorHolds
  <2>2. CASE job[x].task = t
    BY <1>2, <2>1, <2>2 DEF WorkTypes
  <2>3. CASE job[x].task # t
    BY <1>3, <1>4, <2>1, <2>3
  <2> QED BY <2>2, <2>3
<1>7. ProcessingHeld'
  <2>1. task'[t] # "processing"
    BY <1>2 DEF WorkTypes
  <2> QED BY <1>1, <1>3, <2>1 DEF WorkInv, ProcessingHeld, Holds
<1>8. LaterTries' /\ NewJobs'
  <2>1. \A j \in Jobs : Untouched(j) => Untouched(j)'
    BY <1>1, <1>3 DEF Untouched
  <2>2. NewJobs'
    BY <1>1, <2>1 DEF WorkInv, NewJobs, WorkTypes
  <2>3. \A u \in Tasks : u.try > tries[u.job] => task'[u] = "absent"
    BY <1>3 DEF WorkInv, LaterTries
  <2>4. retry.pc = "counted" => Queued(retry.job) \in Tasks
    BY UpdateAssumption DEF Queued, UpdateTasks, WorkTypes
  <2> QED BY <1>1, <1>3, <2>2, <2>3, <2>4 DEF WorkInv, LaterTries, Queued
<1>9. JobsHeld'
  <2> SUFFICES ASSUME NEW j \in Jobs, status[j] \in {"pending", "processing"}, ~ Excused(j)'
               PROVE WorkedOn(j)' \/ TaskWaits(j)' \/ Requested(j)'
    BY <1>1 DEF JobsHeld
  <2>1. ~ Excused(j) /\ crashes = 0
    BY <1>1, QueueAssumption DEF Excused, WorkTypes
  <2>2. (WorkedOn(j)' <=> WorkedOn(j)) /\ (Requested(j)' <=> Requested(j))
    BY <1>1 DEF WorkedOn, JobOf, Finishing, Requested
  <2>3. ASSUME NEW u \in Tasks, u.job = j, Waiting(u) PROVE TaskWaits(j)' \/ WorkedOn(j)
    <3>1. CASE task'[u] \in {"pending", "processing"}
      BY <1>1, <2>3, <3>1 DEF TaskWaits, Waiting, Holds, Finishing
    <3>2. CASE task'[u] \notin {"pending", "processing"}
      <4>1. u = t
        BY <1>3, <2>3, <3>2 DEF Waiting
      <4>2. PICK x \in Workers : Holds(x, u)
        BY <1>2, <2>1, <2>3, <4>1 DEF WorkInv, ProcessingHeld, Excused
      <4>3. ~ Finishing(x)
        BY <2>3, <4>2 DEF Waiting
      <4> QED BY <2>3, <4>2, <4>3 DEF WorkedOn, Holds, JobOf
    <3> QED BY <3>1, <3>2
  <2>4. WorkedOn(j) \/ TaskWaits(j) \/ Requested(j)
    BY <2>1 DEF WorkInv, JobsHeld
  <2> QED BY <2>2, <2>3, <2>4 DEF TaskWaits
<1> QED BY <1>5, <1>6, <1>7, <1>8, <1>9 DEF WorkInv

(* What no step of the queue disturbs.                                     *)
LEMMA QueueKeepsJobs ==
  ASSUME WorkTypes, WorkInv, UNCHANGED <<status, tries, request, retry, reaped>>,
         \A t \in Tasks : task'[t] = "absent" <=> task[t] = "absent"
  PROVE LaterTries' /\ NewJobs' /\ \A j \in Jobs : Requested(j)' <=> Requested(j)
<1>1. \A j \in Jobs : Untouched(j) => Untouched(j)'
  BY DEF Untouched
<1>2. NewJobs'
  BY <1>1 DEF WorkInv, NewJobs, WorkTypes
<1>3. retry.pc = "counted" => Queued(retry.job) \in Tasks
  BY UpdateAssumption DEF Queued, UpdateTasks, WorkTypes
<1> QED BY <1>2, <1>3 DEF WorkInv, LaterTries, Queued, Requested

LEMMA WorkInvClaims ==
  ASSUME WorkTypes, WorkInv, NEW w \in Workers, Claim(w),
         UNCHANGED <<status, tries, request, retry, reaped, overtaken>>
  PROVE WorkInv'
<1>1. PICK t \in Tasks :
        /\ job[w] = Resting /\ task[t] = "pending"
        /\ task' = [task EXCEPT ![t] = "processing"]
        /\ attempts' = [attempts EXCEPT ![t] = @ + 1]
        /\ job' = [job EXCEPT ![w] = [Resting EXCEPT !.pc = "start", !.task = t,
                                                    !.attempt = attempts[t] + 1]]
        /\ UNCHANGED crashes
  BY DEF Claim
<1>2. /\ job[w].pc = "rest" /\ job'[w].pc = "start" /\ job'[w].task = t /\ job'[w].attempt = attempts'[t]
      /\ \A x \in Workers \ {w} : job'[x] = job[x]
  BY <1>1 DEF WorkTypes, Resting
<1>3. task'[t] = "processing" /\ \A u \in Tasks \ {t} : task'[u] = task[u] /\ attempts'[u] = attempts[u]
  BY <1>1 DEF WorkTypes
<1>4. \A x \in Workers : job[x].pc # "rest" => job[x].task \in Tasks
  BY DEF WorkTypes
<1>5. \A x \in Workers : job[x].pc # "rest" /\ job[x].task = t => t \in overtaken
  BY <1>1 DEF WorkInv, ExecutorHolds
<1>6. ExecutedExists'
  BY <1>2, <1>3, <1>4 DEF WorkInv, ExecutedExists
<1>7. OneExecutor'
  <2> SUFFICES ASSUME NEW x \in Workers, NEW y \in Workers, x # y, job'[x].pc # "rest",
                      job'[y].pc # "rest", job'[x].task = job'[y].task, job'[x].task \notin overtaken
               PROVE FALSE
    BY DEF OneExecutor
  <2>1. CASE x # w /\ y # w
    BY <1>2, <2>1 DEF WorkInv, OneExecutor
  <2>2. CASE x = w \/ y = w
    BY <1>2, <1>5, <2>2
  <2> QED BY <2>1, <2>2
<1>8. ExecutorHolds'
  <2> SUFFICES ASSUME NEW x \in Workers, job'[x].pc # "rest", job'[x].task \notin overtaken
               PROVE /\ job'[x].attempt = attempts'[job'[x].task]
                     /\ \/ task'[job'[x].task] = "processing"
                        \/ task'[job'[x].task] = "failed" /\ attempts'[job'[x].task] >= MaxAttempts
    BY DEF ExecutorHolds
  <2>1. CASE x = w
    BY <1>2, <1>3, <2>1
  <2>2. CASE x # w
    <3>1. job'[x] = job[x] /\ job[x].task \in Tasks \ {t}
      BY <1>2, <1>4, <1>5, <2>2
    <3> QED BY <1>3, <3>1 DEF WorkInv, ExecutorHolds
  <2> QED BY <2>1, <2>2
<1>9. ProcessingHeld'
  <2>1. \A x \in Workers, u \in Tasks : Holds(x, u) => Holds(x, u)'
    BY <1>1, <1>2 DEF Holds
  <2>2. Holds(w, t)'
    BY <1>2 DEF Holds
  <2> QED BY <1>1, <1>3, <2>1, <2>2 DEF WorkInv, ProcessingHeld
<1>10. LaterTries' /\ NewJobs' /\ \A j \in Jobs : Requested(j)' <=> Requested(j)
  BY <1>1, <1>3, QueueKeepsJobs
<1>11. JobsHeld'
  <2>1. ~ Finishing(w)' /\ \A x \in Workers \ {w} : Finishing(x)' = Finishing(x)
    BY <1>2 DEF Finishing
  <2>2. \A j \in Jobs : WorkedOn(j) => WorkedOn(j)'
    BY <1>1, <1>2, <2>1 DEF WorkedOn, JobOf
  <2>3. \A u \in Tasks : Waiting(u) => Waiting(u)'
    BY <1>2, <1>3, <2>1 DEF Waiting, Holds
  <2>4. \A j \in Jobs : Excused(j)' = Excused(j)
    BY <1>1 DEF Excused
  <2> QED BY <1>10, <2>2, <2>3, <2>4 DEF WorkInv, JobsHeld, TaskWaits
<1> QED BY <1>6, <1>7, <1>8, <1>9, <1>10, <1>11 DEF WorkInv

(* The end of an execution.                                                *)
Leaves(w) == Complete(w) \/ BackOff(w) \/ GiveUp(w) \/ Die(w)

LEMMA WorkInvLeaves ==
  ASSUME WorkTypes, WorkInv, NEW w \in Workers, Leaves(w),
         UNCHANGED <<status, tries, request, retry, reaped, overtaken>>
  PROVE WorkInv'
<1>0. Resting.pc = "rest"
  BY DEF Resting
<1>1. job[w].pc # "rest"
  BY DEF Leaves, Complete, BackOff, GiveUp, Die, WorkTypes
<1> SUFFICES ASSUME NEW t \in Tasks, t = job[w].task PROVE WorkInv'
  BY <1>1 DEF WorkTypes
<1>2. t.type # "provision" /\ t.job \in Jobs /\ task[t] # "absent" /\ JobOf(w) = t.job
  BY <1>1, UpdateAssumption DEF UpdateTasks, WorkInv, ExecutedExists, JobOf
<1>3. /\ job'[w].pc = "rest" /\ \A x \in Workers \ {w} : job'[x] = job[x]
      /\ UNCHANGED attempts
      /\ \A u \in Tasks \ {t} : task'[u] = task[u]
      /\ \/ Finishing(w) /\ task'[t] \in {"completed", "failed"} /\ UNCHANGED crashes
         \/ ~ Finishing(w) /\ task'[t] = "pending" /\ UNCHANGED crashes
         \/ crashes' > 0 /\ UNCHANGED task
  <2>1. CASE Complete(w)
    BY <1>0, <1>2, <2>1 DEF Complete, Write, Finishing, WorkTypes
  <2>2. CASE BackOff(w)
    <3>1. job[w].attempt \in Nat
      BY DEF WorkTypes, JobType
    <3>2. ~ Finishing(w)
      BY <2>2, <3>1, QueueAssumption DEF BackOff, Finishing
    <3> QED BY <1>0, <1>2, <2>2, <3>2 DEF BackOff, Write, WorkTypes
  <2>3. CASE GiveUp(w)
    BY <1>0, <1>2, <2>3 DEF GiveUp, Write, Finishing, WorkTypes
  <2>4. CASE Die(w)
    BY <1>0, <1>2, <2>4, QueueAssumption DEF Die, WorkTypes
  <2> QED BY <2>1, <2>2, <2>3, <2>4 DEF Leaves
<1>4. \A u \in Tasks : task'[u] = "absent" <=> task[u] = "absent"
  BY <1>2, <1>3
<1>5. \A x \in Workers : job'[x].pc # "rest" =>
        x # w /\ job'[x] = job[x] /\ job[x].pc # "rest" /\ job[x].task \in Tasks
  BY <1>3 DEF WorkTypes
<1>6. \A x \in Workers \ {w} : Holds(x, t) => t \in overtaken
  BY <1>1 DEF WorkInv, OneExecutor, Holds
<1>7. ExecutedExists' /\ OneExecutor'
  BY <1>4, <1>5 DEF WorkInv, ExecutedExists, OneExecutor
<1>8. ExecutorHolds'
  <2> SUFFICES ASSUME NEW x \in Workers, job'[x].pc # "rest", job'[x].task \notin overtaken
               PROVE /\ job'[x].attempt = attempts[job'[x].task]
                     /\ \/ task'[job'[x].task] = "processing"
                        \/ task'[job'[x].task] = "failed" /\ attempts[job'[x].task] >= MaxAttempts
    BY <1>3 DEF ExecutorHolds
  <2>1. job'[x] = job[x] /\ job[x].task \in Tasks \ {t} /\ job[x].pc # "rest"
    BY <1>5, <1>6 DEF Holds
  <2> QED BY <1>3, <2>1 DEF WorkInv, ExecutorHolds
<1>9. ProcessingHeld'
  <2> SUFFICES ASSUME NEW u \in Tasks \ overtaken, task'[u] = "processing", crashes' = 0
               PROVE \E x \in Workers : Holds(x, u)'
    BY DEF ProcessingHeld
  <2>1. u # t /\ task[u] = "processing" /\ crashes = 0
    BY <1>3
  <2>2. PICK x \in Workers : Holds(x, u)
    BY <2>1 DEF WorkInv, ProcessingHeld
  <2> QED BY <1>3, <2>1, <2>2 DEF Holds
<1>10. LaterTries' /\ NewJobs' /\ \A j \in Jobs : Requested(j)' <=> Requested(j)
  BY <1>4, QueueKeepsJobs
<1>11. JobsHeld'
  <2> SUFFICES ASSUME NEW j \in Jobs, status[j] \in {"pending", "processing"}, ~ Excused(j)'
               PROVE WorkedOn(j)' \/ TaskWaits(j)' \/ Requested(j)'
    BY DEF JobsHeld
  <2>1. crashes' = crashes /\ ~ Excused(j)
    BY <1>3 DEF Excused
  <2>2. \A x \in Workers \ {w} : Finishing(x)' = Finishing(x) /\ JobOf(x)' = JobOf(x)
    BY <1>3 DEF Finishing, JobOf
  <2>3. \A x \in Workers, u \in Tasks : Holds(x, u)' => x # w /\ Holds(x, u)
    BY <1>5 DEF Holds
  <2>4. ASSUME NEW u \in Tasks, u.job = j, Waiting(u) PROVE TaskWaits(j)'
    <3>1. task'[u] \in {"pending", "processing"}
      BY <1>1, <1>3, <2>1, <2>4 DEF Waiting, Holds, Excused
    <3>2. Waiting(u)'
      BY <2>2, <2>3, <2>4, <3>1 DEF Waiting
    <3> QED BY <2>4, <3>2 DEF TaskWaits
  <2>5. ASSUME NEW x \in Workers, job[x].pc # "rest", JobOf(x) = j, ~ Finishing(x)
        PROVE WorkedOn(j)' \/ TaskWaits(j)'
    <3>1. CASE x # w
      BY <1>3, <2>2, <2>5, <3>1 DEF WorkedOn
    <3>2. CASE x = w
      <4>1. task'[t] = "pending" /\ t.job = j
        BY <1>2, <1>3, <2>1, <2>5, <3>2 DEF Excused
      <4>2. \A y \in Workers : ~ Holds(y, t)'
        BY <1>2, <1>6, <2>1, <2>3, <4>1 DEF Excused
      <4> QED BY <1>2, <4>1, <4>2 DEF TaskWaits, Waiting
    <3> QED BY <3>1, <3>2
  <2>6. WorkedOn(j) \/ TaskWaits(j) \/ Requested(j)
    BY <2>1 DEF WorkInv, JobsHeld
  <2> QED BY <1>10, <2>4, <2>5, <2>6 DEF TaskWaits, WorkedOn
<1> QED BY <1>7, <1>8, <1>9, <1>10, <1>11 DEF WorkInv

(* A route or the reaper touches no worker.                                *)
LEMMA WorkInvRoutes ==
  ASSUME WorkTypes, WorkInv, JobRoutes, UNCHANGED overtaken PROVE WorkInv'
<1> USE UpdateAssumption DEF queueVars, jobVars, routeVars
<1>1. UNCHANGED <<attempts, job>>
  BY DEF JobRoutes, RequestReads, CreateUpdateJob, EnqueueUpdate, EnqueueFails, RequestDies,
       RetryReads, IncrementRetry, RetryEnqueues, RetryDies, ReaperLooks, ReaperFails
<1>2. \A j \in Jobs : Queued(j) \in Tasks /\ Queued(j).job = j /\ Queued(j).try = tries[j]
  BY DEF Queued, UpdateTasks, WorkTypes
<1>3. \A x \in Workers : job[x].pc # "rest" => job[x].task \in Tasks /\ task[job[x].task] # "absent"
  BY DEF WorkTypes, WorkInv, ExecutedExists
<1>4. \A x \in Workers : Finishing(x)' = Finishing(x) /\ JobOf(x)' = JobOf(x)
        /\ \A t \in Tasks : Holds(x, t)' = Holds(x, t)
  BY <1>1 DEF Finishing, JobOf, Holds
<1> DEFINE Kept == \A t \in Tasks : task[t] # "absent" => task'[t] = task[t]
           Calm == crashes' = 0 => crashes = 0
<1>5. ASSUME Kept, Calm
      PROVE /\ ExecutedExists' /\ OneExecutor' /\ ExecutorHolds'
            /\ \A j \in Jobs : WorkedOn(j)' = WorkedOn(j) /\ (TaskWaits(j) => TaskWaits(j)')
  <2>1. ExecutedExists' /\ OneExecutor' /\ ExecutorHolds'
    BY <1>1, <1>3, <1>5 DEF WorkInv, ExecutedExists, OneExecutor, ExecutorHolds
  <2>2. \A j \in Jobs : WorkedOn(j)' = WorkedOn(j)
    BY <1>1, <1>4 DEF WorkedOn
  <2>3. \A j \in Jobs : TaskWaits(j) => TaskWaits(j)'
    BY <1>4, <1>5 DEF TaskWaits, Waiting
  <2> QED BY <2>1, <2>2, <2>3
(* Steps that leave the queue alone.                                       *)
<1>6. ASSUME UNCHANGED <<task, crashes>>
      PROVE ProcessingHeld' /\ Kept /\ Calm
  BY <1>4, <1>6 DEF WorkInv, ProcessingHeld
<1>7. ASSUME NEW c \in Clients, RequestReads(c) PROVE WorkInv'
  <2>1. UNCHANGED <<task, crashes, status, tries, retry, reaped>>
    BY <1>7 DEF RequestReads
  <2>2. \A d \in Clients : (request'[d].pc = "created" <=> request[d].pc = "created")
          /\ (request[d].pc = "created" => request'[d] = request[d])
    BY <1>7 DEF RequestReads, Asks, WorkTypes
  <2>3. LaterTries'
    BY <2>1 DEF WorkInv, LaterTries, Queued
  <2>4. NewJobs'
    BY <2>1, <2>2 DEF WorkInv, NewJobs, Untouched
  <2>5. JobsHeld'
    BY <1>5, <1>6, <2>1, <2>2 DEF WorkInv, JobsHeld, Requested, Excused
  <2> QED BY <1>5, <1>6, <2>1, <2>3, <2>4, <2>5 DEF WorkInv
<1>8. ASSUME NEW c \in Clients, CreateUpdateJob(c) PROVE WorkInv'
  <2>1. UNCHANGED <<task, crashes, tries, retry, reaped>> /\ request[c].pc = "asked"
    BY <1>8 DEF CreateUpdateJob, Asks
  <2>2. PICK j \in Jobs :
          /\ status[j] = "unborn"
          /\ \/ /\ status' = [status EXCEPT ![j] = "pending"]
                /\ request' = [request EXCEPT ![c] = [request[c] EXCEPT !.pc = "created", !.job = j]]
             \/ /\ status' = status
                /\ request' = [request EXCEPT ![c] = [request[c] EXCEPT !.pc = "over"]]
    BY <1>8 DEF CreateUpdateJob, Asks
  <2>3. /\ \A d \in Clients \ {c} : request'[d] = request[d]
        /\ request'[c].pc = "created" => request'[c].job = j /\ status'[j] = "pending"
        /\ status' # status => request'[c].pc = "created"
        /\ \A k \in Jobs \ {j} : status'[k] = status[k]
        /\ status'[j] \in {"unborn", "pending"} /\ (status'[j] = "unborn" => status' = status)
    <3>1. request[c].pc = "asked" /\ request[c] \in RequestType /\ status[j] = "unborn"
      BY <2>1, <2>2 DEF WorkTypes
    <3>2. CASE status' = status /\ request' = [request EXCEPT ![c] = [request[c] EXCEPT !.pc = "over"]]
      BY <3>1, <3>2 DEF WorkTypes, RequestType
    <3>3. CASE /\ status' = [status EXCEPT ![j] = "pending"]
               /\ request' = [request EXCEPT ![c] = [request[c] EXCEPT !.pc = "created", !.job = j]]
      BY <3>1, <3>3 DEF WorkTypes, RequestType
    <3> QED BY <2>2, <3>2, <3>3
  <2>4. Untouched(j) /\ \A k \in Jobs : Untouched(k)' = Untouched(k)
    BY <2>1, <2>2 DEF WorkInv, NewJobs, Untouched
  <2>5. \A d \in Clients : request[d].pc = "created" => request[d].job # j /\ request[d].job \in Jobs
    BY <2>2 DEF WorkInv, NewJobs, WorkTypes
  <2>6. NewJobs'
    <3>1. \A k \in Jobs : status'[k] = "unborn" => Untouched(k)'
      BY <2>3, <2>4 DEF WorkInv, NewJobs
    <3>2. \A d \in Clients, k \in Jobs : request'[d].pc = "created" /\ request'[d].job = k =>
            status'[k] = "pending" /\ Untouched(k)'
      BY <2>3, <2>4, <2>5 DEF WorkInv, NewJobs
    <3>3. \A d, e \in Clients : d # e /\ request'[d].pc = "created" /\ request'[e].pc = "created"
            => request'[d].job # request'[e].job
      BY <2>3, <2>5 DEF WorkInv, NewJobs
    <3> QED BY <3>1, <3>2, <3>3 DEF NewJobs
  <2>7. LaterTries'
    BY <2>1 DEF WorkInv, LaterTries, Queued
  <2>8. \A k \in Jobs : Requested(k) => Requested(k)'
    BY <2>1, <2>3 DEF Requested
  <2>9. status' # status => Requested(j)'
    BY <2>3 DEF Requested
  <2>10. \A k \in Jobs : Excused(k)' = Excused(k)
    BY <2>1 DEF Excused
  <2>11. JobsHeld'
    BY <1>5, <1>6, <2>1, <2>3, <2>8, <2>9, <2>10 DEF WorkInv, JobsHeld
  <2> QED BY <1>5, <1>6, <2>1, <2>6, <2>7, <2>11 DEF WorkInv
<1>9. ASSUME NEW c \in Clients, EnqueueFails(c) \/ RequestDies(c) PROVE WorkInv'
  <2>1. PICK j \in Jobs : request[c].pc = "created" /\ request[c].job = j
    BY <1>9 DEF EnqueueFails, RequestDies, Asks, WorkTypes
  <2>2. /\ UNCHANGED <<task, tries, retry, reaped>> /\ request'[c].pc = "over"
        /\ \A d \in Clients \ {c} : request'[d] = request[d]
        /\ \/ UNCHANGED crashes /\ status' = [status EXCEPT ![j] = "deleted"]
           \/ crashes' > 0 /\ UNCHANGED status
    BY <1>9, <2>1, QueueAssumption DEF EnqueueFails, RequestDies, Asks, WorkTypes, RequestType
  <2>3. /\ \A k \in Jobs \ {j} : status'[k] = status[k]
        /\ status'[j] # "unborn"
    BY <2>1, <2>2 DEF WorkInv, NewJobs, WorkTypes
  <2>4. LaterTries' /\ \A k \in Jobs : Untouched(k)' = Untouched(k)
    BY <2>2 DEF WorkInv, LaterTries, Queued, Untouched
  <2>5. NewJobs'
    <3>1. \A d \in Clients \ {c} : request[d].pc = "created" => request[d].job # j
      BY <2>1 DEF WorkInv, NewJobs
    <3>2. \A d \in Clients, k \in Jobs : request'[d].pc = "created" /\ request'[d].job = k =>
            d # c /\ status'[k] = "pending" /\ Untouched(k)'
      BY <2>2, <2>3, <2>4, <3>1 DEF WorkInv, NewJobs
    <3> QED BY <2>2, <2>3, <2>4, <3>2 DEF WorkInv, NewJobs
  <2>6. CASE crashes' > 0
    <3>1. JobsHeld' /\ ProcessingHeld' /\ Kept /\ Calm
      BY <2>2, <2>6 DEF JobsHeld, Excused, ProcessingHeld
    <3> QED BY <1>5, <2>4, <2>5, <3>1 DEF WorkInv
  <2>7. CASE UNCHANGED crashes /\ status' = [status EXCEPT ![j] = "deleted"]
    <3>1. \A k \in Jobs : status'[k] \in {"pending", "processing"} => k # j /\ status'[k] = status[k]
      BY <2>7 DEF WorkTypes
    <3>2. \A k \in Jobs \ {j} : Requested(k) => Requested(k)'
      BY <2>1, <2>2 DEF Requested
    <3>3. \A k \in Jobs : Excused(k)' = Excused(k)
      BY <2>7 DEF Excused
    <3>4. JobsHeld'
      BY <1>5, <1>6, <2>2, <2>7, <3>1, <3>2, <3>3 DEF WorkInv, JobsHeld
    <3> QED BY <1>5, <1>6, <2>2, <2>4, <2>5, <2>7, <3>4 DEF WorkInv
  <2> QED BY <2>2, <2>6, <2>7
<1>10. ASSUME RetryDies PROVE WorkInv'
  <2>1. UNCHANGED <<task, tries, status, request, reaped>> /\ crashes' > 0 /\ retry'.pc = "rest"
    BY <1>10, QueueAssumption DEF RetryDies, WorkTypes
  <2>2. LaterTries' /\ \A k \in Jobs : Untouched(k) => Untouched(k)'
    BY <2>1 DEF WorkInv, LaterTries, Queued, Untouched
  <2>3. NewJobs'
    BY <2>1, <2>2 DEF WorkInv, NewJobs
  <2>4. JobsHeld' /\ ProcessingHeld' /\ Kept /\ Calm
    BY <2>1 DEF JobsHeld, Excused, ProcessingHeld
  <2> QED BY <1>5, <2>2, <2>3, <2>4 DEF WorkInv
<1>11. ASSUME RetryReads \/ ReaperLooks PROVE WorkInv'
  <2>1. UNCHANGED <<task, crashes, tries, status, request>>
    BY <1>11 DEF RetryReads, ReaperLooks
  <2>2. \/ \E j \in Jobs : /\ status[j] = "failed" /\ retry.pc = "rest" /\ UNCHANGED reaped
                           /\ retry' = [pc |-> "allowed", job |-> j]
        \/ UNCHANGED retry /\ reaped' \in Jobs /\ status[reaped'] \in MidStage
    BY <1>11 DEF RetryReads, ReaperLooks
  <2>3. LaterTries'
    BY <2>1, <2>2 DEF WorkInv, LaterTries, Queued
  <2>4. \A k \in Jobs : status[k] \in {"unborn", "pending"} /\ Untouched(k) => Untouched(k)'
    BY <2>1, <2>2 DEF Untouched, MidStage
  <2>5. NewJobs'
    BY <2>1, <2>4 DEF WorkInv, NewJobs
  <2>6. \A k \in Jobs : Requested(k) => Requested(k)'
    BY <2>1, <2>2 DEF Requested
  <2>7. JobsHeld'
    BY <1>5, <1>6, <2>1, <2>6 DEF WorkInv, JobsHeld, Excused
  <2> QED BY <1>5, <1>6, <2>1, <2>3, <2>5, <2>7 DEF WorkInv
<1>12. ASSUME ReaperFails PROVE WorkInv'
  <2>1. UNCHANGED <<task, crashes, tries, retry, request>> /\ reaped \in Jobs
        /\ reaped' = NoJob /\ status' = [status EXCEPT ![reaped] = "failed"]
    BY <1>12 DEF ReaperFails, WorkTypes
  <2>2. LaterTries' /\ \A k \in Jobs : Untouched(k) => Untouched(k)' /\ k # reaped
    <3>1. \A k \in Jobs : k # NoJob
      BY DEF Jobs, NoJob
    <3> QED BY <2>1, <3>1 DEF WorkInv, LaterTries, Queued, Untouched
  <2>3. \A k \in Jobs : status'[k] = IF k = reaped THEN "failed" ELSE status[k]
    BY <2>1 DEF WorkTypes
  <2>4. NewJobs'
    BY <2>1, <2>2, <2>3 DEF WorkInv, NewJobs
  <2>5. \A k \in Jobs : Requested(k)' = Requested(k) /\ Excused(k)' = Excused(k)
    BY <2>1 DEF Requested, Excused
  <2>6. JobsHeld'
    BY <1>5, <1>6, <2>1, <2>3, <2>5 DEF WorkInv, JobsHeld
  <2> QED BY <1>5, <1>6, <2>1, <2>2, <2>4, <2>6 DEF WorkInv
<1>13. ASSUME IncrementRetry PROVE WorkInv'
  <2>1. UNCHANGED <<task, crashes, request, reaped>> /\ retry.pc = "allowed" /\ retry.job \in Jobs
        /\ tries[retry.job] + 1 \in 0 .. MaxRetries
    BY <1>13 DEF IncrementRetry, WorkTypes
  <2>2. \/ /\ status' = [status EXCEPT ![retry.job] = "pending"]
           /\ tries' = [tries EXCEPT ![retry.job] = @ + 1]
           /\ retry'.pc = "counted" /\ retry'.job = retry.job
        \/ retry'.pc = "rest" /\ UNCHANGED <<status, tries>>
    BY <1>13 DEF IncrementRetry, WorkTypes, RetryType
  <2>3. /\ \A k \in Jobs \ {retry.job} : status'[k] = status[k] /\ tries'[k] = tries[k]
        /\ tries'[retry.job] >= tries[retry.job]
        /\ retry'.pc = "counted" => tries'[retry.job] > tries[retry.job] /\ retry'.job = retry.job
        /\ retry'.pc # "rest" => retry'.pc = "counted" /\ status'[retry.job] = "pending"
        /\ retry'.pc = "rest" => status' = status
    BY <2>1, <2>2 DEF WorkTypes
  <2>4. LaterTries'
    <3>1. \A t \in Tasks : t.try > tries'[t.job] => task'[t] = "absent"
      <4>1. ASSUME NEW t \in Tasks, t.try > tries'[t.job] PROVE t.try > tries[t.job]
        <5>1. t.job \in Jobs /\ t.try \in Int /\ tries[t.job] \in Int /\ tries'[t.job] \in Int
          BY <2>1, <2>2 DEF UpdateTasks, WorkTypes
        <5> QED BY <2>3, <4>1, <5>1
      <4> QED BY <2>1, <4>1 DEF WorkInv, LaterTries
    <3>2. ASSUME retry'.pc = "counted" PROVE task'[Queued(retry.job)'] = "absent"
      <4>1. tries' = [tries EXCEPT ![retry.job] = @ + 1] /\ retry'.job = retry.job
        BY <2>2, <3>2
      <4>2. Queued(retry.job)' = [type |-> "clone", job |-> retry.job, try |-> tries[retry.job] + 1]
        BY <2>1, <4>1 DEF Queued, WorkTypes
      <4>3. Queued(retry.job)' \in Tasks
        BY <2>1, <4>2 DEF UpdateTasks
      <4> QED BY <2>1, <4>2, <4>3 DEF WorkInv, LaterTries, WorkTypes
    <3> QED BY <3>1, <3>2 DEF LaterTries
  <2>5. \A k \in Jobs : Untouched(k) => Untouched(k)' /\ k # retry.job
    BY <2>1, <2>3 DEF Untouched
  <2>6. status'[retry.job] # "unborn"
    BY <2>1, <2>2, <2>5 DEF WorkInv, NewJobs, WorkTypes
  <2>7. NewJobs'
    BY <2>1, <2>3, <2>5, <2>6 DEF WorkInv, NewJobs
  <2>8. \A k \in Jobs : (Requested(k) => Requested(k)') /\ Excused(k)' = Excused(k)
    BY <2>1 DEF Requested, Excused
  <2>9. JobsHeld'
    <3> SUFFICES ASSUME NEW k \in Jobs, status'[k] \in {"pending", "processing"}
                 PROVE WorkedOn(k)' \/ TaskWaits(k)' \/ Requested(k)' \/ Excused(k)'
      BY DEF JobsHeld
    <3>1. CASE status'[k] = status[k]
      BY <1>5, <1>6, <2>1, <2>8, <3>1 DEF WorkInv, JobsHeld
    <3>2. CASE status'[k] # status[k]
      BY <2>3, <2>2, <3>2 DEF Requested
    <3> QED BY <3>1, <3>2
  <2> QED BY <1>5, <1>6, <2>1, <2>4, <2>7, <2>9 DEF WorkInv
<1>14. ASSUME NEW j \in Jobs, task[Queued(j)] = "absent", Enqueue(Queued(j)), UNCHANGED <<crashes, tries>>
       PROVE /\ Kept /\ Calm /\ ProcessingHeld' /\ TaskWaits(j)'
             /\ \A t \in Tasks : t.job # j \/ t.try > tries[t.job] => task'[t] = task[t]
  <2>1. task'[Queued(j)] = "pending" /\ \A t \in Tasks \ {Queued(j)} : task'[t] = task[t]
    BY <1>2, <1>14 DEF Enqueue, WorkTypes
  <2>2. ProcessingHeld'
    BY <1>4, <1>14, <2>1 DEF WorkInv, ProcessingHeld
  <2>3. Waiting(Queued(j))'
    <3>1. \A x \in Workers : ~ Holds(x, Queued(j))'
      BY <1>1, <1>2, <1>3, <1>14 DEF Holds, Queued
    <3>2. Queued(j)' = Queued(j)
      BY <1>14 DEF Queued
    <3> QED BY <2>1, <3>1, <3>2 DEF Waiting
  <2>4. TaskWaits(j)'
    <3>1. Queued(j)' = Queued(j)
      BY <1>14 DEF Queued
    <3> QED BY <1>2, <2>3, <3>1 DEF TaskWaits
  <2>5. ASSUME NEW t \in Tasks, t.job # j \/ t.try > tries[t.job] PROVE t # Queued(j)
    BY <1>2, <2>5 DEF WorkTypes
  <2> QED BY <1>14, <2>1, <2>2, <2>4, <2>5
<1>15. ASSUME NEW c \in Clients, EnqueueUpdate(c) PROVE WorkInv'
  <2>1. PICK j \in Jobs : request[c].pc = "created" /\ request[c].job = j
    BY <1>15 DEF EnqueueUpdate, Asks, WorkTypes
  <2>2. /\ UNCHANGED <<status, crashes, tries, retry, reaped>> /\ request'[c].pc = "over"
        /\ \A d \in Clients \ {c} : request'[d] = request[d]
        /\ Enqueue(Queued(j))
    BY <1>15, <2>1 DEF EnqueueUpdate, Asks, WorkTypes, RequestType
  <2>3. Untouched(j) /\ status[j] = "pending"
    BY <2>1 DEF WorkInv, NewJobs
  <2>4. task[Queued(j)] = "absent"
    BY <1>2, <2>3 DEF Untouched
  <2>5. /\ Kept /\ Calm /\ ProcessingHeld' /\ TaskWaits(j)'
        /\ \A t \in Tasks : t.job # j \/ t.try > tries[t.job] => task'[t] = task[t]
    BY <1>14, <2>2, <2>4
  <2>6. LaterTries'
    <3>1. retry.pc = "counted" => retry.job \in Jobs \ {j}
      BY <2>3 DEF Untouched, WorkTypes
    <3> QED BY <1>2, <2>2, <2>5, <3>1 DEF WorkInv, LaterTries, Queued
  <2>7. \A k \in Jobs \ {j} : Untouched(k) => Untouched(k)'
    BY <2>2, <2>5 DEF Untouched
  <2>8. NewJobs'
    <3>1. \A d \in Clients \ {c} : request[d].pc = "created" => request[d].job # j
      BY <2>1 DEF WorkInv, NewJobs
    <3>2. \A d \in Clients, k \in Jobs : request'[d].pc = "created" /\ request'[d].job = k =>
            d # c /\ k # j /\ request[d].pc = "created" /\ request[d].job = k
      BY <2>2, <3>1
    <3>3. \A k \in Jobs : status'[k] = "unborn" => Untouched(k)'
      BY <2>2, <2>3, <2>7 DEF WorkInv, NewJobs
    <3>4. \A d \in Clients, k \in Jobs : request'[d].pc = "created" /\ request'[d].job = k =>
            status'[k] = "pending" /\ Untouched(k)'
      BY <2>2, <2>7, <3>2 DEF WorkInv, NewJobs
    <3>5. \A d, e \in Clients : d # e /\ request'[d].pc = "created" /\ request'[e].pc = "created"
            => request'[d].job # request'[e].job
      BY <2>2 DEF WorkInv, NewJobs
    <3> QED BY <3>3, <3>4, <3>5 DEF NewJobs
  <2>9. \A k \in Jobs : (k # j /\ Requested(k) => Requested(k)') /\ Excused(k)' = Excused(k)
    BY <2>1, <2>2 DEF Requested, Excused
  <2>10. JobsHeld'
    BY <1>5, <2>2, <2>5, <2>9 DEF WorkInv, JobsHeld
  <2> QED BY <1>5, <2>5, <2>6, <2>8, <2>10 DEF WorkInv
<1>16. ASSUME RetryEnqueues PROVE WorkInv'
  <2>1. PICK j \in Jobs : retry.pc = "counted" /\ retry.job = j
    BY <1>16 DEF RetryEnqueues, WorkTypes
  <2>2. /\ UNCHANGED <<status, crashes, tries, request, reaped>> /\ retry'.pc = "rest"
        /\ Enqueue(Queued(j))
    BY <1>16, <2>1 DEF RetryEnqueues
  <2>3. task[Queued(j)] = "absent"
    BY <2>1 DEF WorkInv, LaterTries
  <2>4. /\ Kept /\ Calm /\ ProcessingHeld' /\ TaskWaits(j)'
        /\ \A t \in Tasks : t.job # j \/ t.try > tries[t.job] => task'[t] = task[t]
    BY <1>14, <2>2, <2>3
  <2>5. LaterTries'
    BY <2>2, <2>4 DEF WorkInv, LaterTries
  <2>6. \A k \in Jobs : Untouched(k) => Untouched(k)'
    BY <2>1, <2>2, <2>4 DEF Untouched
  <2>7. NewJobs'
    BY <2>2, <2>6 DEF WorkInv, NewJobs
  <2>8. \A k \in Jobs : (k # j /\ Requested(k) => Requested(k)') /\ Excused(k)' = Excused(k)
    BY <2>1, <2>2 DEF Requested, Excused
  <2>9. JobsHeld'
    BY <1>5, <2>2, <2>4, <2>8 DEF WorkInv, JobsHeld
  <2> QED BY <1>5, <2>4, <2>5, <2>7, <2>9 DEF WorkInv
<1> QED BY <1>7, <1>8, <1>9, <1>10, <1>11, <1>12, <1>13, <1>15, <1>16 DEF JobRoutes

LEMMA WorkInvInit == Init => WorkInv
<1> SUFFICES ASSUME Init PROVE WorkInv
  OBVIOUS
<1>1. /\ task = [t \in Tasks |-> "absent"] /\ job = [w \in Workers |-> Resting] /\ overtaken = {}
      /\ status = [j \in Jobs |-> "unborn"] /\ tries = [j \in Jobs |-> 0] /\ reaped = NoJob
      /\ retry.pc = "rest" /\ \A c \in Clients : request[c].pc = "new"
  BY DEF Init, QueueInit
<1>2. \A w \in Workers : job[w].pc = "rest"
  BY <1>1 DEF Resting
<1>3. ExecutedExists /\ OneExecutor /\ ExecutorHolds /\ ProcessingHeld /\ JobsHeld
  BY <1>1, <1>2 DEF ExecutedExists, OneExecutor, ExecutorHolds, ProcessingHeld, JobsHeld
<1>4. LaterTries /\ NewJobs
  BY <1>1 DEF LaterTries, NewJobs, Untouched, Jobs, NoJob
<1> QED BY <1>3, <1>4 DEF WorkInv

LEMMA WorkInvNext == WorkTypes /\ WorkInv /\ [Next]_vars => WorkInv'
<1> SUFFICES ASSUME WorkTypes, WorkInv, [Next]_vars PROVE WorkInv'
  OBVIOUS
<1>1. ASSUME NEW w \in Workers, QueueMoves(w) PROVE WorkInv'
  <2>1. UNCHANGED <<status, tries, request, retry, reaped>>
    BY <1>1 DEF QueueMoves
  <2>2. CASE Polls(w)
    BY <2>1, <2>2, WorkInvPolls
  <2>3. CASE Claim(w) /\ UNCHANGED overtaken
    BY <2>1, <2>3, WorkInvClaims
  <2>4. CASE Leaves(w) /\ UNCHANGED overtaken
    BY <2>1, <2>4, WorkInvLeaves
  <2> QED BY <1>1, <2>2, <2>3, <2>4 DEF QueueMoves, Leaves
<1>2. CASE \E w \in Workers : QueueMoves(w)
  BY <1>1, <1>2
<1>3. CASE releases' = releases /\ \E w \in Workers : Executes(w)
  BY <1>3, WorkInvExecutes
<1>4. CASE ClockMoves
  BY <1>4, WorkInvClock
<1>5. CASE JobRoutes /\ UNCHANGED <<releases, overtaken>>
  BY <1>5, WorkInvRoutes
<1>6. CASE Elsewhere
  BY <1>6, WorkInvElsewhere
<1> QED BY <1>2, <1>3, <1>4, <1>5, <1>6, StepKinds

(* A job that is not ended is in the hands of a request, of a task or of   *)
(* an executor, or the reaper will see it, unless a process died or an     *)
(* executor of the job was overtaken (template-update.ts, clone.ts,        *)
(* neon-task-worker.ts, clone-jobs-reaper.ts).                             *)
THEOREM JobsAreKept == Spec => []NoJobIsLeftBehind
<1>1. WorkTypes /\ WorkInv => NoJobIsLeftBehind
  <2> SUFFICES ASSUME WorkInv, NEW j \in Jobs, Active(j), status[j] \notin MidStage
               PROVE \/ Live(j)
                     \/ \E w \in Workers : job[w].pc # "rest" /\ JobOf(w) = j
                     \/ \E c \in Clients : request[c].pc = "created" /\ request[c].job = j
                     \/ retry.pc = "counted" /\ retry.job = j
                     \/ crashes > 0 \/ \E t \in overtaken : t.job = j
    BY DEF NoJobIsLeftBehind
  <2>1. WorkedOn(j) \/ TaskWaits(j) \/ Requested(j) \/ Excused(j)
    BY DEF WorkInv, JobsHeld, Active
  <2> QED BY <2>1 DEF WorkedOn, TaskWaits, Waiting, Requested, Excused, Live
<1>2. Init => WorkTypes /\ WorkInv
  BY WorkInit, WorkInvInit
<1>3. WorkTypes /\ WorkInv /\ [Next]_vars => (WorkTypes /\ WorkInv)'
  BY WorkTypesNext, WorkInvNext
<1> QED BY <1>1, <1>2, <1>3, PTL DEF Spec

---------------------------------------------------------------------------
(* Types of what the fork holds.                                           *)

UndoType == [pc : {"rest", "functions", "repo", "lineage"}, job : Jobs \union {NoJob}, alone : BOOLEAN]
RunType == [marked : BOOLEAN, head : Contents \union {Nothing}]

ForkTypes ==
  /\ head \in Contents /\ fns \in Contents /\ base \in LineageType
  /\ target \in [Jobs -> 1 .. MaxReleases]
  /\ pre \in [Jobs -> PreType \union {NoPre}]
  /\ acts \in 0 .. MaxActs /\ edits \in 0 .. acts

UndoTypes == undo \in UndoType /\ (undo.pc # "rest" => undo.job \in Jobs /\ pre[undo.job] # NoPre)

(* An executor has read the head where it needs it, and has recorded, or   *)
(* found, the state before the update where it may have to go back to it.  *)
RunTypes ==
  /\ run \in [Workers -> RunType]
  /\ \A w \in Workers :
       /\ job[w].pc \in PastCopy => run[w].head \in Contents
       /\ job[w].pc \in PastGate => pre[JobOf(w)] # NoPre
       /\ job[w].pc \in PastCopy \union {"prepare"} /\ run[w].marked => pre[JobOf(w)] # NoPre

DataTypes == ForkTypes /\ UndoTypes /\ RunTypes

LEMMA ContentsFacts ==
  /\ Nothing \notin Contents
  /\ \A n \in 1 .. MaxReleases : Release(n) \in Contents
  /\ \A n \in 1 .. MaxActs : Edit(n) \in Contents
BY DEF Contents, Nothing, Release, Edit

LEMMA DataInit == Init => DataTypes
<1> SUFFICES ASSUME Init PROVE DataTypes
  OBVIOUS
<1>1. Release(1) \in Contents
  BY ContentsFacts, UpdateAssumption
<1>2. [rel |-> 1, snap |-> Release(1), fns |-> Release(1)] \in LineageType
  BY <1>1, UpdateAssumption DEF LineageType
<1>3. ForkTypes
  BY <1>1, <1>2, UpdateAssumption DEF Init, ForkTypes
<1>4. UndoTypes
  BY DEF Init, UndoTypes, UndoType
<1>5. RunTypes
  BY DEF Init, QueueInit, RunTypes, RunType, NoRun, Resting, PastCopy, PastGate
<1> QED BY <1>3, <1>4, <1>5 DEF DataTypes

(* A recorded state is one.                                                *)
LEMMA Recorded ==
  ASSUME ForkTypes, NEW h \in Contents
  PROVE /\ [snap |-> h, fns |-> fns, base |-> base] \in PreType
        /\ [snap |-> h, fns |-> fns, base |-> base] # NoPre
<1>1. NoPre.snap = Nothing
  BY DEF NoPre
<1> QED BY <1>1, ContentsFacts DEF ForkTypes, PreType

LEMMA DataUpdateStep ==
  ASSUME WorkTypes, DataTypes, NEW w \in Workers, UpdateStep(w) PROVE DataTypes'
<1> USE DEF jobVars, forkVars, ownVars, counters, routeVars
<1>1. PICK j \in Jobs : JobOf(w) = j /\ job[w].pc # "rest"
  BY UpdateAssumption DEF UpdateStep, Begins, FailsEarly, CopiesRepo, Decides, RecordsPreSync,
     Publishes, ReplaysFunctions, AdvancesLineage, Completes, Throws, RollsBack, OnTo, Steps, Running,
     WorkTypes, JobOf, UpdateTasks
<1>2. target[j] \in 1 .. MaxReleases /\ Release(target[j]) \in Contents
  BY ContentsFacts DEF DataTypes, ForkTypes
<1>3. \A pc \in Places : Goto(w, pc) =>
        /\ job'[w].pc = pc /\ JobOf(w)' = j
        /\ \A x \in Workers \ {w} : job'[x].pc = job[x].pc /\ JobOf(x)' = JobOf(x)
  BY <1>1, GotoMoves DEF JobOf
<1>4. ASSUME UNCHANGED <<pre, run>>, NEW pc \in Places \ {"prepare"}, Goto(w, pc),
             pc \in PastCopy => job[w].pc \in PastCopy,
             pc \in PastGate => job[w].pc \in PastGate \/ pre[j] # NoPre
      PROVE RunTypes'
  <2>1. run' \in [Workers -> RunType]
    BY <1>4 DEF DataTypes, RunTypes
  <2> SUFFICES ASSUME NEW x \in Workers
               PROVE /\ job'[x].pc \in PastCopy => run[x].head \in Contents
                     /\ job'[x].pc \in PastGate => pre[JobOf(x)'] # NoPre
                     /\ job'[x].pc \in PastCopy \union {"prepare"} /\ run[x].marked => pre[JobOf(x)'] # NoPre
    BY <1>4, <2>1 DEF RunTypes
  <2>2. CASE x # w
    BY <1>3, <1>4, <2>2 DEF DataTypes, RunTypes
  <2>3. CASE x = w
    BY <1>1, <1>3, <1>4, <2>3 DEF DataTypes, RunTypes, PastCopy, PastGate
  <2> QED BY <2>2, <2>3
<1>5. ASSUME UNCHANGED <<head, fns, base, target, pre, acts, edits>> PROVE ForkTypes'
  BY <1>5 DEF DataTypes, ForkTypes
<1>6. ASSUME UNCHANGED <<undo, pre>> PROVE UndoTypes'
  BY <1>6 DEF DataTypes, UndoTypes
<1>7. ASSUME Begins(w) PROVE DataTypes'
  <2>1. UNCHANGED <<head, fns, base, target, pre, acts, edits>> /\ undo' = [undo EXCEPT !.alone = FALSE]
    BY <1>7 DEF Begins, SetStatus
  <2>2. UndoTypes'
    BY <2>1 DEF DataTypes, UndoTypes, UndoType
  <2>3. CASE Goto(w, "done") /\ UNCHANGED run
    BY <1>4, <1>5, <2>1, <2>2, <2>3 DEF DataTypes, Places, PastCopy, PastGate
  <2>4. CASE Goto(w, "prepare") /\ run' = [run EXCEPT ![w] = [marked |-> pre[j] # NoPre, head |-> Nothing]]
    <3>1. run' \in [Workers -> RunType]
      BY <2>4 DEF DataTypes, RunTypes, RunType
    <3>2. run'[w].marked = (pre[j] # NoPre) /\ \A x \in Workers \ {w} : run'[x] = run[x]
      BY <2>4 DEF DataTypes, RunTypes
    <3>3. RunTypes'
      BY <1>3, <2>1, <2>4, <3>1, <3>2 DEF DataTypes, RunTypes, PastCopy, PastGate, Places
    <3> QED BY <1>5, <2>1, <2>2, <3>3 DEF DataTypes
  <2> QED BY <1>1, <1>7, <2>3, <2>4 DEF Begins
<1>8. ASSUME CopiesRepo(w) PROVE DataTypes'
  <2>1. /\ job[w].pc = "prepare" /\ Goto(w, "decide") /\ run' = [run EXCEPT ![w].head = head]
        /\ UNCHANGED <<head, fns, base, target, pre, undo, acts, edits>>
    BY <1>8 DEF CopiesRepo, Steps, Running, SetStatus
  <2>2. run' \in [Workers -> RunType]
    BY <2>1 DEF DataTypes, RunTypes, RunType, ForkTypes
  <2>3. run'[w].head = head /\ run'[w].marked = run[w].marked /\ \A x \in Workers \ {w} : run'[x] = run[x]
    BY <2>1 DEF DataTypes, RunTypes, RunType
  <2>4. RunTypes'
    BY <1>1, <1>3, <2>1, <2>2, <2>3 DEF DataTypes, RunTypes, ForkTypes, PastCopy, PastGate, Places
  <2> QED BY <1>5, <1>6, <2>1, <2>4 DEF DataTypes
<1>9. ASSUME FailsEarly(w) \/ Throws(w) PROVE DataTypes'
  <2>1. Goto(w, "threw") \/ (Goto(w, "rollback") /\ job[w].pc \in PastGate)
    BY <1>9 DEF FailsEarly, Throws, Published, PastGate
  <2>2. UNCHANGED <<head, fns, base, target, pre, undo, acts, edits, run>>
    BY <1>9 DEF FailsEarly, Throws
  <2>3. CASE Goto(w, "threw")
    BY <1>4, <1>5, <1>6, <2>2, <2>3 DEF DataTypes, Places, PastCopy, PastGate
  <2>4. CASE Goto(w, "rollback") /\ job[w].pc \in PastGate
    BY <1>4, <1>5, <1>6, <2>2, <2>4 DEF DataTypes, Places, PastCopy, PastGate
  <2> QED BY <2>1, <2>3, <2>4
<1>10. ASSUME Decides(w) PROVE DataTypes'
  <2>1. job[w].pc = "decide" /\ UNCHANGED <<head, fns, base, target, pre, undo, acts, edits, run>>
    BY <1>10 DEF Decides, Steps, Running
  <2>2. \/ Goto(w, "publish") /\ run[w].marked
        \/ Goto(w, "record") \/ Goto(w, "done")
    BY <1>10 DEF Decides, Steps
  <2>3. job[w].pc \in PastCopy
    BY <2>1 DEF PastCopy
  <2>4. run[w].marked => pre[j] # NoPre
    BY <1>1, <2>3 DEF DataTypes, RunTypes
  <2>5. CASE Goto(w, "publish") /\ run[w].marked
    BY <1>4, <1>5, <1>6, <2>1, <2>3, <2>4, <2>5 DEF DataTypes, Places
  <2>6. CASE Goto(w, "record")
    BY <1>4, <1>5, <1>6, <2>1, <2>3, <2>6 DEF DataTypes, Places, PastGate
  <2>7. CASE Goto(w, "done")
    BY <1>4, <1>5, <1>6, <2>1, <2>3, <2>7 DEF DataTypes, Places, PastGate
  <2> QED BY <2>2, <2>5, <2>6, <2>7
<1>11. ASSUME RecordsPreSync(w) PROVE DataTypes'
  <2> DEFINE seen == [snap |-> run[w].head, fns |-> fns, base |-> base]
  <2>1. /\ job[w].pc = "record" /\ Goto(w, "publish")
        /\ pre' = [pre EXCEPT ![j] = IF @ = NoPre THEN seen ELSE @]
        /\ UNCHANGED <<head, fns, base, target, undo, acts, edits, run>>
    BY <1>1, <1>11 DEF RecordsPreSync, Steps, Running
  <2>2. seen \in PreType /\ seen # NoPre
    BY <2>1, Recorded DEF DataTypes, RunTypes, PastCopy
  <2>3. /\ pre' \in [Jobs -> PreType \union {NoPre}] /\ pre'[j] # NoPre
        /\ \A k \in Jobs : pre[k] # NoPre => pre'[k] # NoPre
    BY <2>1, <2>2 DEF DataTypes, ForkTypes
  <2>4. ForkTypes'
    BY <2>1, <2>3 DEF DataTypes, ForkTypes
  <2>5. UndoTypes'
    BY <2>1, <2>3 DEF DataTypes, UndoTypes
  <2>6. \A x \in Workers : job[x].pc # "rest" => JobOf(x) \in Jobs
    BY UpdateAssumption DEF WorkTypes, JobOf, UpdateTasks
  <2>7. RunTypes'
    <3>1. ASSUME NEW x \in Workers \ {w},
                 job[x].pc \in PastGate \/ (job[x].pc \in PastCopy \union {"prepare"} /\ run[x].marked)
          PROVE pre'[JobOf(x)] # NoPre
      BY <2>3, <2>6, <3>1 DEF DataTypes, RunTypes, PastGate, PastCopy
    <3>2. run[w].head \in Contents
      BY <2>1 DEF DataTypes, RunTypes, PastCopy
    <3> SUFFICES ASSUME NEW x \in Workers
                 PROVE /\ job'[x].pc \in PastCopy => run[x].head \in Contents
                       /\ job'[x].pc \in PastGate => pre'[JobOf(x)'] # NoPre
                       /\ job'[x].pc \in PastCopy \union {"prepare"} /\ run[x].marked => pre'[JobOf(x)'] # NoPre
      BY <2>1 DEF DataTypes, RunTypes
    <3>3. CASE x = w
      BY <1>3, <2>1, <2>3, <3>2, <3>3 DEF Places
    <3>4. CASE x # w
      BY <1>3, <2>1, <3>1, <3>4 DEF Places, DataTypes, RunTypes
    <3> QED BY <3>3, <3>4
  <2> QED BY <2>4, <2>5, <2>7 DEF DataTypes
<1>12. ASSUME Publishes(w) \/ ReplaysFunctions(w) PROVE DataTypes'
  <2>1. job[w].pc \in {"publish", "replay"} /\ \E pc \in {"replay", "advance", "refused"} : Goto(w, pc)
    BY <1>12 DEF Publishes, ReplaysFunctions, OnTo, Running
  <2>2. /\ UNCHANGED <<base, target, pre, undo, acts, edits, run>>
        /\ head' \in {head, Release(target[j])} /\ fns' \in {fns, Release(target[j])}
    BY <1>1, <1>12 DEF Publishes, ReplaysFunctions
  <2>3. ForkTypes'
    BY <1>2, <2>2 DEF DataTypes, ForkTypes
  <2> QED BY <1>4, <1>6, <2>1, <2>2, <2>3 DEF DataTypes, Places, PastCopy, PastGate
<1>13. ASSUME AdvancesLineage(w) PROVE DataTypes'
  <2>1. job[w].pc = "advance" /\ Goto(w, "complete") /\ UNCHANGED <<head, fns, target, pre, undo, acts, edits, run>>
        /\ base' = [rel |-> target[j], snap |-> Release(target[j]), fns |-> fns]
    BY <1>1, <1>13 DEF AdvancesLineage, Steps, Running
  <2>2. ForkTypes'
    BY <1>2, <2>1 DEF DataTypes, ForkTypes, LineageType
  <2> QED BY <1>4, <1>6, <2>1, <2>2 DEF DataTypes, Places, PastCopy, PastGate
<1>14. ASSUME Completes(w) PROVE DataTypes'
  <2>1. Goto(w, "done") /\ UNCHANGED <<head, fns, base, target, pre, undo, acts, edits, run>>
    BY <1>14 DEF Completes, Steps
  <2> QED BY <1>4, <1>5, <1>6, <2>1 DEF DataTypes, Places, PastCopy, PastGate
<1>15. ASSUME RollsBack(w) PROVE DataTypes'
  <2>1. job[w].pc = "rollback" /\ Goto(w, "threw") /\ UNCHANGED <<fns, base, target, pre, undo, acts, edits, run>>
        /\ head' \in {head, IF run[w].marked THEN pre[j].snap ELSE run[w].head}
    BY <1>1, <1>15 DEF RollsBack, Steps, Running
  <2>2. pre[j] \in PreType /\ run[w].head \in Contents
    <3>1. job[w].pc \in PastGate /\ job[w].pc \in PastCopy
      BY <2>1 DEF PastCopy, PastGate
    <3>2. run[w].head \in Contents
      BY <3>1 DEF DataTypes, RunTypes
    <3>3. pre[JobOf(w)] # NoPre
      BY <3>1 DEF DataTypes, RunTypes
    <3> QED BY <1>1, <3>2, <3>3 DEF DataTypes, ForkTypes
  <2>3. ForkTypes'
    BY <2>1, <2>2 DEF DataTypes, ForkTypes, PreType
  <2> QED BY <1>4, <1>6, <2>1, <2>3 DEF DataTypes, Places, PastCopy, PastGate
<1> QED BY <1>7, <1>8, <1>9, <1>10, <1>11, <1>12, <1>13, <1>14, <1>15 DEF UpdateStep

(* A worker that begins or ends a task has read nothing yet.               *)
LEMMA DataQueue ==
  ASSUME WorkTypes, DataTypes, NEW w \in Workers,
         TakesBack(w) \/ QueueStep(w)
  PROVE DataTypes'
<1> USE DEF jobVars, forkVars, ownVars, counters, routeVars
<1>1. UNCHANGED <<head, fns, base, target, pre, undo, acts, edits>>
  BY DEF TakesBack, QueueStep, OfQueue
<1>2. ForkTypes' /\ UndoTypes'
  BY <1>1 DEF DataTypes, ForkTypes, UndoTypes
<1>3. run' \in [Workers -> RunType] /\ \A x \in Workers : run'[x] \in {run[x], NoRun}
  <2>1. UNCHANGED run \/ run' = [run EXCEPT ![w] = NoRun]
    BY DEF TakesBack, QueueStep
  <2>2. NoRun \in RunType
    BY DEF NoRun, RunType
  <2> QED BY <2>1, <2>2 DEF DataTypes, RunTypes
<1>4. \A x \in Workers : job'[x].pc \in {"rest", "start"} \/ (job'[x] = job[x] /\ run'[x] = run[x])
  <2>1. Resting.pc = "rest" /\ \A t \in Tasks : t.type # "provision"
    BY UpdateAssumption DEF Resting, UpdateTasks
  <2>2. CASE Complete(w) \/ BackOff(w) \/ GiveUp(w) \/ Die(w)
    BY <2>1, <2>2
    DEF Complete, BackOff, GiveUp, Die, WorkTypes, TakesBack, QueueStep, DataTypes, RunTypes
  <2>3. CASE UNCHANGED <<job, run>>
    BY <2>3
  <2>4. CASE Claim(w) /\ UNCHANGED run
    BY <2>1, <2>4 DEF Claim, WorkTypes, Resting
  <2>5. CASE Exhaust(w) /\ UNCHANGED run
    BY <2>1, <2>5 DEF Exhaust
  <2> QED BY <2>2, <2>3, <2>4, <2>5 DEF TakesBack, QueueStep, Recover
<1>5. RunTypes'
  BY <1>1, <1>3, <1>4 DEF DataTypes, RunTypes, JobOf, PastCopy, PastGate
<1> QED BY <1>2, <1>5 DEF DataTypes

LEMMA DataRoutes == ASSUME WorkTypes, DataTypes, JobRoutes PROVE DataTypes'
<1> USE DEF jobVars, forkVars, ownVars, counters, routeVars, queueVars
<1>1. UNCHANGED <<head, fns, base, pre, undo, edits, run, job>>
  BY DEF JobRoutes, RequestReads, CreateUpdateJob, EnqueueUpdate, EnqueueFails, RequestDies,
       RetryReads, IncrementRetry, RetryEnqueues, RetryDies, ReaperLooks, ReaperFails
<1>2. acts' \in 0 .. MaxActs /\ edits \in 0 .. acts'
  <2>1. acts' = acts \/ (acts < MaxActs /\ acts' = acts + 1)
    BY DEF JobRoutes, RequestReads, CreateUpdateJob, EnqueueUpdate, EnqueueFails, RequestDies,
       RetryReads, IncrementRetry, RetryEnqueues, RetryDies, ReaperLooks, ReaperFails, Acts
  <2> QED BY <2>1, UpdateAssumption DEF DataTypes, ForkTypes
<1>3. target' \in [Jobs -> 1 .. MaxReleases]
  BY DEF JobRoutes, RequestReads, CreateUpdateJob, EnqueueUpdate, EnqueueFails, RequestDies,
       RetryReads, IncrementRetry, RetryEnqueues, RetryDies, ReaperLooks, ReaperFails,
       DataTypes, ForkTypes, WorkTypes, RequestType
<1>4. ForkTypes'
  BY <1>1, <1>2, <1>3 DEF DataTypes, ForkTypes
<1>5. UndoTypes' /\ RunTypes'
  BY <1>1 DEF DataTypes, UndoTypes, RunTypes, JobOf
<1> QED BY <1>4, <1>5 DEF DataTypes

(* An undo and the owners.                                                 *)
LEMMA DataElsewhere ==
  ASSUME WorkTypes, DataTypes,
         \/ UndoReads \/ RestoreFunctions \/ RestoreRepo \/ RestoreLineage \/ UndoDies
         \/ PushRepo \/ DeployFunctions \/ PublishRelease
  PROVE DataTypes'
<1> USE DEF jobVars, forkVars, ownVars, counters, routeVars, queueVars
<1>1. UNCHANGED <<target, pre, run, job>>
  BY DEF UndoReads, RestoreFunctions, RestoreRepo, RestoreLineage, UndoDies, PushRepo,
     DeployFunctions, Owns, PublishRelease
<1>2. RunTypes'
  BY <1>1 DEF DataTypes, RunTypes, JobOf
<1>3. UndoTypes'
  <2>1. CASE UndoReads
    BY <1>1, <2>1 DEF UndoReads, UndoTypes, UndoType
  <2>2. CASE UNCHANGED undo
    BY <1>1, <2>2 DEF DataTypes, UndoTypes
  <2>3. CASE \/ undo' = [undo EXCEPT !.alone = FALSE]
             \/ undo' = [undo EXCEPT !.pc = "rest"]
             \/ undo.pc # "rest" /\ \/ undo' = [undo EXCEPT !.pc = "repo"]
                                    \/ undo' = [undo EXCEPT !.pc = "repo", !.alone = FALSE]
                                    \/ undo' = [undo EXCEPT !.pc = "lineage"]
    BY <1>1, <2>3 DEF DataTypes, UndoTypes, UndoType
  <2> QED BY <2>1, <2>2, <2>3 DEF RestoreFunctions, RestoreRepo, RestoreLineage, UndoDies, PushRepo,
     Undoes, DeployFunctions, Owns, PublishRelease
<1>4. undo.pc # "rest" => pre[undo.job] \in PreType
  BY DEF DataTypes, UndoTypes, ForkTypes
<1>5. acts' \in 0 .. MaxActs /\ edits' \in 0 .. acts'
  BY UpdateAssumption
  DEF UndoReads, RestoreFunctions, RestoreRepo, RestoreLineage, UndoDies, PushRepo, Acts,
     DeployFunctions, Owns, PublishRelease, DataTypes, ForkTypes
<1>6. head' \in Contents /\ fns' \in Contents
  <2>1. CASE PushRepo \/ DeployFunctions
    <3>1. edits + 1 \in 1 .. MaxActs
      BY <2>1, UpdateAssumption DEF PushRepo, DeployFunctions, Owns, Acts, DataTypes, ForkTypes
    <3>2. Edit(edits + 1) \in Contents
      BY <3>1, ContentsFacts
    <3> QED BY <2>1, <3>2 DEF PushRepo, DeployFunctions, DataTypes, ForkTypes
  <2>2. CASE ~ (PushRepo \/ DeployFunctions)
    BY <1>4, <2>2 DEF UndoReads, RestoreFunctions, RestoreRepo, RestoreLineage, UndoDies, Undoes,
       PublishRelease, DataTypes, ForkTypes, PreType
  <2> QED BY <2>1, <2>2
<1>7. base' \in LineageType
  BY <1>4 DEF UndoReads, RestoreFunctions, RestoreRepo, RestoreLineage, UndoDies, PushRepo, Undoes,
     DeployFunctions, Owns, PublishRelease, DataTypes, ForkTypes, PreType
<1> QED BY <1>1, <1>2, <1>3, <1>5, <1>6, <1>7 DEF DataTypes, ForkTypes

LEMMA DataNext == WorkTypes /\ DataTypes /\ [Next]_vars => DataTypes'
<1> SUFFICES ASSUME WorkTypes, DataTypes, [Next]_vars PROVE DataTypes'
  OBVIOUS
<1>1. CASE UNCHANGED vars
  BY <1>1 DEF vars, queueVars, forkVars, jobVars, routeVars, ownVars, counters, DataTypes, ForkTypes, UndoTypes,
     RunTypes, JobOf
<1>2. CASE \E w \in Workers : TakesBack(w)
  BY <1>2, DataQueue
<1>3. CASE Keeps
  <2>1. CASE \E w \in Workers : QueueStep(w)
    BY <2>1, DataQueue
  <2>2. CASE \E w \in Workers : UpdateStep(w)
    BY <2>2, DataUpdateStep
  <2>3. CASE \E t \in Tasks : PassThreshold(t) /\ OfQueue /\ UNCHANGED run
    BY <2>3 DEF PassThreshold, OfQueue, forkVars, jobVars, routeVars, ownVars, counters, DataTypes, ForkTypes,
       UndoTypes, RunTypes, JobOf
  <2>4. CASE JobRoutes
    BY <2>4, DataRoutes
  <2>5. CASE \/ UndoReads \/ RestoreFunctions \/ RestoreRepo \/ RestoreLineage \/ UndoDies
             \/ PushRepo \/ DeployFunctions \/ PublishRelease
    BY <2>5, DataElsewhere
  <2> QED BY <1>3, <2>1, <2>2, <2>3, <2>4, <2>5 DEF Keeps, Route, JobRoutes
<1> QED BY <1>1, <1>2, <1>3 DEF Next

Surfaces == {"repo", "functions"}

LEMMA SettledNext == settled \subseteq Surfaces /\ [Next]_vars => settled' \subseteq Surfaces
<1> SUFFICES ASSUME settled \subseteq Surfaces, [Next]_vars PROVE settled' \subseteq Surfaces
  OBVIOUS
<1> USE DEF ownVars
<1>1. \A w \in Workers : UpdateStep(w) \/ QueueStep(w) \/ TakesBack(w) => settled' \in {settled, settled \union {"repo"}}
  BY DEF UpdateStep, Begins, FailsEarly, CopiesRepo, Decides, RecordsPreSync, Publishes, ReplaysFunctions,
     AdvancesLineage, Completes, Throws, RollsBack, QueueStep, TakesBack, OfQueue
<1>2. Route => settled' \subseteq settled
  BY DEF Route, RequestReads, CreateUpdateJob, EnqueueUpdate, EnqueueFails, RequestDies, RetryReads,
     IncrementRetry, RetryEnqueues, RetryDies, UndoReads, RestoreFunctions, RestoreRepo, RestoreLineage,
     UndoDies
<1>3. PushRepo \/ DeployFunctions => settled' \subseteq settled \union Surfaces
  BY DEF PushRepo, DeployFunctions, Owns, Surfaces
<1>4. PublishRelease \/ ReaperLooks \/ ReaperFails \/ OfQueue \/ UNCHANGED vars => settled' = settled
  BY DEF PublishRelease, ReaperLooks, ReaperFails, OfQueue, vars
<1> QED BY <1>1, <1>2, <1>3, <1>4 DEF Next, Keeps, Surfaces

(* The shapes of the fork's and the jobs' rows, and that an executor past  *)
(* its gate works on a job whose state before the update is recorded       *)
(* (neon-task-worker.ts, template-update.ts).                              *)
THEOREM UpdateTypes == Spec => []TypeOK
<1> DEFINE Types == WorkTypes /\ DataTypes /\ settled \subseteq Surfaces
<1>1. Types => TypeOK
  BY DEF WorkTypes, DataTypes, ForkTypes, RunTypes, TypeOK, JobType, TaskStates, JobStates, Surfaces
<1>2. Init => Types
  BY WorkInit, DataInit DEF Init, Surfaces
<1>3. Types /\ [Next]_vars => Types'
  BY WorkTypesNext, DataNext, SettledNext
<1> HIDE DEF Types
<1> QED BY <1>1, <1>2, <1>3, PTL DEF Spec

---------------------------------------------------------------------------
(* What every step does to the contents of the fork.                       *)

dataVars == <<head, fns, base, pre, settled, edits, undo>>

(* A step that leaves them alone: a worker may begin or end a task.        *)
Calm ==
  /\ UNCHANGED dataVars
  /\ \A x \in Workers : \/ job'[x] = job[x] /\ run'[x] = run[x]
                        \/ job'[x].pc \in {"rest", "start"} /\ run'[x] \in {run[x], NoRun}

LEMMA QueueCalm ==
  ASSUME WorkTypes, DataTypes, NEW w \in Workers, TakesBack(w) \/ QueueStep(w) PROVE Calm
<1> USE DEF jobVars, forkVars, ownVars, counters, routeVars
<1>1. UNCHANGED dataVars
  BY DEF TakesBack, QueueStep, OfQueue, dataVars
<1>2. Resting.pc = "rest" /\ \A t \in Tasks : t.type # "provision"
  BY UpdateAssumption DEF Resting, UpdateTasks
<1>3. CASE (Complete(w) \/ BackOff(w) \/ GiveUp(w) \/ Die(w)) /\ run' = [run EXCEPT ![w] = NoRun]
  BY <1>1, <1>2, <1>3
  DEF Complete, BackOff, GiveUp, Die, WorkTypes, DataTypes, RunTypes, Calm
<1>4. CASE UNCHANGED <<job, run>>
  BY <1>1, <1>4 DEF Calm
<1>5. CASE Claim(w) /\ UNCHANGED run
  BY <1>1, <1>2, <1>5 DEF Claim, WorkTypes, Resting, Calm
<1>6. CASE Exhaust(w) /\ UNCHANGED run
  BY <1>1, <1>2, <1>6 DEF Exhaust, Calm
<1> QED BY <1>3, <1>4, <1>5, <1>6 DEF TakesBack, QueueStep, Recover

LEMMA RoutesCalm ==
  ASSUME JobRoutes \/ (ClockMoves /\ OfQueue /\ UNCHANGED run) \/ PublishRelease \/ UNCHANGED vars PROVE Calm
BY DEF JobRoutes, RequestReads, CreateUpdateJob, EnqueueUpdate, EnqueueFails, RequestDies,
       RetryReads, IncrementRetry, RetryEnqueues, RetryDies, ReaperLooks, ReaperFails, ClockMoves,
       PassThreshold, OfQueue, PublishRelease, vars, jobVars, forkVars, ownVars, counters, routeVars,
       queueVars, Calm, dataVars

Undo == RestoreFunctions \/ RestoreRepo \/ RestoreLineage \/ UndoReads \/ UndoDies
Edits == PushRepo \/ DeployFunctions

(* An executor moves itself only, and no edit is made.                     *)
Alone(w) ==
  /\ job[w].pc # "rest" /\ JobOf(w) \in Jobs
  /\ job'[w].pc # "rest" /\ JobOf(w)' = JobOf(w)
  /\ \A x \in Workers \ {w} : job'[x] = job[x] /\ run'[x] = run[x]
  /\ UNCHANGED edits

LEMMA UpdateAlone ==
  ASSUME WorkTypes, DataTypes, NEW w \in Workers, UpdateStep(w) PROVE Alone(w)
<1> USE DEF jobVars, forkVars, ownVars, counters, routeVars
<1>1. JobOf(w) \in Jobs /\ job[w].pc # "rest"
  BY UpdateAssumption DEF UpdateStep, Begins, FailsEarly, CopiesRepo, Decides, RecordsPreSync,
     Publishes, ReplaysFunctions, AdvancesLineage, Completes, Throws, RollsBack, OnTo, Steps, Running,
     WorkTypes, JobOf, UpdateTasks
<1>2. \E pc \in Places \ {"rest"} : Goto(w, pc)
  BY DEF UpdateStep, Begins, FailsEarly, CopiesRepo, Decides, RecordsPreSync,
     Publishes, ReplaysFunctions, AdvancesLineage, Completes, Throws, RollsBack, OnTo, Steps, Places
<1>3. /\ job'[w].pc # "rest" /\ JobOf(w)' = JobOf(w)
      /\ \A x \in Workers \ {w} : job'[x] = job[x]
  BY <1>2, GotoMoves DEF JobOf
<1>4. UNCHANGED edits /\ \A x \in Workers \ {w} : run'[x] = run[x]
  BY DEF UpdateStep, Begins, FailsEarly, CopiesRepo, Decides, RecordsPreSync,
     Publishes, ReplaysFunctions, AdvancesLineage, Completes, Throws, RollsBack, DataTypes, RunTypes
<1> QED BY <1>1, <1>3, <1>4 DEF Alone

(* Every step is one of these.                                             *)
LEMMA DataKinds ==
  ASSUME WorkTypes, DataTypes, [Next]_vars
  PROVE \/ Calm
        \/ \E w \in Workers : UpdateStep(w) /\ UNCHANGED overtaken
        \/ Undo \/ Edits
<1>1. CASE UNCHANGED vars
  BY <1>1, RoutesCalm
<1>2. CASE \E w \in Workers : TakesBack(w)
  BY <1>2, QueueCalm
<1>3. CASE Keeps /\ UNCHANGED overtaken
  <2>1. CASE \E w \in Workers : QueueStep(w)
    BY <2>1, QueueCalm
  <2>2. CASE \E w \in Workers : UpdateStep(w)
    BY <1>3, <2>2
  <2>3. CASE \E t \in Tasks : PassThreshold(t) /\ OfQueue /\ UNCHANGED run
    BY <1>3, <2>3, RoutesCalm DEF ClockMoves, OfQueue, jobVars, routeVars, ownVars, counters
  <2>4. CASE JobRoutes \/ PublishRelease
    BY <2>4, RoutesCalm
  <2>5. CASE Undo \/ Edits
    BY <2>5
  <2> QED BY <1>3, <2>1, <2>2, <2>3, <2>4, <2>5 DEF Keeps, Route, JobRoutes, Undo, Edits
<1> QED BY <1>1, <1>2, <1>3 DEF Next

---------------------------------------------------------------------------
(* Contents that there have been.  A lineage names a release of the repo.  *)

Releases == {Release(n) : n \in 1 .. MaxReleases}
Made == Releases \union {Edit(n) : n \in 1 .. edits}
MadeLineage == [rel : 1 .. MaxReleases, snap : Releases, fns : Made]
MadePre == [snap : Made, fns : Made, base : MadeLineage]

ContentsInv ==
  /\ head \in Made /\ fns \in Made /\ base \in MadeLineage
  /\ \A j \in Jobs : pre[j] # NoPre => pre[j] \in MadePre
  /\ \A w \in Workers : run[w].head \in Made \union {Nothing}

LEMMA MadeFacts ==
  ASSUME DataTypes
  PROVE /\ Nothing \notin Made /\ NoPre \notin MadePre
        /\ \A n \in 1 .. MaxReleases : Release(n) \in Releases /\ Release(n) \in Made
        /\ Edit(edits + 1) \notin Made /\ \A n \in Nat : Edit(n) \notin Releases
<1>1. Nothing \notin Made /\ \A n \in 1 .. MaxReleases : Release(n) \in Releases /\ Release(n) \in Made
  BY DEF Made, Releases, Nothing, Release, Edit
<1>2. NoPre.snap = Nothing
  BY DEF NoPre
<1>3. edits \in Nat
  BY UpdateAssumption DEF DataTypes, ForkTypes
<1> QED BY <1>1, <1>2, <1>3 DEF Made, MadePre, Releases, Release, Edit

LEMMA MadeGrows ==
  ASSUME DataTypes, edits' \in {edits, edits + 1}
  PROVE /\ \A c : c \in Made => c \in Made'
        /\ \A l : l \in MadeLineage => l \in MadeLineage'
        /\ \A p : p \in MadePre => p \in MadePre'
<1>1. edits \in Nat /\ 1 .. edits \subseteq 1 .. edits'
  BY UpdateAssumption DEF DataTypes, ForkTypes
<1>2. \A c : c \in Made => c \in Made'
  BY <1>1 DEF Made
<1>3. MadeLineage' = [rel : 1 .. MaxReleases, snap : Releases, fns : Made']
  BY DEF MadeLineage
<1>4. MadePre' = [snap : Made', fns : Made', base : MadeLineage']
  BY DEF MadePre
<1>5. \A l : l \in MadeLineage => l \in MadeLineage'
  BY <1>2, <1>3 DEF MadeLineage
<1> QED BY <1>2, <1>4, <1>5 DEF MadePre

LEMMA ContentsInit == Init => ContentsInv
<1> SUFFICES ASSUME Init PROVE ContentsInv
  OBVIOUS
<1>1. Release(1) \in Releases /\ Release(1) \in Made
  BY UpdateAssumption DEF Releases, Made
<1>2. [rel |-> 1, snap |-> Release(1), fns |-> Release(1)] \in MadeLineage
  BY <1>1, UpdateAssumption DEF MadeLineage
<1> QED BY <1>1, <1>2 DEF Init, ContentsInv, NoRun

LEMMA ContentsNext == WorkTypes /\ DataTypes /\ ContentsInv /\ [Next]_vars => ContentsInv'
<1> SUFFICES ASSUME WorkTypes, DataTypes, ContentsInv, [Next]_vars PROVE ContentsInv'
  OBVIOUS
<1> USE DEF jobVars, forkVars, ownVars, counters, routeVars
<1>1. CASE Calm
  <2>1. edits' = edits /\ UNCHANGED <<head, fns, base, pre>>
    BY <1>1 DEF Calm, dataVars
  <2>2. \A x \in Workers : run'[x] \in {run[x], NoRun}
    BY <1>1 DEF Calm
  <2> QED BY <2>1, <2>2, MadeGrows DEF ContentsInv, NoRun
<1>2. ASSUME NEW w \in Workers, UpdateStep(w) PROVE ContentsInv'
  <2> DEFINE j == JobOf(w)
  <2>1. Alone(w)
    BY <1>2, UpdateAlone
  <2>2. j \in Jobs /\ edits' = edits /\ \A x \in Workers \ {w} : run'[x] = run[x]
    BY <2>1 DEF Alone
  <2>3. Made' = Made /\ MadeLineage' = MadeLineage /\ MadePre' = MadePre
    BY <2>2 DEF Made, MadeLineage, MadePre
  <2>4. target[j] \in 1 .. MaxReleases /\ Release(target[j]) \in Releases /\ Release(target[j]) \in Made
    BY <2>2, MadeFacts DEF DataTypes, ForkTypes
  <2>5. job[w].pc \in PastCopy => run[w].head \in Made
    BY MadeFacts, ContentsFacts DEF DataTypes, RunTypes, ContentsInv
  <2>6. run'[w].head \in {run[w].head, head, Nothing}
    BY <1>2 DEF UpdateStep, Begins, FailsEarly, CopiesRepo, Decides, RecordsPreSync, DataTypes, RunTypes,
       Publishes, ReplaysFunctions, AdvancesLineage, Completes, Throws, RollsBack, RunType
  <2>7. \A x \in Workers : run'[x].head \in Made \union {Nothing}
    BY <2>2, <2>6 DEF ContentsInv
  <2>8. CASE RecordsPreSync(w)
    <3> DEFINE seen == [snap |-> run[w].head, fns |-> fns, base |-> base]
    <3>1. job[w].pc = "record" /\ UNCHANGED <<head, fns, base>>
          /\ pre' = [pre EXCEPT ![j] = IF @ = NoPre THEN seen ELSE @]
      BY <2>8 DEF RecordsPreSync, Steps, Running
    <3>2. seen \in MadePre
      BY <2>5, <3>1 DEF MadePre, ContentsInv, PastCopy
    <3>3. \A k \in Jobs : pre'[k] = pre[k] \/ pre'[k] = seen
      BY <3>1 DEF DataTypes, ForkTypes
    <3> HIDE DEF seen
    <3> QED BY <2>3, <2>7, <3>1, <3>2, <3>3 DEF ContentsInv
  <2>9. CASE RollsBack(w)
    <3>1. job[w].pc = "rollback" /\ UNCHANGED <<fns, base, pre>>
          /\ head' \in {head, pre[j].snap, run[w].head}
      BY <2>9 DEF RollsBack, Steps, Running
    <3>2. job[w].pc \in PastGate /\ job[w].pc \in PastCopy
      BY <3>1 DEF PastGate, PastCopy
    <3>3. pre[j] # NoPre
      BY <3>2 DEF DataTypes, RunTypes
    <3>4. pre[j].snap \in Made
      BY <2>2, <3>3 DEF ContentsInv, MadePre
    <3> QED BY <2>3, <2>5, <2>7, <3>1, <3>2, <3>4 DEF ContentsInv
  <2>10. CASE AdvancesLineage(w)
    <3>1. /\ base' = [rel |-> target[j], snap |-> Release(target[j]), fns |-> fns]
          /\ UNCHANGED <<head, fns, pre>>
      BY <2>10 DEF AdvancesLineage
    <3>2. base' \in MadeLineage
      BY <2>4, <3>1 DEF MadeLineage, ContentsInv
    <3> QED BY <2>3, <2>7, <3>1, <3>2 DEF ContentsInv
  <2>11. CASE ~ (RecordsPreSync(w) \/ RollsBack(w) \/ AdvancesLineage(w))
    <3>1. /\ head' \in {head, Release(target[j])} /\ fns' \in {fns, Release(target[j])}
          /\ UNCHANGED <<base, pre>>
      BY <1>2, <2>11 DEF UpdateStep, Begins, FailsEarly, CopiesRepo, Decides, Publishes,
         ReplaysFunctions, Completes, Throws
    <3> QED BY <2>3, <2>4, <2>7, <3>1 DEF ContentsInv
  <2> QED BY <2>8, <2>9, <2>10, <2>11
<1>3. CASE Undo
  <2>1. UNCHANGED <<pre, run, edits>>
    BY <1>3 DEF Undo, RestoreFunctions, RestoreRepo, RestoreLineage, UndoReads, UndoDies
  <2>2. undo.pc # "rest" => pre[undo.job] \in MadePre
    BY DEF DataTypes, UndoTypes, ContentsInv
  <2>3. /\ head' \in {head} \/ (undo.pc # "rest" /\ head' = pre[undo.job].snap)
        /\ fns' \in {fns} \/ (undo.pc # "rest" /\ fns' = pre[undo.job].fns)
        /\ base' \in {base} \/ (undo.pc # "rest" /\ base' = pre[undo.job].base)
    BY <1>3 DEF Undo, RestoreFunctions, RestoreRepo, RestoreLineage, UndoReads, UndoDies, Undoes
  <2> QED BY <2>1, <2>2, <2>3, MadeGrows DEF ContentsInv, MadePre
<1>4. CASE Edits
  <2>1. /\ edits' = edits + 1 /\ UNCHANGED <<base, pre, run>>
        /\ head' \in {head, Edit(edits + 1)} /\ fns' \in {fns, Edit(edits + 1)}
    BY <1>4 DEF Edits, PushRepo, DeployFunctions, Owns
  <2>2. edits + 1 \in 1 .. edits'
    BY <2>1, UpdateAssumption DEF DataTypes, ForkTypes
  <2>3. Edit(edits + 1) \in Made'
    BY <2>2 DEF Made
  <2> QED BY <2>1, <2>3, MadeGrows DEF ContentsInv
<1> QED BY <1>1, <1>2, <1>3, <1>4, DataKinds

---------------------------------------------------------------------------
(* Which jobs have recorded the state before their update.                 *)

DeletedJobs == \A j \in Jobs : status[j] = "deleted" => Untouched(j)

RecordedJobs ==
  /\ \A j \in Jobs : status[j] = "completed" => pre[j] # NoPre
  /\ \A j \in Jobs : pre[j] # NoPre =>
       /\ status[j] \notin {"unborn", "deleted"}
       /\ \A c \in Clients : request[c].pc = "created" => request[c].job # j

RecordInv == DeletedJobs /\ RecordedJobs

LEMMA RecordInit == Init => RecordInv
BY DEF Init, RecordInv, DeletedJobs, RecordedJobs

(* The queue enqueues nothing.                                             *)
LEMMA QueueInserts ==
  ASSUME WorkTypes, (\E w \in Workers : QueueMoves(w)) \/ ClockMoves
  PROVE \A t \in Tasks : task[t] = "absent" => task'[t] = "absent"
<1>1. ASSUME NEW w \in Workers, Polls(w) \/ Claim(w) PROVE \A t \in Tasks : task[t] = "absent" => task'[t] = "absent"
  BY <1>1 DEF Polls, Recover, Exhaust, Claim, Stale, WorkTypes
<1>2. ASSUME NEW w \in Workers, Complete(w) \/ BackOff(w) \/ GiveUp(w) \/ Die(w)
      PROVE \A t \in Tasks : task[t] = "absent" => task'[t] = "absent"
  BY <1>2 DEF Complete, BackOff, GiveUp, Die, Write, WorkTypes
<1>3. ClockMoves => task' = task
  BY DEF ClockMoves, PassThreshold
<1> QED BY <1>1, <1>2, <1>3 DEF QueueMoves

(* Nothing comes to know of a deleted job.                                 *)
LEMMA DeletedNext ==
  ASSUME WorkTypes, WorkInv, RecordInv, [Next]_vars
  PROVE DeletedJobs'
<1> USE DEF DeletedJobs
<1>1. CASE (\E w \in Workers : QueueMoves(w)) \/ ClockMoves
  <2>1. UNCHANGED <<status, tries, retry, reaped>>
    BY <1>1 DEF QueueMoves, ClockMoves
  <2> QED BY <1>1, <2>1, QueueInserts DEF RecordInv, Untouched
<1>2. CASE \E w \in Workers : Executes(w)
  <2>1. UNCHANGED <<task, tries, retry, reaped>>
        /\ \A j \in Jobs : status'[j] = "deleted" => status[j] = "deleted"
    BY <1>2 DEF Executes, MidStage, Ended, WorkTypes
  <2> QED BY <2>1 DEF RecordInv, Untouched
<1>3. CASE Elsewhere
  BY <1>3 DEF Elsewhere, RecordInv, Untouched
<1>4. CASE JobRoutes
  <2> SUFFICES ASSUME NEW j \in Jobs, status'[j] = "deleted" PROVE Untouched(j)'
    OBVIOUS
  <2>1. ASSUME NEW c \in Clients,
               RequestReads(c) \/ CreateUpdateJob(c) \/ RequestDies(c)
        PROVE Untouched(j)'
    BY <2>1 DEF RequestReads, CreateUpdateJob, RequestDies, queueVars, jobVars, WorkTypes, RecordInv, Untouched
  <2>2. ASSUME NEW c \in Clients, EnqueueUpdate(c) PROVE Untouched(j)'
    <3> DEFINE k == request[c].job
    <3>1. k \in Jobs /\ status[k] = "pending" /\ UNCHANGED <<status, tries, retry, reaped>>
      BY <2>2 DEF EnqueueUpdate, Asks, jobVars, WorkTypes, WorkInv, NewJobs
    <3>2. \A t \in Tasks : t.job = j => task'[t] = task[t]
      BY <2>2, <3>1 DEF EnqueueUpdate, Enqueue, Queued, WorkTypes
    <3> QED BY <3>1, <3>2 DEF RecordInv, Untouched
  <2>3. ASSUME NEW c \in Clients, EnqueueFails(c) PROVE Untouched(j)'
    <3>1. /\ request[c].pc = "created" /\ request[c].job \in Jobs
          /\ status' = [status EXCEPT ![request[c].job] = "deleted"]
          /\ UNCHANGED <<task, tries, retry, reaped>>
      BY <2>3 DEF EnqueueFails, Asks, queueVars, WorkTypes
    <3>2. Untouched(request[c].job)
      BY <3>1 DEF WorkInv, NewJobs
    <3> QED BY <3>1, <3>2 DEF RecordInv, Untouched, WorkTypes
  <2>4. CASE RetryReads
    BY <2>4 DEF RetryReads, queueVars, jobVars, RecordInv, Untouched
  <2>5. CASE IncrementRetry
    <3>1. /\ retry.pc = "allowed" /\ retry.job \in Jobs /\ UNCHANGED <<task, reaped>>
          /\ \/ /\ status' = [status EXCEPT ![retry.job] = "pending"]
                /\ tries' = [tries EXCEPT ![retry.job] = @ + 1] /\ retry'.job = retry.job
             \/ UNCHANGED <<status, tries>> /\ retry'.pc = "rest"
      BY <2>5 DEF IncrementRetry, queueVars, WorkTypes, RetryType
    <3>2. retry.job # j /\ status[j] = "deleted"
      BY <3>1 DEF RecordInv, Untouched, WorkTypes
    <3> QED BY <3>1, <3>2 DEF RecordInv, Untouched, WorkTypes
  <2>6. CASE RetryEnqueues
    <3>1. /\ retry.job \in Jobs /\ Enqueue(Queued(retry.job)) /\ retry'.pc = "rest" /\ retry.pc = "counted"
          /\ UNCHANGED <<status, tries, reaped>>
      BY <2>6 DEF RetryEnqueues, jobVars, WorkTypes
    <3>2. retry.job # j
      BY <3>1 DEF RecordInv, Untouched
    <3>3. \A t \in Tasks : t.job = j => task'[t] = task[t]
      BY <3>1, <3>2 DEF Enqueue, Queued, WorkTypes
    <3> QED BY <3>1, <3>3 DEF RecordInv, Untouched
  <2>7. CASE RetryDies
    BY <2>7 DEF RetryDies, jobVars, RecordInv, Untouched
  <2>8. CASE ReaperLooks
    BY <2>8 DEF ReaperLooks, queueVars, jobVars, MidStage, RecordInv, Untouched
  <2>9. CASE ReaperFails
    <3>1. NoJob # j
      BY UpdateAssumption DEF NoJob, Jobs
    <3> QED BY <2>9, <3>1 DEF ReaperFails, queueVars, RecordInv, Untouched, WorkTypes
  <2> QED BY <1>4, <2>1, <2>2, <2>3, <2>4, <2>5, <2>6, <2>7, <2>8, <2>9 DEF JobRoutes
<1> QED BY <1>1, <1>2, <1>3, <1>4, StepKinds

LEMMA RecordNext == WorkTypes /\ WorkInv /\ DataTypes /\ RecordInv /\ [Next]_vars => RecordInv'
<1> SUFFICES ASSUME WorkTypes, WorkInv, DataTypes, RecordInv, [Next]_vars PROVE RecordInv'
  OBVIOUS
<1>0. SUFFICES RecordedJobs'
  BY DeletedNext DEF RecordInv
<1> USE DEF jobVars, forkVars, ownVars, counters, routeVars, queueVars
<1>1. status' = status /\ pre' = pre /\ request' = request => RecordedJobs'
  BY DEF RecordInv, RecordedJobs
<1>2. ASSUME NEW w \in Workers, UpdateStep(w) PROVE RecordedJobs'
  <2> DEFINE j == JobOf(w)
  <2>1. j \in Jobs /\ job[w].pc # "rest"
    BY <1>2, UpdateAlone DEF Alone
  <2>2. request' = request
    BY <1>2 DEF UpdateStep, Begins, FailsEarly, CopiesRepo, Decides, RecordsPreSync,
       Publishes, ReplaysFunctions, AdvancesLineage, Completes, Throws, RollsBack
  <2>3. job[w].task \in Tasks /\ job[w].task.job = j /\ task[job[w].task] # "absent"
    BY <2>1 DEF WorkTypes, WorkInv, ExecutedExists, JobOf
  <2>4. ~ Untouched(j)
    BY <2>3 DEF Untouched
  <2>5. /\ status[j] \notin {"unborn", "deleted"}
        /\ \A c \in Clients : request[c].pc = "created" => request[c].job # j
    BY <2>1, <2>4 DEF WorkInv, NewJobs, RecordInv, RecordedJobs, DeletedJobs
  <2>6. CASE RecordsPreSync(w)
    BY <2>1, <2>2, <2>5, <2>6 DEF RecordsPreSync, RecordInv, RecordedJobs, DataTypes, ForkTypes
  <2>7. CASE Completes(w)
    <3>1. job[w].pc \in PastGate /\ UNCHANGED pre /\ status' = [status EXCEPT ![j] = "completed"]
      BY <2>7 DEF Completes, Steps, Running, PastGate
    <3>2. pre[j] # NoPre
      BY <3>1 DEF DataTypes, RunTypes
    <3> QED BY <2>1, <2>2, <3>1, <3>2 DEF RecordInv, RecordedJobs, WorkTypes
  <2>8. CASE ~ (RecordsPreSync(w) \/ Completes(w))
    <3>1. /\ UNCHANGED pre
          /\ \/ status' = status
             \/ \E s \in {"processing", "failed"} \union MidStage : status' = [status EXCEPT ![j] = s]
      BY <1>2, <2>8 DEF UpdateStep, Begins, FailsEarly, CopiesRepo, Decides, SetStatus, OnTo, MidStage,
         Publishes, ReplaysFunctions, AdvancesLineage, Throws, RollsBack
    <3> QED BY <2>1, <2>2, <3>1 DEF RecordInv, RecordedJobs, WorkTypes, MidStage
  <2> QED BY <2>6, <2>7, <2>8
<1>3. CASE JobRoutes
  <2>1. UNCHANGED pre
    BY <1>3, RoutesCalm DEF Calm, dataVars
  <2>2. ASSUME NEW c \in Clients, RequestReads(c) \/ EnqueueUpdate(c) \/ RequestDies(c)
        PROVE RecordedJobs'
    <3>1. \A d \in Clients : request'[d].pc = "created" => request'[d] = request[d]
      BY <2>2 DEF RequestReads, EnqueueUpdate, RequestDies, Asks, WorkTypes, RequestType
    <3>2. status' = status
      BY <2>2 DEF RequestReads, EnqueueUpdate, RequestDies
    <3> QED BY <2>1, <3>1, <3>2 DEF RecordInv, RecordedJobs
  <2>6. ASSUME NEW c \in Clients, CreateUpdateJob(c) PROVE RecordedJobs'
    <3>1. PICK j \in Jobs :
            /\ status[j] = "unborn"
            /\ \/ /\ status' = [status EXCEPT ![j] = "pending"]
                  /\ Asks(c, "asked", [request[c] EXCEPT !.pc = "created", !.job = j])
               \/ /\ Asks(c, "asked", [request[c] EXCEPT !.pc = "over"])
                  /\ UNCHANGED status
      BY <2>6 DEF CreateUpdateJob
    <3>2. pre[j] = NoPre
      BY <3>1 DEF RecordInv, RecordedJobs
    <3>3. \A d \in Clients : request'[d].pc = "created" =>
            request'[d] = request[d] \/ request'[d].job = j
      BY <3>1 DEF Asks, WorkTypes, RequestType
    <3>4. \A k \in Jobs : status'[k] = status[k] \/ (k = j /\ status'[k] = "pending")
      BY <3>1 DEF WorkTypes
    <3> QED BY <2>1, <3>2, <3>3, <3>4 DEF RecordInv, RecordedJobs
  <2>3. ASSUME NEW c \in Clients, EnqueueFails(c) PROVE RecordedJobs'
    BY <2>1, <2>3 DEF EnqueueFails, Asks, RecordInv, RecordedJobs, WorkTypes
  <2>4. CASE RetryReads \/ RetryEnqueues \/ RetryDies \/ ReaperLooks
    BY <1>1, <2>4 DEF RetryReads, RetryEnqueues, RetryDies, ReaperLooks
  <2>5. CASE IncrementRetry \/ ReaperFails
    BY <2>5 DEF IncrementRetry, ReaperFails, RecordInv, RecordedJobs, WorkTypes
  <2> QED BY <1>3, <2>2, <2>3, <2>4, <2>5, <2>6 DEF JobRoutes
<1>4. CASE Undo \/ Edits \/ PublishRelease \/ UNCHANGED vars
  BY <1>1, <1>4 DEF Undo, RestoreFunctions, RestoreRepo, RestoreLineage, UndoReads, UndoDies, vars,
     Edits, PushRepo, DeployFunctions, Owns, PublishRelease
<1>5. CASE OfQueue
  BY <1>1, <1>5 DEF OfQueue
<1>6. CASE UNCHANGED vars
  BY <1>4, <1>6
<1>7. CASE \E w \in Workers : TakesBack(w)
  BY <1>5, <1>7 DEF TakesBack
<1>8. CASE Keeps
  BY <1>2, <1>3, <1>4, <1>5, <1>8 DEF Keeps, QueueStep, Route, JobRoutes, Undo, Edits
<1> QED BY <1>6, <1>7, <1>8 DEF Next

---------------------------------------------------------------------------
(* OwnerWorkSurvives.  While an edit is protected nobody is past the gate: *)
(* the gate refuses what differs from the lineage, and the lineage names   *)
(* neither a push nor this edit of the functions.  Only a job that has     *)
(* recorded something goes round the gate: with a push its executor has    *)
(* read another head than its job published, and with an edit of the       *)
(* functions such a job is over.                                           *)

BehindGate == PastGate \union {"record"}

RepoHeld ==
  "repo" \in settled =>
    /\ head \notin Releases
    /\ \A w \in Workers : /\ job[w].pc \notin BehindGate
                          /\ job[w].pc = "decide" => run[w].head = head

FunctionsHeld ==
  "functions" \in settled =>
    /\ fns # base.fns
    /\ \A j \in Jobs : pre[j] # NoPre => pre[j].base.fns # fns /\ Over(j)
    /\ \A w \in Workers : job[w].pc # "record"

LEMMA EditNotReleased == ASSUME NEW c, Edited(c) PROVE c \notin Releases
BY DEF Edited, Releases, Edit, Release

(* With a push in place, or an edit of the functions in front of a job     *)
(* that has recorded nothing, the gate stays shut.                         *)
LEMMA PushShutsGate ==
  ASSUME WorkTypes, DataTypes, ContentsInv, NEW w \in Workers, job[w].pc = "decide",
         "repo" \in settled, RepoHeld
  PROVE ~ Passes(w)
<1>1. head \notin Releases /\ run[w].head = head /\ base.snap \in Releases
  BY DEF RepoHeld, ContentsInv, MadeLineage
<1>2. JobOf(w) \in Jobs
  BY UpdateAssumption DEF WorkTypes, JobOf, UpdateTasks
<1>3. Release(target[JobOf(w)]) \in Releases
  BY <1>2, MadeFacts DEF DataTypes, ForkTypes
<1>4. Resume(w) # "republish"
  BY <1>1, <1>3 DEF Resume
<1> QED BY <1>1, <1>4 DEF Passes, Eligible, Unmodified

LEMMA EditShutsGate ==
  ASSUME WorkTypes, DataTypes, NEW w \in Workers, job[w].pc = "decide",
         "functions" \in settled, FunctionsHeld
  PROVE ~ Passes(w)
<1>1. JobOf(w) \in Jobs
  BY UpdateAssumption DEF WorkTypes, JobOf, UpdateTasks
<1>2. ~ Over(JobOf(w))
  BY DEF Over, JobOf
<1>3. ~ run[w].marked
  BY <1>1, <1>2 DEF FunctionsHeld, DataTypes, RunTypes, PastCopy
<1> QED BY <1>3 DEF Passes, Resume, Eligible, Unmodified, FunctionsHeld

LEMMA RepoHeldNext == WorkTypes /\ DataTypes /\ ContentsInv /\ RepoHeld /\ [Next]_vars => RepoHeld'
<1> SUFFICES ASSUME WorkTypes, DataTypes, ContentsInv, RepoHeld, [Next]_vars, "repo" \in settled'
             PROVE RepoHeld'
  BY DEF RepoHeld
<1> USE DEF jobVars, forkVars, ownVars, counters, routeVars
<1>1. CASE Calm
  BY <1>1 DEF Calm, dataVars, RepoHeld, BehindGate, PastGate
<1>2. ASSUME NEW w \in Workers, UpdateStep(w) PROVE RepoHeld'
  <2>1. Alone(w)
    BY <1>2, UpdateAlone
  <2>2. CASE CopiesRepo(w)
    <3>1. /\ head' = head /\ job'[w].pc = "decide" /\ run'[w].head = head
          /\ "repo" \in settled \/ (Edited(head) /\ HeadUnread)
      BY <2>2, GotoMoves DEF CopiesRepo, Steps, Places, DataTypes, RunTypes
    <3>2. CASE "repo" \in settled
      BY <2>1, <3>1, <3>2 DEF RepoHeld, Alone, BehindGate, PastGate
    <3>3. CASE Edited(head) /\ HeadUnread
      BY <2>1, <3>1, <3>3, EditNotReleased DEF RepoHeld, Alone, HeadUnread, PastCopy, BehindGate, PastGate
    <3> QED BY <3>1, <3>2, <3>3
  <2>3. CASE ~ CopiesRepo(w)
    <3>1. "repo" \in settled
      BY <1>2, <2>3 DEF UpdateStep, Begins, FailsEarly, Decides, RecordsPreSync, Publishes, ReplaysFunctions,
         AdvancesLineage, Completes, Throws, RollsBack
    <3>2. job[w].pc \notin BehindGate
      BY <3>1 DEF RepoHeld
    <3>3. Begins(w) \/ FailsEarly(w) \/ Decides(w) \/ Throws(w)
      BY <1>2, <2>3, <3>2 DEF UpdateStep, RecordsPreSync, Publishes, ReplaysFunctions, OnTo, Steps, Running,
         AdvancesLineage, Completes, RollsBack, BehindGate, PastGate
    <3>4. head' = head
      BY <3>3 DEF Begins, FailsEarly, Decides, Throws
    <3>5. Decides(w) => Goto(w, "done")
      BY <3>1, PushShutsGate DEF Decides, Steps, Running
    <3>6. \E pc \in {"done", "prepare", "threw"} : Goto(w, pc)
      BY <3>2, <3>3, <3>5 DEF Begins, FailsEarly, Throws, Published, BehindGate, PastGate
    <3>7. job'[w].pc \in {"done", "prepare", "threw"}
      BY <3>6, GotoMoves DEF Places
    <3> QED BY <2>1, <3>1, <3>4, <3>7 DEF RepoHeld, Alone, BehindGate, PastGate
  <2> QED BY <2>2, <2>3
<1>3. CASE Undo \/ DeployFunctions
  <2>1. UNCHANGED <<head, job, run>> /\ "repo" \in settled
    BY <1>3 DEF Undo, RestoreFunctions, RestoreRepo, RestoreLineage, UndoReads, UndoDies, DeployFunctions,
       Owns, queueVars
  <2> QED BY <2>1 DEF RepoHeld
<1>4. CASE PushRepo
  <2>1. head' = Edit(edits + 1) /\ HeadUnread /\ UNCHANGED <<job, run>>
    BY <1>4 DEF PushRepo, Owns, queueVars
  <2>2. head' \notin Releases
    BY <2>1, MadeFacts DEF Made
  <2> QED BY <2>1, <2>2 DEF RepoHeld, HeadUnread, PastCopy, BehindGate
<1> QED BY <1>1, <1>2, <1>3, <1>4, DataKinds DEF Edits

(* Of a job that is over nothing is taken up.                              *)
Apart(j) ==
  /\ ~Live(j) /\ reaped # j
  /\ retry.pc = "rest" \/ retry.job # j
  /\ \A w \in Workers : job[w].pc = "rest" \/ job[w].task.job # j

LEMMA OverStays ==
  ASSUME WorkTypes, WorkInv, [Next]_vars, NEW j \in Jobs, Over(j)
  PROVE status'[j] = status[j] /\ Apart(j)'
<1>0. /\ status[j] \in Ended /\ Apart(j)
      /\ \A t \in Tasks : t.job = j => task[t] \notin {"pending", "processing"}
  BY DEF Over, Apart, Live, Ended
<1>1. ASSUME NEW w \in Workers, QueueMoves(w) PROVE status'[j] = status[j] /\ Apart(j)'
  <2>1. UNCHANGED <<status, retry, reaped>>
    BY <1>1 DEF QueueMoves
  <2>2. \A t \in Tasks : t.job = j => task'[t] \notin {"pending", "processing"}
    <3>1. CASE Polls(w) \/ Claim(w)
      BY <1>0, <3>1 DEF Polls, Recover, Exhaust, Claim, Stale, WorkTypes
    <3>2. CASE Complete(w) \/ BackOff(w) \/ GiveUp(w) \/ Die(w)
      BY <1>0, <3>2 DEF Complete, BackOff, GiveUp, Die, Write, WorkTypes, Apart
    <3> QED BY <1>1, <3>1, <3>2 DEF QueueMoves
  <2>3. \A x \in Workers : job'[x].pc = "rest" \/ job'[x].task.job # j
    <3>1. \A t \in Tasks : t.type # "provision"
      BY UpdateAssumption DEF UpdateTasks
    <3>2. CASE Claim(w)
      BY <1>0, <3>2 DEF Claim, WorkTypes, Apart, Resting
    <3>3. CASE Polls(w)
      BY <1>0, <3>1, <3>3 DEF Polls, Recover, Exhaust, Apart
    <3>4. CASE Complete(w) \/ BackOff(w) \/ GiveUp(w) \/ Die(w)
      BY <1>0, <3>1, <3>4 DEF Complete, BackOff, GiveUp, Die, WorkTypes, Apart, Resting
    <3> QED BY <1>1, <3>2, <3>3, <3>4 DEF QueueMoves
  <2> QED BY <1>0, <2>1, <2>2, <2>3 DEF Apart, Live
<1>2. ASSUME NEW w \in Workers, Executes(w) PROVE status'[j] = status[j] /\ Apart(j)'
  <2>1. UNCHANGED <<task, retry, reaped>> /\ job[w].task.job # j
    BY <1>0, <1>2 DEF Executes, Apart
  <2>2. status'[j] = status[j]
    BY <1>2, <2>1 DEF Executes, JobOf, WorkTypes
  <2>3. \A x \in Workers : job'[x].task = job[x].task /\ (job[x].pc = "rest" => job'[x].pc = "rest")
    BY <1>2, GotoMoves DEF Executes
  <2> QED BY <1>0, <2>1, <2>2, <2>3 DEF Apart, Live
<1>3. CASE ClockMoves \/ Elsewhere
  BY <1>0, <1>3 DEF ClockMoves, PassThreshold, Elsewhere, Apart, Live
<1>4. CASE JobRoutes
  <2> USE DEF queueVars, jobVars, routeVars
  <2>1. ASSUME NEW c \in Clients, request[c].pc = "created"
        PROVE request[c].job \in Jobs /\ request[c].job # j
    BY <1>0, <2>1 DEF WorkTypes, WorkInv, NewJobs, Ended
  <2>2. ASSUME NEW c \in Clients,
               RequestReads(c) \/ CreateUpdateJob(c) \/ EnqueueUpdate(c) \/ EnqueueFails(c) \/ RequestDies(c)
        PROVE status'[j] = status[j] /\ Apart(j)'
    <3>1. UNCHANGED <<retry, reaped, job>>
      BY <2>2 DEF RequestReads, CreateUpdateJob, EnqueueUpdate, EnqueueFails, RequestDies
    <3>2. status'[j] = status[j]
      BY <1>0, <2>1, <2>2 DEF RequestReads, CreateUpdateJob, EnqueueUpdate, EnqueueFails, RequestDies, Asks,
         WorkTypes, Ended
    <3>3. \A t \in Tasks : t.job = j => task'[t] = task[t]
      <4>1. CASE EnqueueUpdate(c)
        <5>1. request[c].job # j /\ Enqueue(Queued(request[c].job))
          BY <2>1, <4>1 DEF EnqueueUpdate, Asks
        <5> QED BY <5>1 DEF Enqueue, Queued, WorkTypes
      <4>2. CASE ~ EnqueueUpdate(c)
        BY <2>2, <4>2 DEF RequestReads, CreateUpdateJob, EnqueueFails, RequestDies
      <4> QED BY <4>1, <4>2
    <3> QED BY <1>0, <3>1, <3>2, <3>3 DEF Apart, Live
  <2>3. CASE RetryReads
    BY <1>0, <2>3 DEF RetryReads, Apart, Live, Over
  <2>4. CASE IncrementRetry
    BY <1>0, <2>4 DEF IncrementRetry, Apart, Live, WorkTypes, RetryType
  <2>5. CASE RetryEnqueues
    <3>1. \A t \in Tasks : t.job = j => task'[t] = task[t]
      BY <1>0, <2>5 DEF RetryEnqueues, Enqueue, Queued, WorkTypes, Apart
    <3> QED BY <1>0, <2>5, <3>1 DEF RetryEnqueues, Apart, Live
  <2>6. CASE RetryDies
    BY <1>0, <2>6 DEF RetryDies, Apart, Live
  <2>7. CASE ReaperLooks
    BY <1>0, <2>7 DEF ReaperLooks, Apart, Live, Ended, MidStage
  <2>8. CASE ReaperFails
    <3>1. NoJob # j
      BY UpdateAssumption DEF NoJob, Jobs
    <3> QED BY <1>0, <2>8, <3>1 DEF ReaperFails, Apart, Live, WorkTypes
  <2> QED BY <1>4, <2>2, <2>3, <2>4, <2>5, <2>6, <2>7, <2>8 DEF JobRoutes
<1> QED BY <1>1, <1>2, <1>3, <1>4, StepKinds

(* While all jobs that recorded something are over, they stay over: a job  *)
(* that supersedes another is one of them.                                 *)
LEMMA AllOverStay ==
  ASSUME WorkTypes, WorkInv, RecordInv, [Next]_vars, \A j \in Jobs : pre[j] # NoPre => Over(j)
  PROVE \A j \in Jobs : pre[j] # NoPre => Over(j)'
<1> SUFFICES ASSUME NEW j \in Jobs, pre[j] # NoPre PROVE Over(j)'
  OBVIOUS
<1>1. status'[j] = status[j] /\ Apart(j)'
  BY OverStays
<1>2. Superseded(j) => Superseded(j)'
  <2>1. \A k \in Jobs : status[k] = "completed" => status'[k] = "completed"
    BY OverStays DEF RecordInv, RecordedJobs
  <2> QED BY <2>1 DEF Superseded
<1> QED BY <1>1, <1>2 DEF Over, Apart

LEMMA FunctionsHeldNext ==
  WorkTypes /\ WorkInv /\ DataTypes /\ ContentsInv /\ RecordInv /\ FunctionsHeld /\ [Next]_vars
    => FunctionsHeld'
<1> SUFFICES ASSUME WorkTypes, WorkInv, DataTypes, ContentsInv, RecordInv, FunctionsHeld, [Next]_vars,
                    "functions" \in settled'
             PROVE FunctionsHeld'
  BY DEF FunctionsHeld
<1> USE DEF jobVars, forkVars, ownVars, counters, routeVars
<1>0. "functions" \in settled => \A j \in Jobs : pre[j] # NoPre => Over(j)'
  BY AllOverStay DEF FunctionsHeld
<1>1. CASE Calm
  <2>1. "functions" \in settled /\ UNCHANGED <<fns, base, pre>>
    BY <1>1 DEF Calm, dataVars
  <2>2. \A w \in Workers : job'[w].pc # "record"
    BY <1>1, <2>1 DEF Calm, FunctionsHeld
  <2> QED BY <1>0, <2>1, <2>2 DEF FunctionsHeld
<1>2. ASSUME NEW w \in Workers, UpdateStep(w) PROVE FunctionsHeld'
  <2>1. Alone(w)
    BY <1>2, UpdateAlone
  <2>2. "functions" \in settled
    BY <1>2 DEF UpdateStep, Begins, FailsEarly, CopiesRepo, Decides, RecordsPreSync, Publishes,
       ReplaysFunctions, AdvancesLineage, Completes, Throws, RollsBack
  <2>3. job[w].pc \notin PastGate
    <3>1. ~ Over(JobOf(w))
      BY <2>1 DEF Over, JobOf, Alone
    <3> QED BY <2>1, <2>2, <3>1 DEF FunctionsHeld, DataTypes, RunTypes, Alone
  <2>4. job[w].pc # "record"
    BY <2>2 DEF FunctionsHeld
  <2>5. Begins(w) \/ FailsEarly(w) \/ CopiesRepo(w) \/ Decides(w) \/ Throws(w)
    BY <1>2, <2>3, <2>4 DEF UpdateStep, RecordsPreSync, Publishes, ReplaysFunctions, OnTo, Steps, Running,
       AdvancesLineage, Completes, RollsBack, PastGate
  <2>6. UNCHANGED <<fns, base, pre>>
    BY <2>5 DEF Begins, FailsEarly, CopiesRepo, Decides, Throws
  <2>7. Decides(w) => Goto(w, "done")
    BY <2>2, EditShutsGate DEF Decides, Steps, Running
  <2>8. \E pc \in {"done", "prepare", "decide", "threw", "rollback"} : Goto(w, pc)
    BY <2>5, <2>7 DEF Begins, FailsEarly, CopiesRepo, Steps, Throws
  <2>9. job'[w].pc # "record"
    BY <2>8, GotoMoves DEF Places
  <2> QED BY <1>0, <2>1, <2>2, <2>6, <2>9 DEF FunctionsHeld, Alone
<1>3. CASE Undo
  <2>1. "functions" \in settled /\ UNCHANGED <<fns, pre, job>>
    BY <1>3 DEF Undo, RestoreFunctions, RestoreRepo, RestoreLineage, UndoReads, UndoDies, queueVars
  <2>2. base' = base \/ (undo.pc # "rest" /\ base' = pre[undo.job].base)
    BY <1>3 DEF Undo, RestoreFunctions, RestoreRepo, RestoreLineage, UndoReads, UndoDies, Undoes
  <2>3. fns # base'.fns
    BY <2>1, <2>2 DEF FunctionsHeld, DataTypes, UndoTypes
  <2> QED BY <1>0, <2>1, <2>3 DEF FunctionsHeld
<1>4. CASE PushRepo
  <2>1. "functions" \in settled /\ UNCHANGED <<fns, base, pre, job>>
    BY <1>4 DEF PushRepo, Owns, queueVars
  <2> QED BY <1>0, <2>1 DEF FunctionsHeld
<1>5. CASE DeployFunctions
  <2>1. /\ fns' = Edit(edits + 1) /\ GateShut
        /\ UNCHANGED <<base, pre, status, task, reaped, retry, job>>
    BY <1>5 DEF DeployFunctions, Owns, queueVars
  <2>2. \A j \in Jobs : Over(j) => Over(j)'
    BY <2>1 DEF Over, Live, Superseded
  <2>3. fns' # base.fns /\ \A j \in Jobs : pre[j] # NoPre => pre[j].base.fns # fns'
    BY <2>1, MadeFacts DEF ContentsInv, MadePre, MadeLineage
  <2> QED BY <2>1, <2>2, <2>3 DEF FunctionsHeld, GateShut
<1> QED BY <1>1, <1>2, <1>3, <1>4, <1>5, DataKinds DEF Edits

---------------------------------------------------------------------------
(* UndoEscapes.  An undo that runs alone finds what it wrote.              *)

UndoAlone ==
  undo.alone /\ undo.pc # "rest" =>
    /\ \A w \in Workers : job[w].pc \in {"rest", "start", "threw"}
    /\ undo.pc \in {"repo", "lineage"} => fns = pre[undo.job].fns
    /\ undo.pc = "lineage" => head = pre[undo.job].snap

LEMMA UndoAloneNext == WorkTypes /\ DataTypes /\ UndoAlone /\ [Next]_vars => UndoAlone'
<1> SUFFICES ASSUME WorkTypes, DataTypes, UndoAlone, [Next]_vars, undo'.alone, undo'.pc # "rest"
             PROVE UndoAlone'
  BY DEF UndoAlone
<1> USE DEF jobVars, forkVars, ownVars, counters, routeVars
<1>0. undo \in UndoType
  BY DEF DataTypes, UndoTypes
<1>1. CASE Calm
  BY <1>1 DEF Calm, dataVars, UndoAlone
<1>2. ASSUME NEW w \in Workers, UpdateStep(w) PROVE UndoAlone'
  <2>1. ~ Begins(w)
    BY <1>0 DEF Begins, UndoType
  <2>2. undo' = undo
    BY <1>2, <2>1 DEF UpdateStep, FailsEarly, CopiesRepo, Decides, RecordsPreSync, Publishes,
       ReplaysFunctions, AdvancesLineage, Completes, Throws, RollsBack
  <2>3. job[w].pc \in {"rest", "start", "threw"}
    BY <2>2 DEF UndoAlone
  <2>4. FailsEarly(w)
    BY <1>2, <2>1, <2>3 DEF UpdateStep, CopiesRepo, Decides, RecordsPreSync, Publishes, ReplaysFunctions,
       AdvancesLineage, Completes, Throws, RollsBack, OnTo, Steps, Running
  <2>5. UNCHANGED <<fns, head, pre>> /\ job'[w].pc = "threw" /\ \A x \in Workers \ {w} : job'[x] = job[x]
    BY <2>4, GotoMoves DEF FailsEarly, Places
  <2> QED BY <2>2, <2>5 DEF UndoAlone
<1>3. CASE Undo
  <2>1. UNCHANGED <<job, pre>>
    BY <1>3 DEF Undo, RestoreFunctions, RestoreRepo, RestoreLineage, UndoReads, UndoDies, queueVars
  <2>2. CASE UndoReads
    BY <2>1, <2>2 DEF UndoReads, UndoAlone, Resting
  <2>3. CASE RestoreFunctions
    BY <1>0, <2>1, <2>3 DEF RestoreFunctions, UndoAlone, UndoType
  <2>4. CASE RestoreRepo
    BY <1>0, <2>1, <2>4 DEF RestoreRepo, Undoes, UndoAlone, UndoType
  <2>5. CASE RestoreLineage \/ UndoDies
    BY <1>0, <2>5 DEF RestoreLineage, UndoDies, Undoes, UndoType
  <2> QED BY <1>3, <2>2, <2>3, <2>4, <2>5 DEF Undo
<1>4. CASE Edits
  BY <1>0, <1>4 DEF Edits, PushRepo, DeployFunctions, Owns, UndoType
<1> QED BY <1>1, <1>2, <1>3, <1>4, DataKinds

---------------------------------------------------------------------------
(* NeverTrapped.  Without an edit, the first state that is recorded is     *)
(* that of an unmodified fork: until then nobody has written anything.     *)

WayBack(j) == pre[j] # NoPre /\ pre[j].snap = pre[j].base.snap /\ pre[j].fns = pre[j].base.fns

WayOut ==
  edits = 0 =>
    \/ \E j \in Jobs : WayBack(j)
    \/ /\ Unmodified
       /\ \A j \in Jobs : pre[j] = NoPre
       /\ \A w \in Workers : job[w].pc \in PastCopy => run[w].head = head

LEMMA WayOutNext == WorkTypes /\ DataTypes /\ WayOut /\ [Next]_vars => WayOut'
<1> SUFFICES ASSUME WorkTypes, DataTypes, WayOut, [Next]_vars, edits' = 0 PROVE WayOut'
  BY DEF WayOut
<1> USE DEF jobVars, forkVars, ownVars, counters, routeVars
<1> DEFINE Untried == /\ Unmodified
                      /\ \A j \in Jobs : pre[j] = NoPre
                      /\ \A w \in Workers : job[w].pc \in PastCopy => run[w].head = head
<1>1. edits' = edits
  <2>1. CASE Edits
    <3>1. edits' = edits + 1 /\ edits \in Nat
      BY <2>1, UpdateAssumption DEF Edits, PushRepo, DeployFunctions, Owns, DataTypes, ForkTypes
    <3> QED BY <3>1
  <2>2. CASE ~ Edits
    BY <2>2, DataKinds, UpdateAlone DEF Calm, dataVars, Alone, Undo, RestoreFunctions, RestoreRepo,
       RestoreLineage, UndoReads, UndoDies
  <2> QED BY <2>1, <2>2
<1>2. ~ Edits
  BY <1>1, UpdateAssumption DEF Edits, PushRepo, DeployFunctions, Owns, DataTypes, ForkTypes
<1>3. ASSUME NEW j \in Jobs, WayBack(j) PROVE WayBack(j)'
  <2>1. pre'[j] = pre[j]
    <3>1. ASSUME NEW w \in Workers, UpdateStep(w) PROVE pre'[j] = pre[j]
      BY <1>3, <3>1 DEF UpdateStep, Begins, FailsEarly, CopiesRepo, Decides, RecordsPreSync, Publishes,
         ReplaysFunctions, AdvancesLineage, Completes, Throws, RollsBack, WayBack, DataTypes, ForkTypes
    <3>2. Calm \/ Undo => pre' = pre
      BY DEF Calm, dataVars, Undo, RestoreFunctions, RestoreRepo, RestoreLineage, UndoReads, UndoDies
    <3> QED BY <1>2, <3>1, <3>2, DataKinds
  <2> QED BY <1>3, <2>1 DEF WayBack
<1>4. ASSUME Untried PROVE Untried' \/ \E j \in Jobs : WayBack(j)'
  <2>1. CASE Calm
    BY <1>4, <2>1 DEF Calm, dataVars, Unmodified, PastCopy, PastGate
  <2>2. ASSUME NEW w \in Workers, UpdateStep(w) PROVE Untried' \/ \E j \in Jobs : WayBack(j)'
    <3>1. Alone(w)
      BY <2>2, UpdateAlone
    <3>2. job[w].pc \notin PastGate
      BY <1>4, <3>1 DEF DataTypes, RunTypes, Alone
    <3>3. CASE RecordsPreSync(w)
      <4> DEFINE seen == [snap |-> run[w].head, fns |-> fns, base |-> base]
      <4>0. PICK j \in Jobs : j = JobOf(w)
        BY <3>1 DEF Alone
      <4>1. job[w].pc = "record" /\ pre' = [pre EXCEPT ![j] = IF @ = NoPre THEN seen ELSE @]
        BY <3>3, <4>0 DEF RecordsPreSync, Steps, Running
      <4>2. run[w].head \in Contents /\ run[w].head = head
        BY <1>4, <4>1 DEF PastCopy, DataTypes, RunTypes
      <4>3. seen # NoPre
        BY <4>2, Recorded DEF DataTypes
      <4>4. pre'[j] = seen
        BY <1>4, <4>1 DEF DataTypes, ForkTypes
      <4>5. WayBack(j)'
        BY <1>4, <4>2, <4>3, <4>4 DEF WayBack, Unmodified
      <4> QED BY <4>5
    <3>4. CASE CopiesRepo(w)
      <4>1. UNCHANGED <<head, fns, base, pre>> /\ run'[w].head = head
        BY <3>4 DEF CopiesRepo, DataTypes, RunTypes
      <4> QED BY <1>4, <3>1, <4>1 DEF Alone, Unmodified
    <3>5. CASE ~ (RecordsPreSync(w) \/ CopiesRepo(w))
      <4>1. Begins(w) \/ FailsEarly(w) \/ Decides(w) \/ Throws(w)
        BY <2>2, <3>2, <3>5 DEF UpdateStep, Publishes, ReplaysFunctions, OnTo, Steps, Running,
           AdvancesLineage, Completes, RollsBack, PastGate
      <4>2. UNCHANGED <<head, fns, base, pre>>
        BY <4>1 DEF Begins, FailsEarly, Decides, Throws
      <4>3. job'[w].pc \in PastCopy => job[w].pc \in PastCopy /\ run' = run
        <5>1. CASE Begins(w)
          <6>1. job'[w].pc \in {"done", "prepare"}
            BY <5>1, GotoMoves DEF Begins, Places
          <6> QED BY <6>1 DEF PastCopy, PastGate
        <5>2. CASE Decides(w)
          BY <5>2 DEF Decides, Steps, Running, PastCopy
        <5>3. CASE FailsEarly(w) \/ Throws(w)
          <6>1. Goto(w, "threw") \/ (Goto(w, "rollback") /\ job[w].pc \in PastGate)
            BY <5>3 DEF FailsEarly, Throws, Published, PastGate
          <6>2. job'[w].pc = "threw"
            BY <3>2, <6>1, GotoMoves DEF Places
          <6> QED BY <6>2 DEF PastCopy, PastGate
        <5> QED BY <4>1, <5>1, <5>2, <5>3
      <4> QED BY <1>4, <3>1, <4>2, <4>3 DEF Alone, Unmodified
    <3> QED BY <3>3, <3>4, <3>5
  <2>3. CASE Undo
    <3>1. undo.pc = "rest"
      BY <1>4 DEF DataTypes, UndoTypes
    <3>2. UNCHANGED <<head, fns, base, pre, job, run>>
      BY <2>3, <3>1 DEF Undo, RestoreFunctions, RestoreRepo, RestoreLineage, UndoReads, UndoDies, Undoes, queueVars
    <3> QED BY <1>4, <3>2 DEF Unmodified
  <2> QED BY <1>2, <2>1, <2>2, <2>3, DataKinds
<1> QED BY <1>1, <1>3, <1>4 DEF WayOut

---------------------------------------------------------------------------
(* The theorems.                                                           *)

ForkInv == ContentsInv /\ RecordInv /\ RepoHeld /\ FunctionsHeld /\ UndoAlone /\ WayOut

UpdateInv == WorkTypes /\ WorkInv /\ DataTypes /\ ForkInv

LEMMA UpdateInvariant == Spec => []UpdateInv
<1>1. Init => UpdateInv
  <2>1. Init => RepoHeld /\ FunctionsHeld /\ UndoAlone /\ WayOut
    BY DEF Init, QueueInit, Resting, RepoHeld, FunctionsHeld, UndoAlone, WayOut, Unmodified, PastCopy, PastGate
  <2> QED BY <2>1, WorkInit, WorkInvInit, DataInit, ContentsInit, RecordInit DEF UpdateInv, ForkInv
<1>2. UpdateInv /\ [Next]_vars => UpdateInv'
  BY WorkTypesNext, WorkInvNext, DataNext, ContentsNext, RecordNext, RepoHeldNext, FunctionsHeldNext,
     UndoAloneNext, WayOutNext DEF UpdateInv, ForkInv
<1> QED BY <1>1, <1>2, PTL DEF Spec

(* A fork whose owner never changed it is not left for good in a state     *)
(* that reads as modified: an undo leads out of it, whatever failed, died  *)
(* or ran twice (neon-task-worker.ts, template-update-undo.ts).            *)
THEOREM UndoLeadsOut == Spec => []NeverTrapped
<1>1. UpdateInv => NeverTrapped
  <2> SUFFICES ASSUME UpdateInv, AtRest, edits = 0, ~ Unmodified PROVE \E j \in Jobs : Undoable(j)
    BY DEF NeverTrapped
  <2>1. PICK j \in Jobs : WayBack(j)
    BY DEF UpdateInv, ForkInv, WayOut
  <2>2. status[j] \in JobStates /\ status[j] \notin {"unborn", "deleted"} /\ ~ Active(j)
    BY <2>1 DEF UpdateInv, ForkInv, WorkTypes, RecordInv, RecordedJobs, WayBack, AtRest
  <2>3. status[j] \in Ended
    BY <2>2 DEF JobStates, Active
  <2> QED BY <2>1, <2>3 DEF WayBack, Undoable
<1> QED BY <1>1, UpdateInvariant, PTL

(* No update takes away a push that its executor has read, or has yet to   *)
(* read, nor an edit of the functions that no job may pass the gate of     *)
(* (neon-task-worker.ts, clone-jobs.ts).                                   *)
THEOREM UpdatesSpareOwner == Spec => OwnerWorkSurvives
<1> DEFINE Spared == \A w \in Workers : job'[w] # job[w] =>
                       /\ head' # head => "repo" \notin settled
                       /\ fns' # fns => "functions" \notin settled
<1>1. UpdateInv /\ [Next]_vars => Spared
  <2> SUFFICES ASSUME UpdateInv, [Next]_vars PROVE Spared
    OBVIOUS
  <2> USE DEF UpdateInv, ForkInv
  <2>1. CASE Calm
    BY <2>1 DEF Calm, dataVars
  <2>2. ASSUME NEW w \in Workers, UpdateStep(w)
        PROVE /\ head' # head => "repo" \notin settled
              /\ fns' # fns => "functions" \notin settled
    <3>1. head' # head \/ fns' # fns => job[w].pc \in PastGate
      BY <2>2 DEF UpdateStep, Begins, FailsEarly, CopiesRepo, Decides, RecordsPreSync, Publishes,
         ReplaysFunctions, AdvancesLineage, Completes, Throws, RollsBack, OnTo, Steps, Running, PastGate, forkVars
    <3>2. JobOf(w) \in Jobs /\ ~ Over(JobOf(w))
      BY <2>2, UpdateAlone DEF Alone, Over, JobOf
    <3>3. job[w].pc \in PastGate => "repo" \notin settled /\ "functions" \notin settled
      BY <3>2 DEF RepoHeld, FunctionsHeld, BehindGate, DataTypes, RunTypes
    <3> QED BY <3>1, <3>3
  <2>3. CASE Undo \/ Edits
    BY <2>3 DEF Undo, RestoreFunctions, RestoreRepo, RestoreLineage, UndoReads, UndoDies, Edits, PushRepo,
       DeployFunctions, Owns, queueVars
  <2> QED BY <2>1, <2>2, <2>3, DataKinds
<1>2. UNCHANGED vars => Spared
  BY DEF vars, queueVars
<1> QED BY <1>1, UpdateInvariant, PTL DEF Spec, OwnerWorkSurvives

(* An undo that runs alone leads to an unmodified fork                     *)
(* (template-update.ts, template-update-undo.ts).                          *)
THEOREM UndoLeadsBack == Spec => UndoEscapes
<1> DEFINE Escapes == undo.pc = "lineage" /\ undo'.pc = "rest" /\ undo.alone /\ Undoable(undo.job)
                        /\ crashes' = crashes => Unmodified'
<1>1. UpdateInv /\ [Next]_vars => Escapes
  <2> SUFFICES ASSUME UpdateInv, [Next]_vars, undo.pc = "lineage", undo'.pc = "rest", undo.alone,
                      Undoable(undo.job), crashes' = crashes
               PROVE Unmodified'
    OBVIOUS
  <2> USE DEF UpdateInv, ForkInv
  <2>1. undo \in UndoType /\ crashes \in Nat
    BY QueueAssumption DEF DataTypes, UndoTypes, WorkTypes
  <2>2. \A w \in Workers : ~ UpdateStep(w)
    BY DEF UpdateStep, Begins, FailsEarly, CopiesRepo, Decides, RecordsPreSync, Publishes, routeVars,
       ReplaysFunctions, AdvancesLineage, Completes, Throws, RollsBack, DataTypes, UndoTypes, UndoType
  <2>3. ~ Calm /\ ~ Edits
    BY <2>1 DEF Calm, dataVars, Edits, PushRepo, DeployFunctions, Owns, UndoType
  <2>4. RestoreLineage
    BY <2>1, <2>2, <2>3, DataKinds DEF Undo, RestoreFunctions, RestoreRepo, UndoReads, UndoDies, Undoes, UndoType
  <2> QED BY <2>4 DEF RestoreLineage, UndoAlone, Undoable, Unmodified
<1> QED BY <1>1, UpdateInvariant, PTL DEF Spec, UndoEscapes

=============================================================================

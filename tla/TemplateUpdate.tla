--------------------------- MODULE TemplateUpdate ---------------------------
(***************************************************************************)
(* In-place updates of a fork to a newer release of its template: the      *)
(* routes that start, retry and undo one (template-update.ts, clone.ts),   *)
(* executeUpdate (neon-task-worker.ts) over the queue of NeonQueue, the    *)
(* reaper of abandoned jobs (clone-jobs-reaper.ts), and the owner, who     *)
(* pushes code and edits functions meanwhile.                              *)
(*                                                                         *)
(* A surface of the fork holds a release or an edit of the owner.  Two     *)
(* surfaces gate an update, the repo and the functions; what is only added *)
(* to (schema, policies, config) is left out, and so are severed forks,    *)
(* the S3 copy of the repo pointer and the pruning of old jobs.  Captures  *)
(* of the fork's state succeed; the clock of the retry window and of the   *)
(* reaper's threshold may stand anywhere.                                  *)
(***************************************************************************)
EXTENDS NeonQueue

CONSTANTS
  Clients,        \* requests to start an update
  MaxJobs,        \* bound on the update jobs of the fork
  MaxRetries,     \* bound on the retries of a job
  MaxReleases,    \* bound on the releases of the template
  MaxActs,        \* bound on what the owner does: push, edit, retry, undo
  SameRegion      \* the template lives in the fork's region

Jobs == 1 .. MaxJobs
UpdateTasks == [type : {"clone"}, job : Jobs, try : 0 .. MaxRetries]

ASSUME UpdateAssumption ==
  /\ Tasks = UpdateTasks
  /\ MaxJobs \in Nat /\ MaxRetries \in Nat /\ MaxActs \in Nat
  /\ MaxReleases \in Nat \ {0}
  /\ SameRegion \in BOOLEAN

VARIABLES
  releases,       \* number of the template's latest release
  head,           \* apps.repo_latest_snapshot of the fork
  fns,            \* its functions
  base,           \* app_lineage: base_release_id, base_snapshot_id, base_fingerprint
  status,         \* job -> template_clone_jobs.status
  target,         \* job -> target_release_id
  tries,          \* job -> retry_count
  pre,            \* job -> pre_sync_snapshot_id and pre_sync_lineage
  request,        \* client -> POST template/update
  retry,          \* POST clone-jobs/:job_id/retry
  undo,           \* POST template/update/:job_id/undo
  reaped,         \* the job that the reaper found abandoned
  run,            \* worker -> what executeUpdate has read
  acts,           \* how often the owner did something
  edits,          \* how many pushes and edits there were
  settled,        \* history: the surfaces whose edit no update may take away
  overtaken       \* history: tasks taken back from an executor at work

forkVars == <<head, fns, base>>
jobVars == <<status, target, tries, pre>>
routeVars == <<request, retry, undo, reaped>>
counters == <<releases, acts, edits>>
ownVars == <<counters, settled>>
vars == <<queueVars, forkVars, jobVars, routeVars, ownVars, run, overtaken>>

Release(n) == <<"release", n>>
Edit(n) == <<"owner", n>>
Contents == {Release(n) : n \in 1 .. MaxReleases} \union {Edit(n) : n \in 1 .. MaxActs}

Nothing == <<"none", 0>>
NoPre == [snap |-> Nothing, fns |-> Nothing, base |-> [rel |-> 0, snap |-> Nothing, fns |-> Nothing]]
NoJob == 0
NoRun == [marked |-> FALSE, head |-> Nothing]

Init ==
  /\ QueueInit
  /\ releases = 1
  /\ head = Release(1) /\ fns = Release(1)
  /\ base = [rel |-> 1, snap |-> Release(1), fns |-> Release(1)]
  /\ status = [j \in Jobs |-> "unborn"]
  /\ target = [j \in Jobs |-> 1]
  /\ tries = [j \in Jobs |-> 0]
  /\ pre = [j \in Jobs |-> NoPre]
  /\ request = [c \in Clients |-> [pc |-> "new", target |-> 1, job |-> NoJob]]
  /\ retry = [pc |-> "rest", job |-> NoJob]
  /\ undo = [pc |-> "rest", job |-> NoJob, alone |-> FALSE]
  /\ reaped = NoJob
  /\ run = [w \in Workers |-> NoRun]
  /\ acts = 0 /\ edits = 0 /\ settled = {}
  /\ overtaken = {}

Ended == {"completed", "failed"}
MidStage == {"copying_repo", "replaying"}
Active(j) == status[j] \in {"pending", "processing"} \union MidStage

(* idx_template_clone_jobs_one_update lets the row of j be active.         *)
Free(j) == \A k \in Jobs \ {j} : ~Active(k)

Superseded(j) == \E k \in Jobs : k > j /\ status[k] = "completed"

(* computeDivergence of repo and functions, and decideEligibility.         *)
Unmodified == head = base.snap /\ fns = base.fns
Eligible == base.rel < releases /\ Unmodified

Live(j) == \E t \in Tasks : t.job = j /\ task[t] \in {"pending", "processing"}

Acts == acts < MaxActs /\ acts' = acts + 1

---------------------------------------------------------------------------
(* POST /v1/:app_id/template/update.                                       *)

Asks(c, from, to) ==
  /\ request[c].pc = from
  /\ request' = [request EXCEPT ![c] = to]

RequestReads(c) ==
  /\ \A j \in Jobs : ~Active(j)
  /\ Eligible
  /\ Asks(c, "new", [pc |-> "asked", target |-> releases, job |-> NoJob])
  /\ UNCHANGED <<queueVars, forkVars, jobVars, retry, undo, reaped, ownVars, run>>

(* createUpdateJob: the unique index may refuse the row.                   *)
CreateUpdateJob(c) ==
  \E j \in Jobs :
    /\ status[j] = "unborn" /\ \A k \in Jobs : k < j => status[k] # "unborn"
    /\ IF Free(j)
       THEN /\ status' = [status EXCEPT ![j] = "pending"]
            /\ target' = [target EXCEPT ![j] = request[c].target]
            /\ Asks(c, "asked", [request[c] EXCEPT !.pc = "created", !.job = j])
       ELSE /\ Asks(c, "asked", [request[c] EXCEPT !.pc = "over"])
            /\ UNCHANGED <<status, target>>
    /\ UNCHANGED <<queueVars, forkVars, tries, pre, retry, undo, reaped, ownVars, run>>

Queued(j) == [type |-> "clone", job |-> j, try |-> tries[j]]

EnqueueUpdate(c) ==
  /\ Asks(c, "created", [request[c] EXCEPT !.pc = "over"])
  /\ Enqueue(Queued(request[c].job))
  /\ UNCHANGED <<attempts, overdue, job, crashes, forkVars, jobVars, retry, undo, reaped,
                 ownVars, run>>

(* Mutant: the row is left to the client to clean up.                      *)
EnqueueFailsKeepsRow(c) ==
  /\ Asks(c, "created", [request[c] EXCEPT !.pc = "over"])
  /\ UNCHANGED <<queueVars, forkVars, jobVars, retry, undo, reaped, ownVars, run>>

(* The queue of the other region cannot be written: deleteCloneJob.        *)
EnqueueFails(c) ==
  /\ Asks(c, "created", [request[c] EXCEPT !.pc = "over"])
  /\ status' = [status EXCEPT ![request[c].job] = "deleted"]
  /\ UNCHANGED <<queueVars, forkVars, target, tries, pre, retry, undo, reaped, ownVars, run>>

RequestDies(c) ==
  /\ crashes < MaxCrashes /\ crashes' = crashes + 1
  /\ Asks(c, "created", [request[c] EXCEPT !.pc = "over"])
  /\ UNCHANGED <<task, attempts, overdue, job, forkVars, jobVars, retry, undo, reaped,
                 ownVars, run>>

---------------------------------------------------------------------------
(* POST /v1/clone-jobs/:job_id/retry.                                      *)

(* canRetryUpdateJob.                                                      *)
RetryReads ==
  /\ retry.pc = "rest"
  /\ \E j \in Jobs :
       /\ status[j] = "failed" /\ ~Superseded(j) /\ tries[j] < MaxRetries
       /\ retry' = [pc |-> "allowed", job |-> j]
  /\ Acts
  /\ UNCHANGED <<queueVars, forkVars, jobVars, request, undo, reaped, releases, edits,
                 settled, run>>

(* incrementRetry: the unique index may refuse the row.                    *)
IncrementRetry ==
  LET j == retry.job IN
  /\ retry.pc = "allowed"
  /\ IF Free(j)
     THEN /\ status' = [status EXCEPT ![j] = "pending"]
          /\ tries' = [tries EXCEPT ![j] = @ + 1]
          /\ retry' = [retry EXCEPT !.pc = "counted"]
     ELSE /\ retry' = [pc |-> "rest", job |-> NoJob]
          /\ UNCHANGED <<status, tries>>
  /\ UNCHANGED <<queueVars, forkVars, target, pre, request, undo, reaped, ownVars, run>>

RetryEnqueues ==
  /\ retry.pc = "counted"
  /\ Enqueue(Queued(retry.job))
  /\ retry' = [pc |-> "rest", job |-> NoJob]
  /\ UNCHANGED <<attempts, overdue, job, crashes, forkVars, jobVars, request, undo, reaped,
                 ownVars, run>>

(* The process dies, or the other region's queue cannot be written: here   *)
(* nothing takes the job back.                                             *)
RetryDies ==
  /\ retry.pc = "counted"
  /\ crashes < MaxCrashes /\ crashes' = crashes + 1
  /\ retry' = [pc |-> "rest", job |-> NoJob]
  /\ UNCHANGED <<task, attempts, overdue, job, forkVars, jobVars, request, undo, reaped,
                 ownVars, run>>

---------------------------------------------------------------------------
(* POST /v1/:app_id/template/update/:job_id/undo.                          *)

Undoes(from, to) == undo.pc = from /\ undo' = [undo EXCEPT !.pc = to]

(* canUndoUpdateJob.  alone is what the property below asks: no executor   *)
(* works when the undo begins, no executor and no edit begins before it    *)
(* ends, and all functions are restored.                                   *)
UndoReads ==
  /\ undo.pc = "rest"
  /\ \E j \in Jobs :
       /\ status[j] \in Ended /\ pre[j] # NoPre
       /\ undo' = [pc |-> "functions", job |-> j,
                   alone |-> \A w \in Workers : job[w] = Resting]
  /\ Acts
  /\ UNCHANGED <<queueVars, forkVars, jobVars, request, retry, reaped, releases, edits,
                 settled, run>>

(* A function that cannot be restored is only a warning.                   *)
RestoreFunctions ==
  /\ undo.pc = "functions"
  /\ \/ /\ fns' = pre[undo.job].fns /\ settled' = settled \ {"functions"}
        /\ undo' = [undo EXCEPT !.pc = "repo"]
     \/ UNCHANGED <<fns, settled>> /\ undo' = [undo EXCEPT !.pc = "repo", !.alone = FALSE]
  /\ UNCHANGED <<queueVars, head, base, jobVars, request, retry, reaped, counters, run>>

RestoreRepo ==
  /\ Undoes("repo", "lineage")
  /\ head' = pre[undo.job].snap /\ settled' = settled \ {"repo"}
  /\ UNCHANGED <<queueVars, fns, base, jobVars, request, retry, reaped, counters, run>>

(* Mutant: the undo of the repo and the functions is deemed enough.        *)
ForgetLineage ==
  /\ Undoes("lineage", "rest")
  /\ UNCHANGED <<queueVars, forkVars, jobVars, request, retry, reaped, ownVars, run>>

RestoreLineage ==
  /\ Undoes("lineage", "rest")
  /\ base' = pre[undo.job].base
  /\ UNCHANGED <<queueVars, head, fns, jobVars, request, retry, reaped, ownVars, run>>

UndoDies ==
  /\ undo.pc # "rest"
  /\ crashes < MaxCrashes /\ crashes' = crashes + 1
  /\ undo' = [undo EXCEPT !.pc = "rest"]
  /\ UNCHANGED <<task, attempts, overdue, job, forkVars, jobVars, request, retry, reaped,
                 ownVars, run>>

---------------------------------------------------------------------------
(* The owners of the fork and of the template.                             *)

PastGate == {"publish", "replay", "advance", "refused", "complete", "rollback"}
PastCopy == {"decide", "record"} \union PastGate

(* No executor works with a head that it read before.                      *)
HeadUnread == \A w \in Workers : job[w].pc \notin PastCopy

(* Job j is over, and may not be taken up again behind the gate.           *)
Over(j) ==
  /\ status[j] = "completed" \/ (status[j] = "failed" /\ Superseded(j))
  /\ ~Live(j) /\ reaped # j
  /\ retry.pc = "rest" \/ retry.job # j
  /\ \A w \in Workers : job[w].pc = "rest" \/ job[w].task.job # j

GateShut ==
  /\ \A w \in Workers : job[w].pc # "record"
  /\ \A j \in Jobs : pre[j] # NoPre => Over(j)

Owns(surface, protected) ==
  /\ Acts /\ edits' = edits + 1
  /\ settled' = IF protected THEN settled \union {surface} ELSE settled \ {surface}
  /\ undo' = [undo EXCEPT !.alone = FALSE]
  /\ UNCHANGED <<queueVars, base, jobVars, request, retry, reaped, releases, run>>

PushRepo == head' = Edit(edits + 1) /\ Owns("repo", HeadUnread) /\ UNCHANGED fns
DeployFunctions == fns' = Edit(edits + 1) /\ Owns("functions", GateShut) /\ UNCHANGED head

PublishRelease ==
  /\ releases < MaxReleases /\ releases' = releases + 1
  /\ UNCHANGED <<queueVars, forkVars, jobVars, routeVars, acts, edits, settled, run>>

---------------------------------------------------------------------------
(* executeUpdate.  In each step w executes a task of job j.                *)

Running(w, pc) == job[w].pc = pc
JobOf(w) == job[w].task.job

(* setCloneJobStatus: to make an ended row active again the unique index   *)
(* must let it.                                                            *)
SetStatus(j, s) == Free(j) /\ status' = [status EXCEPT ![j] = s]

Begins(w) ==
  LET j == JobOf(w) IN
  /\ Running(w, "start")
  /\ IF status[j] \in Ended
     THEN Goto(w, "done") /\ UNCHANGED <<status, run>>
     ELSE /\ SetStatus(j, "processing")
          /\ run' = [run EXCEPT ![w] = [marked |-> pre[j] # NoPre, head |-> Nothing]]
          /\ Goto(w, "prepare")
  /\ undo' = [undo EXCEPT !.alone = FALSE]
  /\ UNCHANGED <<task, attempts, overdue, crashes, forkVars, target, tries, pre, request,
                 retry, reaped, ownVars>>

(* In front of the try block, where nothing fails the job: the control     *)
(* database is out of reach, which is counted as a death.                  *)
FailsEarly(w) ==
  /\ Running(w, "start")
  /\ crashes < MaxCrashes /\ crashes' = crashes + 1
  /\ Goto(w, "threw")
  /\ UNCHANGED <<task, attempts, overdue, forkVars, jobVars, routeVars, ownVars, run>>

Steps(w, from, to) == Running(w, from) /\ Goto(w, to) /\ UNCHANGED <<task, attempts, overdue, crashes>>

Edited(content) == \E n \in 1 .. MaxActs : content = Edit(n)

(* HEAD is read before the copy of the repo.                               *)
CopiesRepo(w) ==
  /\ Steps(w, "prepare", "decide")
  /\ SetStatus(JobOf(w), "copying_repo")
  /\ run' = [run EXCEPT ![w].head = head]
  /\ settled' = IF Edited(head) /\ HeadUnread THEN settled \union {"repo"} ELSE settled
  /\ UNCHANGED <<forkVars, target, tries, pre, routeVars, counters>>

(* Mutant: whatever moved the head of a marked job was the job itself.     *)
ResumeAnyway(w) ==
  IF ~run[w].marked \/ run[w].head = pre[JobOf(w)].snap THEN "fresh" ELSE "republish"

(* classifyUpdateResume.                                                   *)
Resume(w) ==
  LET j == JobOf(w) IN
  IF ~run[w].marked \/ run[w].head = pre[j].snap THEN "fresh"
  ELSE IF run[w].head = Release(target[j]) THEN "republish"
  ELSE "ambiguous"

Passes(w) == \/ Resume(w) = "fresh" /\ Eligible
             \/ Resume(w) = "republish"

(* Mutant: the state is recorded only by the attempts that resume.         *)
DecidesInverted(w) ==
  /\ IF Passes(w)
     THEN Steps(w, "decide", IF run[w].marked THEN "record" ELSE "publish") /\ UNCHANGED status
     ELSE Steps(w, "decide", "done") /\ status' = [status EXCEPT ![JobOf(w)] = "failed"]
  /\ UNCHANGED <<forkVars, target, tries, pre, routeVars, ownVars, run>>

Decides(w) ==
  /\ IF Passes(w)
     THEN Steps(w, "decide", IF run[w].marked THEN "publish" ELSE "record") /\ UNCHANGED status
     ELSE Steps(w, "decide", "done") /\ status' = [status EXCEPT ![JobOf(w)] = "failed"]
  /\ UNCHANGED <<forkVars, target, tries, pre, routeVars, ownVars, run>>

(* Mutant: without the condition.                                          *)
RecordsPreSyncAgain(w) ==
  /\ Steps(w, "record", "publish")
  /\ pre' = [pre EXCEPT ![JobOf(w)] = [snap |-> run[w].head, fns |-> fns, base |-> base]]
  /\ UNCHANGED <<forkVars, status, target, tries, routeVars, ownVars, run>>

(* UPDATE ... WHERE pre_sync_lineage IS NULL.                              *)
RecordsPreSync(w) ==
  /\ Steps(w, "record", "publish")
  /\ pre' = [pre EXCEPT ![JobOf(w)] =
               IF @ = NoPre THEN [snap |-> run[w].head, fns |-> fns, base |-> base] ELSE @]
  /\ UNCHANGED <<forkVars, status, target, tries, routeVars, ownVars, run>>

(* The next status is written behind what was done, or is refused.         *)
OnTo(w, from, to) ==
  /\ Running(w, from)
  /\ \/ SetStatus(JobOf(w), "replaying") /\ Goto(w, to)
     \/ ~Free(JobOf(w)) /\ Goto(w, "refused") /\ UNCHANGED status
  /\ UNCHANGED <<task, attempts, overdue, crashes>>

Publishes(w) ==
  /\ OnTo(w, "publish", "replay")
  /\ head' = Release(target[JobOf(w)])
  /\ UNCHANGED <<fns, base, target, tries, pre, routeVars, ownVars, run>>

ReplaysFunctions(w) ==
  /\ OnTo(w, "replay", "advance")
  /\ fns' = Release(target[JobOf(w)])
  /\ UNCHANGED <<head, base, target, tries, pre, routeVars, ownVars, run>>

(* The fingerprint is that of the functions the fork has by now.           *)
AdvancesLineage(w) ==
  /\ Steps(w, "advance", "complete")
  /\ base' = [rel |-> target[JobOf(w)], snap |-> Release(target[JobOf(w)]), fns |-> fns]
  /\ UNCHANGED <<head, fns, jobVars, routeVars, ownVars, run>>

Completes(w) ==
  /\ Steps(w, "complete", "done")
  /\ status' = [status EXCEPT ![JobOf(w)] = "completed"]
  /\ UNCHANGED <<forkVars, target, tries, pre, routeVars, ownVars, run>>

(* The catch block.  Only the last attempt fails the job, and it takes     *)
(* back what it published unless it advanced the lineage itself.           *)
Published(w) == job[w].pc \in {"replay", "advance", "refused"}

Throws(w) ==
  /\ job[w].pc \in {"prepare", "decide", "record", "publish", "replay", "advance", "refused",
                   "complete"}
  /\ IF job[w].attempt < MaxAttempts
     THEN Goto(w, "threw") /\ UNCHANGED status
     ELSE /\ status' = [status EXCEPT ![JobOf(w)] = "failed"]
          /\ Goto(w, IF Published(w) THEN "rollback" ELSE "threw")
  /\ UNCHANGED <<task, attempts, overdue, crashes, forkVars, target, tries, pre, routeVars,
                 ownVars, run>>

(* Best effort.                                                            *)
RollsBack(w) ==
  /\ Steps(w, "rollback", "threw")
  /\ \/ head' = IF run[w].marked THEN pre[JobOf(w)].snap ELSE run[w].head
     \/ UNCHANGED head
  /\ UNCHANGED <<fns, base, jobVars, routeVars, ownVars, run>>

---------------------------------------------------------------------------
(* The reaper.  It looks for a live task in the fork's region, while tasks *)
(* are queued in the template's.                                           *)

ReaperLooks ==
  /\ reaped = NoJob
  /\ \E j \in Jobs :
       /\ status[j] \in MidStage
       /\ SameRegion => ~Live(j)
       /\ reaped' = j
  /\ UNCHANGED <<queueVars, forkVars, jobVars, request, retry, undo, ownVars, run>>

ReaperFails ==
  /\ reaped # NoJob
  /\ status' = [status EXCEPT ![reaped] = "failed"]
  /\ reaped' = NoJob
  /\ UNCHANGED <<queueVars, forkVars, target, tries, pre, request, retry, undo, ownVars, run>>

---------------------------------------------------------------------------

OfQueue == UNCHANGED <<forkVars, jobVars, routeVars, ownVars>>

TakesBack(w) ==
  /\ Recover(w) /\ OfQueue /\ UNCHANGED run
  /\ overtaken' = overtaken \union {t \in overdue \ overdue' : \E v \in Workers : job[v].task = t}

QueueStep(w) ==
  /\ OfQueue
  /\ \/ (Claim(w) \/ Exhaust(w)) /\ UNCHANGED run
     \/ (Complete(w) \/ BackOff(w) \/ GiveUp(w) \/ Die(w)) /\ run' = [run EXCEPT ![w] = NoRun]

UpdateStep(w) ==
  \/ Begins(w) \/ FailsEarly(w) \/ CopiesRepo(w) \/ Decides(w) \/ RecordsPreSync(w)
  \/ Publishes(w) \/ ReplaysFunctions(w) \/ AdvancesLineage(w) \/ Completes(w)
  \/ Throws(w) \/ RollsBack(w)

Route ==
  \/ \E c \in Clients : \/ RequestReads(c) \/ CreateUpdateJob(c) \/ EnqueueUpdate(c)
                        \/ EnqueueFails(c) \/ RequestDies(c)
  \/ RetryReads \/ IncrementRetry \/ RetryEnqueues \/ RetryDies
  \/ UndoReads \/ RestoreFunctions \/ RestoreRepo \/ RestoreLineage \/ UndoDies

Keeps ==
  \/ \E w \in Workers : QueueStep(w) \/ UpdateStep(w)
  \/ \E t \in Tasks : PassThreshold(t) /\ OfQueue /\ UNCHANGED run
  \/ Route
  \/ PushRepo \/ DeployFunctions \/ PublishRelease
  \/ ReaperLooks \/ ReaperFails

Next ==
  \/ \E w \in Workers : TakesBack(w)
  \/ Keeps /\ UNCHANGED overtaken

Spec == Init /\ [][Next]_vars

---------------------------------------------------------------------------
(* Properties.                                                             *)

LineageType == [rel : 1 .. MaxReleases, snap : Contents, fns : Contents]
PreType == [snap : Contents, fns : Contents, base : LineageType]

Places == {"rest", "start", "prepare", "decide", "record", "publish", "replay", "advance",
           "refused", "complete", "rollback", "done", "threw"}

(* The shapes of the fork's and the jobs' rows; an executor that has come  *)
(* past its gate works on a job whose pre-update state is recorded, or is  *)
(* about to record it.                                                     *)
TypeOK ==
  /\ task \in [Tasks -> {"absent", "pending", "processing", "completed", "failed"}]
  /\ overdue \subseteq Tasks /\ crashes \in 0 .. MaxCrashes
  /\ \A w \in Workers : /\ job[w].pc \in Places
                        /\ job[w].pc = "rest" \/ job[w].task \in Tasks
                        /\ job[w].pc \in PastGate => pre[JobOf(w)] # NoPre
  /\ releases \in 1 .. MaxReleases /\ settled \subseteq {"repo", "functions"}
  /\ head \in Contents /\ fns \in Contents /\ base \in LineageType
  /\ status \in [Jobs -> {"unborn", "deleted", "pending", "processing"} \union MidStage \union Ended]
  /\ target \in [Jobs -> 1 .. MaxReleases] /\ tries \in [Jobs -> 0 .. MaxRetries]
  /\ pre \in [Jobs -> PreType \union {NoPre}]

(* No update takes away a push that its executor has read, or has yet to   *)
(* read, nor an edit of the functions that no job may pass the gate of     *)
(* (classifyUpdateResume, canRetryUpdateJob and the gate of executeUpdate).*)
OwnerWorkSurvives ==
  [][\A w \in Workers : job'[w] # job[w] =>
       /\ head' # head => "repo" \notin settled
       /\ fns' # fns => "functions" \notin settled]_vars

(* What POST undo of j would make of the fork reads as unmodified.         *)
Undoable(j) ==
  /\ status[j] \in Ended /\ pre[j] # NoPre
  /\ pre[j].snap = pre[j].base.snap /\ pre[j].fns = pre[j].base.fns

AtRest ==
  /\ \A w \in Workers : job[w] = Resting
  /\ \A j \in Jobs : ~Active(j) /\ ~Live(j)
  /\ undo.pc = "rest"

(* A fork whose owner never changed it is not left for good in a state     *)
(* that reads as modified: an undo leads out of it, whatever failed, died  *)
(* or ran twice.                                                           *)
NeverTrapped ==
  AtRest /\ edits = 0 => Unmodified \/ \E j \in Jobs : Undoable(j)

(* An undo that runs alone leads to an unmodified fork (restoreLineage).   *)
UndoEscapes ==
  [][undo.pc = "lineage" /\ undo'.pc = "rest" /\ undo.alone /\ Undoable(undo.job) /\ crashes' = crashes
       => Unmodified']_vars

(* A job that is not ended is in the hands of a request, of a task or of   *)
(* an executor, or the reaper will see it.  Only a death leaves one behind *)
(* (whose row then refuses every other update), or an executor that was    *)
(* overtaken and ends the task while its successor waits to be retried     *)
(* (template-update.ts, clone.ts, clone-jobs-reaper.ts).                   *)
NoJobIsLeftBehind ==
  \A j \in Jobs :
    Active(j) => \/ Live(j) \/ status[j] \in MidStage
                 \/ \E w \in Workers : job[w].pc # "rest" /\ JobOf(w) = j
                 \/ \E c \in Clients : request[c].pc = "created" /\ request[c].job = j
                 \/ retry.pc = "counted" /\ retry.job = j
                 \/ crashes > 0 \/ \E t \in overtaken : t.job = j

=============================================================================

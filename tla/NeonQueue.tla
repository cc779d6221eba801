----------------------------- MODULE NeonQueue -----------------------------
(***************************************************************************)
(* The task queue of neon-task-worker.ts: rows of neon_tasks that several  *)
(* worker processes claim with FOR UPDATE SKIP LOCKED, and that a poll     *)
(* takes back from a worker it believes dead.  A worker's later writes     *)
(* name the row only by its id, so they land whatever has become of it.    *)
(*                                                                         *)
(* Simplifications: run_after is left out (any pending task may be next);  *)
(* the clock is the set of claims older than STALE_THRESHOLD_MINUTES; a    *)
(* task is named by its app and type, and is not enqueued a second time    *)
(* after it ended.                                                         *)
(***************************************************************************)
EXTENDS Integers, FiniteSets

CONSTANTS
  Workers,        \* control-api processes that poll the queue of the region
  Tasks,          \* the rows of neon_tasks there may be: records with a field type
  MaxAttempts,    \* max_attempts (5)
  MaxCrashes      \* bound on the number of process deaths

ASSUME QueueAssumption ==
  MaxAttempts \in Nat \ {0} /\ MaxCrashes \in Nat

VARIABLES
  task,           \* task -> status of its row; "absent": no row
  attempts,       \* task -> attempts
  overdue,        \* tasks claimed longer ago than the threshold
  job,            \* worker -> what it is doing
  crashes

queueVars == <<task, attempts, overdue, job, crashes>>

NoTask == [app |-> "none", type |-> "none"]
NoResource == <<"none", 0>>

(* attempt is the copy of the row's attempts that the claim returned; db   *)
(* is the resource the execution found, created or is to tear down.        *)
Resting == [pc |-> "rest", task |-> NoTask, attempt |-> 0, db |-> NoResource]

QueueInit ==
  /\ task = [t \in Tasks |-> "absent"]
  /\ attempts = [t \in Tasks |-> 0]
  /\ overdue = {}
  /\ job = [w \in Workers |-> Resting]
  /\ crashes = 0

At(w, pc, type) == job[w].pc = pc /\ job[w].task.type = type
Goto(w, pc) == job' = [job EXCEPT ![w].pc = pc]
Hold(w, pc, db) == job' = [job EXCEPT ![w].pc = pc, ![w].db = db]

(* UPDATE neon_tasks SET status = s WHERE id = t: no condition on the      *)
(* status the row has by now.                                              *)
Write(t, s) ==
  task' = [task EXCEPT ![t] = IF @ = "absent" THEN @ ELSE s]

(* INSERT ... ON CONFLICT DO NOTHING, of a task that was never inserted.   *)
Enqueue(t) == task' = [task EXCEPT ![t] = IF @ = "absent" THEN "pending" ELSE @]

---------------------------------------------------------------------------
(* processNextTask.                                                        *)

Claim(w) ==
  \E t \in Tasks :
    /\ job[w] = Resting
    /\ task[t] = "pending"
    /\ task' = [task EXCEPT ![t] = "processing"]
    /\ attempts' = [attempts EXCEPT ![t] = @ + 1]
    /\ overdue' = overdue \ {t}
    /\ job' = [job EXCEPT ![w] = [Resting EXCEPT !.pc = "start", !.task = t,
                                                 !.attempt = attempts[t] + 1]]
    /\ UNCHANGED crashes

(* The executor returned.                                                  *)
Complete(w) ==
  /\ job[w].pc = "done"
  /\ Write(job[w].task, "completed")
  /\ job' = [job EXCEPT ![w] = Resting]
  /\ UNCHANGED <<attempts, overdue, crashes>>

(* The executor threw and attempts are left by the worker's own copy.      *)
BackOff(w) ==
  /\ job[w].pc = "threw"
  /\ job[w].attempt < MaxAttempts
  /\ Write(job[w].task, "pending")
  /\ overdue' = overdue \ {job[w].task}
  /\ job' = [job EXCEPT ![w] = Resting]
  /\ UNCHANGED <<attempts, crashes>>

(* Mutant: the app is not told.                                            *)
GiveUpSilently(w) ==
  /\ job[w].pc = "threw"
  /\ job[w].attempt >= MaxAttempts
  /\ Write(job[w].task, "failed")
  /\ job' = [job EXCEPT ![w] = Resting]
  /\ UNCHANGED <<attempts, overdue, crashes>>

(* The executor threw for the last time: an app whose provisioning failed  *)
(* is told next.                                                           *)
GiveUp(w) ==
  /\ job[w].pc = "threw"
  /\ job[w].attempt >= MaxAttempts
  /\ Write(job[w].task, "failed")
  /\ IF job[w].task.type = "provision" THEN Goto(w, "tell")
     ELSE job' = [job EXCEPT ![w] = Resting]
  /\ UNCHANGED <<attempts, overdue, crashes>>

---------------------------------------------------------------------------
(* recoverStaleTasks, which starts every tick of a worker that rests.      *)

PassThreshold(t) ==
  /\ task[t] = "processing" /\ t \notin overdue
  /\ overdue' = overdue \union {t}
  /\ UNCHANGED <<task, attempts, job, crashes>>

Stale(t) == task[t] = "processing" /\ t \in overdue

Recover(w) ==
  \E t \in Tasks :
    /\ job[w] = Resting
    /\ Stale(t) /\ attempts[t] < MaxAttempts
    /\ task' = [task EXCEPT ![t] = "pending"]
    /\ overdue' = overdue \ {t}
    /\ UNCHANGED <<attempts, job, crashes>>

(* Mutant: exhausted tasks are left to the worker that claimed them.       *)
ExhaustNothing(w) == FALSE /\ UNCHANGED queueVars

Exhaust(w) ==
  \E t \in Tasks :
    /\ job[w] = Resting
    /\ Stale(t) /\ attempts[t] >= MaxAttempts
    /\ task' = [task EXCEPT ![t] = "failed"]
    /\ job' = IF t.type = "provision"
              THEN [job EXCEPT ![w] = [Resting EXCEPT !.pc = "tell", !.task = t]]
              ELSE job
    /\ UNCHANGED <<attempts, overdue, crashes>>

(* A process dies; its successor starts with no task.                      *)
Die(w) ==
  /\ job[w] # Resting
  /\ crashes < MaxCrashes
  /\ crashes' = crashes + 1
  /\ job' = [job EXCEPT ![w] = Resting]
  /\ UNCHANGED <<task, attempts, overdue>>

=============================================================================

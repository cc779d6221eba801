----------------------------- MODULE IdlePause -----------------------------
(***************************************************************************)
(* How one app of a free organisation comes to be paused for inactivity    *)
(* and comes back: the sweep of idle-app-reaper.ts with its mails, lease   *)
(* and compensation, the traffic and the visits that stop it, the owner's  *)
(* pause and resume, the plan changes with the resume that follows an      *)
(* upgrade, and the cutover of a move, which copies all of this state.     *)
(*                                                                         *)
(* Times are ages in days, counted up to the first day on which nothing    *)
(* more depends on them.                                                   *)
(*                                                                         *)
(* Simplifications: the circuit breaker and the dry run are sweeps that do *)
(* not start; a suspended organisation counts as one that is not free; the *)
(* staging reaper pauses like an owner; the first reads of a sweep are one *)
(* step, because every one of them is repeated before it acts; the         *)
(* listeners that learn of a pause (edge, caches) are left out.            *)
(***************************************************************************)
EXTENDS Integers, FiniteSets

CONSTANTS
  Sweepers,       \* control-api processes with a reaper
  Resumers,       \* the upgrade hook and its reconciler
  Regions,
  Days, WarnDays, ReminderDays, GraceDays,   \* IdlePauseConfig
  MaxPlanChanges, \* bounds on plan changes, on moves, and on faults: a lease
  MaxMoves,       \* that expires under its sweep, a lock timeout of a resume,
  MaxFaults       \* a sweeper that dies

ASSUME IdlePauseAssumption ==
  /\ {Days, WarnDays, GraceDays} \subseteq Nat \ {0}
  /\ Regions # {} /\ Sweepers \intersect {"owner", "no one"} = {}
  /\ ReminderDays \in Nat /\ Days > WarnDays /\ WarnDays > ReminderDays
  /\ {MaxPlanChanges, MaxMoves, MaxFaults} \subseteq Nat

VARIABLES
  plan,           \* plan of the organisation: "free" or "paid"
  visits,         \* days since frontend visits last reached the minimum
  home,           \* region of the app in org_app_index
  app,            \* region -> the app's row there
  lock,           \* holder of the row lock on org_app_index, or NoOne
  lease,          \* holder of lock:idle-pause-reaper, or NoOne
  sweep,          \* sweeper -> its sweep of this app
  share,          \* resumers that hold the organisation's row FOR SHARE
  owner,          \* the owner's resume: "rest", or the plan it has read
  changes, moves, faults,
  owed,           \* history: mails the owner is due before a pause
  seen,           \* history: a sweep has seen the latest visits
  cut             \* history: a sweeper died with a batch half done

store == <<plan, visits, home, app>>
bounds == <<changes, moves, faults>>
history == <<owed, seen, cut>>
vars == <<store, lock, lease, sweep, share, owner, bounds, history>>

NoOne == "no one"
None == -1
Mails == {"warn", "remind", "notify"}
Due == IF ReminderDays = 0 THEN Mails \ {"remind"} ELSE Mails

Quiet == [warned |-> None, reminded |-> None, notified |-> None]
Rest == [pc |-> "rest", region |-> NoOne, stage |-> "none"]

Awake == [by |-> "no", idle |-> 0, notes |-> Quiet]

Init ==
  /\ plan = "free"
  /\ visits = Days + 1
  /\ home = CHOOSE r \in Regions : TRUE
  /\ app = [r \in Regions |-> Awake]
  /\ lock = NoOne /\ lease = NoOne
  /\ sweep = [s \in Sweepers |-> Rest]
  /\ share = {}
  /\ owner = "rest"
  /\ changes = 0 /\ moves = 0 /\ faults = 0
  /\ owed = Due /\ seen = TRUE /\ cut = FALSE

Older(age, top) == IF age = None \/ age > top THEN age ELSE age + 1

IdlePaused == app[home].by = "idle_reaper"
Visited == visits <= Days

(* A sweep is inside the statements that take minutes at most.             *)
Busy(s) == sweep[s].pc \in {"locked", "updated", "undo", "mail"}

-----------------------------------------------------------------------------
(* Time, visitors and traffic.                                             *)

(* A day ends: not in the middle of a batch, and not before a sweep, one   *)
(* every INTERVAL_MS, has met the visits that now leave the window.        *)
Day ==
  /\ \A s \in Sweepers : ~Busy(s)
  /\ (visits = Days /\ plan = "free" /\ app[home].by = "no") => seen
  /\ visits' = IF Visited THEN visits + 1 ELSE visits
  /\ app' = [r \in Regions |->
       [app[r] EXCEPT !.idle = Older(@, Days),
                      !.notes = [warned |-> Older(@.warned, WarnDays),
                                 reminded |-> Older(@.reminded, ReminderDays),
                                 notified |-> Older(@.notified, GraceDays)]]]
  /\ UNCHANGED <<plan, home, lock, lease, sweep, share, owner, bounds, history>>

(* frontend_visit_daily reaches BUTTERBASE_IDLE_PAUSE_MIN_VISITORS.  While *)
(* the plan is paid no sweep looks at the app.                             *)
Visit ==
  /\ visits' = 0
  /\ seen' = FALSE
  /\ owed' = IF plan = "free" /\ app[home].by = "no" THEN Due ELSE owed
  /\ UNCHANGED <<plan, home, app, lock, lease, sweep, share, owner, bounds, cut>>

(* Mutant: only the activity is written.                                   *)
TouchOnly(a) == IF a.by = "no" THEN [a EXCEPT !.idle = 0] ELSE a

(* The UPDATE of markAppActive.                                            *)
Touch(a) == IF a.by = "no" THEN Awake ELSE a

(* markAppActive, under the app's lock; the Redis throttle drops calls     *)
(* whose UPDATE would change nothing.                                      *)
MarkAppActive ==
  /\ lock = NoOne /\ app[home].by = "no"
  /\ app' = [app EXCEPT ![home] = Touch(@)]
  /\ owed' = Due
  /\ UNCHANGED <<plan, visits, home, lock, lease, sweep, share, owner, bounds, seen, cut>>

-----------------------------------------------------------------------------
(* runIdlePauseOnce.                                                       *)

(* BASE: every UPDATE of the sweep repeats it.                             *)
Candidate(a) == a.by = "no" /\ a.idle > Days - WarnDays

(* STAGES.  An absent note is None and passes no comparison.               *)
StageHolds(stage, a) ==
  CASE stage = "warn"   -> a.notes.warned = None
    [] stage = "remind" -> /\ ReminderDays > 0
                           /\ a.idle > Days - ReminderDays
                           /\ a.notes.warned > WarnDays - ReminderDays
                           /\ a.notes.reminded = None /\ a.notes.notified = None
    [] stage = "notify" -> /\ a.idle > Days /\ a.notes.warned > WarnDays
                           /\ ReminderDays = 0 \/ a.notes.reminded > ReminderDays
                           /\ a.notes.notified = None
    [] stage = "pause"  -> /\ a.idle > Days /\ a.notes.warned > WarnDays
                           /\ a.notes.notified > GraceDays

Earlier == [pause |-> {}, notify |-> {"pause"}, remind |-> {"pause", "notify"},
            warn |-> {"pause", "notify", "remind"}]

(* The CASE of the scan: the latest stage that applies.                    *)
Selected(stage, a) ==
  /\ Candidate(a) /\ StageHolds(stage, a)
  /\ \A e \in Earlier[stage] : ~StageHolds(e, a)

Goto(s, pc) == sweep' = [sweep EXCEPT ![s].pc = pc]
End(s) == sweep' = [sweep EXCEPT ![s] = Rest]

(* SET ... NX on the lease, the free apps, their visits, the scan.         *)
SweepScans(s) ==
  /\ sweep[s] = Rest /\ lease = NoOne /\ plan = "free"
  /\ lease' = s
  /\ \/ /\ Visited
        /\ sweep' = [sweep EXCEPT ![s] =
             [pc |-> "visited", region |-> home, stage |-> "none"]]
     \/ /\ ~Visited
        /\ \E stage \in DOMAIN Earlier :
             /\ Selected(stage, app[home])
             /\ sweep' = [sweep EXCEPT ![s] =
                  [pc |-> "scanned", region |-> home, stage |-> stage]]
  /\ UNCHANGED <<store, lock, share, owner, bounds, history>>

(* Mutant: visits only keep the app out of the scan.                       *)
SweepIgnoresVisits(s) ==
  /\ sweep[s].pc = "visited"
  /\ End(s)
  /\ lease' = IF lease = s THEN NoOne ELSE lease
  /\ seen' = TRUE
  /\ UNCHANGED <<store, lock, share, owner, bounds, owed, cut>>

(* Visits take back the notes of an app that is still free and visited,    *)
(* under its lock and with the lease.                                      *)
SweepClearsVisited(s) ==
  /\ sweep[s].pc = "visited" /\ lock = NoOne
  /\ app' = IF plan = "free" /\ Visited /\ home = sweep[s].region /\ lease = s
               /\ app[home].by = "no"
            THEN [app EXCEPT ![home].notes = Quiet] ELSE app
  /\ seen' = (seen \/ app'[home].notes = Quiet)
  /\ End(s)
  /\ lease' = IF lease = s THEN NoOne ELSE lease
  /\ UNCHANGED <<plan, visits, home, lock, share, owner, bounds, owed, cut>>

(* The reads before the lock; a sweep that lost its lease throws.          *)
SweepRechecks(s) ==
  /\ sweep[s].pc = "scanned"
  /\ IF plan = "free" /\ home = sweep[s].region /\ ~Visited /\ lease = s
     THEN Goto(s, "checked") /\ UNCHANGED lease
     ELSE End(s) /\ lease' = IF lease = s THEN NoOne ELSE lease
  /\ UNCHANGED <<store, lock, share, owner, bounds, history>>

(* withAppStateLocks gives the home that counts; then the lease once more. *)
SweepLocks(s) ==
  /\ sweep[s].pc = "checked" /\ lock = NoOne
  /\ IF home = sweep[s].region /\ lease = s
     THEN Goto(s, "locked") /\ lock' = s /\ UNCHANGED lease
     ELSE End(s) /\ UNCHANGED lock /\ lease' = IF lease = s THEN NoOne ELSE lease
  /\ UNCHANGED <<store, share, owner, bounds, history>>

(* Mutant: the row is written as the scan saw it.                          *)
WriteSelected(stage, a) == TRUE

(* WHERE BASE AND STAGES[stage].                                           *)
StillDue(stage, a) == Candidate(a) /\ StageHolds(stage, a)

Stamped(stage, a) ==
  CASE stage = "warn"   -> [a EXCEPT !.notes.warned = 0]
    [] stage = "remind" -> [a EXCEPT !.notes.reminded = 0]
    [] stage = "notify" -> [a EXCEPT !.notes.notified = 0]
    [] stage = "pause"  -> [a EXCEPT !.by = "idle_reaper"]

SweepUpdates(s) ==
  /\ sweep[s].pc = "locked"
  /\ IF StillDue(sweep[s].stage, app[sweep[s].region])
     THEN /\ app' = [app EXCEPT ![sweep[s].region] = Stamped(sweep[s].stage, @)]
          /\ Goto(s, "updated") /\ UNCHANGED <<lock, lease>>
     ELSE /\ End(s) /\ lock' = NoOne /\ UNCHANGED app
          /\ lease' = IF lease = s THEN NoOne ELSE lease
  /\ UNCHANGED <<plan, visits, home, share, owner, bounds, history>>

(* Mutant: the plan and the visits are not read again.                     *)
SweepTrusts(s) ==
  /\ sweep[s].pc = "updated"
  /\ Goto(s, "mail") /\ lock' = NoOne
  /\ UNCHANGED <<store, lease, share, owner, bounds, history>>

(* The plan and the visits once more; an error counts as a failed check.   *)
SweepValidates(s) ==
  /\ sweep[s].pc = "updated"
  /\ \/ /\ plan = "free" /\ ~Visited
        /\ Goto(s, "mail") /\ lock' = NoOne
     \/ Goto(s, "undo") /\ UNCHANGED lock
  /\ UNCHANGED <<store, lease, share, owner, bounds, history>>

(* setPausedState with paused: false.                                      *)
Resumed(a) == Awake

(* undo, the COMMIT that releases the lock, and the end of the tick.       *)
SweepUndoes(s) ==
  /\ sweep[s].pc = "undo"
  /\ app' = [app EXCEPT ![sweep[s].region] =
       IF sweep[s].stage = "pause"
       THEN IF @.by = "idle_reaper" THEN Resumed(@) ELSE @
       ELSE IF @.by = "no" THEN [@ EXCEPT !.notes = Quiet] ELSE @]
  /\ owed' = Due
  /\ lock' = NoOne /\ End(s)
  /\ lease' = IF lease = s THEN NoOne ELSE lease
  /\ UNCHANGED <<plan, visits, home, share, owner, bounds, seen, cut>>

(* The mails and listeners, after the lock.                                *)
SweepTells(s) ==
  /\ sweep[s].pc = "mail"
  /\ owed' = owed \ {sweep[s].stage}
  /\ End(s)
  /\ lease' = IF lease = s THEN NoOne ELSE lease
  /\ UNCHANGED <<store, lock, share, owner, bounds, seen, cut>>

(* The process dies: its transaction rolls back, its runtime UPDATE and    *)
(* its lease stay.                                                         *)
SweeperDies(s) ==
  /\ faults < MaxFaults /\ sweep[s] # Rest
  /\ faults' = faults + 1
  /\ cut' = (cut \/ sweep[s].pc \in {"updated", "undo", "mail"})
  /\ lock' = IF lock = s THEN NoOne ELSE lock
  /\ End(s)
  /\ UNCHANGED <<store, lease, share, owner, changes, moves, owed, seen>>

(* LOCK_SECONDS pass since the last renewal.                               *)
LeaseExpires ==
  /\ lease # NoOne
  /\ sweep[lease] = Rest \/ faults < MaxFaults
  /\ faults' = IF sweep[lease] = Rest THEN faults ELSE faults + 1
  /\ lease' = NoOne
  /\ UNCHANGED <<store, lock, sweep, share, owner, changes, moves, history>>

-----------------------------------------------------------------------------
(* The owner's PATCH /config/pause.                                        *)

(* An owner's pause over an idle pause keeps the reaper's label.           *)
OwnerPauses ==
  /\ lock = NoOne
  /\ app' = [app EXCEPT ![home].by = IF @ = "idle_reaper" THEN @ ELSE "owner"]
  /\ UNCHANGED <<plan, visits, home, lock, lease, sweep, share, owner, bounds, history>>

(* isOnIdlePausePlan, read in the transaction that holds the app's lock.   *)
OwnerReadsPlan ==
  /\ owner = "rest" /\ lock = NoOne
  /\ owner' = plan /\ lock' = "owner"
  /\ UNCHANGED <<store, lease, sweep, share, bounds, history>>

(* Mutant: the label is not part of the UPDATE.                            *)
OwnerResumesAnything ==
  /\ owner # "rest"
  /\ app' = [app EXCEPT ![home] = Resumed(@)]
  /\ owed' = Due
  /\ owner' = "rest" /\ lock' = NoOne
  /\ UNCHANGED <<plan, visits, home, lease, sweep, share, bounds, seen, cut>>

OwnerResumes ==
  /\ owner # "rest"
  /\ IF owner = "free" /\ IdlePaused
     THEN UNCHANGED <<app, owed>>
     ELSE app' = [app EXCEPT ![home] = Resumed(@)] /\ owed' = Due
  /\ owner' = "rest" /\ lock' = NoOne
  /\ UNCHANGED <<plan, visits, home, lease, sweep, share, bounds, seen, cut>>

-----------------------------------------------------------------------------
(* Plan changes and the resume that follows an upgrade.                    *)

(* Mutant: the plan changes under a resume.                                *)
ChangePlanUnlocked ==
  /\ changes < MaxPlanChanges
  /\ plan' = IF plan = "free" THEN "paid" ELSE "free"
  /\ changes' = changes + 1
  /\ owed' = IF plan = "free" THEN {} ELSE owed
  /\ UNCHANGED <<visits, home, app, lock, lease, sweep, share, owner, moves,
                 faults, seen, cut>>

(* The UPDATE of organizations waits for the shared locks.  The notes of   *)
(* an app stay as they are, and a paid plan makes the owner nothing owed.  *)
ChangePlan ==
  /\ share = {} /\ changes < MaxPlanChanges
  /\ plan' = IF plan = "free" THEN "paid" ELSE "free"
  /\ changes' = changes + 1
  /\ owed' = IF plan = "free" THEN {} ELSE owed
  /\ UNCHANGED <<visits, home, app, lock, lease, sweep, share, owner, moves,
                 faults, seen, cut>>

(* SELECT ... FOR SHARE of the current plan, by the hook after the COMMIT  *)
(* or by a scan of the paid organisations.                                 *)
ResumeShares(u) ==
  /\ plan = "paid" /\ u \notin share
  /\ share' = share \union {u}
  /\ UNCHANGED <<store, lock, lease, sweep, owner, bounds, history>>

(* Mutant: every paused app is resumed.                                    *)
ResumeAnyPause(u) ==
  /\ u \in share /\ lock = NoOne
  /\ app' = [app EXCEPT ![home] = IF @.by # "no" THEN Resumed(@) ELSE @]
  /\ owed' = IF app[home].by # "no" THEN Due ELSE owed
  /\ share' = share \ {u}
  /\ UNCHANGED <<plan, visits, home, lock, lease, sweep, owner, bounds, seen, cut>>

(* Mutant: the row is written where the app was created.                   *)
ResumeAtBirthplace(u) ==
  /\ u \in share /\ lock = NoOne
  /\ LET r == CHOOSE r \in Regions : TRUE
     IN  app' = [app EXCEPT ![r] = IF @.by = "idle_reaper" THEN Resumed(@) ELSE @]
  /\ share' = share \ {u}
  /\ UNCHANGED <<plan, visits, home, lock, lease, sweep, owner, bounds, history>>

(* lockAppStates, setPausedState onlyIfPausedBy idle_reaper, COMMIT.       *)
ResumeApp(u) ==
  /\ u \in share /\ lock = NoOne
  /\ app' = [app EXCEPT ![home] = IF IdlePaused THEN Resumed(@) ELSE @]
  /\ owed' = IF IdlePaused THEN Due ELSE owed
  /\ share' = share \ {u}
  /\ UNCHANGED <<plan, visits, home, lock, lease, sweep, owner, bounds, seen, cut>>

(* lock_timeout, an error or a death: everything rolls back.               *)
ResumeGivesUp(u) ==
  /\ u \in share /\ lock # NoOne /\ faults < MaxFaults
  /\ share' = share \ {u}
  /\ faults' = faults + 1
  /\ UNCHANGED <<store, lock, lease, sweep, owner, changes, moves, history>>

-----------------------------------------------------------------------------
(* Mutant: the destination's row is left as it was copied at the start.    *)
CutoverWithoutState ==
  /\ lock = NoOne /\ moves < MaxMoves
  /\ home' \in Regions \ {home}
  /\ moves' = moves + 1
  /\ UNCHANGED <<plan, visits, app, lock, lease, sweep, share, owner, changes,
                 faults, history>>

(* cutoverAppState: the state of the old home, then the home itself.       *)
Cutover ==
  /\ lock = NoOne /\ moves < MaxMoves
  /\ home' \in Regions \ {home}
  /\ app' = [app EXCEPT ![home'] = app[home]]
  /\ moves' = moves + 1
  /\ UNCHANGED <<plan, visits, lock, lease, sweep, share, owner, changes,
                 faults, history>>

-----------------------------------------------------------------------------
Sweep(s) ==
  \/ SweepScans(s) \/ SweepClearsVisited(s) \/ SweepRechecks(s) \/ SweepLocks(s)
  \/ SweepUpdates(s) \/ SweepValidates(s) \/ SweepUndoes(s) \/ SweepTells(s)

Next ==
  \/ Day \/ Visit \/ MarkAppActive \/ LeaseExpires
  \/ \E s \in Sweepers : Sweep(s) \/ SweeperDies(s)
  \/ OwnerPauses \/ OwnerReadsPlan \/ OwnerResumes
  \/ ChangePlan
  \/ \E u \in Resumers : ResumeShares(u) \/ ResumeApp(u) \/ ResumeGivesUp(u)
  \/ Cutover

Spec == Init /\ [][Next]_vars

(* Statements under a lock end.  The reconciler looks at every paid        *)
(* organisation every five minutes, and gets the app's lock in the end:    *)
(* PostgreSQL queues it, and the next scan retries what timed out.         *)
FairSpec ==
  /\ Spec
  /\ WF_vars(OwnerResumes)
  /\ \A s \in Sweepers :
       WF_vars(SweepUpdates(s) \/ SweepValidates(s) \/ SweepUndoes(s))
  /\ \E u \in Resumers : SF_vars(ResumeShares(u)) /\ SF_vars(ResumeApp(u))

-----------------------------------------------------------------------------
NoteType == [warned : None..WarnDays + 1, reminded : None..ReminderDays + 1,
             notified : None..GraceDays + 1]
SweepType ==
  [pc : {"rest", "visited", "scanned", "checked", "locked", "updated", "undo", "mail"},
   region : Regions \union {NoOne}, stage : {"none"} \union DOMAIN Earlier]

(* The shapes of the tables, and that who holds the app's lock is inside   *)
(* the statements that need it.                                            *)
TypeOK ==
  /\ plan \in {"free", "paid"} /\ visits \in 0..Days + 1 /\ home \in Regions
  /\ app \in [Regions -> [by : {"no", "owner", "idle_reaper"},
                          idle : 0..Days + 1, notes : NoteType]]
  /\ sweep \in [Sweepers -> SweepType]
  /\ \A s \in Sweepers : lock = s <=> sweep[s].pc \in {"locked", "updated", "undo"}
  /\ owner \in {"rest", "free", "paid"} /\ (lock = "owner" <=> owner # "rest")
  /\ lock \in Sweepers \union {"owner", NoOne}
  /\ lease \in Sweepers \union {NoOne}
  /\ share \subseteq Resumers /\ (share # {} => plan = "paid")
  /\ owed \subseteq Due

(* An app is paused for inactivity only after its owner got every mail of  *)
(* the chain since the last traffic, qualifying visits or resume: no sweep *)
(* works with notes from before (idle-app-reaper.ts:120-122), however it   *)
(* was overtaken between scan and UPDATE.  A sweeper that dies between its *)
(* UPDATE and its mail or compensation ends the promise, and so does a     *)
(* time on a paid plan, which leaves the notes alone.                      *)
OwnerWasTold ==
  /\ IdlePaused /\ ~cut
  /\ \A s \in Sweepers : sweep[s].pc \notin {"updated", "undo"}
  => owed = {}

(* An owner's pause ends by the owner's resume alone: not by the sweep's   *)
(* compensation, the resume after an upgrade or a cutover that copied the  *)
(* row before it (app-pause.ts:87-90, app-state-lock.ts:9-12).             *)
OwnerPauseStands ==
  [][app[home].by = "owner" /\ app'[home'].by # "owner" => owner # "rest"]_vars

(* An idle pause is lifted while the plan is paid, or by the sweep that    *)
(* takes its own pause back; never for an organisation that has gone back  *)
(* to free meanwhile.  The owner's request may have read a plan that       *)
(* changed since (idle-pause-upgrade.ts:38-40, app-pause.ts:126-133).      *)
ResumeNeedsPaidPlan ==
  [][IdlePaused /\ app'[home'].by # "idle_reaper" =>
       \/ plan = "paid" \/ owner = "paid"
       \/ \E s \in Sweepers : sweep[s].pc = "undo"]_vars

(* An upgrade brings an idle-paused app back, also when the hook died, a   *)
(* sweep paused the app around the upgrade, or the app moved               *)
(* (idle-pause-upgrade-reconciler.ts:8-11).                                *)
UpgradeResumes == (plan = "paid" /\ IdlePaused) ~> (plan = "free" \/ ~IdlePaused)
=============================================================================

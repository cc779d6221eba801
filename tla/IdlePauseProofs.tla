-------------------------- MODULE IdlePauseProofs --------------------------
(***************************************************************************)
(* Proofs about the idle pause, for any sweepers, resumers and regions,    *)
(* any periods of the chain and any number of faults.                      *)
(*                                                                         *)
(* The argument for OwnerWasTold: a note in the app's row whose mail is    *)
(* owed all the same has a reason, either a sweep that is between its      *)
(* UPDATE and its mail, or visits that no sweep has met yet.  The first is *)
(* not older than today, and the chain wants notes that are; the second    *)
(* is found by the sweep itself, after its UPDATE and under the lock.      *)
(***************************************************************************)
EXTENDS IdlePause, TLAPS

Stages == {"warn", "remind", "notify", "pause"}

(* A sweep past its reads has a region and a stage.                        *)
SweepsAimed ==
  \A s \in Sweepers :
    /\ sweep[s].pc = "visited" => sweep[s].region \in Regions
    /\ sweep[s].pc \notin {"rest", "visited"} =>
         sweep[s].region \in Regions /\ sweep[s].stage \in Stages

(* Under the lock the home stays and so does what the UPDATE wrote.        *)
LockHolds ==
  \A s \in Sweepers :
    /\ sweep[s].pc \in {"locked", "updated", "undo"} => sweep[s].region = home
    /\ sweep[s].pc \in {"updated", "undo"} =>
         app[home].by = IF sweep[s].stage = "pause" THEN "idle_reaper" ELSE "no"

Note(a, m) ==
  CASE m = "warn" -> a.notes.warned [] m = "remind" -> a.notes.reminded
    [] m = "notify" -> a.notes.notified

(* A note follows the notes of the stages before it.                       *)
NotesInOrder ==
  \A r \in Regions : app[r].notes.notified # None =>
    \A m \in Due : Note(app[r], m) # None

(* Sweep s has written the note of stage m, and its mail is not sent.      *)
Stamping(s, m) == sweep[s].pc \in {"updated", "undo", "mail"} /\ sweep[s].stage = m

(* Such a note is of today, and nothing followed it.                       *)
StampsAreNew ==
  \A s \in Sweepers, m \in Due : Stamping(s, m) =>
    /\ Note(app[home], m) \in {None, 0}
    /\ m = "remind" => app[home].notes.notified = None

Unmet == plan = "free" /\ Visited /\ ~ seen

(* A mail that is owed although its note is there has a reason.            *)
OwedHasReason ==
  app[home].by = "no" /\ ~ cut =>
    \A m \in owed : Note(app[home], m) # None =>
      Unmet \/ \E s \in Sweepers : Stamping(s, m)

(* A pause that is not validated was due, but for visits.                  *)
PauseWasDue ==
  \A s \in Sweepers :
    sweep[s].pc = "updated" /\ sweep[s].stage = "pause" /\ ~ cut => owed = {} \/ Visited

ChainInv ==
  /\ SweepsAimed /\ LockHolds /\ NotesInOrder /\ StampsAreNew /\ OwedHasReason
  /\ PauseWasDue /\ OwnerWasTold

---------------------------------------------------------------------------
(* Types.                                                                  *)

AppType == [by : {"no", "owner", "idle_reaper"}, idle : 0..Days + 1, notes : NoteType]

(* The periods are numbers of days.                                        *)
LEMMA Periods ==
  /\ Days \in Nat /\ WarnDays \in Nat /\ ReminderDays \in Nat /\ GraceDays \in Nat
  /\ Days > 0 /\ WarnDays > 0 /\ GraceDays > 0 /\ WarnDays > ReminderDays
<1>1. /\ Days \in Nat \ {0} /\ WarnDays \in Nat \ {0} /\ GraceDays \in Nat \ {0}
  BY IdlePauseAssumption
<1>2. ReminderDays \in Nat /\ WarnDays > ReminderDays
  BY IdlePauseAssumption
<1> QED
  BY <1>1, <1>2

(* Who may hold the lock of the app.                                       *)
LEMMA Names ==
  /\ NoOne # "owner"
  /\ \A s \in Sweepers : s # NoOne /\ s # "owner"
BY IdlePauseAssumption DEF NoOne

(* The ages that the bounds allow, and what the UPDATEs make of a row.     *)
LEMMA RowTypes ==
  /\ Quiet \in NoteType /\ Awake \in AppType
  /\ \A a \in AppType :
       /\ Touch(a) \in AppType
       /\ [a EXCEPT !.notes = Quiet] \in AppType
       /\ \A stage \in Stages : Stamped(stage, a) \in AppType
       /\ \A by \in {"no", "owner", "idle_reaper"} : [a EXCEPT !.by = by] \in AppType
       /\ [a EXCEPT !.idle = Older(@, Days),
                    !.notes = [warned |-> Older(@.warned, WarnDays),
                               reminded |-> Older(@.reminded, ReminderDays),
                               notified |-> Older(@.notified, GraceDays)]] \in AppType
<1> USE Periods
<1>1. Quiet \in NoteType /\ Awake \in AppType
  BY DEF Quiet, Awake, NoteType, AppType, None
<1>2. ASSUME NEW a \in AppType
      PROVE /\ Touch(a) \in AppType
            /\ [a EXCEPT !.notes = Quiet] \in AppType
            /\ \A by \in {"no", "owner", "idle_reaper"} : [a EXCEPT !.by = by] \in AppType
  BY <1>1 DEF Touch, AppType
<1>3. ASSUME NEW a \in AppType, NEW stage \in Stages PROVE Stamped(stage, a) \in AppType
  <2>1. [a EXCEPT !.by = "idle_reaper"] \in AppType
    BY DEF AppType
  <2>2. a.notes \in NoteType /\ 0 \in None..WarnDays + 1 /\ 0 \in None..ReminderDays + 1
        /\ 0 \in None..GraceDays + 1
    BY DEF AppType, None
  <2>3. /\ [a.notes EXCEPT !.warned = 0] \in NoteType
        /\ [a.notes EXCEPT !.reminded = 0] \in NoteType
        /\ [a.notes EXCEPT !.notified = 0] \in NoteType
    BY <2>2 DEF NoteType
  <2>4. /\ [a EXCEPT !.notes.warned = 0] \in AppType
        /\ [a EXCEPT !.notes.reminded = 0] \in AppType
        /\ [a EXCEPT !.notes.notified = 0] \in AppType
    BY <2>3 DEF AppType
  <2> QED BY <2>1, <2>4 DEF Stamped, Stages
<1>4. ASSUME NEW a \in AppType
      PROVE [a EXCEPT !.idle = Older(@, Days),
                      !.notes = [warned |-> Older(@.warned, WarnDays),
                                 reminded |-> Older(@.reminded, ReminderDays),
                                 notified |-> Older(@.notified, GraceDays)]] \in AppType
  <2>1. ASSUME NEW top \in Nat, NEW age \in None..top + 1
        PROVE Older(age, top) \in None..top + 1
    <3>1. age \in Int /\ age >= -1 /\ age <= top + 1
      BY DEF None
    <3>2. CASE age = None \/ age > top
      BY <3>2 DEF Older
    <3>3. CASE ~ (age = None \/ age > top)
      BY <3>1, <3>3 DEF Older, None
    <3> QED BY <3>2, <3>3
  <2>2. ASSUME NEW top \in Nat, NEW age \in 0..top + 1 PROVE Older(age, top) \in 0..top + 1
    <3>1. age # None
      BY DEF None
    <3> QED BY <3>1 DEF Older
  <2>3. Days \in Nat /\ WarnDays \in Nat /\ ReminderDays \in Nat /\ GraceDays \in Nat
    OBVIOUS
  <2>4. Older(a.idle, Days) \in 0..Days + 1
    BY <2>2, <2>3 DEF AppType
  <2>5. /\ Older(a.notes.warned, WarnDays) \in None..WarnDays + 1
        /\ Older(a.notes.reminded, ReminderDays) \in None..ReminderDays + 1
        /\ Older(a.notes.notified, GraceDays) \in None..GraceDays + 1
    BY <2>1, <2>3 DEF AppType, NoteType
  <2> QED BY <2>4, <2>5 DEF AppType, NoteType
<1> QED
  BY <1>1, <1>2, <1>3, <1>4

(* The first day.                                                          *)
LEMMA TypeInit == Init => TypeOK
<1> SUFFICES ASSUME Init PROVE TypeOK
  OBVIOUS
<1>1. home \in Regions
  BY IdlePauseAssumption DEF Init
<1>2. app \in [Regions -> AppType]
  BY RowTypes DEF Init
<1>3. visits \in 0..Days + 1
  BY Periods DEF Init
<1>4. /\ sweep \in [Sweepers -> SweepType]
      /\ \A s \in Sweepers : lock = s <=> sweep[s].pc \in {"locked", "updated", "undo"}
  BY IdlePauseAssumption DEF Init, Rest, NoOne, SweepType
<1> QED
  BY <1>1, <1>2, <1>3, <1>4 DEF Init, TypeOK, AppType, NoOne

Aimed == TypeOK /\ SweepsAimed

(* Stages of the scan.                                                     *)
LEMMA ScanStages == DOMAIN Earlier = Stages
BY DEF Earlier, Stages

(* A statement of a sweep.                                                 *)
LEMMA TypeSweep == ASSUME Aimed, NEW s \in Sweepers, Sweep(s) \/ SweeperDies(s) PROVE Aimed'
<1> USE ScanStages DEF Aimed
<1>1. /\ sweep \in [Sweepers -> SweepType] /\ sweep[s] \in SweepType /\ home \in Regions
      /\ lease \in Sweepers \union {NoOne} /\ Rest \in SweepType
  BY DEF TypeOK, Rest, SweepType
<1>2. app \in [Regions -> AppType]
  BY DEF TypeOK, AppType
<1>3. app' \in [Regions -> AppType]
  <2>1. CASE UNCHANGED app
    BY <1>2, <2>1
  <2>2. CASE SweepClearsVisited(s)
    BY <1>1, <1>2, <2>2, RowTypes DEF SweepClearsVisited
  <2>3. CASE SweepUpdates(s)
    <3>1. sweep[s].stage \in Stages /\ sweep[s].region \in Regions
      BY <2>3 DEF SweepUpdates, SweepsAimed
    <3>2. app' = app \/ app' = [app EXCEPT ![sweep[s].region] = Stamped(sweep[s].stage, @)]
      BY <2>3 DEF SweepUpdates
    <3>3. Stamped(sweep[s].stage, app[sweep[s].region]) \in AppType
      BY <1>2, <3>1, RowTypes
    <3> QED BY <1>2, <3>1, <3>2, <3>3
  <2>4. CASE SweepUndoes(s)
    BY <1>2, <2>4, RowTypes DEF SweepUndoes, Resumed
  <2> QED
    BY <2>1, <2>2, <2>3, <2>4 DEF Sweep, SweepScans, SweepRechecks, SweepLocks, SweepValidates,
       SweepTells, SweeperDies, store
<1> DEFINE SweepsTyped ==
      /\ sweep' \in [Sweepers -> SweepType]
      /\ SweepsAimed'
      /\ \A x \in Sweepers : lock' = x <=> sweep'[x].pc \in {"locked", "updated", "undo"}
      /\ lock' = "owner" <=> lock = "owner"
      /\ lock' \in Sweepers \union {"owner", NoOne}
<1>4. SweepsTyped
  <2>1. ASSUME NEW new \in SweepType, sweep' = [sweep EXCEPT ![s] = new],
               new.pc = "visited" => new.region \in Regions,
               new.pc \notin {"rest", "visited"} => new.region \in Regions /\ new.stage \in Stages,
               new.pc \in {"locked", "updated", "undo"} <=> lock' = s,
               lock' = lock \/ (lock = NoOne /\ lock' = s) \/ (lock = s /\ lock' = NoOne)
        PROVE SweepsTyped
    <3>1. sweep' \in [Sweepers -> SweepType] /\ SweepsAimed'
      BY <1>1, <2>1 DEF SweepsAimed
    <3>2. s # NoOne /\ s # "owner" /\ NoOne # "owner" /\ lock \in Sweepers \union {"owner", NoOne}
      BY Names DEF TypeOK
    <3>3. \A x \in Sweepers : lock' = x <=> sweep'[x].pc \in {"locked", "updated", "undo"}
      <4>1. ASSUME NEW x \in Sweepers
            PROVE x # NoOne /\ (lock = x <=> sweep[x].pc \in {"locked", "updated", "undo"})
        BY Names DEF TypeOK
      <4>2. ASSUME NEW x \in Sweepers \ {s} PROVE sweep'[x] = sweep[x] /\ (lock' = x <=> lock = x)
        BY <1>1, <2>1, <3>2, <4>1
      <4>3. sweep'[s] = new
        BY <1>1, <2>1
      <4> QED BY <2>1, <4>1, <4>2, <4>3
    <3> QED BY <2>1, <3>1, <3>2, <3>3
  <2>2. \A pc \in {"scanned", "checked", "locked", "updated", "undo", "mail"} :
          /\ [sweep[s] EXCEPT !.pc = pc] \in SweepType
          /\ Goto(s, pc) => sweep' = [sweep EXCEPT ![s] = [sweep[s] EXCEPT !.pc = pc]]
    BY <1>1 DEF SweepType, Goto
  <2>3. End(s) => sweep' = [sweep EXCEPT ![s] = Rest]
    BY DEF End
  <2>4. Rest.pc = "rest" /\ s # NoOne /\ (lock = s <=> sweep[s].pc \in {"locked", "updated", "undo"})
    BY Names DEF Rest, TypeOK
  <2>5. CASE SweepScans(s)
    <3> DEFINE aim(pc, stage) == [pc |-> pc, region |-> home, stage |-> stage]
    <3>1. /\ aim("visited", "none") \in SweepType
          /\ \A stage \in Stages : aim("scanned", stage) \in SweepType
      BY <1>1 DEF SweepType
    <3>2. \/ sweep' = [sweep EXCEPT ![s] = aim("visited", "none")]
          \/ \E stage \in Stages : sweep' = [sweep EXCEPT ![s] = aim("scanned", stage)]
      BY <2>5 DEF SweepScans
    <3>3. lock' = lock /\ lock # s
      BY <2>4, <2>5 DEF SweepScans, Rest
    <3>4. CASE sweep' = [sweep EXCEPT ![s] = aim("visited", "none")]
      BY <1>1, <2>1, <3>1, <3>3, <3>4
    <3>5. ASSUME NEW stage \in Stages, sweep' = [sweep EXCEPT ![s] = aim("scanned", stage)]
          PROVE SweepsTyped
      BY <1>1, <2>1, <3>1, <3>3, <3>5
    <3> QED BY <3>2, <3>4, <3>5
  <2>6. CASE SweepClearsVisited(s) \/ SweepTells(s) \/ SweepUndoes(s) \/ SweeperDies(s)
    BY <1>1, <2>1, <2>3, <2>4, <2>6 DEF SweepClearsVisited, SweepTells, SweepUndoes, SweeperDies
  <2>7. CASE SweepRechecks(s) \/ SweepLocks(s) \/ SweepUpdates(s) \/ SweepValidates(s)
    <3>1. sweep[s].region \in Regions /\ sweep[s].stage \in Stages
      BY <2>7 DEF SweepRechecks, SweepLocks, SweepUpdates, SweepValidates, SweepsAimed
    <3>2. ASSUME End(s), (lock' = lock /\ lock # s) \/ (lock = s /\ lock' = NoOne) PROVE SweepsTyped
      BY <1>1, <2>1, <2>3, <2>4, <3>2, Names
    <3>3. ASSUME NEW pc \in {"scanned", "checked", "locked", "updated", "undo", "mail"},
                 Goto(s, pc), pc \in {"locked", "updated", "undo"} <=> lock' = s,
                 lock' = lock \/ (lock = NoOne /\ lock' = s) \/ (lock = s /\ lock' = NoOne)
          PROVE SweepsTyped
      <4> DEFINE new == [sweep[s] EXCEPT !.pc = pc]
      <4>1. new.pc = pc /\ new.region = sweep[s].region /\ new.stage = sweep[s].stage
        BY <1>1 DEF SweepType
      <4>2. new \in SweepType /\ sweep' = [sweep EXCEPT ![s] = new]
        BY <2>2, <3>3
      <4> HIDE DEF new
      <4> QED BY <2>1, <3>1, <3>3, <4>1, <4>2
    <3>4. CASE SweepRechecks(s)
      BY <2>4, <3>2, <3>3, <3>4 DEF SweepRechecks, store
    <3>5. CASE SweepLocks(s)
      BY <2>4, <3>2, <3>3, <3>5 DEF SweepLocks
    <3>6. CASE SweepUpdates(s)
      BY <2>4, <3>2, <3>3, <3>6 DEF SweepUpdates
    <3>7. CASE SweepValidates(s)
      BY <2>4, <3>3, <3>7 DEF SweepValidates
    <3> QED
      BY <2>7, <3>4, <3>5, <3>6, <3>7
  <2> QED
    BY <2>5, <2>6, <2>7 DEF Sweep
<1>5. /\ UNCHANGED <<plan, visits, home, share, owner>>
      /\ lease' \in Sweepers \union {NoOne} /\ owed' \subseteq Due
  BY <1>1 DEF TypeOK, Sweep, SweepScans, SweepClearsVisited, SweepRechecks, SweepLocks,
     SweepUpdates, SweepValidates, SweepUndoes, SweepTells, SweeperDies, store, history
<1> QED
  BY <1>3, <1>4, <1>5 DEF TypeOK, AppType

(* Every other step.                                                       *)
LEMMA TypeOthers ==
  ASSUME Aimed,
         \/ Day \/ Visit \/ MarkAppActive \/ LeaseExpires
         \/ OwnerPauses \/ OwnerReadsPlan \/ OwnerResumes \/ ChangePlan \/ Cutover
         \/ \E u \in Resumers : ResumeShares(u) \/ ResumeApp(u) \/ ResumeGivesUp(u)
  PROVE Aimed'
<1> USE DEF Aimed
<1>1. app \in [Regions -> AppType] /\ home \in Regions /\ visits \in 0..Days + 1
  BY DEF TypeOK, AppType
<1>2. app' \in [Regions -> AppType] /\ home' \in Regions /\ visits' \in 0..Days + 1
  <2>1. CASE Day
    <3>1. \A r \in Regions : app'[r] \in AppType
      <4> DEFINE old(r) ==
             [app[r] EXCEPT !.idle = Older(@, Days),
                            !.notes = [warned |-> Older(@.warned, WarnDays),
                                       reminded |-> Older(@.reminded, ReminderDays),
                                       notified |-> Older(@.notified, GraceDays)]]
      <4>1. \A r \in Regions : app[r] \in AppType /\ app'[r] = old(r)
        BY <1>1, <2>1 DEF Day
      <4> QED BY <4>1, RowTypes
    <3>2. app' \in [Regions -> AppType]
      <4>1. app' = [r \in Regions |-> app'[r]]
        BY <2>1 DEF Day
      <4> QED BY <3>1, <4>1
    <3>3. visits' \in 0..Days + 1
      <4>1. visits' = IF visits <= Days THEN visits + 1 ELSE visits
        BY <2>1 DEF Day, Visited
      <4> QED BY <1>1, <4>1, Periods
    <3> QED BY <1>1, <2>1, <3>2, <3>3 DEF Day
  <2>2. CASE Visit \/ LeaseExpires \/ OwnerReadsPlan \/ ChangePlan
    <3>1. 0 \in 0..Days + 1
      BY Periods
    <3> QED BY <1>1, <2>2, <3>1 DEF Visit, LeaseExpires, OwnerReadsPlan, ChangePlan, store
  <2>3. CASE MarkAppActive
    BY <1>1, <2>3, RowTypes DEF MarkAppActive
  <2>4. CASE OwnerPauses
    <3>1. \A by \in {"no", "owner", "idle_reaper"} : [app[home] EXCEPT !.by = by] \in AppType
      BY <1>1, RowTypes
    <3> QED BY <1>1, <2>4, <3>1 DEF OwnerPauses
  <2>5. CASE OwnerResumes
    BY <1>1, <2>5, RowTypes DEF OwnerResumes, Resumed
  <2>6. CASE Cutover
    BY <1>1, <2>6 DEF Cutover
  <2>7. ASSUME NEW u \in Resumers, ResumeShares(u) \/ ResumeApp(u) \/ ResumeGivesUp(u)
        PROVE app' \in [Regions -> AppType] /\ home' \in Regions /\ visits' \in 0..Days + 1
    BY <1>1, <2>7, RowTypes DEF ResumeShares, ResumeApp, ResumeGivesUp, Resumed, store
  <2> QED
    BY <2>1, <2>2, <2>3, <2>4, <2>5, <2>6, <2>7
<1>3. /\ sweep' = sweep /\ lease' \in Sweepers \union {NoOne} /\ owed' \subseteq Due
      /\ plan' \in {"free", "paid"} /\ owner' \in {"rest", "free", "paid"}
      /\ share' \subseteq Resumers /\ (share' # {} => plan' = "paid")
  BY DEF TypeOK, Day, Visit, MarkAppActive, LeaseExpires, OwnerPauses, OwnerReadsPlan,
     OwnerResumes, ChangePlan, Cutover, ResumeShares, ResumeApp, ResumeGivesUp, store, history
<1>4. /\ lock' \in Sweepers \union {"owner", NoOne} /\ (lock' = "owner" <=> owner' # "rest")
      /\ \A s \in Sweepers : lock' = s <=> lock = s
  <2>1. lock \in Sweepers \union {"owner", NoOne} /\ (lock = "owner" <=> owner # "rest")
        /\ plan \in {"free", "paid"}
    BY DEF TypeOK
  <2>2. CASE lock' = lock /\ owner' = owner
    BY <2>1, <2>2
  <2>3. CASE OwnerReadsPlan \/ OwnerResumes
    BY <2>1, <2>3, Names DEF OwnerReadsPlan, OwnerResumes
  <2> QED
    BY <2>2, <2>3 DEF Day, Visit, MarkAppActive, LeaseExpires, OwnerPauses, ChangePlan, Cutover,
       ResumeShares, ResumeApp, ResumeGivesUp, store
<1> QED
  BY <1>2, <1>3, <1>4 DEF TypeOK, AppType, SweepsAimed

(* Every step keeps the types.                                             *)
LEMMA TypeNext == Aimed /\ [Next]_vars => Aimed'
<1> SUFFICES ASSUME Aimed, [Next]_vars PROVE Aimed'
  OBVIOUS
<1>1. CASE UNCHANGED vars
  BY <1>1 DEF vars, store, bounds, history, Aimed, TypeOK, SweepsAimed
<1> QED
  BY <1>1, TypeSweep, TypeOthers DEF Next

---------------------------------------------------------------------------
(* The chain of mails, one lemma for each kind of step.                    *)

(* What the records of a row are.                                          *)
LEMMA Rows ==
  /\ Awake.by = "no" /\ Awake.notes = Quiet /\ Quiet.notified = None
  /\ \A a : a.notes = Quiet => \A m \in Mails : Note(a, m) = None
  /\ Due \subseteq Mails /\ {"warn", "notify"} \subseteq Due
BY DEF Awake, Quiet, Note, Mails, Due

(* Nothing is noted at first.                                              *)
LEMMA ChainInit == Init => ChainInv
<1> SUFFICES ASSUME Init PROVE ChainInv
  OBVIOUS
<1>1. home \in Regions
  BY IdlePauseAssumption DEF Init
<1>2. /\ \A s \in Sweepers : sweep[s].pc = "rest"
      /\ \A r \in Regions : app[r] = Awake
  BY DEF Init, Rest
<1>3. /\ Awake.by = "no" /\ Awake.notes.notified = None
      /\ \A m \in Mails : Note(Awake, m) = None
  BY DEF Awake, Quiet, Note, Mails
<1>4. owed \subseteq Mails
  BY DEF Init, Due
<1>5. SweepsAimed /\ LockHolds /\ StampsAreNew /\ PauseWasDue
  BY <1>2 DEF SweepsAimed, LockHolds, StampsAreNew, PauseWasDue, Stamping
<1>6. NotesInOrder
  BY <1>2, <1>3 DEF NotesInOrder
<1>7. OwedHasReason
  BY <1>1, <1>2, <1>3, <1>4 DEF OwedHasReason
<1>8. OwnerWasTold
  BY <1>1, <1>2, <1>3 DEF OwnerWasTold, IdlePaused
<1> QED
  BY <1>5, <1>6, <1>7, <1>8 DEF ChainInv

(* A step that changes neither the app nor what is owed, and no sweep      *)
(* behind its UPDATE.                                                      *)
LEMMA ChainQuiet ==
  ASSUME Aimed, ChainInv, SweepsAimed',
         UNCHANGED <<plan, visits, home, app, owed>>, seen' <=> seen, cut' <=> cut,
         \A s \in Sweepers : \/ sweep'[s] = sweep[s]
                             \/ sweep'[s].pc \in {"rest", "visited", "scanned", "checked"}
                                /\ sweep[s].pc \in {"rest", "visited", "scanned", "checked", "locked"}
                             \/ sweep'[s].pc = "locked" /\ sweep'[s].region = home
                                /\ sweep[s].pc = "checked"
  PROVE ChainInv'
<1> USE DEF ChainInv
<1>1. \A s \in Sweepers : sweep'[s].pc \in {"updated", "undo", "mail"} \/ sweep[s].pc \in {"updated", "undo", "mail"}
                            => sweep'[s] = sweep[s]
  OBVIOUS
<1>2. LockHolds'
  BY <1>1 DEF LockHolds
<1>3. NotesInOrder'
  BY DEF NotesInOrder
<1>4. \A s \in Sweepers, m \in Mails \union {"pause"} : Stamping(s, m)' <=> Stamping(s, m)
  BY <1>1 DEF Stamping
<1>5. StampsAreNew'
  BY <1>4, Rows DEF StampsAreNew
<1>6. OwedHasReason'
  <2>1. owed \subseteq Mails
    BY DEF Aimed, TypeOK, Due
  <2> QED BY <1>4, <2>1 DEF OwedHasReason, Unmet, Visited
<1>7. PauseWasDue'
  BY <1>1 DEF PauseWasDue, Visited
<1>8. OwnerWasTold'
  BY <1>1 DEF OwnerWasTold, IdlePaused
<1> QED
  BY <1>2, <1>3, <1>5, <1>6, <1>7, <1>8

(* A step under nobody's lock that resets the row, or changes nothing that *)
(* the chain depends on, or takes the row along to another region.         *)
Reset == app' = [app EXCEPT ![home] = Awake] /\ home' = home /\ owed' \in {owed, Due}
Label == /\ home' = home /\ owed' = owed
         /\ \E by \in {"owner", "idle_reaper"} :
              app' = [app EXCEPT ![home].by = by] /\ (by = "idle_reaper" <=> IdlePaused)
Carried == home' \in Regions /\ app' = [app EXCEPT ![home'] = app[home]] /\ owed' = owed

LEMMA ChainUnlocked ==
  ASSUME Aimed, ChainInv, lock \notin Sweepers, Reset \/ Label \/ Carried,
         UNCHANGED <<plan, visits, sweep, seen, cut>>
  PROVE ChainInv'
<1> USE DEF ChainInv
<1>1. /\ app \in [Regions -> AppType] /\ home \in Regions /\ home' \in Regions
      /\ owed \subseteq Mails /\ owed' \subseteq Mails
  BY Rows DEF Aimed, TypeOK, AppType, Reset, Label, Carried
<1>2. \A s \in Sweepers : sweep[s].pc \notin {"locked", "updated", "undo"}
  BY DEF Aimed, TypeOK
<1>3. SweepsAimed' /\ LockHolds' /\ PauseWasDue'
  BY <1>2 DEF SweepsAimed, LockHolds, PauseWasDue
<1>4. \/ app'[home'] = Awake
      \/ app'[home'].notes = app[home].notes /\ (app'[home'].by = app[home].by \/ Label)
  BY <1>1 DEF Reset, Label, Carried, AppType
<1>5. ASSUME NEW r \in Regions
      PROVE app'[r].notes = Quiet \/ (\E x \in Regions : app'[r].notes = app[x].notes)
  BY <1>1, Rows DEF Reset, Label, Carried, AppType
<1>6. NotesInOrder'
  <2>1. ASSUME NEW r \in Regions, NEW x \in Regions, app'[r].notes = app[x].notes,
               NEW m \in Due
        PROVE Note(app'[r], m) = Note(app[x], m)
    BY <2>1 DEF Note
  <2> QED BY <1>5, <2>1, Rows DEF NotesInOrder
<1>7. ASSUME NEW m \in Mails
      PROVE Note(app'[home'], m) \in {None, Note(app[home], m)}
  BY <1>4, <1>7, Rows DEF Note
<1>8. app'[home'].notes.notified \in {None, app[home].notes.notified}
  BY <1>4, Rows
<1>9. StampsAreNew'
  BY <1>7, <1>8, Rows DEF StampsAreNew, Stamping
<1>10. OwedHasReason'
  <2>1. CASE app'[home'] = Awake
    BY <1>1, <2>1, Rows DEF OwedHasReason
  <2>2. CASE Label
    <3>1. app'[home'].by # "no"
      BY <1>1, <2>2 DEF Label, AppType
    <3> QED BY <3>1 DEF OwedHasReason
  <2>3. CASE /\ app'[home'].notes = app[home].notes /\ app'[home'].by = app[home].by
             /\ owed' = owed
    <3>1. \A m \in Mails : Note(app'[home'], m) = Note(app[home], m)
      BY <2>3 DEF Note
    <3> QED BY <1>1, <2>3, <3>1 DEF OwedHasReason, Unmet, Visited, Stamping
  <2> QED BY <1>1, <1>4, <2>1, <2>2, <2>3 DEF Reset, Carried
<1>11. OwnerWasTold'
  <2>1. IdlePaused' => IdlePaused /\ owed' = owed
    BY <1>1, Rows DEF IdlePaused, Reset, Label, Carried, AppType
  <2> QED BY <2>1 DEF OwnerWasTold
<1> QED
  BY <1>3, <1>6, <1>9, <1>10, <1>11

(* A day passes when no sweep is between its UPDATE and its mail.          *)
LEMMA ChainDay == ASSUME Aimed, ChainInv, Day PROVE ChainInv'
<1> USE DEF ChainInv
<1>1. /\ app \in [Regions -> AppType] /\ home \in Regions /\ owed \subseteq Mails
      /\ UNCHANGED <<plan, home, sweep, owed, seen, cut>>
  BY Rows DEF Aimed, TypeOK, AppType, Day, history
<1>2. \A s \in Sweepers : sweep[s].pc \notin {"locked", "updated", "undo", "mail"}
  BY DEF Day, Busy
<1>3. SweepsAimed' /\ LockHolds' /\ PauseWasDue' /\ StampsAreNew'
  BY <1>1, <1>2 DEF SweepsAimed, LockHolds, PauseWasDue, StampsAreNew, Stamping
<1>4. ASSUME NEW r \in Regions, NEW m \in Mails
      PROVE /\ Note(app'[r], m) = None <=> Note(app[r], m) = None
            /\ app'[r].notes.notified = None <=> app[r].notes.notified = None
            /\ app'[r].by = app[r].by
  <2>1. app[r] \in AppType /\ app[r].notes \in NoteType
    BY <1>1 DEF AppType
  <2>2. app'[r] = [app[r] EXCEPT !.idle = Older(@, Days),
                                 !.notes = [warned |-> Older(@.warned, WarnDays),
                                            reminded |-> Older(@.reminded, ReminderDays),
                                            notified |-> Older(@.notified, GraceDays)]]
    BY DEF Day
  <2>3. /\ app'[r].by = app[r].by
        /\ app'[r].notes.warned = Older(app[r].notes.warned, WarnDays)
        /\ app'[r].notes.reminded = Older(app[r].notes.reminded, ReminderDays)
        /\ app'[r].notes.notified = Older(app[r].notes.notified, GraceDays)
    BY <2>1, <2>2 DEF AppType
  <2>4. ASSUME NEW top \in Nat, NEW age \in None..top + 1
        PROVE Older(age, top) = None <=> age = None
    BY DEF Older, None
  <2> QED BY <2>1, <2>3, <2>4, Periods DEF Note, NoteType, Mails
<1>5. NotesInOrder'
  BY <1>4, Rows DEF NotesInOrder
<1>6. OwedHasReason'
  <2>1. ASSUME app[home].by = "no", Unmet PROVE Unmet'
    <3>1. visits \in 0..Days + 1 /\ Days \in Nat /\ visits <= Days
      BY <2>1, Periods DEF Unmet, Visited, Aimed, TypeOK
    <3>2. visits # Days /\ visits' = visits + 1
      BY <2>1 DEF Day, Unmet, Visited
    <3>3. visits' <= Days
      BY <3>1, <3>2
    <3> QED BY <1>1, <2>1, <3>3 DEF Unmet, Visited
  <2> QED BY <1>1, <1>2, <1>4, <2>1 DEF OwedHasReason, Stamping
<1>7. OwnerWasTold'
  BY <1>1, <1>4 DEF OwnerWasTold, IdlePaused, Mails
<1> QED
  BY <1>3, <1>5, <1>6, <1>7

(* Visits, and a change of the plan.                                       *)
LEMMA ChainVisit == ASSUME Aimed, ChainInv, Visit PROVE ChainInv'
<1> USE DEF ChainInv
<1>1. /\ UNCHANGED <<plan, home, app, sweep, cut>> /\ visits' = 0 /\ seen' = FALSE
      /\ owed' = IF plan = "free" /\ app[home].by = "no" THEN Due ELSE owed
      /\ Visited' /\ plan \in {"free", "paid"} /\ owed \subseteq Mails
  BY Periods, Rows DEF Visit, Visited, Aimed, TypeOK
<1>2. SweepsAimed' /\ LockHolds' /\ NotesInOrder' /\ StampsAreNew' /\ PauseWasDue'
  BY <1>1 DEF SweepsAimed, LockHolds, NotesInOrder, StampsAreNew, PauseWasDue, Stamping
<1>3. OwedHasReason'
  BY <1>1 DEF OwedHasReason, Unmet, Stamping
<1>4. OwnerWasTold'
  BY <1>1 DEF OwnerWasTold, IdlePaused
<1> QED
  BY <1>2, <1>3, <1>4

LEMMA ChainPlan == ASSUME Aimed, ChainInv, ChangePlan PROVE ChainInv'
<1> USE DEF ChainInv
<1>1. /\ UNCHANGED <<visits, home, app, sweep, seen, cut>>
      /\ owed' = IF plan = "free" THEN {} ELSE owed
      /\ plan \in {"free", "paid"}
  BY DEF ChangePlan, Aimed, TypeOK
<1>2. SweepsAimed' /\ LockHolds' /\ NotesInOrder' /\ StampsAreNew' /\ PauseWasDue'
  BY <1>1 DEF SweepsAimed, LockHolds, NotesInOrder, StampsAreNew, PauseWasDue, Stamping, Visited
<1>3. OwedHasReason'
  BY <1>1 DEF OwedHasReason, Unmet, Stamping
<1>4. OwnerWasTold'
  BY <1>1 DEF OwnerWasTold, IdlePaused
<1> QED
  BY <1>2, <1>3, <1>4

(* Visits take back the notes.                                             *)
LEMMA ChainClears ==
  ASSUME Aimed, ChainInv, NEW s \in Sweepers, SweepClearsVisited(s), SweepsAimed'
  PROVE ChainInv'
<1> USE DEF ChainInv
<1>1. /\ app \in [Regions -> AppType] /\ home \in Regions /\ owed \subseteq Mails
      /\ sweep \in [Sweepers -> SweepType]
      /\ UNCHANGED <<plan, visits, home, owed, cut>>
  BY Rows DEF Aimed, TypeOK, AppType, SweepClearsVisited
<1>2. \A x \in Sweepers : sweep[x].pc \notin {"locked", "updated", "undo"}
  BY Names DEF Aimed, TypeOK, SweepClearsVisited
<1>3. \A x \in Sweepers : sweep'[x].pc \in {"rest", sweep[x].pc}
                         /\ (sweep[x].pc # "visited" => sweep'[x] = sweep[x])
                         /\ (sweep[x].pc = "visited" => sweep'[x].pc \in {"visited", "rest"})
  BY <1>1 DEF SweepClearsVisited, End, Rest
<1>4. \A x \in Sweepers, m \in Mails : Stamping(x, m)' <=> Stamping(x, m)
  BY <1>3 DEF Stamping
<1>5. app' = app \/ app' = [app EXCEPT ![home].notes = Quiet]
  BY DEF SweepClearsVisited
<1>6. app'[home].notes = Quiet \/ (app' = app /\ (seen' <=> seen))
  <2>1. CASE app' = app
    BY <2>1 DEF SweepClearsVisited
  <2>2. CASE app' = [app EXCEPT ![home].notes = Quiet]
    BY <1>1, <2>2 DEF AppType
  <2> QED BY <1>5, <2>1, <2>2
<1>7. \A r \in Regions : /\ app'[r].by = app[r].by
                        /\ app'[r].notes \in {app[r].notes, Quiet}
  BY <1>1, <1>5 DEF AppType
<1>8. LockHolds' /\ PauseWasDue'
  BY <1>2, <1>3 DEF LockHolds, PauseWasDue
<1>9. NotesInOrder'
  BY <1>7, Rows DEF NotesInOrder, Note
<1>10. StampsAreNew'
  BY <1>1, <1>4, <1>7, Rows DEF StampsAreNew, Note
<1>11. OwedHasReason'
  <2>1. CASE app'[home].notes = Quiet
    BY <1>1, <2>1, Rows DEF OwedHasReason
  <2>2. CASE app' = app /\ (seen' <=> seen)
    BY <1>1, <1>4, <2>2 DEF OwedHasReason, Unmet, Visited
  <2> QED BY <1>6, <2>1, <2>2
<1>12. OwnerWasTold'
  BY <1>1, <1>2, <1>7 DEF OwnerWasTold, IdlePaused
<1> QED
  BY <1>8, <1>9, <1>10, <1>11, <1>12

(* The UPDATE.                                                             *)
LEMMA ChainUpdates ==
  ASSUME Aimed, ChainInv, NEW s \in Sweepers, SweepUpdates(s), SweepsAimed',
         StillDue(sweep[s].stage, app[sweep[s].region])
  PROVE ChainInv'
<1> USE DEF ChainInv
<1> DEFINE stage == sweep[s].stage
           a == app[home]
<1>1. /\ app \in [Regions -> AppType] /\ home \in Regions /\ owed \subseteq Due
      /\ sweep \in [Sweepers -> SweepType]
      /\ UNCHANGED <<plan, visits, home, owed, seen, cut>>
  BY DEF Aimed, TypeOK, AppType, SweepUpdates, history
<1>2. sweep[s].pc = "locked" /\ sweep[s].region = home /\ stage \in Stages
  BY DEF SweepUpdates, LockHolds, SweepsAimed
<1>3. \A x \in Sweepers \ {s} : sweep[x].pc \notin {"locked", "updated", "undo"}
  BY <1>2 DEF Aimed, TypeOK
<1>4. /\ app' = [app EXCEPT ![home] = Stamped(stage, a)]
      /\ sweep' = [sweep EXCEPT ![s].pc = "updated"]
  BY <1>2 DEF SweepUpdates, Goto
<1>5. a \in AppType /\ a.notes \in NoteType /\ app'[home] = Stamped(stage, a)
  BY <1>1, <1>4 DEF AppType
<1>6. a.by = "no" /\ StageHolds(stage, a)
  BY <1>2 DEF StillDue, Candidate
<1>7. /\ sweep'[s].pc = "updated" /\ sweep'[s].stage = stage /\ sweep'[s].region = home
      /\ \A x \in Sweepers \ {s} : sweep'[x] = sweep[x]
  BY <1>1, <1>2, <1>4 DEF SweepType
<1>8. /\ Stamped(stage, a).by = IF stage = "pause" THEN "idle_reaper" ELSE "no"
      /\ \A m \in Mails : Note(Stamped(stage, a), m) = IF m = stage THEN 0 ELSE Note(a, m)
      /\ Stamped(stage, a).notes.notified = IF stage = "notify" THEN 0 ELSE a.notes.notified
  BY <1>2, <1>5, <1>6 DEF Stamped, Stages, Mails, Note, AppType, NoteType
<1>9. /\ ReminderDays \in Nat /\ WarnDays \in Nat /\ GraceDays \in Nat
      /\ a.notes.warned \in Int /\ a.notes.reminded \in Int /\ a.notes.notified \in Int
  BY <1>5, Periods DEF NoteType, None
<1>10. /\ stage = "warn" => a.notes.warned = None
       /\ stage = "remind" => a.notes.notified = None /\ a.notes.reminded = None
       /\ stage = "notify" => /\ a.notes.warned > 0 /\ a.notes.notified = None
                              /\ ReminderDays = 0 \/ a.notes.reminded > 0
       /\ stage = "pause" => a.notes.warned > 0 /\ a.notes.notified > 0
  <2>1. CASE stage = "warn"
    BY <1>6, <2>1 DEF StageHolds
  <2>2. CASE stage = "remind"
    BY <1>6, <2>2 DEF StageHolds
  <2>3. CASE stage = "notify"
    BY <1>6, <1>9, <2>3 DEF StageHolds
  <2>4. CASE stage = "pause"
    BY <1>6, <1>9, <2>4 DEF StageHolds
  <2> QED BY <1>2, <2>1, <2>2, <2>3, <2>4 DEF Stages
<1>11. "remind" \in Due <=> ReminderDays # 0
  BY DEF Due, Mails
<1>12. LockHolds'
  BY <1>1, <1>3, <1>5, <1>7, <1>8 DEF LockHolds
<1>13. \A m \in Mails : Note(a, m) # None => Note(app'[home], m) # None
  BY <1>5, <1>8 DEF None
<1>14. NotesInOrder'
  <2>1. ASSUME app'[home].notes.notified # None, NEW m \in Due PROVE Note(app'[home], m) # None
    <3>1. CASE stage = "notify"
      <4>1. Note(a, m) # None \/ m = "notify"
        BY <1>10, <1>11, <3>1 DEF Note, Due, Mails, None
      <4> QED BY <1>5, <1>8, <1>13, <3>1, <4>1, Rows DEF None
    <3>2. CASE stage # "notify"
      BY <1>1, <1>5, <1>8, <1>13, <2>1, <3>2, Rows DEF NotesInOrder
    <3> QED BY <3>1, <3>2
  <2>2. \A r \in Regions \ {home} : app'[r] = app[r]
    BY <1>1, <1>4
  <2> QED BY <2>1, <2>2 DEF NotesInOrder
<1>15. StampsAreNew'
  <2>1. ASSUME NEW x \in Sweepers, NEW m \in Due, Stamping(x, m)'
        PROVE /\ Note(app'[home], m) \in {None, 0}
              /\ m = "remind" => app'[home].notes.notified = None
    <3>1. CASE x = s
      <4>1. m = stage
        BY <1>7, <2>1, <3>1 DEF Stamping
      <4> QED BY <1>5, <1>8, <1>10, <4>1, Rows
    <3>2. CASE x # s
      <4>1. Stamping(x, m)
        BY <1>7, <2>1, <3>2 DEF Stamping
      <4>2. Note(a, m) \in {None, 0} /\ (m = "remind" => a.notes.notified = None)
        BY <4>1 DEF StampsAreNew
      <4>3. m = "remind" => stage # "notify"
        BY <1>9, <1>10, <1>11, <4>2 DEF Note, None
      <4> QED BY <1>5, <1>8, <4>2, <4>3, Rows
    <3> QED BY <3>1, <3>2
  <2> QED BY <1>1, <2>1 DEF StampsAreNew
<1>16. OwedHasReason'
  <2>1. ASSUME stage # "pause", ~ cut, NEW m \in owed, Note(app'[home], m) # None
        PROVE Unmet' \/ \E x \in Sweepers : Stamping(x, m)'
    <3>1. CASE m = stage
      BY <1>7, <3>1 DEF Stamping
    <3>2. CASE m # stage
      <4>1. Note(a, m) # None /\ m \in Mails
        BY <1>1, <1>5, <1>8, <2>1, <3>2, Rows
      <4>2. Unmet \/ \E x \in Sweepers : Stamping(x, m)
        BY <1>6, <2>1, <4>1 DEF OwedHasReason
      <4>3. \A x \in Sweepers : Stamping(x, m) => Stamping(x, m)'
        BY <1>2, <1>7 DEF Stamping
      <4> QED BY <1>1, <4>2, <4>3 DEF Unmet, Visited
    <3> QED BY <3>1, <3>2
  <2> QED BY <1>1, <1>5, <1>8, <2>1 DEF OwedHasReason
<1>17. PauseWasDue'
  <2>1. ASSUME stage = "pause", ~ cut PROVE owed = {} \/ Visited
    <3>1. ASSUME NEW m \in owed, ~ Visited PROVE FALSE
      <4>1. a.notes.notified # None /\ m \in Due
        BY <1>1, <1>9, <1>10, <2>1 DEF None
      <4>2. Note(a, m) # None
        BY <1>1, <4>1 DEF NotesInOrder
      <4>3. PICK x \in Sweepers : Stamping(x, m)
        BY <1>6, <2>1, <3>1, <4>2 DEF OwedHasReason, Unmet
      <4>4. Note(a, m) = 0 /\ m # "remind"
        BY <4>1, <4>2, <4>3 DEF StampsAreNew
      <4> QED BY <1>9, <1>10, <2>1, <4>1, <4>4 DEF Note, Due, Mails
    <3> QED BY <3>1
  <2> QED BY <1>1, <1>3, <1>7, <2>1 DEF PauseWasDue, Visited
<1>18. OwnerWasTold'
  BY <1>7 DEF OwnerWasTold
<1> QED
  BY <1>12, <1>14, <1>15, <1>16, <1>17, <1>18

(* The plan and the visits once more.                                      *)
LEMMA ChainValidates ==
  ASSUME Aimed, ChainInv, NEW s \in Sweepers, SweepValidates(s), SweepsAimed'
  PROVE ChainInv'
<1> USE DEF ChainInv
<1>1. /\ sweep \in [Sweepers -> SweepType] /\ owed \subseteq Mails
      /\ UNCHANGED <<plan, visits, home, app, owed, seen, cut>>
      /\ sweep[s].pc = "updated"
  BY Rows DEF Aimed, TypeOK, SweepValidates, store, history
<1>2. PICK pc \in {"mail", "undo"} :
        sweep' = [sweep EXCEPT ![s].pc = pc] /\ (pc = "mail" => ~ Visited)
  BY DEF SweepValidates, Goto
<1>3. /\ sweep'[s].pc = pc /\ sweep'[s].stage = sweep[s].stage
      /\ sweep'[s].region = sweep[s].region
      /\ \A x \in Sweepers \ {s} : sweep'[x] = sweep[x]
  BY <1>1, <1>2 DEF SweepType
<1>4. \A x \in Sweepers \ {s} : sweep[x].pc \notin {"locked", "updated", "undo"}
  BY <1>1 DEF Aimed, TypeOK
<1>5. \A x \in Sweepers, m \in Mails : Stamping(x, m)' <=> Stamping(x, m)
  BY <1>1, <1>2, <1>3 DEF Stamping
<1>6. LockHolds'
  BY <1>1, <1>2, <1>3 DEF LockHolds
<1>7. NotesInOrder'
  BY <1>1 DEF NotesInOrder
<1>8. StampsAreNew'
  BY <1>1, <1>5, Rows DEF StampsAreNew
<1>9. OwedHasReason'
  BY <1>1, <1>5 DEF OwedHasReason, Unmet, Visited
<1>10. PauseWasDue'
  BY <1>1, <1>2, <1>3 DEF PauseWasDue, Visited
<1>11. OwnerWasTold'
  <2>1. CASE pc = "undo"
    BY <1>3, <2>1 DEF OwnerWasTold
  <2>2. CASE pc = "mail"
    <3>1. IdlePaused => sweep[s].stage = "pause"
      BY <1>1 DEF LockHolds, IdlePaused
    <3> QED BY <1>1, <1>2, <2>2, <3>1 DEF OwnerWasTold, PauseWasDue, IdlePaused
  <2> QED BY <1>2, <2>1, <2>2
<1> QED
  BY <1>6, <1>7, <1>8, <1>9, <1>10, <1>11

(* The compensation.                                                       *)
LEMMA ChainUndoes ==
  ASSUME Aimed, ChainInv, NEW s \in Sweepers, SweepUndoes(s), SweepsAimed'
  PROVE ChainInv'
<1> USE DEF ChainInv
<1>1. /\ app \in [Regions -> AppType] /\ home \in Regions
      /\ sweep \in [Sweepers -> SweepType] /\ owed' = Due
      /\ UNCHANGED <<plan, visits, home, seen, cut>>
      /\ sweep[s].pc = "undo" /\ sweep[s].region = home
      /\ app[home].by = IF sweep[s].stage = "pause" THEN "idle_reaper" ELSE "no"
      /\ sweep' = [sweep EXCEPT ![s] = Rest]
  BY DEF Aimed, TypeOK, AppType, SweepUndoes, LockHolds, End
<1>2. \A x \in Sweepers \ {s} : sweep[x].pc \notin {"locked", "updated", "undo"}
  BY <1>1 DEF Aimed, TypeOK
<1>3. /\ sweep'[s].pc = "rest" /\ \A x \in Sweepers \ {s} : sweep'[x] = sweep[x]
  BY <1>1 DEF Rest
<1>4. app'[home].notes = Quiet /\ app'[home].by = "no"
      /\ \A r \in Regions \ {home} : app'[r] = app[r]
  <2>1. app' = [app EXCEPT ![home] = IF sweep[s].stage = "pause"
                                     THEN IF @.by = "idle_reaper" THEN Awake ELSE @
                                     ELSE IF @.by = "no" THEN [@ EXCEPT !.notes = Quiet] ELSE @]
    BY <1>1 DEF SweepUndoes, Resumed
  <2>2. app[home] \in AppType
    BY <1>1
  <2>3. CASE sweep[s].stage = "pause"
    BY <1>1, <2>1, <2>3, Rows
  <2>4. CASE sweep[s].stage # "pause"
    <3>1. app' = [app EXCEPT ![home] = [@ EXCEPT !.notes = Quiet]]
      BY <1>1, <2>1, <2>4
    <3> QED BY <1>1, <2>2, <2>4, <3>1 DEF AppType
  <2> QED BY <2>3, <2>4
<1>5. LockHolds' /\ PauseWasDue'
  BY <1>2, <1>3 DEF LockHolds, PauseWasDue
<1>6. NotesInOrder'
  BY <1>4, Rows DEF NotesInOrder
<1>7. StampsAreNew'
  BY <1>1, <1>4, Rows DEF StampsAreNew
<1>8. OwedHasReason'
  BY <1>1, <1>4, Rows DEF OwedHasReason
<1>9. OwnerWasTold'
  BY <1>1, <1>4 DEF OwnerWasTold, IdlePaused
<1> QED
  BY <1>5, <1>6, <1>7, <1>8, <1>9

(* The mail.                                                               *)
LEMMA ChainTells ==
  ASSUME Aimed, ChainInv, NEW s \in Sweepers, SweepTells(s), SweepsAimed'
  PROVE ChainInv'
<1> USE DEF ChainInv
<1>1. /\ sweep \in [Sweepers -> SweepType] /\ owed \subseteq Mails
      /\ UNCHANGED <<plan, visits, home, app, seen, cut>>
      /\ sweep[s].pc = "mail" /\ owed' = owed \ {sweep[s].stage}
      /\ sweep' = [sweep EXCEPT ![s] = Rest]
  BY Rows DEF Aimed, TypeOK, SweepTells, store, End
<1>2. /\ sweep'[s].pc = "rest" /\ \A x \in Sweepers \ {s} : sweep'[x] = sweep[x]
  BY <1>1 DEF Rest
<1>3. \A x \in Sweepers, m \in Mails :
        /\ Stamping(x, m)' => Stamping(x, m)
        /\ Stamping(x, m) /\ m # sweep[s].stage => Stamping(x, m)'
  BY <1>2 DEF Stamping
<1>4. LockHolds' /\ NotesInOrder' /\ PauseWasDue'
  BY <1>1, <1>2 DEF LockHolds, NotesInOrder, PauseWasDue, Visited
<1>5. StampsAreNew'
  BY <1>1, <1>3, Rows DEF StampsAreNew
<1>6. OwedHasReason'
  BY <1>1, <1>3 DEF OwedHasReason, Unmet, Visited
<1>7. OwnerWasTold'
  BY <1>1, <1>2 DEF OwnerWasTold, IdlePaused
<1> QED
  BY <1>4, <1>5, <1>6, <1>7

(* A death between the UPDATE and the mail ends the promise.               *)
LEMMA ChainDies ==
  ASSUME Aimed, ChainInv, NEW s \in Sweepers, SweeperDies(s), SweepsAimed'
  PROVE ChainInv'
<1> USE DEF ChainInv
<1>1. /\ sweep \in [Sweepers -> SweepType]
      /\ UNCHANGED <<plan, visits, home, app, owed, seen>>
      /\ sweep' = [sweep EXCEPT ![s] = Rest]
      /\ cut' = (cut \/ sweep[s].pc \in {"updated", "undo", "mail"})
  BY DEF Aimed, TypeOK, SweeperDies, store, End
<1>2. /\ sweep'[s] = Rest /\ Rest.pc = "rest" /\ \A x \in Sweepers \ {s} : sweep'[x] = sweep[x]
  BY <1>1 DEF Rest
<1>3. CASE sweep[s].pc \in {"updated", "undo", "mail"}
  <2>1. cut'
    BY <1>1, <1>3
  <2>2. LockHolds' /\ NotesInOrder' /\ StampsAreNew'
    BY <1>1, <1>2 DEF LockHolds, NotesInOrder, StampsAreNew, Stamping
  <2> QED BY <2>1, <2>2 DEF OwedHasReason, PauseWasDue, OwnerWasTold
<1>4. CASE sweep[s].pc \notin {"updated", "undo", "mail"}
  <2>1. sweep[s].pc \in {"rest", "visited", "scanned", "checked", "locked"}
    BY <1>1, <1>4 DEF SweepType
  <2>2. cut' <=> cut
    BY <1>1, <1>4
  <2> QED BY <1>1, <1>2, <2>1, <2>2, ChainQuiet
<1> QED
  BY <1>3, <1>4

(* Every step of a sweep.                                                  *)
LEMMA ChainSweep ==
  ASSUME Aimed, ChainInv, NEW s \in Sweepers, Sweep(s), SweepsAimed' PROVE ChainInv'
<1>1. /\ sweep \in [Sweepers -> SweepType] /\ Rest.pc = "rest"
      /\ \A pc \in {"checked", "locked"} :
           Goto(s, pc) => /\ sweep'[s].pc = pc /\ sweep'[s].region = sweep[s].region
                          /\ \A x \in Sweepers \ {s} : sweep'[x] = sweep[x]
      /\ End(s) => sweep'[s] = Rest /\ \A x \in Sweepers \ {s} : sweep'[x] = sweep[x]
  BY DEF Aimed, TypeOK, SweepType, Goto, End, Rest
<1>2. CASE SweepScans(s)
  <2>1. /\ sweep[s].pc = "rest" /\ sweep'[s].pc \in {"visited", "scanned"}
        /\ \A x \in Sweepers \ {s} : sweep'[x] = sweep[x]
    BY <1>1, <1>2 DEF SweepScans
  <2>2. UNCHANGED <<plan, visits, home, app, owed, seen, cut>>
    BY <1>2 DEF SweepScans, store, history
  <2> QED BY <2>1, <2>2, ChainQuiet
<1>3. CASE SweepRechecks(s)
  <2>1. UNCHANGED <<plan, visits, home, app, owed, seen, cut>>
    BY <1>3 DEF SweepRechecks, store, history
  <2>2. /\ sweep[s].pc = "scanned" /\ sweep'[s].pc \in {"rest", "checked"}
        /\ \A x \in Sweepers \ {s} : sweep'[x] = sweep[x]
    BY <1>1, <1>3 DEF SweepRechecks
  <2> QED BY <2>1, <2>2, ChainQuiet
<1>4. CASE SweepLocks(s)
  <2>1. UNCHANGED <<plan, visits, home, app, owed, seen, cut>>
    BY <1>4 DEF SweepLocks, store, history
  <2>2. /\ sweep[s].pc = "checked"
        /\ \/ sweep'[s].pc = "rest"
           \/ sweep'[s].pc = "locked" /\ sweep'[s].region = home
        /\ \A x \in Sweepers \ {s} : sweep'[x] = sweep[x]
    <3>1. CASE home = sweep[s].region /\ lease = s
      BY <1>1, <1>4, <3>1 DEF SweepLocks
    <3>2. CASE ~ (home = sweep[s].region /\ lease = s)
      BY <1>1, <1>4, <3>2 DEF SweepLocks
    <3> QED BY <3>1, <3>2
  <2> QED BY <2>1, <2>2, ChainQuiet
<1>5. CASE SweepUpdates(s) /\ ~ StillDue(sweep[s].stage, app[sweep[s].region])
  <2>1. UNCHANGED <<plan, visits, home, app, owed, seen, cut>>
    BY <1>5 DEF SweepUpdates, history
  <2>2. /\ sweep[s].pc = "locked" /\ sweep'[s].pc = "rest"
        /\ \A x \in Sweepers \ {s} : sweep'[x] = sweep[x]
    BY <1>1, <1>5 DEF SweepUpdates
  <2> QED BY <2>1, <2>2, ChainQuiet
<1> QED
  BY <1>2, <1>3, <1>4, <1>5, ChainClears, ChainUpdates, ChainValidates, ChainUndoes, ChainTells
     DEF Sweep

(* Every step.                                                             *)
LEMMA ChainNext == Aimed /\ ChainInv /\ [Next]_vars => ChainInv'
<1> SUFFICES ASSUME Aimed, ChainInv, [Next]_vars PROVE ChainInv'
  OBVIOUS
<1>1. SweepsAimed'
  BY TypeNext DEF Aimed
<1>2. ASSUME UNCHANGED <<plan, visits, home, app, owed, seen, cut, sweep>> PROVE ChainInv'
  BY <1>1, <1>2, ChainQuiet
<1>3. CASE UNCHANGED vars \/ LeaseExpires \/ OwnerReadsPlan
           \/ \E u \in Resumers : ResumeShares(u) \/ ResumeGivesUp(u)
  <2>1. UNCHANGED <<plan, visits, home, app, owed, seen, cut, sweep>>
    BY <1>3 DEF vars, LeaseExpires, OwnerReadsPlan, ResumeShares, ResumeGivesUp, store, history
  <2> QED BY <1>2, <2>1
<1>4. CASE MarkAppActive
  BY <1>4, Names, ChainUnlocked DEF MarkAppActive, Touch, Reset
<1>5. CASE OwnerPauses
  <2>1. Label /\ UNCHANGED <<plan, visits, sweep, seen, cut>>
    BY <1>5 DEF OwnerPauses, Label, IdlePaused, history, Aimed, TypeOK
  <2> QED BY <1>5, <2>1, Names, ChainUnlocked DEF OwnerPauses
<1>6. CASE OwnerResumes
  <2>1. lock \notin Sweepers
    BY <1>6, Names DEF OwnerResumes, Aimed, TypeOK
  <2>2. CASE owner = "free" /\ IdlePaused
    <3>1. UNCHANGED <<plan, visits, home, app, owed, seen, cut, sweep>>
      BY <1>6, <2>2 DEF OwnerResumes
    <3> QED BY <1>2, <3>1
  <2>3. CASE ~ (owner = "free" /\ IdlePaused)
    BY <1>6, <2>1, <2>3, ChainUnlocked DEF OwnerResumes, Resumed, Reset
  <2> QED BY <2>2, <2>3
<1>7. ASSUME NEW u \in Resumers, ResumeApp(u) PROVE ChainInv'
  <2>1. lock \notin Sweepers /\ UNCHANGED <<plan, visits, home, sweep, seen, cut>>
    BY <1>7, Names DEF ResumeApp
  <2>2. CASE IdlePaused
    BY <1>7, <2>1, <2>2, ChainUnlocked DEF ResumeApp, Resumed, Reset
  <2>3. CASE ~ IdlePaused
    <3>1. app' = app /\ owed' = owed
      BY <1>7, <2>3 DEF ResumeApp, Aimed, TypeOK
    <3> QED BY <1>2, <2>1, <3>1
  <2> QED BY <2>2, <2>3
<1>8. CASE Cutover
  <2>1. Carried /\ UNCHANGED <<plan, visits, sweep, seen, cut>>
    BY <1>8 DEF Cutover, Carried, history
  <2> QED BY <1>8, <2>1, Names, ChainUnlocked DEF Cutover
<1> QED
  BY <1>1, <1>3, <1>4, <1>5, <1>6, <1>7, <1>8, ChainDay, ChainVisit, ChainPlan, ChainSweep, ChainDies
     DEF Next

(* The invariant.                                                          *)
LEMMA Inductive == Spec => [](Aimed /\ ChainInv)
<1>1. Init => Aimed /\ ChainInv
  BY TypeInit, ChainInit DEF Aimed, ChainInv
<1>2. Aimed /\ ChainInv /\ [Next]_vars => (Aimed /\ ChainInv)'
  BY TypeNext, ChainNext
<1> QED
  BY <1>1, <1>2, PTL DEF Spec

---------------------------------------------------------------------------
(* Results.                                                                *)

(* The shapes of the tables, and the lock is held by who needs it.         *)
THEOREM IdleTypes == Spec => []TypeOK
<1>1. Aimed /\ ChainInv => TypeOK
  BY DEF Aimed
<1> QED
  BY <1>1, Inductive, PTL

(* No app is paused for inactivity whose owner is due a mail.              *)
THEOREM OwnersAreTold == Spec => []OwnerWasTold
<1>1. Aimed /\ ChainInv => OwnerWasTold
  BY DEF ChainInv
<1> QED
  BY <1>1, Inductive, PTL

(* Only the owner's resume ends the owner's pause.                         *)
THEOREM OwnerPausesStand == Spec => OwnerPauseStands
<1> DEFINE Ended == app[home].by = "owner" /\ app'[home'].by # "owner"
<1>1. Aimed /\ ChainInv /\ [Next]_vars => [Ended => owner # "rest"]_vars
  <2> SUFFICES ASSUME Aimed, ChainInv, Next, Ended, owner = "rest" PROVE FALSE
    OBVIOUS
  <2> USE DEF Aimed, ChainInv
  <2>1. app \in [Regions -> AppType] /\ home \in Regions
    BY DEF TypeOK, AppType
  <2>2. ~ UNCHANGED <<app, home>>
    OBVIOUS
  <2>3. CASE Day
    BY <2>1, <2>3 DEF Day, AppType
  <2>4. CASE Visit \/ LeaseExpires \/ OwnerReadsPlan \/ ChangePlan
    BY <2>2, <2>4 DEF Visit, LeaseExpires, OwnerReadsPlan, ChangePlan, store
  <2>5. CASE MarkAppActive \/ OwnerResumes
    BY <2>5 DEF MarkAppActive, OwnerResumes
  <2>6. CASE OwnerPauses
    BY <2>1, <2>6 DEF OwnerPauses, AppType
  <2>7. CASE Cutover
    BY <2>1, <2>7 DEF Cutover
  <2>8. ASSUME NEW u \in Resumers, ResumeShares(u) \/ ResumeApp(u) \/ ResumeGivesUp(u)
        PROVE FALSE
    BY <2>1, <2>2, <2>8 DEF ResumeShares, ResumeApp, ResumeGivesUp, IdlePaused, store
  <2>9. ASSUME NEW s \in Sweepers, Sweep(s) \/ SweeperDies(s) PROVE FALSE
    <3>1. CASE SweepClearsVisited(s)
      BY <2>1, <3>1 DEF SweepClearsVisited, AppType
    <3>2. CASE SweepUpdates(s)
      BY <2>1, <3>2 DEF SweepUpdates, StillDue, Candidate, LockHolds
    <3>3. CASE SweepUndoes(s)
      BY <2>1, <3>3 DEF SweepUndoes, LockHolds
    <3> QED
      BY <2>2, <2>9, <3>1, <3>2, <3>3 DEF Sweep, SweepScans, SweepRechecks, SweepLocks,
         SweepValidates, SweepTells, SweeperDies, store
  <2> QED
    BY <2>3, <2>4, <2>5, <2>6, <2>7, <2>8, <2>9 DEF Next
<1> QED
  BY <1>1, Inductive, PTL DEF Spec, OwnerPauseStands

(* No organisation that is on the free plan again gets an app back.        *)
THEOREM ResumesNeedPaidPlan == Spec => ResumeNeedsPaidPlan
<1> DEFINE Lifted == IdlePaused /\ app'[home'].by # "idle_reaper"
           Allowed == \/ plan = "paid" \/ owner = "paid"
                      \/ \E s \in Sweepers : sweep[s].pc = "undo"
<1>1. Aimed /\ ChainInv /\ [Next]_vars => [Lifted => Allowed]_vars
  <2> SUFFICES ASSUME Aimed, ChainInv, Next, Lifted, ~ Allowed PROVE FALSE
    OBVIOUS
  <2> USE DEF Aimed, ChainInv, IdlePaused
  <2>1. app \in [Regions -> AppType] /\ home \in Regions
    BY DEF TypeOK, AppType
  <2>2. ~ UNCHANGED <<app, home>> /\ plan # "paid" /\ owner # "paid"
    OBVIOUS
  <2>3. CASE Day
    BY <2>1, <2>3 DEF Day, AppType
  <2>4. CASE Visit \/ LeaseExpires \/ OwnerReadsPlan \/ ChangePlan
    BY <2>2, <2>4 DEF Visit, LeaseExpires, OwnerReadsPlan, ChangePlan, store
  <2>5. CASE MarkAppActive
    BY <2>5 DEF MarkAppActive
  <2>6. CASE OwnerPauses
    BY <2>1, <2>6 DEF OwnerPauses, AppType
  <2>7. CASE OwnerResumes
    BY <2>2, <2>7 DEF OwnerResumes, TypeOK
  <2>8. CASE Cutover
    BY <2>1, <2>8 DEF Cutover
  <2>9. ASSUME NEW u \in Resumers, ResumeShares(u) \/ ResumeApp(u) \/ ResumeGivesUp(u)
        PROVE FALSE
    BY <2>2, <2>9 DEF ResumeShares, ResumeApp, ResumeGivesUp, store, TypeOK
  <2>10. ASSUME NEW s \in Sweepers, Sweep(s) \/ SweeperDies(s) PROVE FALSE
    <3>1. CASE SweepClearsVisited(s)
      BY <2>1, <3>1 DEF SweepClearsVisited, AppType
    <3>2. CASE SweepUpdates(s)
      BY <2>1, <3>2 DEF SweepUpdates, StillDue, Candidate, LockHolds
    <3>3. CASE SweepUndoes(s)
      BY <3>3 DEF SweepUndoes
    <3> QED
      BY <2>2, <2>10, <3>1, <3>2, <3>3 DEF Sweep, SweepScans, SweepRechecks, SweepLocks,
         SweepValidates, SweepTells, SweeperDies, store
  <2> QED
    BY <2>3, <2>4, <2>5, <2>6, <2>7, <2>8, <2>9, <2>10 DEF Next
<1> QED
  BY <1>1, Inductive, PTL DEF Spec, ResumeNeedsPaidPlan
=============================================================================

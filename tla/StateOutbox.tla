---------------------------- MODULE StateOutbox ----------------------------
(***************************************************************************)
(* The billing state of one user: the columns account_status, plan_id and  *)
(* spending_cap_usd of the organisation in the platform database, the      *)
(* outbox table that records every change of them, the drain that carries  *)
(* the changes to the regions, and the row user_billing_state that each    *)
(* region enforces quotas from (state-outbox.ts, state-outbox-drain.ts,    *)
(* plugins/quota-enforcement.ts).                                          *)
(*                                                                         *)
(* Simplifications: a column's value is the version of the change that     *)
(* wrote it, 0 before any; users do not meet (their rows share a batch,    *)
(* which BatchSize stands for); the retention of pruned rows is any time.   *)
(***************************************************************************)
EXTENDS Integers, FiniteSets

CONSTANTS
  Writers,        \* requests that change the state: billing, soft lock, ...
  Drainers,       \* callers of POST /v1/internal/state-outbox/drain
  Regions,
  Fields,         \* the columns of OUTBOX_FIELDS
  Changes,        \* the sets of columns that the callers write together
  BatchSize,      \* BATCH_SIZE (100)
  MaxWrites,      \* bound on transactions that start
  MaxFaults       \* bound on statements that fail in a region and on drains
                  \* that do not commit

ASSUME OutboxAssumption ==
  /\ IsFiniteSet(Writers)
  /\ Changes \subseteq (SUBSET Fields) \ {{}}
  /\ BatchSize \in Nat \ {0}
  /\ MaxWrites \in Nat /\ MaxFaults \in Nat

VARIABLES
  org,            \* column -> its value in organizations
  last,           \* the version that user_state_outbox_version_seq gave last
  row,            \* version -> its row of user_state_outbox
  begun,          \* writer -> when its transaction began, 0: none open
  started,        \* transactions begun so far, the clock of created_at
  region,         \* region -> its row of user_billing_state
  seed,           \* region -> the columns a cold start has read
  drain,          \* drainer -> its open transaction
  faults

outboxVars == <<org, last, row, begun, started>>
vars == <<outboxVars, region, seed, drain, faults>>

Versions == 1..MaxWrites
Null == -1
Unread == [f \in Fields |-> Null]
NoRow == [ver |-> Null, val |-> Unread]
Absent == [state |-> "absent", born |-> 0, fields |-> {}, applied |-> {}]
(* tried and got hold <<version, region>>: attempted, and succeeded.       *)
Closed == [batch |-> {}, tried |-> {}, got |-> {}]

Init ==
  /\ org = [f \in Fields |-> 0]
  /\ last = 0
  /\ row = [v \in Versions |-> Absent]
  /\ begun = [w \in Writers |-> 0]
  /\ started = 0
  /\ region = [r \in Regions |-> NoRow]
  /\ seed = [r \in Regions |-> Unread]
  /\ drain = [d \in Drainers |-> Closed]
  /\ faults = 0

-----------------------------------------------------------------------------
(* writeUserStateChange.  created_at is the time of BEGIN; the version is  *)
(* drawn at the INSERT, under the lock of the organisation's row that the  *)
(* UPDATE took, so the order of the versions is the order of the commits   *)
(* and not that of created_at.                                             *)

BeginWrite(w) ==
  /\ begun[w] = 0 /\ started < MaxWrites
  /\ started' = started + 1
  /\ begun' = [begun EXCEPT ![w] = started']
  /\ UNCHANGED <<org, last, row, region, seed, drain, faults>>

(* Mutant: the transaction stays open after its INSERT and runs again.     *)
CommitWriteStaysOpen(w, fields) ==
  /\ begun[w] # 0 /\ last < MaxWrites
  /\ last' = last + 1
  /\ org' = [f \in Fields |-> IF f \in fields THEN last' ELSE org[f]]
  /\ row' = [row EXCEPT ![last'] =
       [state |-> "open", born |-> begun[w], fields |-> fields, applied |-> {}]]
  /\ UNCHANGED <<begun, started, region, seed, drain, faults>>

CommitWrite(w, fields) ==
  /\ begun[w] # 0
  /\ last' = last + 1
  /\ org' = [f \in Fields |-> IF f \in fields THEN last' ELSE org[f]]
  /\ row' = [row EXCEPT ![last'] =
       [state |-> "open", born |-> begun[w], fields |-> fields, applied |-> {}]]
  /\ begun' = [begun EXCEPT ![w] = 0]
  /\ UNCHANGED <<started, region, seed, drain, faults>>

(* ROLLBACK: a lost connection, a lock or pool timeout.                    *)
AbandonWrite(w) ==
  /\ begun[w] # 0
  /\ begun' = [begun EXCEPT ![w] = 0]
  /\ UNCHANGED <<org, last, row, started, region, seed, drain, faults>>

-----------------------------------------------------------------------------
(* The cold start of quota-enforcement: a region without a row reads the   *)
(* organisation and inserts what it read as version 0, unless a row came.  *)

ReadSeed(r) ==
  /\ region[r] = NoRow /\ seed[r] = Unread
  /\ seed' = [seed EXCEPT ![r] = org]
  /\ UNCHANGED <<outboxVars, region, drain, faults>>

(* Mutant: ON CONFLICT DO UPDATE.                                          *)
InsertSeedAnyway(r) ==
  /\ seed[r] # Unread
  /\ region' = [region EXCEPT ![r] = [ver |-> 0, val |-> seed[r]]]
  /\ seed' = [seed EXCEPT ![r] = Unread]
  /\ UNCHANGED <<outboxVars, drain, faults>>

InsertSeed(r) ==
  /\ seed[r] # Unread
  /\ region' = [region EXCEPT ![r] =
       IF @ = NoRow THEN [ver |-> 0, val |-> seed[r]] ELSE @]
  /\ seed' = [seed EXCEPT ![r] = Unread]
  /\ UNCHANGED <<outboxVars, drain, faults>>

-----------------------------------------------------------------------------
(* drainOnce: one platform transaction around statements that each commit  *)
(* on their own in a region.                                               *)

Locked == UNION {drain[d].batch : d \in Drainers}

(* What a drain may take.                                                  *)
Available == {v \in Versions : row[v].state = "open"} \ Locked

(* ORDER BY created_at LIMIT BATCH_SIZE.                                   *)
Oldest(batch) ==
  /\ batch \subseteq Available
  /\ Cardinality(batch) <= BatchSize
  /\ \A v \in Available \ batch :
       /\ Cardinality(batch) = BatchSize
       /\ \A b \in batch : row[b].born < row[v].born

SelectRows(d) ==
  /\ drain[d] = Closed
  /\ \E batch \in SUBSET Available :
       /\ batch # {} /\ Oldest(batch)
       /\ drain' = [drain EXCEPT ![d].batch = batch]
  /\ UNCHANGED <<outboxVars, region, seed, faults>>

Untried(d, v) ==
  {r \in Regions \ row[v].applied : <<v, r>> \notin drain[d].tried}

(* The loops take the rows in the order of the SELECT.                     *)
Turn(d, v, r) ==
  /\ v \in drain[d].batch /\ r \in Untried(d, v)
  /\ \A b \in drain[d].batch : row[b].born < row[v].born => Untried(d, b) = {}

(* Mutant: the row is written whatever version it has.                     *)
ApplyBlindly(v, r) ==
  region' = [region EXCEPT ![r] =
    [ver |-> v, val |-> [f \in Fields |-> IF f \in row[v].fields THEN v ELSE @.val[f]]]]

(* applyVersionToRegion: INSERT leaves the columns it does not name NULL,  *)
(* and ON CONFLICT the row must have an older version.                     *)
ApplyVersionToRegion(v, r) ==
  region' = [region EXCEPT ![r] =
    IF @.ver < v
    THEN [ver |-> v, val |-> [f \in Fields |-> IF f \in row[v].fields THEN v ELSE @.val[f]]]
    ELSE @]

ApplySucceeds(d, v, r) ==
  /\ Turn(d, v, r)
  /\ ApplyVersionToRegion(v, r)
  /\ drain' = [drain EXCEPT ![d].tried = @ \union {<<v, r>>},
                            ![d].got = @ \union {<<v, r>>}]
  /\ UNCHANGED <<outboxVars, seed, faults>>

(* Mutant: the region is recorded also when its statement failed.          *)
ApplyFailsRecorded(d, v, r) ==
  /\ faults < MaxFaults /\ Turn(d, v, r)
  /\ UNCHANGED region
  /\ drain' = [drain EXCEPT ![d].tried = @ \union {<<v, r>>},
                            ![d].got = @ \union {<<v, r>>}]
  /\ faults' = faults + 1
  /\ UNCHANGED <<outboxVars, seed>>

(* The error is noted and the loop goes on; the statement may have taken   *)
(* effect before the connection broke.                                     *)
ApplyFails(d, v, r) ==
  /\ faults < MaxFaults /\ Turn(d, v, r)
  /\ UNCHANGED region \/ ApplyVersionToRegion(v, r)
  /\ drain' = [drain EXCEPT ![d].tried = @ \union {<<v, r>>}]
  /\ faults' = faults + 1
  /\ UNCHANGED <<outboxVars, seed>>

(* Mutant: one region is enough to finish the row.                         *)
RecordedByOne(d, v) ==
  LET applied == row[v].applied \union {r \in Regions : <<v, r>> \in drain[d].got}
  IN  [row[v] EXCEPT !.applied = applied,
                     !.state = IF applied # {} THEN "done" ELSE @]

(* What COMMIT makes of a row of the batch.                                *)
Recorded(d, v) ==
  LET applied == row[v].applied \union {r \in Regions : <<v, r>> \in drain[d].got}
  IN  [row[v] EXCEPT !.applied = applied,
                     !.state = IF Regions \subseteq applied THEN "done" ELSE @]

CommitDrain(d) ==
  /\ drain[d] # Closed
  /\ \A v \in drain[d].batch : Untried(d, v) = {}
  /\ row' = [v \in Versions |->
               IF v \in drain[d].batch THEN Recorded(d, v) ELSE row[v]]
  /\ drain' = [drain EXCEPT ![d] = Closed]
  /\ UNCHANGED <<org, last, begun, started, region, seed, faults>>

(* ROLLBACK, or the process dies: what was applied is not recorded.        *)
AbandonDrain(d) ==
  /\ drain[d] # Closed /\ faults < MaxFaults
  /\ drain' = [drain EXCEPT ![d] = Closed]
  /\ faults' = faults + 1
  /\ UNCHANGED <<outboxVars, region, seed>>

(* pruneOldOutboxRows: done rows only, so nobody holds their locks.        *)
Prune(v) ==
  /\ row[v].state = "done"
  /\ row' = [row EXCEPT ![v].state = "pruned"]
  /\ UNCHANGED <<org, last, begun, started, region, seed, drain, faults>>

-----------------------------------------------------------------------------
Drain(d) ==
  \/ SelectRows(d)
  \/ \E v \in Versions, r \in Regions : ApplySucceeds(d, v, r) \/ ApplyFails(d, v, r)
  \/ CommitDrain(d)

Next ==
  \/ \E w \in Writers :
       \/ BeginWrite(w)
       \/ \E fields \in Changes : CommitWrite(w, fields)
       \/ AbandonWrite(w)
  \/ \E r \in Regions : ReadSeed(r) \/ InsertSeed(r)
  \/ \E d \in Drainers : Drain(d) \/ AbandonDrain(d)
  \/ \E v \in Versions : Prune(v)

Spec == Init /\ [][Next]_vars

(* The drain is posted again and again, and every statement of it returns  *)
(* or fails.  Writers and requests owe nothing.                            *)
FairSpec == Spec /\ \A d \in Drainers : WF_vars(Drain(d))

-----------------------------------------------------------------------------
RowType == [state : {"absent", "open", "done", "pruned"}, born : 0..MaxWrites,
            fields : SUBSET Fields, applied : SUBSET Regions]
Pairs == Versions \X Regions

(* The shapes of the tables; versions above last have no row, and a        *)
(* version is never drawn that MaxWrites transactions cannot reach.        *)
TypeOK ==
  /\ org \in [Fields -> 0..last]
  /\ last \in 0..MaxWrites
  /\ row \in [Versions -> RowType]
  /\ \A v \in Versions : row[v].state = "absent" <=> v > last
  /\ begun \in [Writers -> 0..MaxWrites]
  /\ started \in 0..MaxWrites
  /\ last + Cardinality({w \in Writers : begun[w] # 0}) <= started
  /\ region \in [Regions -> [ver : Null..last, val : [Fields -> Null..last]]]
  /\ seed \in [Regions -> {Unread} \union [Fields -> 0..last]]
  /\ drain \in [Drainers -> [batch : SUBSET Versions, tried : SUBSET Pairs,
                             got : SUBSET Pairs]]
  /\ faults \in 0..MaxFaults

(* Two drains never hold the same row, and a row that one holds is open:   *)
(* FOR UPDATE SKIP LOCKED (state-outbox-drain.ts:59-67).                   *)
OneDrainPerRow ==
  /\ \A d, e \in Drainers : d # e => drain[d].batch \cap drain[e].batch = {}
  /\ \A v \in Locked : row[v].state = "open"

(* A row that is done, or was pruned as done, has reached every region: no *)
(* region is left at an older version whatever statements failed and       *)
(* whichever drain died after applying it (state-outbox-drain.ts:72-101).  *)
DoneMeansReached ==
  \A v \in Versions, r \in Regions :
    (r \in row[v].applied \/ row[v].state \in {"done", "pruned"})
      => region[r].ver >= v

(* A region's version never falls, neither by a drain that is late with an *)
(* old row nor by a cold start that read the organisation before another   *)
(* change (state-outbox-drain.ts:40, quota-enforcement.ts:125), and what   *)
(* the change of that version wrote stays until a newer version comes.     *)
NeverBack ==
  [][\A r \in Regions :
       /\ region'[r].ver >= region[r].ver
       /\ region'[r].ver = region[r].ver => region'[r] = region[r]]_vars

(* Every change that commits comes to every region, also when a region     *)
(* fails and drains die before their commit: in the end the region shows   *)
(* this change's columns or a newer version (state-outbox-drain.ts:69-101, *)
(* the runbook's promise of the outbox).                                   *)
ChangesArrive ==
  \A v \in Versions, r \in Regions :
    last >= v ~> \/ region[r].ver > v
                 \/ /\ region[r].ver = v
                    /\ \A f \in row[v].fields : region[r].val[f] = v

=============================================================================

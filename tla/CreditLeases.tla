---------------------------- MODULE CreditLeases ----------------------------
(***************************************************************************)
(* Credit leases: reservations of an organization's credit that are drawn  *)
(* from its pools when granted and settled, reclaimed or abandoned later.  *)
(* Each transaction of lease-service.ts and lease-reclaim.ts is a session  *)
(* that takes its locks one after the other (the advisory lock of a        *)
(* reservation, the row lock of a lease, the row lock of the organization) *)
(* and whose writes appear when it commits; it may roll back before that.  *)
(* A lock is held by the session whose record says so.                     *)
(*                                                                         *)
(* Simplifications: one organization; the identity checks of a replay      *)
(* (user, region, amount) are one outcome, an error; a call that changes   *)
(* nothing from its first read on (a settlement of a settled lease, a      *)
(* closure that exists) is not an action; the clock is the set of expired  *)
(* leases, the grace of the sweep included.                                *)
(***************************************************************************)
EXTENDS CreditPools

CONSTANTS
  Leases,         \* lease ids, each used once
  Reservations,   \* those that a caller chose itself as a durable identity
  Sessions,       \* database sessions of all processes
  Amounts,        \* amounts that are asked for
  Costs,          \* amounts that are settled
  MinLease,       \* MIN_LEASE_USD: a nominal reservation
  Modes,          \* values AI_RESERVE_SMALL_ENABLED has in the processes
  MaxRollbacks    \* bound on the number of errors and process deaths

ASSUME LeasesAssumption ==
  /\ Reservations \subseteq Leases
  /\ Amounts \subseteq Nat \ {0} /\ Costs \subseteq Nat
  /\ MinLease \in Nat \ {0} /\ Modes \subseteq BOOLEAN /\ MaxRollbacks \in Nat

VARIABLES
  status,         \* lease -> its status; "none": no row
  fromMonthly,    \* lease -> portion drawn from the allowance
  fromTopup,      \* lease -> portion drawn from credits_usd
  settledFor,     \* lease -> settled_amount_usd
  expired,        \* leases past expires_at plus the grace
  closure,        \* reservation -> its row in credit_reservation_closures
  txn,            \* session -> the transaction it runs
  rollbacks,
  paidMonthly,    \* lease -> what it has cost the allowance so far (observer)
  paidTopup       \* lease -> what it has cost credits_usd so far (observer)

leaseVars == <<status, fromMonthly, fromTopup, settledFor, expired>>
paidVars == <<paidMonthly, paidTopup>>
creditVars == <<poolVars, leaseVars, closure, txn, rollbacks, paidVars>>

Idle ==
  [op |-> "idle", on |-> {}, asked |-> 0, lenient |-> FALSE, seenMonthly |-> 0,
   seenTopup |-> 0, swept |-> {}, backMonthly |-> 0, backTopup |-> 0]

LeasesInit ==
  /\ status = [l \in Leases |-> "none"]
  /\ fromMonthly = [l \in Leases |-> 0]
  /\ fromTopup = [l \in Leases |-> 0]
  /\ settledFor = [l \in Leases |-> 0]
  /\ expired = {}
  /\ closure = [l \in Reservations |-> "open"]
  /\ txn = [s \in Sessions |-> Idle]
  /\ rollbacks = 0
  /\ paidMonthly = [l \in Leases |-> 0]
  /\ paidTopup = [l \in Leases |-> 0]

---------------------------------------------------------------------------
(* Locks.                                                                  *)

Amount(l) == fromMonthly[l] + fromTopup[l]

(* pg_advisory_xact_lock on a reservation.  A lease id that nobody chose   *)
(* is a fresh random one: no two grants work on it.                        *)
ReservationFree(l) ==
  \A s \in Sessions : l \in txn[s].on => txn[s].op \notin {"grant", "grantFunded", "close"}

(* SELECT ... FROM credit_leases ... FOR UPDATE.                           *)
LeaseFree(l) ==
  \A s \in Sessions : l \in txn[s].on => txn[s].op \notin {"settle", "reclaim"}

(* The organization's row: locked by a grant from its SELECT on, and by a  *)
(* sweep from its first refund on.                                         *)
LocksOrg(s) ==
  \/ txn[s].op = "grantFunded"
  \/ \E l \in txn[s].swept : Amount(l) > MinLease

OrgFree(s) == \A t \in Sessions \ {s} : ~ LocksOrg(t)

Begin(s, record) == txn[s] = Idle /\ txn' = [txn EXCEPT ![s] = record]

End(s) == txn' = [txn EXCEPT ![s] = Idle]

---------------------------------------------------------------------------
(* grantLease.                                                             *)

(* acquireNominal asks for MinLease and is admitted on the floor; others   *)
(* ask for an estimate.                                                    *)
Asked(allowFloor) == IF allowFloor THEN {MinLease} ELSE Amounts

(* Takes the reservation and looks at its closure: a closed one is refused *)
(* (ReservationClosedError).                                               *)
GrantBegins(s, l, amount, allowFloor) ==
  /\ ReservationFree(l)
  /\ IF l \in Reservations THEN closure[l] = "open" ELSE status[l] = "none"
  /\ Begin(s, [Idle EXCEPT !.op = "grant", !.on = {l}, !.asked = amount,
                           !.lenient = allowFloor])
  /\ UNCHANGED <<poolVars, leaseVars, closure, rollbacks, paidVars>>

(* Mutant: the organization is read without FOR UPDATE.                    *)
GrantReadsOrg(s) ==
  /\ txn[s].op = "grant"
  /\ txn' = [txn EXCEPT ![s].op = "grantFunded", ![s].seenMonthly = monthly,
                         ![s].seenTopup = topup]
  /\ UNCHANGED <<poolVars, leaseVars, closure, rollbacks, paidVars>>

(* CREDIT_STATE_SELECT ... FOR UPDATE OF o.                                *)
GrantLocksOrg(s) ==
  /\ txn[s].op = "grant"
  /\ OrgFree(s)
  /\ txn' = [txn EXCEPT ![s].op = "grantFunded", ![s].seenMonthly = monthly,
                         ![s].seenTopup = topup]
  /\ UNCHANGED <<poolVars, leaseVars, closure, rollbacks, paidVars>>

Seen(s) == Balance(txn[s].seenMonthly, txn[s].seenTopup)

Granted(s) ==
  IF txn[s].lenient THEN txn[s].asked ELSE Smaller(Seen(s), txn[s].asked)

Admitted(s) ==
  IF txn[s].lenient THEN Seen(s) >= Floor ELSE Granted(s) > 0

(* The reservation has a lease already: it is returned again, or the       *)
(* replay is an error; nothing is debited either way.                      *)
GrantReplays(s, l) ==
  /\ txn[s].op = "grantFunded" /\ l \in txn[s].on
  /\ status[l] # "none"
  /\ End(s)
  /\ UNCHANGED <<poolVars, leaseVars, closure, rollbacks, paidVars>>

GrantRefused(s, l) ==
  /\ txn[s].op = "grantFunded" /\ l \in txn[s].on
  /\ status[l] = "none" /\ ~ Admitted(s)
  /\ End(s)
  /\ UNCHANGED <<poolVars, leaseVars, closure, rollbacks, paidVars>>

(* The pools change by delta, on behalf of lease l.                        *)
MovePools(l, toMonthly, toTopup) ==
  /\ monthly' = monthly + toMonthly
  /\ topup' = topup + toTopup
  /\ paidMonthly' = [paidMonthly EXCEPT ![l] = @ + monthly - monthly']
  /\ paidTopup' = [paidTopup EXCEPT ![l] = @ + topup - topup']
  /\ UNCHANGED resets

GrantCommits(s, l) ==
  LET draw == MonthlyDraw(txn[s].seenMonthly, Granted(s))
      rest == Granted(s) - draw
  IN /\ txn[s].op = "grantFunded" /\ l \in txn[s].on
     /\ status[l] = "none" /\ Admitted(s)
     /\ MovePools(l, -draw, -rest)
     /\ status' = [status EXCEPT ![l] = "active"]
     /\ fromMonthly' = [fromMonthly EXCEPT ![l] = draw]
     /\ fromTopup' = [fromTopup EXCEPT ![l] = rest]
     /\ End(s)
     /\ UNCHANGED <<settledFor, expired, closure, rollbacks>>

---------------------------------------------------------------------------
(* closeLeaseReservation.                                                  *)

(* Mutant: the closure does not take the reservation's lock.               *)
CloseBeginsUnlocked(s, l) ==
  /\ l \in Reservations /\ closure[l] = "open"
  /\ Begin(s, [Idle EXCEPT !.op = "close", !.on = {l}, !.lenient = status[l] # "none"])
  /\ UNCHANGED <<poolVars, leaseVars, closure, rollbacks, paidVars>>

(* Takes the lock and looks for a closure and for a lease.                 *)
CloseBegins(s, l) ==
  /\ l \in Reservations /\ closure[l] = "open"
  /\ ReservationFree(l)
  /\ Begin(s, [Idle EXCEPT !.op = "close", !.on = {l}, !.lenient = status[l] # "none"])
  /\ UNCHANGED <<poolVars, leaseVars, closure, rollbacks, paidVars>>

CloseCommits(s, l) ==
  /\ txn[s].op = "close" /\ l \in txn[s].on
  /\ closure' = [closure EXCEPT ![l] = IF txn[s].lenient THEN "hadLease" ELSE "noLease"]
  /\ End(s)
  /\ UNCHANGED <<poolVars, leaseVars, rollbacks, paidVars>>

---------------------------------------------------------------------------
(* settleLease.                                                            *)

(* Mutant: whatever has not been settled may be settled.                   *)
SettleableOnce(l, allowOverdraft) == status[l] \notin {"none", "settled"}

Settleable(l, allowOverdraft) ==
  status[l] = "active" \/ (allowOverdraft /\ status[l] = "abandoned")

(* Mutant: the lease's row is read without FOR UPDATE.                     *)
SettleReadsLease(s, l, actual, allowOverdraft) ==
  /\ Settleable(l, allowOverdraft)
  /\ Begin(s, [Idle EXCEPT !.op = "settle", !.on = {l}, !.asked = actual,
                           !.lenient = allowOverdraft])
  /\ UNCHANGED <<poolVars, leaseVars, closure, rollbacks, paidVars>>

SettleBegins(s, l, actual, allowOverdraft) ==
  /\ LeaseFree(l)
  /\ Settleable(l, allowOverdraft)
  /\ Begin(s, [Idle EXCEPT !.op = "settle", !.on = {l}, !.asked = actual,
                           !.lenient = allowOverdraft])
  /\ UNCHANGED <<poolVars, leaseVars, closure, rollbacks, paidVars>>

(* Without overdraft the charge is clamped to the reservation.             *)
Charge(s, l) ==
  IF txn[s].lenient THEN txn[s].asked ELSE Smaller(txn[s].asked, Amount(l))

SettleMarks(s, l) ==
  /\ txn[s].op = "settle" /\ l \in txn[s].on
  /\ status' = [status EXCEPT ![l] = "settled"]
  /\ settledFor' = [settledFor EXCEPT ![l] = Charge(s, l)]
  /\ End(s)
  /\ UNCHANGED <<fromMonthly, fromTopup, expired, closure, rollbacks>>

SettleExactly(s, l) ==
  /\ Charge(s, l) = Amount(l)
  /\ SettleMarks(s, l)
  /\ UNCHANGED <<poolVars, paidVars>>

(* The cost beyond the reservation is drawn like a grant.                  *)
SettleTruesUp(s, l) ==
  LET delta == Charge(s, l) - Amount(l)
      draw  == MonthlyDraw(monthly, delta)
  IN /\ delta > 0
     /\ OrgFree(s)
     /\ SettleMarks(s, l)
     /\ MovePools(l, -draw, -(delta - draw))

SettleRefunds(s, l) ==
  LET refund == Amount(l) - Charge(s, l)
      back   == MonthlyRefund(fromMonthly[l], fromTopup[l], refund)
  IN /\ refund > 0
     /\ OrgFree(s)
     /\ SettleMarks(s, l)
     /\ MovePools(l, back, refund - back)

---------------------------------------------------------------------------
(* reclaimExpiredLeases.                                                   *)

LeaseExpires(l) ==
  /\ status[l] = "active" /\ l \notin expired
  /\ expired' = expired \cup {l}
  /\ UNCHANGED <<poolVars, status, fromMonthly, fromTopup, settledFor, closure, txn,
                 rollbacks, paidVars>>

(* Mutant: the sweep passes over the leases that it would not refund.      *)
SweepableIfRefunded(l) == status[l] = "active" /\ l \in expired /\ Amount(l) > MinLease

Sweepable(l) == status[l] = "active" /\ l \in expired

(* SELECT ... FOR UPDATE SKIP LOCKED.                                      *)
ReclaimBegins(s) ==
  LET batch == {l \in Leases : Sweepable(l) /\ LeaseFree(l)}
  IN /\ batch # {}
     /\ Begin(s, [Idle EXCEPT !.op = "reclaim", !.on = batch])
     /\ UNCHANGED <<poolVars, leaseVars, closure, rollbacks, paidVars>>

Sweeps(s, l) == txn[s].op = "reclaim" /\ l \in txn[s].on \ txn[s].swept

(* Nominal reservations are not refunded: they may still be settled.       *)
ReclaimAbandons(s, l) ==
  /\ Sweeps(s, l)
  /\ Amount(l) <= MinLease
  /\ txn' = [txn EXCEPT ![s].swept = @ \cup {l}]
  /\ UNCHANGED <<poolVars, leaseVars, closure, rollbacks, paidVars>>

(* Mutant: the refunds of a batch overwrite one another.                   *)
ReclaimRefundsLast(s, l) ==
  /\ Sweeps(s, l)
  /\ Amount(l) > MinLease
  /\ OrgFree(s)
  /\ txn' = [txn EXCEPT ![s].swept = @ \cup {l},
                         ![s].backMonthly = fromMonthly[l],
                         ![s].backTopup = fromTopup[l]]
  /\ UNCHANGED <<poolVars, leaseVars, closure, rollbacks, paidVars>>

(* The first refund of a batch locks the organization's row.               *)
ReclaimRefunds(s, l) ==
  /\ Sweeps(s, l)
  /\ Amount(l) > MinLease
  /\ OrgFree(s)
  /\ txn' = [txn EXCEPT ![s].swept = @ \cup {l},
                         ![s].backMonthly = @ + fromMonthly[l],
                         ![s].backTopup = @ + fromTopup[l]]
  /\ UNCHANGED <<poolVars, leaseVars, closure, rollbacks, paidVars>>

ReclaimCommits(s) ==
  LET refunded == {l \in txn[s].swept : Amount(l) > MinLease}
  IN /\ txn[s].op = "reclaim" /\ txn[s].swept = txn[s].on
     /\ status' = [l \in Leases |->
                     IF l \in refunded THEN "reclaimed"
                     ELSE IF l \in txn[s].swept THEN "abandoned" ELSE status[l]]
     /\ monthly' = monthly + txn[s].backMonthly
     /\ topup' = topup + txn[s].backTopup
     /\ paidMonthly' = [l \in Leases |->
                          IF l \in refunded THEN paidMonthly[l] - fromMonthly[l]
                          ELSE paidMonthly[l]]
     /\ paidTopup' = [l \in Leases |->
                        IF l \in refunded THEN paidTopup[l] - fromTopup[l]
                        ELSE paidTopup[l]]
     /\ End(s)
     /\ UNCHANGED <<resets, fromMonthly, fromTopup, settledFor, expired, closure,
                    rollbacks>>

---------------------------------------------------------------------------
(* Any statement may fail, the connection may break, the process may die.  *)
Rollback(s) ==
  /\ txn[s] # Idle
  /\ rollbacks < MaxRollbacks
  /\ rollbacks' = rollbacks + 1
  /\ End(s)
  /\ UNCHANGED <<poolVars, leaseVars, closure, paidVars>>

(* A transaction under way goes on.                                        *)
Proceeds(s) ==
  \/ GrantLocksOrg(s)
  \/ \E l \in Leases :
       \/ GrantReplays(s, l) \/ GrantRefused(s, l) \/ GrantCommits(s, l)
       \/ SettleExactly(s, l) \/ SettleTruesUp(s, l) \/ SettleRefunds(s, l)
       \/ ReclaimAbandons(s, l) \/ ReclaimRefunds(s, l)
  \/ ReclaimCommits(s)
  \/ \E l \in Reservations : CloseCommits(s, l)

SessionStep(s) ==
  \/ \E l \in Leases, flag \in Modes :
       \/ \E amount \in Asked(flag) : GrantBegins(s, l, amount, flag)
       \/ \E actual \in Costs : SettleBegins(s, l, actual, flag)
  \/ \E l \in Reservations : CloseBegins(s, l)
  \/ ReclaimBegins(s)
  \/ Proceeds(s)
  \/ Rollback(s)

LeaseStep ==
  \/ \E s \in Sessions : SessionStep(s)
  \/ \E l \in Leases : LeaseExpires(l)

---------------------------------------------------------------------------
Statuses == {"none", "active", "abandoned", "reclaimed", "settled"}

Transactions ==
  [op : {"idle", "grant", "grantFunded", "settle", "reclaim", "close"},
   on : SUBSET Leases, asked : Nat, lenient : BOOLEAN, seenMonthly : Int,
   seenTopup : Int, swept : SUBSET Leases, backMonthly : Nat, backTopup : Nat]

LeasesTypeOK ==
  /\ status \in [Leases -> Statuses]
  /\ fromMonthly \in [Leases -> Nat] /\ fromTopup \in [Leases -> Nat]
  /\ settledFor \in [Leases -> Nat]
  /\ expired \subseteq Leases
  /\ closure \in [Reservations -> {"open", "noLease", "hadLease"}]
  /\ txn \in [Sessions -> Transactions]
  /\ rollbacks \in 0 .. MaxRollbacks
  /\ paidMonthly \in [Leases -> Int] /\ paidTopup \in [Leases -> Int]

===========================================================================

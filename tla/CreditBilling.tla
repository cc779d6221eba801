--------------------------- MODULE CreditBilling ---------------------------
(***************************************************************************)
(* Everything that moves the credit of one organization: the leases, the   *)
(* renewal of the allowance, the auto-refill of credits_usd after a        *)
(* settlement, and the direct charges of the people API.                   *)
(*                                                                         *)
(* A statement of these that writes the organization's row waits for the   *)
(* row lock, which the sessions of CreditLeases may hold.                  *)
(***************************************************************************)
EXTENDS CreditLeases

CONSTANTS
  Refillers,      \* concurrent calls of maybeTriggerAutoRefill
  RefillAmount,   \* auto_refill_amount_usd
  Threshold,      \* auto_refill_threshold_usd
  MaxCharges,     \* bound on the number of card charges
  Requests,       \* concurrent requests to the people API
  MinBalance,     \* config.people.minBalanceUsd
  Prices          \* what such a request costs

ASSUME BillingAssumption ==
  /\ RefillAmount \in Nat \ {0} /\ Threshold \in Nat /\ MaxCharges \in Nat
  /\ MinBalance \in Nat /\ Prices \subseteq Nat \ {0}

VARIABLES
  refill,         \* refiller -> how far its call is
  refillLock,     \* the Redis key auto_refill:lock:<org> exists
  refillOn,       \* auto_refill_enabled
  charges,        \* card charges that succeeded
  request         \* request -> "passed": past the balance gate, not yet charged

refillVars == <<refill, refillLock, refillOn, charges>>
billingVars == <<creditVars, refillVars, request>>

Init ==
  /\ PoolsInit
  /\ LeasesInit
  /\ refill = [r \in Refillers |-> "idle"]
  /\ refillLock = FALSE
  /\ refillOn = TRUE
  /\ charges = 0
  /\ request = [q \in Requests |-> "idle"]

(* No session keeps others from writing the organization's row.            *)
OrgUnlocked == \A s \in Sessions : ~ LocksOrg(s)

PoolsOnly == UNCHANGED <<leaseVars, closure, txn, rollbacks, paidVars>>

---------------------------------------------------------------------------
(* resetMonthlyAllowance.                                                  *)
Renew ==
  /\ OrgUnlocked
  /\ MonthlyReset
  /\ PoolsOnly
  /\ UNCHANGED <<refillVars, request>>

---------------------------------------------------------------------------
(* maybeTriggerAutoRefill.                                                 *)

Low ==
  \/ monthly <= 0 /\ topup < Threshold
  \/ Balance(monthly, topup) <= 0

RefillMoves(r, from, to) == refill[r] = from /\ refill' = [refill EXCEPT ![r] = to]

(* One SELECT without a lock: balance and configuration.                   *)
RefillReads(r) ==
  /\ Low /\ refillOn
  /\ RefillMoves(r, "idle", "low")
  /\ UNCHANGED <<creditVars, refillLock, refillOn, charges, request>>

(* SET NX.                                                                 *)
RefillTakesLock(r) ==
  /\ ~ refillLock
  /\ RefillMoves(r, "low", "locked")
  /\ refillLock' = TRUE
  /\ UNCHANGED <<creditVars, refillOn, charges, request>>

RefillFindsLock(r) ==
  /\ refillLock
  /\ RefillMoves(r, "low", "idle")
  /\ UNCHANGED <<creditVars, refillLock, refillOn, charges, request>>

RefillCharges(r) ==
  /\ charges < MaxCharges
  /\ RefillMoves(r, "locked", "charged")
  /\ charges' = charges + 1
  /\ UNCHANGED <<creditVars, refillLock, refillOn, request>>

(* The card is declined: refill is switched off (unless that fails), and   *)
(* the key is deleted whoever has set it.                                  *)
RefillDeclined(r) ==
  /\ RefillMoves(r, "locked", "idle")
  /\ refillOn' \in {refillOn, FALSE}
  /\ refillLock' = FALSE
  /\ UNCHANGED <<creditVars, charges, request>>

RefillGrants(r) ==
  /\ OrgUnlocked
  /\ RefillMoves(r, "charged", "granted")
  /\ AddTopup(RefillAmount)
  /\ PoolsOnly
  /\ UNCHANGED <<refillLock, refillOn, charges, request>>

RefillReturns(r) ==
  /\ RefillMoves(r, "granted", "idle")
  /\ refillLock' = FALSE
  /\ UNCHANGED <<creditVars, refillOn, charges, request>>

(* The grant throws, or the process dies.                                  *)
RefillBreaks(r) ==
  /\ refill[r] \in {"locked", "charged", "granted"}
  /\ rollbacks < MaxRollbacks
  /\ rollbacks' = rollbacks + 1
  /\ refill' = [refill EXCEPT ![r] = "idle"]
  /\ refillLock' \in {refillLock, FALSE}
  /\ UNCHANGED <<poolVars, leaseVars, closure, txn, paidVars, refillOn, charges,
                 request>>

(* LOCK_TTL_SEC are over.                                                  *)
RefillLockExpires ==
  /\ refillLock
  /\ refillLock' = FALSE
  /\ UNCHANGED <<creditVars, refill, refillOn, charges, request>>

RefillStep ==
  \/ \E r \in Refillers :
       \/ RefillReads(r) \/ RefillTakesLock(r) \/ RefillFindsLock(r)
       \/ RefillCharges(r) \/ RefillDeclined(r) \/ RefillGrants(r)
       \/ RefillReturns(r) \/ RefillBreaks(r)
  \/ RefillLockExpires

---------------------------------------------------------------------------
(* The people API: a gate before the provider is called, a deduction after *)
(* it answered.                                                            *)

RequestPassesGate(q) ==
  /\ request[q] = "idle"
  /\ Balance(monthly, topup) >= MinBalance
  /\ request' = [request EXCEPT ![q] = "passed"]
  /\ UNCHANGED <<creditVars, refillVars>>

RequestFails(q) ==
  /\ request[q] = "passed"
  /\ request' = [request EXCEPT ![q] = "idle"]
  /\ UNCHANGED <<creditVars, refillVars>>

RequestCharged(q, price) ==
  /\ request[q] = "passed"
  /\ OrgUnlocked
  /\ DeductTopup(price)
  /\ PoolsOnly
  /\ request' = [request EXCEPT ![q] = "charged"]
  /\ UNCHANGED refillVars

RequestReturns(q) ==
  /\ request[q] = "charged"
  /\ request' = [request EXCEPT ![q] = "idle"]
  /\ UNCHANGED <<creditVars, refillVars>>

RequestStep ==
  \E q \in Requests :
    \/ RequestPassesGate(q) \/ RequestFails(q) \/ RequestReturns(q)
    \/ \E price \in Prices : RequestCharged(q, price)

---------------------------------------------------------------------------
Next ==
  \/ LeaseStep /\ UNCHANGED <<refillVars, request>>
  \/ Renew
  \/ RefillStep
  \/ RequestStep

Spec == Init /\ [][Next]_billingVars

(* The cron posts to the reclaim route again and again, and the pool hands *)
(* out its connections first come, first served; a transaction that has    *)
(* begun goes on as its locks become free.                                 *)
SweepSpec ==
  /\ Spec
  /\ SF_billingVars(\E s \in Sessions : ReclaimBegins(s) /\ UNCHANGED <<refillVars, request>>)
  /\ \A s \in Sessions : SF_billingVars(Proceeds(s) /\ UNCHANGED <<refillVars, request>>)

---------------------------------------------------------------------------
(* Types, with the signs that the arithmetic of a draw must respect: no    *)
(* portion of a lease is negative.                                         *)
TypeOK ==
  /\ PoolsTypeOK
  /\ LeasesTypeOK
  /\ refill \in [Refillers -> {"idle", "low", "locked", "charged", "granted"}]
  /\ refillLock \in BOOLEAN /\ refillOn \in BOOLEAN
  /\ charges \in 0 .. MaxCharges
  /\ request \in [Requests -> {"idle", "passed", "charged"}]

MonthlyNonNegative == monthly >= 0

(* Each lease has cost the organization exactly what its status says:      *)
(* nothing if it was reclaimed, its reservation while it is held or        *)
(* abandoned, the settled amount when settled.  A settlement racing a      *)
(* sweep, or two of either, would break it.                                *)
LeaseAccounts ==
  \A l \in Leases :
    paidMonthly[l] + paidTopup[l] =
      IF status[l] = "settled" THEN settledFor[l]
      ELSE IF status[l] \in {"active", "abandoned"} THEN Amount(l) ELSE 0

(* No pool gets more back from a lease than the lease has drawn from it:   *)
(* refunds do not turn one pool's money into the other's; and the          *)
(* allowance never goes negative, whatever grants, settlements and sweeps  *)
(* interleave: every draw looks at it under the row lock                   *)
(* (lease-service.ts:233).                                                 *)
PoolsKept ==
  /\ MonthlyNonNegative
  /\ \A l \in Leases : paidMonthly[l] >= 0 /\ paidTopup[l] >= 0

(* A closure is durable evidence: closed without a lease, the reservation  *)
(* never gets one (lease-service.ts:68-71).                                *)
ClosureTells ==
  \A l \in Reservations :
    closure[l] # "open" => (closure[l] = "noLease" <=> status[l] = "none")

(* Where reserve-small is off everywhere no path debits beyond a           *)
(* reservation: credits_usd does not become negative                       *)
(* (lease-service.ts:295-298).                                             *)
NoDebtWithoutOverdraft == Modes = {FALSE} /\ FirstTopup >= 0 => topup >= 0

(* A lease ends once: settled and reclaimed are final and cost nothing     *)
(* more; an abandoned lease may only be settled.                           *)
LeaseEndsOnce ==
  [][\A l \in Leases :
       /\ status[l] \in {"settled", "reclaimed"} =>
            <<status[l], paidMonthly[l], paidTopup[l]>>' = <<status[l], paidMonthly[l], paidTopup[l]>>
       /\ status[l] = "abandoned" => status'[l] \in {"abandoned", "settled"}]_billingVars

(* An expired lease does not hold credit for ever.                         *)
ExpiredLeasesEnd ==
  \A l \in Leases : (status[l] = "active" /\ l \in expired) ~> status[l] # "active"


===========================================================================

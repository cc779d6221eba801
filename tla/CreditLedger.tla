---------------------------- MODULE CreditLedger ----------------------------
(***************************************************************************)
(* What billing promises an organization, as if each operation were one    *)
(* step that nobody can come between: every unit that leaves a pool for a  *)
(* lease is in what the lease has cost that pool, and what a lease gives   *)
(* back, one by one or many at a time, comes out of it; the allowance is   *)
(* drawn first and down to zero; a lease is granted, settled and swept at  *)
(* most once; what is not there is drawn only with overdraft, by a nominal *)
(* lease or a settlement.                                                  *)
(***************************************************************************)
EXTENDS Integers, FiniteSets

CONSTANTS
  Leases,
  PlanGrant,      \* the allowance of a period
  FirstTopup,     \* what was bought before
  RefillAmount,   \* what a refill adds
  Prices,         \* of what is charged directly
  Nominal,        \* a lease of no more than this is not refunded by a sweep
  Floor,          \* balance down to which a nominal lease is granted
  Overdraft       \* some processes bill beyond what is there

VARIABLES
  monthly, topup, \* the two pools
  state,          \* lease -> "none", "active", "abandoned", "reclaimed" or "settled"
  cost            \* lease -> what it has cost each pool

vars == <<monthly, topup, state, cost>>

Free == [monthly |-> 0, topup |-> 0]

Init ==
  /\ monthly = PlanGrant /\ topup = FirstTopup
  /\ state = [l \in Leases |-> "none"]
  /\ cost = [l \in Leases |-> Free]

Total(l) == cost[l].monthly + cost[l].topup

---------------------------------------------------------------------------
(* What the pools lose in a step is charged to l.                          *)
ChargedTo(l) ==
  cost' = [cost EXCEPT ![l] = [monthly |-> @.monthly + monthly - monthly',
                               topup   |-> @.topup + topup - topup']]

Draws ==
  /\ monthly' \in 0 .. monthly /\ topup' <= topup
  /\ topup' < topup => monthly' = 0

(* No pool gets more than l has taken from it.                             *)
GivesBack(l) ==
  /\ monthly' - monthly \in 0 .. cost[l].monthly
  /\ topup' - topup \in 0 .. cost[l].topup

Grant(l) ==
  /\ state[l] = "none"
  /\ Draws /\ ChargedTo(l)
  /\ \/ monthly' + topup' >= 0
     \/ Overdraft /\ monthly + topup >= Floor /\ Total(l)' = Nominal
  /\ state' = [state EXCEPT ![l] = "active"]

Settle(l) ==
  /\ state[l] = "active" \/ (Overdraft /\ state[l] = "abandoned")
  /\ GivesBack(l) \/ (Overdraft /\ Draws)
  /\ ChargedTo(l)
  /\ state' = [state EXCEPT ![l] = "settled"]

(* The leases of S, taken apart into their units.                          *)
Units(amount, S) == UNION {{l} \X (1 .. amount[l]) : l \in S}
Sum(amount, S) == Cardinality(Units(amount, S))

Sweep(S) ==
  LET refunded == {l \in S : Total(l) > Nominal} IN
  /\ \A l \in S : state[l] = "active"
  /\ state' = [l \in Leases |-> IF l \in refunded THEN "reclaimed"
                                ELSE IF l \in S THEN "abandoned" ELSE state[l]]
  /\ monthly' = monthly + Sum([l \in Leases |-> cost[l].monthly], refunded)
  /\ topup' = topup + Sum([l \in Leases |-> cost[l].topup], refunded)
  /\ cost' = [l \in Leases |-> IF l \in refunded THEN Free ELSE cost[l]]

---------------------------------------------------------------------------
Renew == monthly' = PlanGrant /\ UNCHANGED <<topup, state, cost>>
Refill == topup' = topup + RefillAmount /\ UNCHANGED <<monthly, state, cost>>

Pays(price) ==
  /\ topup' = IF price < topup THEN topup - price ELSE 0
  /\ UNCHANGED <<monthly, state, cost>>

Next ==
  \/ \E l \in Leases : Grant(l) \/ Settle(l)
  \/ \E S \in SUBSET Leases : Sweep(S)
  \/ Renew \/ Refill
  \/ \E price \in Prices : Pays(price)

Spec == Init /\ [][Next]_vars

===========================================================================

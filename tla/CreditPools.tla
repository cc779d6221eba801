---------------------------- MODULE CreditPools ----------------------------
(***************************************************************************)
(* The money of one organization: the two credit pools of its row in the   *)
(* control plane, the arithmetic that decides which pool a charge or a     *)
(* refund goes to, and the statements that change the pools from outside   *)
(* the leases.                                                             *)
(*                                                                         *)
(* Amounts are integers: the unit is the eighth decimal of a US dollar, to *)
(* which roundCreditUsd rounds every amount before it is used.             *)
(***************************************************************************)
EXTENDS Integers

CONSTANTS
  PlanGrant,    \* plans.monthly_credit_grant_usd of the organization's plan
  FirstTopup,   \* credits_usd at the start
  Floor,        \* the effective credit_floor_usd
  MaxResets     \* bound on the number of renewals

ASSUME PoolsAssumption ==
  PlanGrant \in Nat /\ FirstTopup \in Int /\ Floor \in Int /\ MaxResets \in Nat

VARIABLES
  monthly,      \* monthly_allowance_usd
  topup,        \* credits_usd
  resets        \* renewals so far

poolVars == <<monthly, topup, resets>>

PoolsInit ==
  /\ monthly = PlanGrant
  /\ topup = FirstTopup
  /\ resets = 0

---------------------------------------------------------------------------
Smaller(a, b) == IF a <= b THEN a ELSE b
Larger(a, b) == IF a >= b THEN a ELSE b

(* parseCreditState: what admission looks at.                              *)
Balance(inMonthly, inTopup) == inMonthly + inTopup

(* Mutant: all that is left of the allowance is drawn.                     *)
MonthlyDrawsAll(inMonthly, amount) == Larger(0, inMonthly)

(* The allowance is drawn first and never below zero; credits_usd takes    *)
(* the rest and may go negative.                                           *)
MonthlyDraw(inMonthly, amount) == Larger(0, Smaller(inMonthly, amount))

(* Mutant: the refund of a split lease goes to the allowance first.        *)
MonthlyRefundFirst(portionMonthly, portionTopup, refund) == refund

(* A refund goes back to the pools the lease was drawn from; for a lease   *)
(* drawn from both in proportion, rounded to the nearest unit.             *)
MonthlyRefund(portionMonthly, portionTopup, refund) ==
  IF portionTopup = 0 THEN refund
  ELSE IF portionMonthly = 0 THEN 0
  ELSE LET granted == portionMonthly + portionTopup
       IN (2 * refund * portionMonthly + granted) \div (2 * granted)

---------------------------------------------------------------------------
(* resetMonthlyAllowance: the allowance is SET.  A renewal event that was  *)
(* processed before changes nothing (unique stripe_event_id).              *)
MonthlyReset ==
  /\ resets < MaxResets
  /\ resets' = resets + 1
  /\ monthly' = PlanGrant
  /\ UNCHANGED topup

(* grantAutoRefillCredits.                                                 *)
AddTopup(amount) ==
  /\ topup' = topup + amount
  /\ UNCHANGED <<monthly, resets>>

(* deductCreditsBalance: credits_usd = GREATEST(0, credits_usd - amount).  *)
DeductTopup(amount) ==
  /\ topup' = Larger(0, topup - amount)
  /\ UNCHANGED <<monthly, resets>>

PoolsTypeOK ==
  /\ monthly \in Int /\ topup \in Int
  /\ resets \in 0 .. MaxResets

===========================================================================

------------------------ MODULE BillingRefinesLedger ------------------------
(***************************************************************************)
(* CreditBilling implements CreditLedger: a transaction takes effect when  *)
(* it commits, all at once, on the pools as they are then.                 *)
(***************************************************************************)
EXTENDS CreditBilling

Cost == [l \in Leases |-> [monthly |-> paidMonthly[l], topup |-> paidTopup[l]]]

Ledger == INSTANCE CreditLedger
          WITH state <- status, cost <- Cost, Nominal <- MinLease, Overdraft <- TRUE \in Modes

(* Whatever sessions wait for one another, sweep in batches or roll back,  *)
(* and whatever renewals, refills and charges come between their           *)
(* statements, the organization's row and its leases change as if each of  *)
(* them came alone (lease-service.ts, lease-reclaim.ts, usage-metering.ts).*)
BillingImplementsLedger == Ledger!Spec

===========================================================================

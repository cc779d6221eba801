-------------------------- MODULE MCCreditBilling --------------------------
(* TLC instances of CreditBilling.                                         *)
EXTENDS BillingRefinesLedger, TLC

SessionSymmetry == Permutations(Sessions)

===========================================================================

-------------------------- MODULE MCBillingPeriods --------------------------
(* Instances of BillingPeriods for TLC. *)
EXTENDS BillingPeriods
=============================================================================

-------------------------- MODULE MCBillingAccount --------------------------
(* BillingAccount for TLC: amounts on both sides of zero and of the        *)
(* minimum withdrawal, and a clock that can pass the export window twice.  *)
EXTENDS BillingAccount

MCAmounts == -1..3
MCInitialDeposits == {0, 3}
MCFunded == {3}
=============================================================================

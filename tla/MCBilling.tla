----------------------------- MODULE MCBilling -----------------------------
(***************************************************************************)
(* The billing crate for TLC: an account with its freezes, a subscription, *)
(* and hourly charges.  They share no state, so a behaviour moves one of   *)
(* them and leaves the others as they began.                               *)
(***************************************************************************)
EXTENDS MCBillingAccount, Subscription, Charges

VARIABLE part       \* what moves

billingVars == <<vars, subscriptionVars, chargeVars, part>>

BillingInit ==
    /\ Init /\ SubscriptionInit /\ ChargesInit
    /\ part \in {"account", "subscription", "charges"}

BillingNext ==
    \/ part = "account" /\ Next /\ UNCHANGED <<subscriptionVars, chargeVars, part>>
    \/ part = "subscription" /\ SubscriptionNext /\ UNCHANGED <<vars, chargeVars, part>>
    \/ part = "charges" /\ ChargesNext /\ UNCHANGED <<vars, subscriptionVars, part>>

BillingSpec == BillingInit /\ [][BillingNext]_billingVars
=============================================================================

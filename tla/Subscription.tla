---------------------------- MODULE Subscription ----------------------------
(***************************************************************************)
(* SubscriptionManager (billing/src/subscription.rs): tiers, periods that  *)
(* run out, and tier changes with a pro-rata settlement.                   *)
(*                                                                         *)
(* Time is counted in ticks, DayTicks of them a day, so that there is time *)
(* between whole days; the clock does not go back.  Amounts of money are   *)
(* Decimals, each of them rounded as the code rounds it.  subscribe        *)
(* charges nothing and change_tier returns the amount to settle: paying is *)
(* the caller's.                                                           *)
(***************************************************************************)
EXTENDS Decimal

CONSTANTS
    Period,         \* days of a period: Duration::days(30)
    DayTicks,       \* bound: how finely a day is divided
    MaxLag,         \* bound: ticks between the clock readings of change_tier
    MaxCalls        \* bound: calls of subscribe and change_tier

ASSUME TimeAssumption ==
    /\ Period \in Nat \ {0} /\ DayTicks \in Nat \ {0}
    /\ MaxLag \in Nat /\ MaxCalls \in Nat

VARIABLES
    tier,           \* SubscriptionState::tier
    left,           \* paid_until - Utc::now(), in ticks; zero once it is past
    auto_renew,     \* SubscriptionState::auto_renew
    calls,          \* history: calls so far
    begun,          \* history: the tier the period began with
    settled,        \* history: net amounts of the period, added up
    consumed,       \* history: service had in the period: prices times ticks
    slack           \* history: what rounding and lag may have cost in it

subscriptionVars ==
    <<tier, left, auto_renew, calls, begun, settled, consumed, slack>>

SubscriptionTier == {"Archive", "Standard", "Premium"}

price_monthly(t) ==
    CASE t = "Archive" -> 0 [] t = "Standard" -> 199 [] t = "Premium" -> 499

is_active == left > 0

\* num_days drops the part of a day.
days_remaining == left \div DayTicks

SubscriptionInit ==
    /\ tier = "Archive" /\ left = 0 /\ auto_renew = FALSE
    /\ calls = 0 /\ begun = "Archive" /\ settled = 0 /\ consumed = 0 /\ slack = 0

-----------------------------------------------------------------------------
Call == calls < MaxCalls /\ calls' = calls + 1

\* Mistake: the new period is added to what is left of the old one.
subscribe_extends(t) ==
    /\ Call
    /\ tier' = t
    /\ left' = left + Period * DayTicks
    /\ auto_renew' = TRUE
    /\ begun' = t /\ settled' = 0 /\ consumed' = 0 /\ slack' = 0

\* A whole period from now on, whatever is left of the current one.
subscribe(t) ==
    /\ Call
    /\ tier' = t
    /\ left' = Period * DayTicks
    /\ auto_renew' = TRUE
    /\ begun' = t /\ settled' = 0 /\ consumed' = 0 /\ slack' = 0

\* The price of a day, and of the days that remain.
daily(t) == Rounded(price_monthly(t) * Units, Period)
prorata(t) == Rounded(daily(t) * days_remaining, 1)

\* The charge for the days remaining on the new tier less the refund for the
\* same days on the old one.
net_amount(t) == Difference(prorata(t), prorata(tier))

\* The panics of Decimal end the call.
Settles(t) ==
    /\ \A u \in {t, tier} : /\ Fits(price_monthly(u) * Units, Period)
                            /\ Fits(daily(u) * days_remaining, 1)
    /\ Fits(prorata(t) - prorata(tier), 1)

\* Twice the error of net_amount is at most this: half a last digit for each
\* rounding, that of a daily price for each day.
DailyDigit(t) == Step(price_monthly(t) * Units, Period)
ProrataDigit(t) == Step(daily(t) * days_remaining, 1)
NetDigit(t) == Step(prorata(t) - prorata(tier), 1)
RoundingError(t) ==
    days_remaining * (DailyDigit(t) + DailyDigit(tier))
        + ProrataDigit(t) + ProrataDigit(tier) + NetDigit(t)

\* Service of the old tier between the two readings of the clock.
Meanwhile(lag) == price_monthly(tier) * (IF lag < left THEN lag ELSE left)

Settle(t, lag) ==
    /\ settled' = settled + net_amount(t)
    /\ consumed' = consumed + Meanwhile(lag)
    /\ slack' = slack + Period * DayTicks * RoundingError(t)
                      + 2 * Units * Meanwhile(lag)

\* Mistake: the time left is kept though only whole days were settled.
change_tier_keeps_time(t, lag) ==
    /\ tier # t /\ Call /\ Settles(t)
    /\ Settle(t, lag)
    /\ tier' = t
    /\ auto_renew' = TRUE
    /\ UNCHANGED <<left, begun>>

\* An error on the same tier.  The days that remain are counted first, and the
\* new paid_until is so many whole days from a second reading of the clock.
change_tier(t, lag) ==
    /\ tier # t /\ Call /\ Settles(t)
    /\ Settle(t, lag)
    /\ tier' = t
    /\ left' = days_remaining * DayTicks
    /\ auto_renew' = TRUE
    /\ UNCHANGED begun

\* The clock; nothing renews a period that has run out.
Elapse ==
    /\ is_active
    /\ left' = left - 1
    /\ consumed' = consumed + price_monthly(tier)
    /\ UNCHANGED <<tier, auto_renew, calls, begun, settled, slack>>

SubscriptionNext ==
    \/ \E t \in SubscriptionTier :
         subscribe(t) \/ \E lag \in 0..MaxLag : change_tier(t, lag)
    \/ Elapse

SubscriptionSpec == SubscriptionInit /\ [][SubscriptionNext]_subscriptionVars

-----------------------------------------------------------------------------
(* Properties *)

\* The type invariant.  It bounds the days remaining by the period, which the
\* u32 subtraction 30 - remaining_days in change_tier needs not to underflow.
SubscriptionTypeOK ==
    /\ tier \in SubscriptionTier /\ begun \in SubscriptionTier
    /\ left \in 0..(Period * DayTicks)
    /\ auto_renew \in BOOLEAN
    /\ calls \in 0..MaxCalls
    /\ settled \in Int /\ consumed \in Nat /\ slack \in Nat

\* No service without payment: the price of the tier a period began with and
\* the net amounts that change_tier returned in it cover the service had in
\* the period and all the time that is left on the current tier, whatever
\* sequence of tier changes a customer makes and whenever, but for the
\* rounding of Decimal and the service of the time a call takes.
NeverUndercharged ==
    2 * Period * DayTicks * (price_monthly(begun) * Units + settled) + slack
        >= 2 * Units * (consumed + left * price_monthly(tier))

\* Changing the tier never leaves more paid time than there was, and never
\* brings a period that has run out back to life.
ChangeNeverExtends ==
    [][tier' # tier /\ left' # Period * DayTicks => left' <= left]_subscriptionVars
=============================================================================

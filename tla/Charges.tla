------------------------------ MODULE Charges ------------------------------
(***************************************************************************)
(* Hourly charges (billing/src/calculator.rs, rates.rs and the entries of  *)
(* types.rs): the rate, the price of an hour, and its division between     *)
(* platform and hosts, with the rounding of every Decimal operation that   *)
(* may round.  Rates are exact and are kept in ten thousandths.            *)
(***************************************************************************)
EXTENDS Decimal

CONSTANTS
    TB,             \* bytes of a terabyte: 2^40
    Volumes,        \* data_volume_bytes that are charged for
    Replicas,       \* replication factors in use
    MaxEntries      \* bound: entries made

ASSUME ChargesAssumption ==
    /\ TB \in Nat \ {0} /\ MaxEntries \in Nat
    /\ Volumes \subseteq Nat /\ Replicas \subseteq Nat

VARIABLES
    entry,          \* the last BillingEntry
    entries,        \* history: how many there were
    billed,         \* history: their total_cost, added up
    fees,           \* history: their platform_fee and host_fee, added up
    last_digits     \* history: what the last digits of those fees stand for

chargeVars == <<entry, entries, billed, fees, last_digits>>

DiskType == {"Hdd", "Ssd", "Nvme"}

-----------------------------------------------------------------------------
(* rates.rs *)

\* Twice DiskType::multiplier.
multiplier(disk) == CASE disk = "Hdd" -> 2 [] disk = "Ssd" -> 3 [] disk = "Nvme" -> 4

\* 0.30 * replication * multiplier, and a quarter more with the cushion.
calculate_hourly_rate(disk, replication, cushion) ==
    375 * replication * multiplier(disk) * (IF cushion THEN 5 ELSE 4)

\* PLATFORM_SHARE and HOST_SHARE of an amount.
platform_share(total) == Rounded(total, 10)
host_share(total) == Rounded(9 * total, 10)

-----------------------------------------------------------------------------
(* types.rs and calculator.rs *)

total_cost(hours, volume, rate) ==
    Rounded(Rounded(rate * volume, 10000) * hours, 1)

\* Mistake: the host's share is made from the share of the platform.
BillingEntry_of_share(hours, volume, rate) ==
    LET total == total_cost(hours, volume, rate)
    IN [total_cost |-> total, platform_fee |-> platform_share(total),
        host_fee |-> 9 * platform_share(total)]

\* BillingEntry::new rounds the two fees separately.
BillingEntry(hours, volume, rate) ==
    LET total == total_cost(hours, volume, rate)
    IN [total_cost |-> total, platform_fee |-> platform_share(total),
        host_fee |-> host_share(total)]

verify_split(e) == Sum(e.platform_fee, e.host_fee) = e.total_cost

\* BillingCalculator::split_revenue gives the hosts the rest.
split_revenue(total) ==
    [platform |-> platform_share(total),
     host |-> Difference(total, platform_share(total))]

\* The panics of Decimal end the call.
Computable(hours, volume, rate) ==
    LET total == total_cost(hours, volume, rate)
    IN /\ Fits(rate * volume, 10000)
       /\ Fits(Rounded(rate * volume, 10000) * hours, 1)
       /\ Fits(total, 10) /\ Fits(9 * total, 10)
       /\ Fits(total - platform_share(total), 1)

ChargesInit ==
    /\ entry = [total_cost |-> 0, platform_fee |-> 0, host_fee |-> 0]
    /\ entries = 0 /\ billed = 0 /\ fees = 0 /\ last_digits = 0

calculate_hourly(bytes, disk, replication, cushion) ==
    LET volume == Rounded(bytes * Units, TB)
        rate == calculate_hourly_rate(disk, replication, cushion)
    IN /\ entries < MaxEntries
       /\ Fits(bytes * Units, TB) /\ Computable(1, volume, rate)
       /\ entry' = BillingEntry(1, volume, rate)
       /\ entries' = entries + 1
       /\ billed' = billed + entry'.total_cost
       /\ fees' = fees + entry'.platform_fee + entry'.host_fee
       /\ last_digits' = last_digits + Step(entry'.total_cost, 10)
                                     + Step(9 * entry'.total_cost, 10)

ChargesNext ==
    \E bytes \in Volumes, disk \in DiskType, r \in Replicas, cushion \in BOOLEAN :
        calculate_hourly(bytes, disk, r, cushion)

ChargesSpec == ChargesInit /\ [][ChargesNext]_chargeVars

-----------------------------------------------------------------------------
(* Properties *)

Abs(n) == IF n < 0 THEN -n ELSE n

\* What is paid out is what was charged, up to half a last digit for each fee,
\* however many charges there were and however large; and split_revenue, which
\* gives the hosts the rest, is off by half a last digit of the rest at most.
FeesAddUp ==
    /\ 2 * Abs(fees - billed) <= last_digits
    /\ entries > 0 =>
         LET total == entry.total_cost
             split == split_revenue(total)
         IN 2 * Abs(split.platform + split.host - total)
               <= Step(total - split.platform, 1)

\* docs/BILLING.md and the comment of verify_split: the fees of an entry add up
\* to its total, without rounding loss.
SplitExact == entries > 0 => verify_split(entry)
=============================================================================

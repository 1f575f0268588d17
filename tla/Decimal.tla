------------------------------ MODULE Decimal ------------------------------
(***************************************************************************)
(* rust_decimal::Decimal, as far as the billing crate uses it.             *)
(*                                                                         *)
(* A Decimal is a 96-bit mantissa and a power of ten that divides it, at   *)
(* most the 28th: the larger a number, the fewer digits it has after the   *)
(* point.  Here it is the integer number of its finest units; a step is    *)
(* what the last digit of a mantissa stands for.  A product, quotient, sum *)
(* or difference that has too many digits is rounded half to even at the   *)
(* smallest step at which it fits.                                         *)
(***************************************************************************)
EXTENDS Integers

CONSTANTS
    Units,          \* finest units in one: 10^28
    MaxMantissa,    \* 2^96 - 1
    Steps           \* powers of ten from one to Units

ASSUME DecimalAssumption ==
    Units \in Nat \ {0} /\ MaxMantissa \in Nat /\ Steps \subseteq Nat \ {0}
\* True of natural numbers; there are 29 steps.
ASSUME LeastStepAssumption ==
    \A S \in SUBSET Steps : S # {} => \E s \in S : \A t \in S : s <= t

\* n / d to the nearest integer, half to even.
HalfEven(n, d) ==
    LET q == n \div d  r == n % d
    IN IF 2 * r > d \/ (2 * r = d /\ q % 2 = 1) THEN q + 1 ELSE q

FitsAt(n, d, step) ==
    LET mantissa == HalfEven(n, d * step)
    IN -MaxMantissa <= mantissa /\ mantissa <= MaxMantissa

\* An operation whose result fits at no step panics.
Fits(n, d) == {s \in Steps : FitsAt(n, d, s)} # {}

\* The last digit of the Decimal that stands for n / d.
Step(n, d) ==
    CHOOSE s \in Steps :
        FitsAt(n, d, s) /\ \A t \in Steps : FitsAt(n, d, t) => s <= t

\* The Decimal that stands for n / d.
Rounded(n, d) == HalfEven(n, d * Step(n, d)) * Step(n, d)

Sum(a, b) == Rounded(a + b, 1)
Difference(a, b) == Rounded(a - b, 1)
=============================================================================

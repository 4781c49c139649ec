----------------------------- MODULE Durations -----------------------------
(***************************************************************************)
(* Durations of std::chrono and kss::util::time::checkedDurationCast.  A   *)
(* duration is a count, kept in `Bits' bits, of one of the standard units; *)
(* the units are small multiples of one another that stand for 1000 and 60.*)
(* A long double keeps `Mantissa' significant bits.                        *)
(***************************************************************************)
EXTENDS Integers

CONSTANTS
    Thousand,          (* ns in a us, us in a ms, ms in a s                *)
    Sixty,             (* s in a min, min in an h                          *)
    Bits,              (* width of the count of a duration                 *)
    Mantissa,          (* significant bits of a long double                *)
    Exponents,         (* bound: powers of two a scaled value may have     *)
    EmptyText          (* an empty string, which every conversion refuses  *)

ASSUME ThousandAssumption == Thousand \in Nat \ {0, 1}
ASSUME SixtyAssumption == Sixty \in Nat \ {0, 1}
ASSUME BitsAssumption == Bits \in Nat \ {0, 1}
(* As on x86: both are 64.                                                 *)
ASSUME MantissaAssumption == Mantissa \in Nat /\ Bits <= Mantissa

Units == {"ns", "us", "ms", "s", "min", "h"}
Period ==                                       (* in nanoseconds          *)
    [u \in Units |->
        CASE u = "ns"  -> 1
          [] u = "us"  -> Thousand
          [] u = "ms"  -> Thousand * Thousand
          [] u = "s"   -> Thousand * Thousand * Thousand
          [] u = "min" -> Sixty * Thousand * Thousand * Thousand
          [] u = "h"   -> Sixty * Sixty * Thousand * Thousand * Thousand]
Second == Period["s"]

(* The exponent reaches from the smallest fraction of an hour to the       *)
(* largest count of hours in nanoseconds.                                  *)
ASSUME ExponentsAssumption ==
    /\ Exponents \in Nat /\ Mantissa <= Exponents
    /\ Period["h"] * 2 ^ (Mantissa - 1) <= 2 ^ Exponents
(* Powers of two are powers of two: the provers know nothing of ^.         *)
ASSUME PowersAssumption ==
    /\ 2 ^ 0 = 1
    /\ \A k \in 0 .. 2 * Exponents : 2 ^ k \in Nat /\ 2 ^ (k + 1) = 2 * 2 ^ k

MinCount == -(2 ^ (Bits - 1))
MaxCount == 2 ^ (Bits - 1) - 1
Counts == MinCount .. MaxCount

Magnitude(n) == IF n < 0 THEN -n ELSE n
WithSign(n, m) == IF n < 0 THEN -m ELSE m
(* n / d towards zero, as integers divide and floating point is converted. *)
Truncated(n, d) == WithSign(n, Magnitude(n) \div d)

(* n / d for n >= 0, halves to the even neighbour.                         *)
ToEven(n, d) ==
    LET q == n \div d
        r == n % d
    IN  IF 2 * r < d \/ (2 * r = d /\ q % 2 = 0) THEN q ELSE q + 1

(* n / d with that many significant bits, in units of 1 / 2^Exponents.     *)
FloatingPoint(n, d, bits) ==
    LET m == Magnitude(n) * 2 ^ Exponents
        exponent == CHOOSE e \in 0 .. 2 * Exponents + 1 - bits :
                        d * 2 ^ (bits - 1 + e) <= m /\ m < d * 2 ^ (bits + e)
    IN  IF n = 0 THEN 0
        ELSE WithSign(n, ToEven(m, d * 2 ^ exponent) * 2 ^ exponent)
Double(n, d) == FloatingPoint(n, d, Mantissa - 2)
LongDouble(n, d) == FloatingPoint(n, d, Mantissa)

Returned(v) == [outcome |-> "returned", value |-> v]
Thrown(e) == [outcome |-> "thrown", value |-> e]

(* duration<To>(count of From), when it is known to fit or is not checked. *)
duration_cast(n, from, to) == Truncated(n * Period[from], Period[to])

checkedDurationCast(n, from, to) ==
    LET s == LongDouble(n * Period[from], Period[to])
    IN  IF s < LongDouble(MinCount, 1) \/ s > LongDouble(MaxCount, 1)
        THEN Thrown("overflow_error")
        ELSE Returned(Truncated(s, 2 ^ Exponents))

(* What a cast owes its caller.                                            *)
Fits(n, from, to) ==
    /\ MinCount * Period[to] <= n * Period[from]
    /\ n * Period[from] <= MaxCount * Period[to]
Exact(n, from, to) ==
    IF Fits(n, from, to) THEN Returned(duration_cast(n, from, to))
    ELSE Thrown("overflow_error")
=============================================================================

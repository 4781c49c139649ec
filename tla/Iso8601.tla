------------------------------ MODULE Iso8601 ------------------------------
(***************************************************************************)
(* Reading and writing times as ISO 8601 text (timeutil.cpp, timeutil.hpp).*)
(*                                                                         *)
(* The calendar is abstracted: a struct tm is the number of seconds from   *)
(* the epoch that timegm makes of it.  A text is what its parts say:       *)
(*   fields    how many of year, month, day, hour, minute and second it    *)
(*             has, 0 if they cannot be read;                              *)
(*   clock     the seconds from the epoch they name, the rest at the start;*)
(*   fraction  `groups' groups of digits, each of base Thousand, making    *)
(*             `number'; or NoFraction, or unreadable;                     *)
(*   zone      NoZone, Zulu, unreadable, or a sign with hours and minutes. *)
(* Sixty and MaxHourOffset stand for 60 and 24.  The C library is taken to *)
(* print every year up to 9999 with four digits: one that does not pad the *)
(* years before 1000 makes texts of other lengths of them.                 *)
(***************************************************************************)
EXTENDS Durations

CONSTANTS
    NoFraction, NoZone, Zulu, Unreadable,
    MaxHourOffset,
    LastClock          (* the last second of the year 9999                 *)

ASSUME OffsetAssumption == MaxHourOffset \in Nat
(* Years of four digits, at any offset, are far from the limits of a count.*)
ASSUME ClockAssumption ==
    LastClock \in Nat /\ LastClock + (MaxHourOffset + 1) * (Sixty * Sixty) <= MaxCount

ZoneTexts == [sign : {"+", "-"}, hours : Nat, minutes : Int,
          form : {"hh", "hhmm", "hh:mm", "longer", "sign"}]

Digits == [groups : 1 .. 4, number : Nat]
ASSUME MarksAssumption ==
    /\ NoFraction \notin Digits /\ Unreadable \notin Digits \cup {NoFraction, Zulu, NoZone}
    /\ EmptyText \notin [fields : {6}, clock : Int, fraction : Digits \cup {NoFraction},
                          zone : {Zulu}]

Invalid == Thrown("system_error")

(* A fraction of a second in nanoseconds, halves up.                       *)
Power == [groups \in 0 .. 4 |->
            CASE groups = 0 -> 1
              [] groups = 1 -> Thousand
              [] groups = 2 -> Thousand * Thousand
              [] groups = 3 -> Second
              [] OTHER -> Second * Thousand]
parseNanoseconds(f) ==
    IF f = NoFraction THEN 0
    ELSE (2 * f.number * Second + Power[f.groups]) \div (2 * Power[f.groups])

(* The main portion is read: the form is one of seven lengths, and only    *)
(* whole seconds may be followed by a fraction or a zone.                  *)
MainPortionReadable(text) ==
    /\ text.fields \in 1 .. 6
    /\ text.fields < 6 => text.fraction = NoFraction /\ text.zone = NoZone
    /\ text.fraction = NoFraction /\ text.zone \notin {NoZone, Zulu, Unreadable}
          => text.zone.form # "sign"

(* The hours carry the sign; the minutes are read in two of the forms, and *)
(* ignored in one that is longer (hh:mm:ss).                               *)
HourOffset(zone) == IF zone.sign = "-" THEN -zone.hours ELSE zone.hours
MinuteOffset(zone) == IF zone.form \in {"hhmm", "hh:mm"} THEN zone.minutes ELSE 0
ZoneReadable(zone) ==
    /\ zone # Unreadable
    /\ zone \notin {NoZone, Zulu} =>
          /\ Magnitude(HourOffset(zone)) <= MaxHourOffset
          /\ MinuteOffset(zone) \in 0 .. Sixty - 1

(* What is added to the clock to reach UTC: the sign is that of the hours. *)
ShiftOfHoursOnly(zone) ==
    IF zone \in {NoZone, Zulu} \/ zone.form = "sign" THEN 0
    ELSE MinuteOffset(zone) * Sixty - HourOffset(zone) * (Sixty * Sixty)
timeZoneShift(zone) ==
    IF zone \in {NoZone, Zulu} \/ zone.form = "sign" THEN 0
    ELSE LET shift == Magnitude(HourOffset(zone)) * (Sixty * Sixty)
                      + MinuteOffset(zone) * Sixty
         IN  IF HourOffset(zone) > 0 THEN -shift ELSE shift

(* A lone sign after a fraction meets an assertion, if those are built in. *)
MeetsAssertion(text) ==
    text.zone \notin {NoZone, Zulu, Unreadable} /\ text.zone.form = "sign"

Parsed(text) ==
    IF text = EmptyText THEN Thrown("invalid_argument")
    ELSE IF ~MainPortionReadable(text) \/ text.fraction = Unreadable \/ ~ZoneReadable(text.zone)
    THEN Invalid
    ELSE Returned([tm |-> text.clock + timeZoneShift(text.zone),
                   ns |-> parseNanoseconds(text.fraction)])

Undefined == [outcome |-> "undefined", value |-> 0]

(* A tm as a time point: checked for the seconds, not for what is added.   *)
WholeSeconds(tm, ns, unit) == checkedDurationCast(tm, "s", unit)
TimePoint(tm, ns, unit) ==
    LET t == checkedDurationCast(tm, "s", unit)
    IN  IF t.outcome = "thrown" THEN t
        ELSE IF t.value + duration_cast(ns, "ns", unit) > MaxCount
        THEN Undefined
        ELSE Returned(t.value + duration_cast(ns, "ns", unit))

fromIso8601String(text, unit) ==
    LET p == Parsed(text)
    IN  IF p.outcome = "thrown" THEN p ELSE TimePoint(p.value.tm, p.value.ns, unit)

(* The fraction printed with as few groups of digits as it needs.          *)
FractionOfMilliseconds(ns) ==
    IF ns = 0 THEN NoFraction
    ELSE [groups |-> 1, number |-> ns \div (Thousand * Thousand)]
Fraction(ns) ==
    IF ns = 0 THEN NoFraction
    ELSE IF ns % (Thousand * Thousand) = 0
    THEN [groups |-> 1, number |-> ns \div (Thousand * Thousand)]
    ELSE IF ns % Thousand = 0 THEN [groups |-> 2, number |-> ns \div Thousand]
    ELSE [groups |-> 3, number |-> ns]

(* The buffer of the main portion has no room for a year of five digits,   *)
(* and is not initialized.                                                 *)
toIso8601(tm, ns) ==
    IF tm > LastClock THEN Undefined
    ELSE Returned([fields |-> 6, clock |-> tm, fraction |-> Fraction(ns), zone |-> Zulu])

(* A time point before the epoch loses its fraction.                       *)
toIso8601String(n, unit) ==
    LET secs == checkedDurationCast(n, unit, "s")
        subsecs == n * Period[unit] - secs.value * Second
    IN  IF secs.outcome = "thrown" THEN secs
        ELSE toIso8601(secs.value, IF subsecs > 0 THEN subsecs ELSE 0)
=============================================================================

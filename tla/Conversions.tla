----------------------------- MODULE Conversions -----------------------------
(***************************************************************************)
(* One conversion at a time: a call with its arguments, what it returns or *)
(* throws, and the return to the caller.  The functions have no state of   *)
(* their own; the properties relate a call and its reply.                  *)
(***************************************************************************)
EXTENDS Iso8601, NumberText

CONSTANTS
    Texts,             (* texts that are read as times                     *)
    NumberTexts,       (* texts that are read as numbers or durations      *)
    Ready              (* no call: between two calls                       *)

ASSUME TextsAssumption ==
    \A t \in Texts \ {EmptyText} :
        /\ t.clock \in -LastClock .. LastClock
        /\ t.zone \in ZoneTexts \cup {NoZone, Zulu, Unreadable}
        /\ t.fraction \in {NoFraction, Unreadable} \cup {f \in Digits : f.number < Power[f.groups]}

VARIABLES asked, reply
convvars == <<asked, reply>>

Requests ==
    [op : {"cast"}, count : Counts, from : Units, to : Units]
    \cup [op : {"write"}, count : Counts, unit : Units]
    \cup [op : {"parse"}, text : Texts] \cup [op : {"read"}, text : Texts, unit : Units]
    \cup [op : {"integer"}, text : NumberTexts, type : DOMAIN Ranges]
    \cup [op : {"duration"}, text : NumberTexts, unit : Units]

(* What is returned, and what an exception or nothing says instead.        *)
Values ==
    Int \cup {"overflow_error", "system_error", "invalid_argument", "EINVAL", "ERANGE"}
    \cup [tm : Int, ns : Int]
    \cup [fields : {6}, clock : Int, fraction : Digits \cup {NoFraction}, zone : {Zulu}]
Replies == [outcome : {"returned", "thrown", "undefined", "aborted"}, value : Values]

ASSUME ReadyAssumption == Ready \notin Requests \cup Replies

ConvInit == asked = Ready /\ reply = Ready

Call(c, r) == asked' = c /\ reply' = r
Return == asked # Ready /\ asked' = Ready /\ reply' = Ready

cast(n, from, to) ==
    Call([op |-> "cast", count |-> n, from |-> from, to |-> to],
         checkedDurationCast(n, from, to))
write(n, unit) ==
    Call([op |-> "write", count |-> n, unit |-> unit], toIso8601String(n, unit))
parse(text) == Call([op |-> "parse", text |-> text], Parsed(text))
asserts(c) ==
    /\ Parsed(c.text).outcome = "returned"
    /\ MeetsAssertion(c.text)
    /\ Call(c, [outcome |-> "aborted", value |-> 0])
parse_asserts(text) == asserts([op |-> "parse", text |-> text])
read(text, unit) ==
    Call([op |-> "read", text |-> text, unit |-> unit], fromIso8601String(text, unit))
read_asserts(text, unit) == asserts([op |-> "read", text |-> text, unit |-> unit])
read_integer(text, type) ==
    Call([op |-> "integer", text |-> text, type |-> type], convert_integer(text, type))
read_duration(text, unit) ==
    Call([op |-> "duration", text |-> text, unit |-> unit], convert_duration(text, unit))

Ask ==
    \/ \E n \in Counts, from, to \in Units : cast(n, from, to)
    \/ \E n \in Counts, unit \in Units : write(n, unit)
    \/ \E text \in Texts : parse(text) \/ parse_asserts(text)
    \/ \E text \in Texts, unit \in Units : read(text, unit) \/ read_asserts(text, unit)
    \/ \E text \in NumberTexts, type \in DOMAIN Ranges : read_integer(text, type)
    \/ \E text \in NumberTexts, unit \in Units : read_duration(text, unit)

ConvNext ==
    \/ asked = Ready /\ Ask
    \/ Return

ConvSpec == ConvInit /\ [][ConvNext]_convvars

-----------------------------------------------------------------------------
Called(op) == asked # Ready /\ asked.op = op
Answered(outcome) == reply.outcome = outcome

(* A call is answered, and a duration or time point that is returned fits  *)
(* in the count of its type.                                               *)
RepliesTyped ==
    /\ asked = Ready <=> reply = Ready
    /\ asked # Ready =>
          /\ reply.outcome \in {"returned", "thrown", "undefined", "aborted"}
          /\ asked.op \in {"cast", "read", "duration"} /\ Answered("returned")
                => reply.value \in Counts

(* checkedDurationCast gives the truncated value of every duration that    *)
(* lies within the limits of the target, and throws for every other: the   *)
(* rounding of long double never reaches the count, nor passes a limit.    *)
CastIsExact ==
    RepliesTyped /\ (Called("cast") => reply = Exact(asked.count, asked.from, asked.to))

(* What toIso8601String writes, fromIso8601String reads as the same time   *)
(* point, for one at or after the epoch or of whole seconds; a fraction    *)
(* before the epoch is cut off towards it.                                 *)
WrittenIsRead ==
    Called("write") /\ Answered("returned") =>
        fromIso8601String(reply.value, asked.unit) =
            IF asked.count >= 0 THEN Returned(asked.count)
            ELSE checkedDurationCast(reply.value.clock, "s", asked.unit)

(* The offset of a zone from UTC, as the text says it; of a longer text,   *)
(* its hours.                                                              *)
Offset(zone) ==
    IF zone \in {NoZone, Zulu} \/ zone.form = "sign" THEN 0
    ELSE WithSign(IF zone.sign = "-" THEN -1 ELSE 1,
                  zone.hours * (Sixty * Sixty) + MinuteOffset(zone) * Sixty)
ZeroHoursAhead(zone) ==
    zone \notin {NoZone, Zulu} /\ zone.form # "sign" /\ zone.sign = "+" /\ zone.hours = 0

(* parseIso8601 subtracts the offset of the zone from the clock, except    *)
(* for +00:mm, whose minutes it adds.                                      *)
OffsetIsSubtracted ==
    Called("parse") /\ Answered("returned") =>
        reply.value.tm =
            IF ZeroHoursAhead(asked.text.zone)
            THEN asked.text.clock + Offset(asked.text.zone)
            ELSE asked.text.clock - Offset(asked.text.zone)

(* fromIso8601String returns the last time point of its type not after the *)
(* instant read (units of a second or less); it throws overflow_error      *)
(* exactly if the whole seconds do not fit, and overflows unnoticed only   *)
(* if the fraction is what does not.                                       *)
InstantIsRead ==
    Called("read") /\ ~Answered("aborted") /\ Parsed(asked.text).outcome = "returned" =>
        LET p == Parsed(asked.text).value
            instant == p.tm * Second + p.ns
            unit == Period[asked.unit]
        IN  /\ reply = Thrown("overflow_error") <=> ~Fits(p.tm, "s", asked.unit)
            /\ Answered("undefined") <=>
                  Fits(p.tm, "s", asked.unit) /\ instant >= (MaxCount + 1) * unit
            /\ Answered("returned") /\ unit <= Second =>
                  reply.value * unit <= instant /\ instant < (reply.value + 1) * unit

(* convert returns the number the text starts with, in the unit it ends    *)
(* with, if that can be represented, and otherwise throws.                 *)
ConvertedAsWritten ==
    /\ Called("integer") /\ asked.text # EmptyText /\ asked.text.number # NoNumber =>
          LET n == Number(asked.text)
          IN  IF n \in Ranges[asked.type] /\ (asked.type \in {"int", "long"} \/ ~asked.text.minus)
              THEN reply = Returned(n) ELSE Answered("thrown")
    /\ Called("duration") /\ asked.text # EmptyText
       /\ asked.text.number # NoNumber /\ asked.text.ending \in Units =>
          LET n == Number(asked.text)
          IN  IF n \in Counts THEN reply = Exact(n, asked.text.ending, asked.unit)
              ELSE Answered("thrown")
=============================================================================

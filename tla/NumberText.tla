----------------------------- MODULE NumberText -----------------------------
(***************************************************************************)
(* kss::util::strings::convert for integers and durations (convert.cpp).   *)
(* A text is EmptyText or what strtol and endsWith see of it: whether it   *)
(* starts with a minus sign, the magnitude of the number it starts with,   *)
(* and how it ends.  What lies between is not looked at by the code.       *)
(***************************************************************************)
EXTENDS Durations, FiniteSetsExt

CONSTANTS
    NoNumber,
    IntBits            (* width of int and unsigned                        *)

ASSUME IntBitsAssumption == IntBits \in 1 .. Bits

Ranges ==
    [type \in {"int", "long", "unsigned", "unsigned long"} |->
        CASE type = "int" -> -(2 ^ (IntBits - 1)) .. 2 ^ (IntBits - 1) - 1
          [] type = "long" -> Counts
          [] type = "unsigned" -> 0 .. 2 ^ IntBits - 1
          [] type = "unsigned long" -> 0 .. 2 ^ Bits - 1]

Number(text) == IF text.minus THEN -text.number ELSE text.number

(* strtol or strtoul, with their errors thrown.                            *)
doConvert(text, type) ==
    IF text = EmptyText THEN Thrown("invalid_argument")
    ELSE IF text.number = NoNumber THEN Thrown("EINVAL")
    ELSE IF Number(text) \in Ranges[type] THEN Returned(Number(text))
    ELSE Thrown("ERANGE")
doConvertUnsigned(text, type) ==
    IF text # EmptyText /\ text.minus THEN Thrown("EINVAL") ELSE doConvert(text, type)

(* int and unsigned are read as the longer type, then narrowed.            *)
Narrowed(r, type) ==
    IF r.outcome = "returned" /\ r.value \notin Ranges[type] THEN Thrown("ERANGE") ELSE r
convert_integer(text, type) ==
    CASE type = "long" -> doConvert(text, "long")
      [] type = "int" -> Narrowed(doConvert(text, "long"), "int")
      [] type = "unsigned long" -> doConvertUnsigned(text, "unsigned long")
      [] type = "unsigned" -> Narrowed(doConvertUnsigned(text, "unsigned long"), "unsigned")

(* The suffixes in the order they are tried: the first that fits counts.   *)
endsWith(text, suffix) ==
    \/ text.ending = suffix
    \/ suffix = "s" /\ text.ending \in {"ns", "us", "ms"}
ShortestFirst == <<"s", "h", "ns", "us", "ms", "min">>
Suffixes == <<"ns", "us", "ms", "s", "min", "h">>
Matches(text) == {i \in DOMAIN Suffixes : endsWith(text, Suffixes[i])}

convert_duration(text, unit) ==
    IF text = EmptyText THEN Thrown("invalid_argument")
    ELSE IF Matches(text) = {} THEN Thrown("EINVAL")
    ELSE LET count == doConvert(text, "long")
         IN  IF count.outcome = "thrown" THEN count
             ELSE checkedDurationCast(count.value, Suffixes[Min(Matches(text))], unit)
=============================================================================

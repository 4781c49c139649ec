--------------------------- MODULE MCConversions ---------------------------
(* Every count of seven bits in every pair of units; texts on both sides   *)
(* of every limit.                                                         *)
EXTENDS Conversions, TLC

Plain(fields, clock) ==
    [fields |-> fields, clock |-> clock, fraction |-> NoFraction, zone |-> NoZone]

MCFractions ==
    {NoFraction, Unreadable}
    \cup {[groups |-> g, number |-> n] : g \in {1, 2}, n \in {1, 2}}
    \cup {[groups |-> 3, number |-> n] : n \in {1, Second - 1}}
    \cup {[groups |-> 4, number |-> n] : n \in {1, Power[4] - 1}}

MCZones ==
    {NoZone, Zulu, Unreadable}
    \cup {[sign |-> s, hours |-> h, minutes |-> m, form |-> f] :
            s \in {"+", "-"}, h \in 0 .. MaxHourOffset + 1,
            m \in {-1, 0, 1, Sixty}, f \in {"hh", "hhmm", "hh:mm", "longer", "sign"}}

MCTexts ==
    {EmptyText}
    \cup {Plain(f, c) : f \in 0 .. 6, c \in {-2, 0, 2}}
    \cup {[fields |-> 6, clock |-> c, fraction |-> f, zone |-> z] :
            c \in {-3, -1, 0, 2, LastClock}, f \in MCFractions, z \in MCZones}
    \cup {[fields |-> 5, clock |-> 0, fraction |-> NoFraction, zone |-> Zulu]}

MCNumberTexts ==
    {EmptyText}
    \cup {[minus |-> m, number |-> n, ending |-> e] :
            m \in BOOLEAN, n \in {NoNumber} \cup 0 .. 2 ^ Bits,
            e \in Units \cup {"m", "other"}}
=============================================================================

--------------------------- MODULE MCTimeZoneEnv ---------------------------
(* Two threads and two zones: one conversion can disturb another.          *)
EXTENDS TimeZoneEnv

CONSTANTS t1, t2, z1, z2

MCThreads == {t1, t2}
MCZones == {z1, z2}
=============================================================================

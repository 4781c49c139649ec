-------------------------- MODULE MCCircularArray --------------------------
(* Two interchangeable values and up to MaxCapacity slots.                 *)
EXTENDS CircularArray, TLC

CONSTANTS v1, v2

MCValues == {v1, v2}
Symmetric == Permutations(MCValues)
=============================================================================

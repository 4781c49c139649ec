-------------------------- MODULE MCSequentialMap --------------------------
(* Four keys: entries before, in and after an erased range of two.         *)
EXTENDS SequentialMap, TLC

CONSTANTS k1, k2, k3, k4, v1, v2

MCKeys == {k1, k2, k3, k4}
MCValues == {v1, v2}
Symmetric == Permutations(MCKeys)
=============================================================================

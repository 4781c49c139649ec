-------------------------- MODULE MCArrayIterators --------------------------
(* Two objects, storage for both, a temporary and a lost copy, and one     *)
(* iterator whose positions have two bits.                                 *)
EXTENDS ArrayIterators, TLC

CONSTANTS o1, o2, b1, b2, b3, v1, v2

MCObjects == {o1, o2}
MCBuffers == {b1, b2, b3}
MCValues == {v1, v2}
Symmetric == Permutations(MCObjects) \cup Permutations(MCBuffers) \cup Permutations(MCValues)
=============================================================================

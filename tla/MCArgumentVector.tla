-------------------------- MODULE MCArgumentVector --------------------------
(* Two objects of up to three arguments.                                   *)
EXTENDS ArgumentVector, TLC

CONSTANTS a1, a2, t1, t2

MCObjects == {a1, a2}
MCTexts == {t1, t2}
Symmetric == Permutations(MCObjects) \cup Permutations(MCTexts)
=============================================================================

---------------------------- MODULE MCSubString ----------------------------
EXTENDS SubString, TLC
MCSymmetry == Permutations(Views) \cup Permutations(CStrings) \cup Permutations(Chars)
=============================================================================

----------------------------- MODULE TextParts -----------------------------
(* The parts of a text between its delimiters: the definition of a split   *)
(* that a tokenizer is measured against.  Places are counted from 0.       *)
EXTENDS Naturals, SequencesExt

CONSTANT Delims

Part(i, j) == [from |-> i, to |-> j]

(* Where the parts of s between places i and j end, and where they start.  *)
Cuts(s, i, j) == {p \in i .. j - 1 : s[p + 1] \in Delims} \cup {j}
Starts(s, i, j) == {i} \cup {p + 1 : p \in Cuts(s, i, j) \ {j}}

(* From every start to the first cut behind it: one part more than there   *)
(* are delimiters, empty parts included.                                   *)
Split(s, i, j) ==
    {w \in [from : Starts(s, i, j), to : Cuts(s, i, j)] :
        w.from <= w.to /\ Cuts(s, i, j) \cap (w.from .. w.to - 1) = {}}
=============================================================================

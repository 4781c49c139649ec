---------------------------- MODULE TokenStream ----------------------------
(***************************************************************************)
(* What a tokenizer promises, however many consumers read it: the parts of *)
(* a text between the delimiters are handed out from left to right, each   *)
(* of them once.  A part is named by the places it lies between, counted   *)
(* from 0.                                                                 *)
(***************************************************************************)
EXTENDS TextParts

CONSTANT NoToken

VARIABLES text, remaining, token

vars == <<text, remaining, token>>

Init ==
    /\ \/ remaining = {}
       \/ \E i, j \in 0 .. Len(text) : i < j /\ remaining = Split(text, i, j)
    /\ token = NoToken

Deliver ==
    /\ token' \in remaining
    /\ \A part \in remaining : token'.from <= part.from
    /\ remaining' = remaining \ {token'}
    /\ UNCHANGED text

Spec == Init /\ [][Deliver]_vars
=============================================================================

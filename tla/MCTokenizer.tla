---------------------------- MODULE MCTokenizer ----------------------------
(* Texts of letters and delimiters, and two iterators.                     *)
EXTENDS Tokenizer, TLC

CONSTANTS x, sep, i1, i2

MCChars == {x, sep}
MCDelims == {sep}
MCIterators == {i1, i2}
=============================================================================

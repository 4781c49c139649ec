----------------------------- MODULE Tokenizer -----------------------------
(***************************************************************************)
(* A kss::util::strings::Tokenizer (Sources/tokenizer.hpp, tokenizer.cpp)  *)
(* and the ForwardIterators over it (Sources/iterator.hpp).  The iterators *)
(* have no position of their own: each keeps the token it took last, and   *)
(* takes the next one from the tokenizer, as callers of next() do.         *)
(*                                                                         *)
(* A token is named by the places it lies between, from |-> f, to |-> t    *)
(* for the characters f .. t-1, counted from 0 as std::string does.        *)
(***************************************************************************)
EXTENDS TextParts

CONSTANTS
    Chars,
    MaxLength,     (* bound on the length of the text                      *)
    Iterators,     (* the iterator objects of the program                  *)
    NoToken        (* the value of an iterator that took none, or was moved *)

ASSUME DelimsAssumption == Delims \subseteq Chars /\ Delims # {}
ASSUME LengthAssumption == MaxLength \in Nat

VARIABLES
    text, end, lastPos,     (* _s, _end, _lastPos                          *)
    token,                  (* what the last next() returned               *)
    iter,                   (* _cont # nullptr and _value of each iterator *)
    failed                  (* a contract condition failed                 *)

vars == <<text, end, lastPos, token, iter, failed>>

Tokens == [from : Nat, to : Nat]
End == [stream |-> FALSE, value |-> NoToken]

(* The constructor: start = end means that there are no tokens.            *)
Init ==
    /\ text \in BoundedSeq(Chars, MaxLength)
    /\ end \in 0 .. Len(text)
    /\ \E start \in 0 .. Len(text) + 1 : lastPos = IF start = end THEN end + 1 ELSE start
    /\ token = NoToken
    /\ iter = [i \in Iterators |-> End]
    /\ failed = FALSE

-----------------------------------------------------------------------------
(* next().                                                                 *)

hasAnother == lastPos <= end

Delimiter(p) == text[p + 1] \in Delims

(* _s.find_first_of(_delim, _lastPos) finds p before _end.                 *)
Found(p) ==
    /\ p \in lastPos .. end - 1 /\ Delimiter(p)
    /\ \A q \in lastPos .. p - 1 : ~Delimiter(q)

final_token ==
    /\ \A p \in lastPos .. end - 1 : ~Delimiter(p)
    /\ token' = Part(lastPos, end)
    /\ lastPos' = end + 1

empty_token ==
    /\ Found(lastPos)
    /\ token' = Part(lastPos, lastPos)
    /\ lastPos' = lastPos + 1

(* Seeded fault: a run of two delimiters counts as one.                    *)
next_token_merged ==
    \E p \in lastPos + 1 .. end - 1 :
        /\ Found(p)
        /\ token' = Part(lastPos, p)
        /\ lastPos' = IF p + 1 < end /\ Delimiter(p + 1) THEN p + 2 ELSE p + 1

next_token ==
    \E p \in lastPos + 1 .. end - 1 :
        /\ Found(p)
        /\ token' = Part(lastPos, p)
        /\ lastPos' = p + 1

next == final_token \/ empty_token \/ next_token

(* A caller of next(); its precondition is that there is another token.    *)
stream_next ==
    /\ ~failed
    /\ \/ hasAnother /\ next /\ UNCHANGED failed
       \/ ~hasAnother /\ failed' = TRUE /\ UNCHANGED <<token, lastPos>>
    /\ UNCHANGED <<text, end, iter>>

-----------------------------------------------------------------------------
(* The iterators.                                                          *)

(* Seeded fault: the iterator works on a copy of the tokenizer.            *)
begin_of_copy(i) ==
    /\ ~failed
    /\ \/ /\ hasAnother
          /\ \E p \in lastPos .. end :
                iter' = [iter EXCEPT ![i] = [stream |-> TRUE, value |-> Part(lastPos, p)]]
       \/ /\ ~hasAnother
          /\ iter' = [iter EXCEPT ![i] = End]
    /\ UNCHANGED <<text, end, lastPos, token, failed>>

(* it = t.begin(), which takes a token.                                    *)
begin(i) ==
    /\ ~failed
    /\ \/ /\ hasAnother /\ next
          /\ iter' = [iter EXCEPT ![i] = [stream |-> TRUE, value |-> token']]
       \/ /\ ~hasAnother
          /\ iter' = [iter EXCEPT ![i] = End]
          /\ UNCHANGED <<token, lastPos>>
    /\ UNCHANGED <<text, end, failed>>

(* Seeded fault: an iterator that finds no more tokens stays where it is.  *)
advance_or_stay(i, its) ==
    /\ iter[i].stream
    /\ \/ /\ hasAnother /\ next
          /\ iter' = [its EXCEPT ![i].value = token']
       \/ /\ ~hasAnother
          /\ iter' = its
          /\ UNCHANGED <<token, lastPos>>
    /\ UNCHANGED <<text, end, failed>>

(* ++it, with the other iterators as given.                                *)
advance(i, its) ==
    /\ iter[i].stream
    /\ \/ /\ hasAnother /\ next
          /\ iter' = [its EXCEPT ![i].value = token']
       \/ /\ ~hasAnother
          /\ iter' = [its EXCEPT ![i].stream = FALSE]
          /\ UNCHANGED <<token, lastPos>>
    /\ UNCHANGED <<text, end, failed>>

increment(i) == ~failed /\ advance(i, iter)

(* j = it++                                                                *)
post_increment(i, j) == ~failed /\ i # j /\ advance(i, [iter EXCEPT ![j] = iter[i]])

(* The precondition of both on an end iterator.                            *)
increment_end(i) ==
    /\ ~failed /\ ~iter[i].stream
    /\ failed' = TRUE
    /\ UNCHANGED <<text, end, lastPos, token, iter>>

copy(i, j) ==
    /\ ~failed /\ i # j
    /\ iter' = [iter EXCEPT ![i] = iter[j]]
    /\ UNCHANGED <<text, end, lastPos, token, failed>>

(* A moved-from string is left unspecified.  Only the constructor makes    *)
(* its source an end iterator.                                             *)
move_construct(i, j) ==
    /\ ~failed /\ i # j
    /\ iter' = [iter EXCEPT ![i] = iter[j], ![j] = End]
    /\ UNCHANGED <<text, end, lastPos, token, failed>>

move_assign(i, j) ==
    /\ ~failed /\ i # j
    /\ iter' = [iter EXCEPT ![i] = iter[j], ![j].value = NoToken]
    /\ UNCHANGED <<text, end, lastPos, token, failed>>

swap(i, j) ==
    /\ ~failed /\ i # j
    /\ iter' = [iter EXCEPT ![i] = iter[j], ![j] = iter[i]]
    /\ UNCHANGED <<text, end, lastPos, token, failed>>

Next ==
    \/ stream_next
    \/ \E i \in Iterators :
          \/ begin(i)
          \/ increment(i)
          \/ increment_end(i)
    \/ \E i, j \in Iterators :
          \/ post_increment(i, j)
          \/ copy(i, j)
          \/ move_construct(i, j)
          \/ move_assign(i, j)
          \/ swap(i, j)

(* A loop over an iterator goes on while the iterator is not the end.      *)
Fairness == \A i \in Iterators : WF_vars(increment(i))

Spec == Init /\ [][Next]_vars /\ Fairness

-----------------------------------------------------------------------------
(* Properties.                                                             *)

(* The positions are those of the text and the one after its end; values   *)
(* are tokens.                                                             *)
TypeOK ==
    /\ text \in Seq(Chars) /\ end \in 0 .. Len(text)
    /\ lastPos \in 0 .. Len(text) + 1
    /\ token \in Tokens \cup {NoToken}
    /\ iter \in [Iterators -> [stream : BOOLEAN, value : Tokens \cup {NoToken}]]
    /\ failed \in BOOLEAN

(* What an iterator holds was taken from the text for good: it lies before *)
(* everything any consumer will still get, so that no two of them walk the *)
(* same part, and a copy cannot repeat the walk of its original.           *)
HeldIsTaken ==
    \A i \in Iterators : iter[i].value # NoToken => iter[i].value.to < lastPos

(* The two together.                                                       *)
TokensAccountedFor == TypeOK /\ HeldIsTaken

(* Every loop over an iterator ends, whatever other consumers take from    *)
(* the same tokenizer and whatever copies are made of the iterator.        *)
LoopsEnd == \A i \in Iterators : iter[i].stream ~> (~iter[i].stream \/ failed)

(* All consumers together get the parts of the text, in order, each once.  *)
Stream == INSTANCE TokenStream WITH
    remaining <- IF hasAnother THEN Split(text, lastPos, end) ELSE {}
ImplementsStream == Stream!Spec
=============================================================================

----------------------------- MODULE OrderedMap -----------------------------
(***************************************************************************)
(* What a map that remembers the order of insertion promises: its entries  *)
(* in that order, at most one for a key, found by key or by place, and     *)
(* erased without disturbing the order of the others.                      *)
(*                                                                         *)
(* An insertion that runs out of memory changes nothing, or leaves the map *)
(* torn: the entry is there and the key is not known.  Then only clear()   *)
(* helps; any other call ends the process.                                 *)
(***************************************************************************)
EXTENDS Naturals, SequencesExt

CONSTANTS Keys, Values, Default, Nothing, MaxEntries

VARIABLES entries, torn, reply

vars == <<entries, torn, reply>>

Alive == reply.outcome \notin {"condition_failed", "undefined"}

Answers(op, outcome, value) ==
    /\ Alive
    /\ reply' = [op |-> op, outcome |-> outcome, value |-> value]

Keep == UNCHANGED <<entries, torn>>

Has(k) == \E i \in DOMAIN entries : entries[i].key = k
ValueOf(k) == (CHOOSE e \in Range(entries) : e.key = k).value
Entry(k, v) == [key |-> k, value |-> v]

Init ==
    /\ entries = <<>>
    /\ torn = FALSE
    /\ reply = [op |-> "construct", outcome |-> "returned", value |-> Nothing]

(* at, [], insert, find: a known key yields its value and changes nothing. *)
Get(op, k) ==
    /\ ~torn /\ Has(k)
    /\ Answers(op, "returned", ValueOf(k))
    /\ Keep

Missing(k) ==
    /\ ~torn /\ ~Has(k)
    /\ \/ Answers("at", "out_of_range", Nothing)
       \/ Answers("find", "end", Nothing)
       \/ Answers("erase", "returned", Nothing)
    /\ Keep

(* A new key goes to the end.                                              *)
Add(op, k, v) ==
    /\ ~torn /\ ~Has(k) /\ Len(entries) < MaxEntries
    /\ \/ entries' = Append(entries, Entry(k, v)) /\ torn' = FALSE /\ Answers(op, "returned", v)
       \/ entries' = Append(entries, Entry(k, v)) /\ torn' = TRUE /\ Answers(op, "bad_alloc", Nothing)
       \/ Keep /\ Answers(op, "bad_alloc", Nothing)

Set(k, v) ==
    /\ ~torn
    /\ \E i \in DOMAIN entries :
          /\ entries[i].key = k
          /\ entries' = [entries EXCEPT ![i].value = v]
    /\ Answers("[]=", "returned", v)
    /\ UNCHANGED torn

(* The entries from place i (counted from 0) to before place j go.         *)
Cut(i, j) ==
    /\ ~torn /\ i <= j /\ j <= Len(entries)
    /\ entries' = SubSeq(entries, 1, i) \o SubSeq(entries, j + 1, Len(entries))
    /\ \E op \in {"erase", "eraseIf"} : Answers(op, "returned", Nothing)
    /\ UNCHANGED torn

Refuse(i, j) ==
    /\ ~torn /\ i > j
    /\ Answers("erase", "condition_failed", Nothing)
    /\ Keep

Clear ==
    /\ entries' = <<>> /\ torn' = FALSE
    /\ Answers("clear", "returned", Nothing)

StopOnTorn ==
    /\ torn
    /\ \E op \in {"at", "[]", "[]=", "insert", "find", "erase"} :
          Answers(op, "condition_failed", Nothing)
    /\ Keep

Next ==
    \/ \E k \in Keys :
          \/ \E op \in {"at", "[]", "insert", "find"} : Get(op, k)
          \/ Missing(k)
          \/ Add("[]", k, Default)
          \/ \E v \in Values : Add("insert", k, v) \/ Set(k, v)
    \/ \E i, j \in 0 .. MaxEntries : Cut(i, j) \/ Refuse(i, j)
    \/ Clear
    \/ StopOnTorn

Spec == Init /\ [][Next]_vars
=============================================================================

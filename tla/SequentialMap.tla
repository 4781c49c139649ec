---------------------------- MODULE SequentialMap ----------------------------
(***************************************************************************)
(* One kss::util::containers::SequentialMap (Sources/sequentialmap.hpp):   *)
(* the entries in `vec', in the order of their insertion, and `map', which *)
(* gives the place of each key in it, counted from 0.                      *)
(*                                                                         *)
(* Every call but clear first checks that the two have the same size; a    *)
(* failed condition ends the process.  An insertion may run out of memory  *)
(* before its two halves or between them.  insert(first, last) and the     *)
(* constructor from a range are insert after insert; the iterator is a     *)
(* place in vec.                                                           *)
(* eraseIf of Sources/containerutil.hpp comes in through these iterators,  *)
(* which let it move the entries under the places filed for their keys.    *)
(***************************************************************************)
EXTENDS Integers, SequencesExt

CONSTANTS
    Keys, Values,
    Default,       (* mapped_type()                                        *)
    Nothing,       (* a reply without a value                              *)
    MaxEntries     (* bound on the entries inserted                        *)

ASSUME DefaultAssumption == Default \in Values
ASSUME BoundAssumption == MaxEntries \in Nat

VARIABLES
    vec, map,
    moved,         (* how the key of an entry that was moved away reads    *)
    shuffled,      (* an eraseIf moved an entry, and no clear() since      *)
    reply

vars == <<vec, map, moved, shuffled, reply>>

Alive == reply.outcome \notin {"condition_failed", "undefined"}

Answers(op, outcome, value) ==
    /\ Alive
    /\ reply' = [op |-> op, outcome |-> outcome, value |-> value]

Unchanged == UNCHANGED <<vec, map>>

(* A map whose places are wrong is followed only to what find and at say.  *)
Followed == ~shuffled /\ UNCHANGED <<moved, shuffled>>

(* _vec.size() == _map.size()                                              *)
SizesAgree == Len(vec) = Cardinality(DOMAIN map)

Known(k) == k \in DOMAIN map
Entry(k, v) == [key |-> k, value |-> v]

(* The entry find(k) reaches.                                              *)
Found(k) == vec[map[k] + 1]

Init ==
    /\ vec = <<>>
    /\ map = <<>>
    /\ \/ moved = [k \in Keys |-> k]
       \/ \E e \in Keys : moved = [k \in Keys |-> e]
    /\ shuffled = FALSE
    /\ reply = [op |-> "construct", outcome |-> "returned", value |-> Nothing]

-----------------------------------------------------------------------------
(* The precondition of every call but clear.                               *)
SizesDisagree(op) ==
    /\ ~SizesAgree
    /\ Answers(op, "condition_failed", Nothing)
    /\ Unchanged

(* find and at: the value found, or how a key that is not known is answered*)
LookUp(op, k, unknown) ==
    /\ SizesAgree
    /\ \/ ~Known(k) /\ Answers(op, unknown, Nothing)
       \/ Known(k) /\ map[k] >= 0 /\ Answers(op, "returned", Found(k).value)
       \/ Known(k) /\ map[k] < 0 /\ Answers(op, "undefined", Nothing)
    /\ Unchanged /\ UNCHANGED <<moved, shuffled>>

find(k) == LookUp("find", k, "end")
at(k) == LookUp("at", k, "out_of_range")

(* First the entry, then its place; either may throw.                      *)
InsertNew(op, k, v) ==
    /\ ~Known(k) /\ Len(vec) < MaxEntries
    /\ \/ /\ vec' = Append(vec, Entry(k, v))
          /\ map' = [i \in DOMAIN map \cup {k} |-> IF i = k THEN Len(vec) ELSE map[i]]
          /\ Answers(op, "returned", v)
       \/ /\ vec' \in {vec, Append(vec, Entry(k, v))}
          /\ UNCHANGED map
          /\ Answers(op, "bad_alloc", Nothing)

(* Seeded fault: a known key gets the new value.                           *)
insert_or_assign(k, v) ==
    /\ SizesAgree
    /\ \/ /\ Known(k)
          /\ vec' = [vec EXCEPT ![map[k] + 1].value = v]
          /\ Answers("insert", "returned", v)
          /\ UNCHANGED map
       \/ InsertNew("insert", k, v)

insert(k, v) ==
    /\ SizesAgree
    /\ \/ Known(k) /\ Answers("insert", "returned", Found(k).value) /\ Unchanged
       \/ InsertNew("insert", k, v)

subscript(k) ==
    /\ SizesAgree
    /\ \/ Known(k) /\ Answers("[]", "returned", Found(k).value) /\ Unchanged
       \/ InsertNew("[]", k, Default)

(* m[k] = v, or at(k) = v, for a known key.                                *)
assign(k, v) ==
    /\ SizesAgree /\ Known(k)
    /\ vec' = [vec EXCEPT ![map[k] + 1].value = v]
    /\ Answers("[]=", "returned", v)
    /\ UNCHANGED map

(* Seeded fault: the places of the entries that follow are not reduced.    *)
EraseUnshifted(i, j) ==
    /\ map' = [k \in DOMAIN map \ {vec[n].key : n \in i + 1 .. j} |-> map[k]]
    /\ vec' = SubSeq(vec, 1, i) \o SubSeq(vec, j + 1, Len(vec))

(* The keys of the entries go from map, the entries from vec, and every    *)
(* place from i on is reduced by their number.                             *)
Erase(i, j) ==
    /\ map' = [k \in DOMAIN map \ {vec[n].key : n \in i + 1 .. j} |->
                  IF map[k] >= i THEN map[k] - (j - i) ELSE map[k]]
    /\ vec' = SubSeq(vec, 1, i) \o SubSeq(vec, j + 1, Len(vec))

(* erase(first, last), and erase(position) with last = position + 1.       *)
erase_range(i, j) ==
    /\ SizesAgree /\ j <= Len(vec) /\ i <= Len(vec)
    /\ IF i > j THEN Answers("erase", "condition_failed", Nothing) /\ Unchanged
       ELSE Erase(i, j) /\ Answers("erase", "returned", Nothing)

erase(k) ==
    /\ SizesAgree
    /\ \/ Known(k) /\ Erase(map[k], map[k] + 1)
       \/ ~Known(k) /\ Unchanged
    /\ Answers("erase", "returned", Nothing)

(* The keys read in the entries from place n on go, and those entries.     *)
EraseRest(stay, read) ==
    LET n == Len(stay)
        m == Len(vec) - n
    IN  /\ map' = [k \in DOMAIN map \ {read[i] : i \in n + 1 .. n + m} |->
                      IF map[k] >= n THEN map[k] - m ELSE map[k]]
        /\ vec' = stay
        /\ Answers("eraseIf", IF n = Cardinality(DOMAIN map') THEN "returned"
                                                            ELSE "condition_failed", Nothing)

(* The places of the entries whose keys are not in `gone'.                 *)
Staying(gone) == {i \in DOMAIN vec : vec[i].key \notin gone}

(* The entries at the places in S, in their order.                         *)
Picked(S) ==
    [n \in 1 .. Cardinality(S) |-> vec[CHOOSE i \in S : Cardinality({j \in S : j <= i}) = n]]

Displaced(gone) == \E i, j \in DOMAIN vec : i < j /\ vec[i].key \in gone /\ vec[j].key \notin gone

(* Seeded fault: the entries that go are put behind those that stay.       *)
eraseIf_partitioned(gone) ==
    /\ SizesAgree /\ ~shuffled
    /\ EraseRest(Picked(Staying(gone)),
                 [i \in DOMAIN vec |->
                    (Picked(Staying(gone)) \o Picked(DOMAIN vec \ Staying(gone)))[i].key])
    /\ shuffled' = Displaced(gone)
    /\ UNCHANGED moved

(* remove_if moves the entries whose keys are not in `gone' to the front;  *)
(* erase reads what it left behind them.                                   *)
eraseIf(gone) ==
    /\ SizesAgree /\ ~shuffled
    /\ EraseRest(Picked(Staying(gone)),
                 [i \in DOMAIN vec |-> IF vec[i].key \in gone THEN vec[i].key
                                                             ELSE moved[vec[i].key]])
    /\ shuffled' = Displaced(gone)
    /\ UNCHANGED moved

clear ==
    /\ vec' = <<>>
    /\ map' = <<>>
    /\ shuffled' = FALSE /\ UNCHANGED moved
    /\ Answers("clear", "returned", Nothing)

Next ==
    \/ /\ Followed
       /\ \/ \E op \in {"at", "[]", "[]=", "insert", "find", "erase"} : SizesDisagree(op)
          \/ \E k \in Keys, v \in Values : insert(k, v)
          \/ \E k \in Keys : subscript(k)
          \/ \E k \in Keys, v \in Values : assign(k, v)
          \/ \E i, j \in 0 .. MaxEntries : erase_range(i, j)
          \/ \E k \in Keys : erase(k)
    \/ \E k \in Keys : find(k)
    \/ \E k \in Keys : at(k)
    \/ \E gone \in SUBSET DOMAIN map : eraseIf(gone)
    \/ clear

Spec == Init /\ [][Next]_vars

-----------------------------------------------------------------------------
(* Properties.                                                             *)

(* vec holds entries, map places; a reply carries a value or nothing.      *)
TypeOK ==
    /\ vec \in Seq([key : Keys, value : Values])
    /\ DOMAIN map \subseteq Keys /\ \A k \in DOMAIN map : map[k] \in Int
    /\ moved \in [Keys -> Keys] /\ shuffled \in BOOLEAN
    /\ reply.value \in Values \cup {Nothing}

(* After any insertions and erasures the place filed for a key is the      *)
(* place of its entry, and every entry but one left by an insertion that   *)
(* ran out of memory has its place filed.                                  *)
PlacesAreExact ==
    ~shuffled =>
        /\ \A k \in DOMAIN map : map[k] \in 0 .. Len(vec) - 1 /\ Found(k).key = k
        /\ \A n \in 1 .. Cardinality(DOMAIN map) : Known(vec[n].key) /\ map[vec[n].key] = n - 1

(* The two halves differ by at most the entry of one interrupted insert,   *)
(* which is the last one, and until clear() no further call gets through.  *)
TornByOneInsert ==
    ~shuffled =>
        /\ Len(vec) - Cardinality(DOMAIN map) \in {0, 1}
        /\ ~SizesAgree /\ Alive => reply.outcome = "bad_alloc"

(* The two halves of the map agree, up to one interrupted insertion.       *)
HalvesAgree == TypeOK /\ PlacesAreExact /\ TornByOneInsert

(* eraseIf of entries that are not the last ones: where keys outlive being *)
(* moved from (numbers), no condition notices that a key it was to remove  *)
(* still finds the entry of another and that a key it kept is not found;   *)
(* where a moved key reads as one the map does not hold, the call ends the *)
(* process.                                                                *)
EraseIfMisfiles ==
    [][shuffled' /\ ~shuffled =>
        LET stayed == {vec'[i].key : i \in DOMAIN vec'}
        IN  /\ (\A k \in Keys : moved[k] = k)
                 => /\ Alive'
                    /\ \E k \in DOMAIN map' : k \notin stayed /\ Found(k)'.key # k
                    /\ \E k \in stayed : ~Known(k)'
            /\ (\A k \in DOMAIN map : moved[k] \notin DOMAIN map) => ~Alive']_vars

(* The two halves together are a map in order of insertion, until an       *)
(* eraseIf shuffles the entries and again after a clear().                 *)
Ordered == INSTANCE OrderedMap WITH entries <- vec, torn <- ~SizesAgree
ImplementsOrderedMap == Ordered!Init /\ [][shuffled' \/ Ordered!Next]_vars
=============================================================================

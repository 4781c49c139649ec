---------------------------- MODULE BoundedDeque ----------------------------
(***************************************************************************)
(* What a container with a fixed number of places promises its caller: a   *)
(* sequence that grows and shrinks at both ends, is read and written by    *)
(* position, never holds more than `capacity' elements, and is replaced or *)
(* moved to larger storage only by the calls that say so.                  *)
(*                                                                         *)
(* The contract library ends the process when a condition fails; such a    *)
(* call is answered by an outcome that is not "returned", and nothing runs *)
(* after it.  The abstract container says exactly when a call may end so.  *)
(***************************************************************************)
EXTENDS Naturals, SequencesExt

CONSTANTS
    Values,       (* what the container may hold                           *)
    Nothing,      (* the value of a reply that carries none                *)
    MaxCapacity   (* bound on the places a caller asks for                 *)

VARIABLES contents, capacity, reply

vars == <<contents, capacity, reply>>


Keep == UNCHANGED <<contents, capacity>>

Alive == reply.outcome \in {"returned", "length_error", "out_of_range", "threw"}

(* Only a running process answers a call.                                  *)
Answers(op, outcome, value) ==
    /\ Alive
    /\ reply' = [op |-> op, outcome |-> outcome, value |-> value]

Init ==
    /\ contents = <<>>
    /\ capacity \in 0 .. MaxCapacity
    /\ reply = [op |-> "construct", outcome |-> "returned", value |-> Nothing]

-----------------------------------------------------------------------------
(* The two ends.                                                           *)

AppendBack(v) ==
    /\ Len(contents) < capacity
    /\ contents' = Append(contents, v)
    /\ Answers("push_back", "returned", Nothing)
    /\ UNCHANGED capacity

AppendFront(v) ==
    /\ Len(contents) < capacity
    /\ contents' = <<v>> \o contents
    /\ Answers("push_front", "returned", Nothing)
    /\ UNCHANGED capacity

RefuseWhenFull ==
    /\ Len(contents) = capacity
    /\ \E op \in {"push_back", "push_front"} : Answers(op, "length_error", Nothing)
    /\ Keep

RemoveBack ==
    /\ contents # <<>>
    /\ contents' = Front(contents)
    /\ Answers("pop_back", "returned", Nothing)
    /\ UNCHANGED capacity

RemoveFront ==
    /\ contents # <<>>
    /\ contents' = Tail(contents)
    /\ Answers("pop_front", "returned", Nothing)
    /\ UNCHANGED capacity

ReadEnds ==
    /\ contents # <<>>
    /\ \/ Answers("front", "returned", Head(contents))
       \/ Answers("back", "returned", Last(contents))
    /\ Keep

StopOnEmpty ==
    /\ contents = <<>>
    /\ \E op \in {"pop_back", "pop_front", "front", "back"} :
           Answers(op, "precondition_failed", Nothing)
    /\ Keep

-----------------------------------------------------------------------------
(* Access by position.                                                     *)

Read(op, n) ==
    /\ n < Len(contents)
    /\ Answers(op, "returned", contents[n + 1])
    /\ Keep

Write(n, v) ==
    /\ n < Len(contents)
    /\ contents' = [contents EXCEPT ![n + 1] = v]
    /\ Answers("[]", "returned", Nothing)
    /\ UNCHANGED capacity

OutOfRange(n) ==
    /\ n >= Len(contents)
    /\ \/ Answers("at", "out_of_range", Nothing)
       \/ Answers("[]", "precondition_failed", Nothing)
    /\ Keep

-----------------------------------------------------------------------------
(* Calls that replace the contents or the storage.                         *)

(* assign, clear: the new contents have the places they need.              *)
Replace(op, s) ==
    /\ contents' = s
    /\ capacity' >= capacity
    /\ capacity' >= Len(s)
    /\ Answers(op, "returned", Nothing)

(* reserve never gives places back.                                        *)
Enlarge(c) ==
    /\ capacity' = IF c <= capacity THEN capacity ELSE c
    /\ Answers("reserve", "returned", Nothing)
    /\ UNCHANGED contents

Fit ==
    /\ capacity' = Len(contents)
    /\ Answers("shrink_to_fit", "returned", Nothing)
    /\ UNCHANGED contents

(* resize cuts at the end, or appends copies of v and finds room for them. *)
Resize(n, v) ==
    /\ contents' = [i \in 1 .. n |-> IF i <= Len(contents) THEN contents[i] ELSE v]
    /\ capacity' = IF n <= capacity THEN capacity ELSE n
    /\ Answers("resize", "returned", Nothing)

-----------------------------------------------------------------------------
(* The calls whose own postconditions may end the process: those that walk *)
(* the elements of a full container, and those that leave no places.       *)

StopOnWalk ==
    /\ Len(contents) = capacity
    /\ contents # <<>>
    /\ \E op \in {"at", "[]", "reserve", "resize"} :
           Answers(op, "postcondition_failed", Nothing)
    /\ Keep

StopOnNoPlaces ==
    /\ contents = <<>>
    /\ \/ Answers("shrink_to_fit", "postcondition_failed", Nothing)
       \/ /\ capacity = 0
          /\ Answers("assign", "postcondition_failed", Nothing)
    /\ Keep

-----------------------------------------------------------------------------
(* What the exception of an element may leave.                             *)

(* Nothing was done, or something was appended or assigned but not all.    *)
ThrowAndKeep ==
    /\ \E op \in {"push_back", "push_front", "reserve", "resize", "shrink_to_fit"} :
          Answers(op, "threw", Nothing)
    /\ Keep

ThrowInResize(n, m, v) ==
    /\ Len(contents) <= m /\ m < n
    /\ contents' = [i \in 1 .. m |-> IF i <= Len(contents) THEN contents[i] ELSE v]
    /\ capacity' = IF n <= capacity THEN capacity ELSE n
    /\ Answers("resize", "threw", Nothing)

ThrowInAssign(s) ==
    /\ Len(s) < MaxCapacity
    /\ contents' = s
    /\ capacity' >= capacity
    /\ Answers("assign", "threw", Nothing)

(* A place in front that holds nothing; whatever uses it is undefined.     *)
ThrowInFront ==
    /\ Len(contents) < capacity
    /\ contents' = <<Nothing>> \o contents
    /\ Answers("push_front", "half_done", Nothing)
    /\ UNCHANGED capacity

UseNothing ==
    /\ reply.outcome = "half_done" /\ Head(contents) = Nothing
    /\ \E op \in {"front", "at", "[]", "pop_front", "clear", "assign"} :
          reply' = [op |-> op, outcome |-> "unconstructed", value |-> Nothing]
    /\ Keep

(* A call given elements of this very container: assign empties it first,  *)
(* resize moves it when the places do not suffice.                         *)
UseOwn ==
    /\ contents # <<>>
    /\ \/ /\ \E outcome \in {"undefined", "precondition_failed"} :
                 Answers("assign", outcome, Nothing)
          /\ contents' = <<>>
          /\ UNCHANGED capacity
       \/ /\ Answers("resize", "undefined", Nothing)
          /\ capacity' > capacity
          /\ UNCHANGED contents

Next ==
    \/ \E v \in Values : AppendBack(v) \/ AppendFront(v)
    \/ RefuseWhenFull
    \/ RemoveBack
    \/ RemoveFront
    \/ ReadEnds
    \/ StopOnEmpty
    \/ \E n \in 0 .. MaxCapacity :
           \/ Read("at", n)
           \/ Read("[]", n)
           \/ OutOfRange(n)
           \/ Enlarge(n)
           \/ \E v \in Values : Write(n, v) \/ Resize(n, v)
    \/ Fit
    \/ Replace("clear", <<>>)
    \/ \E s \in BoundedSeq(Values, MaxCapacity) : Replace("assign", s)
    \/ StopOnWalk
    \/ StopOnNoPlaces
    \/ ThrowAndKeep
    \/ \E n, m \in 0 .. MaxCapacity, v \in Values : ThrowInResize(n, m, v)
    \/ \E s \in BoundedSeq(Values, MaxCapacity) : ThrowInAssign(s)
    \/ ThrowInFront
    \/ UseNothing
    \/ UseOwn

Spec == Init /\ [][Next]_vars
=============================================================================

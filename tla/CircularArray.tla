--------------------------- MODULE CircularArray ---------------------------
(***************************************************************************)
(* One kss::util::containers::CircularArray<T> (Sources/circular_array.hpp)*)
(* and the calls its owner makes on it, one after the other.               *)
(*                                                                         *)
(* The object's fields are the variables.  `array' is the storage: a slot  *)
(* holds the value constructed in it, or Raw while nothing is constructed  *)
(* there.  `reply' is what the last call answered: it returned, it threw   *)
(* (the array is full, or the constructor of an element threw), or one of  *)
(* its kss::contract conditions failed, which ends the process.            *)
(* `leaked' is not a field: it records that storage was given up or        *)
(* forgotten while an element constructed in it had not been destroyed.    *)
(***************************************************************************)
EXTENDS Integers, SequencesExt

CONSTANTS
    Values,        (* the values of value_type                             *)
    Raw,           (* an unconstructed slot; a reply without a value       *)
    MaxCapacity,   (* bound on the capacities a caller asks for            *)
    MinGrowth      (* least growth of assign(first,last): 10 in the code   *)

ASSUME RawAssumption == Raw \notin Values
ASSUME ValuesAssumption == Values # {}   (* resize takes a value to append *)
ASSUME CapacityAssumption == MaxCapacity \in Nat
ASSUME GrowthAssumption == MinGrowth \in Nat \ {0}

VARIABLES
    array, capacity, first, last, size,   (* _array ... _size              *)
    leaked,
    reply

ring == <<array, capacity, first, last, size, leaked>>
vars == <<array, capacity, first, last, size, leaked, reply>>

Ops == {"construct", "push_back", "push_front", "pop_back", "pop_front", "front", "back",
        "at", "[]", "clear", "reserve", "shrink_to_fit", "resize", "assign"}

(* "threw" is the exception of an element, "half_done" such a throw after  *)
(* the counters moved; "unconstructed" is the use of the slot that left.   *)
Outcomes == {"returned", "length_error", "out_of_range", "threw", "half_done", "unconstructed",
             "undefined", "precondition_failed", "postcondition_failed"}

(* The first element counted was not constructed.                          *)
HalfDone == reply.outcome \in {"half_done", "unconstructed"}

(* A failed condition terminates the process; past undefined behaviour     *)
(* nothing is followed, and past "half_done" only what leads to it.        *)
Alive == reply.outcome \in {"returned", "length_error", "out_of_range", "threw"}

(* Only a running process answers a call.                                  *)
Answers(op, outcome, value) ==
    /\ Alive
    /\ reply' = [op |-> op, outcome |-> outcome, value |-> value]
Returns(op) == Answers(op, "returned", Raw)
Throws(op) == Answers(op, "threw", Raw)
Fails(op) == Answers(op, "postcondition_failed", Raw) /\ UNCHANGED ring

-----------------------------------------------------------------------------
(* Positions.                                                              *)

Wrap(i) == IF i >= capacity THEN i - capacity ELSE i
Position(n) == Wrap(first + n)
Before(i) == IF i = 0 THEN capacity - 1 ELSE i - 1

(* Seeded fault: the check forgets that the elements may wrap around.      *)
LegalPositionUnwrapped(pos) == pos >= first /\ (pos < capacity \/ pos < last)

(* The postcondition of [] and at on the slot they are about to return.    *)
LegalPosition(pos) ==
    \/ pos >= first /\ pos < capacity
    \/ pos < last /\ first > last
    \/ pos >= first /\ pos < last

(* A walk over the elements (iterators, copies, ==) passes [] every time.  *)
Iterable == \A n \in 0 .. size - 1 : LegalPosition(Position(n))

Full == size = capacity

Contents == [n \in 1 .. size |-> array[Position(n - 1)]]

(* Seeded fault: only the part before the end of the storage is destroyed. *)
DestroyedToTheEnd ==
    IF first < last THEN first .. last - 1
    ELSE IF last < first THEN first .. capacity - 1
    ELSE {}

(* The slots clear and teardown destroy, and the storage after that.       *)
Destroyed ==
    IF first < last THEN first .. last - 1
    ELSE IF last < first THEN first .. capacity - 1 \cup 0 .. last - 1
    ELSE {}

Cleared == [p \in 0 .. capacity - 1 |-> IF p \in Destroyed THEN Raw ELSE array[p]]

(* What is lost when the slots that remain constructed are forgotten.      *)
LosesElements == \E p \in 0 .. capacity - 1 : Cleared[p] # Raw

Growth == IF capacity \div 4 > MinGrowth THEN capacity \div 4 ELSE MinGrowth

(* The object after s was pushed, from slot 0 on, into c slots.            *)
Filled(s, c) ==
    /\ array' = [p \in 0 .. c - 1 |->
                    IF p < Len(s) THEN s[p + 1]
                    ELSE IF c = capacity THEN Cleared[p] ELSE Raw]
    /\ capacity' = c
    /\ first' = 0
    /\ last' = IF Len(s) >= c THEN 0 ELSE Len(s)
    /\ size' = Len(s)

(* The object after its elements and then t were copied into c new slots;  *)
(* the old storage goes with the temporary of the swap.                    *)
Moved(t, c) ==
    /\ array' = [p \in 0 .. c - 1 |->
                    IF p < size THEN Contents[p + 1]
                    ELSE IF p < size + Len(t) THEN t[p + 1 - size] ELSE Raw]
    /\ capacity' = c
    /\ first' = 0
    /\ last' = IF size + Len(t) >= c THEN 0 ELSE size + Len(t)
    /\ size' = size + Len(t)
    /\ leaked' = (leaked \/ LosesElements)

Init ==
    /\ capacity \in 0 .. MaxCapacity
    /\ array = [p \in 0 .. capacity - 1 |-> Raw]
    /\ first = 0 /\ last = 0 /\ size = 0
    /\ leaked = FALSE
    /\ reply = [op |-> "construct", outcome |-> "returned", value |-> Raw]

-----------------------------------------------------------------------------
(* The two ends.                                                           *)

(* Seeded fault: the room is not checked.                                  *)
push_back_unchecked(v) ==
    /\ capacity > 0
    /\ array' = [array EXCEPT ![last] = v]
    /\ last' = Wrap(last + 1)
    /\ size' = size + 1
    /\ Returns("push_back")
    /\ UNCHANGED <<capacity, first, leaked>>

push_back(v) ==
    /\ ~Full
    /\ array' = [array EXCEPT ![last] = v]
    /\ last' = Wrap(last + 1)
    /\ size' = size + 1
    /\ Returns("push_back")
    /\ UNCHANGED <<capacity, first, leaked>>

(* Seeded fault: as in push_front, the counters move first.                *)
push_back_counted ==
    /\ ~Full
    /\ last' = Wrap(last + 1)
    /\ size' = size + 1
    /\ Throws("push_back")
    /\ UNCHANGED <<array, capacity, first, leaked>>

push_back_throws ==
    /\ ~Full
    /\ Throws("push_back")
    /\ UNCHANGED ring

push_front(v) ==
    /\ ~Full
    /\ first' = Before(first)
    /\ size' = size + 1
    /\ array' = [array EXCEPT ![Before(first)] = v]
    /\ Returns("push_front")
    /\ UNCHANGED <<capacity, last, leaked>>

(* The copy of the argument throws, or the construction in its slot.       *)
push_front_throws ==
    \/ /\ ~Full
       /\ Throws("push_front")
       /\ UNCHANGED ring
    \/ /\ ~Full
       /\ first' = Before(first)
       /\ size' = size + 1
       /\ array' = [array EXCEPT ![Before(first)] = Raw]
       /\ Answers("push_front", "half_done", Raw)
       /\ UNCHANGED <<capacity, last, leaked>>

(* Reads or destroys what push_front did not construct.                    *)
UsesUnconstructed ==
    /\ reply.outcome = "half_done"
    /\ \E op \in {"front", "at", "[]", "pop_front", "clear", "assign"} :
          reply' = [op |-> op, outcome |-> "unconstructed", value |-> Raw]
    /\ UNCHANGED ring

check_room_for_one_more(op) ==
    /\ Full
    /\ Answers(op, "length_error", Raw)
    /\ UNCHANGED ring

pop_back ==
    /\ size > 0
    /\ last' = Before(last)
    /\ size' = size - 1
    /\ array' = [array EXCEPT ![Before(last)] = Raw]
    /\ Returns("pop_back")
    /\ UNCHANGED <<capacity, first, leaked>>

(* Seeded fault: _first runs off the end of the storage.                   *)
pop_front_unwrapped ==
    /\ size > 0
    /\ array' = [array EXCEPT ![first] = Raw]
    /\ first' = first + 1
    /\ size' = size - 1
    /\ Returns("pop_front")
    /\ UNCHANGED <<capacity, last, leaked>>

pop_front ==
    /\ size > 0
    /\ array' = [array EXCEPT ![first] = Raw]
    /\ first' = Wrap(first + 1)
    /\ size' = size - 1
    /\ Returns("pop_front")
    /\ UNCHANGED <<capacity, last, leaked>>

front ==
    /\ size > 0
    /\ Answers("front", "returned", array[first])
    /\ UNCHANGED ring

(* Seeded fault: one past the last element is read.                        *)
back_past_end ==
    /\ size > 0
    /\ Answers("back", "returned", array[last])
    /\ UNCHANGED ring

back ==
    /\ size > 0
    /\ Answers("back", "returned", array[Before(last)])
    /\ UNCHANGED ring

(* The precondition _size > 0 of the four calls above.                     *)
CalledOnEmpty(op) ==
    /\ size = 0
    /\ Answers(op, "precondition_failed", Raw)
    /\ UNCHANGED ring

-----------------------------------------------------------------------------
(* Access by position.  The reference [] returns may be assigned through.  *)

subscript(n) ==
    IF n >= size THEN Answers("[]", "precondition_failed", Raw) /\ UNCHANGED ring
    ELSE IF ~LegalPosition(Position(n)) THEN Fails("[]")
    ELSE \/ Answers("[]", "returned", array[Position(n)]) /\ UNCHANGED ring
         \/ \E v \in Values :
                /\ array' = [array EXCEPT ![Position(n)] = v]
                /\ Returns("[]")
                /\ UNCHANGED <<capacity, first, last, size, leaked>>

at(n) ==
    IF n >= size THEN Answers("at", "out_of_range", Raw) /\ UNCHANGED ring
    ELSE IF ~LegalPosition(Position(n)) THEN Fails("at")
    ELSE Answers("at", "returned", array[Position(n)]) /\ UNCHANGED ring

-----------------------------------------------------------------------------
(* Capacity.                                                               *)

clear ==
    /\ array' = Cleared
    /\ first' = 0 /\ last' = 0 /\ size' = 0
    /\ leaked' = (leaked \/ LosesElements)
    /\ Returns("clear")
    /\ UNCHANGED capacity

reserve(c) ==
    IF c <= capacity THEN Returns("reserve") /\ UNCHANGED ring
    ELSE IF ~Iterable THEN Fails("reserve")
    ELSE Moved(<<>>, c) /\ Returns("reserve")

(* The copy into size slots goes through assign(first,last), which insists *)
(* on a capacity greater than 0.                                           *)
shrink_to_fit ==
    IF Full THEN Returns("shrink_to_fit") /\ UNCHANGED ring
    ELSE IF size = 0 \/ ~Iterable THEN Fails("shrink_to_fit")
    ELSE Moved(<<>>, size) /\ Returns("shrink_to_fit")

(* The copy throws at its element n: this array is as it was; the storage  *)
(* of the copy is lost, with the elements before n.                        *)
CopyThrows(op, n) ==
    /\ n < size /\ Iterable
    /\ leaked' = (leaked \/ n > 0)
    /\ Throws(op)
    /\ UNCHANGED <<array, capacity, first, last, size>>

reserve_throws(c, n) == c > capacity /\ CopyThrows("reserve", n)
shrink_throws(n) == ~Full /\ CopyThrows("shrink_to_fit", n)

ResizeDown(n) ==
    /\ n <= size
    /\ array' = [p \in 0 .. capacity - 1 |->
                    IF \E i \in n .. size - 1 : p = Position(i) THEN Raw ELSE array[p]]
    /\ last' = IF n < size THEN Position(n) ELSE last
    /\ size' = n
    /\ Returns("resize")
    /\ UNCHANGED <<capacity, first, leaked>>

ResizeUp(n, v) ==
    /\ n > size
    /\ IF n <= capacity
       THEN /\ array' = [p \in 0 .. capacity - 1 |->
                            IF \E i \in size .. n - 1 : p = Position(i) THEN v ELSE array[p]]
            /\ last' = Position(n)
            /\ size' = n
            /\ Returns("resize")
            /\ UNCHANGED <<capacity, first, leaked>>
       ELSE IF ~Iterable THEN Fails("resize")
       ELSE Moved([i \in 1 .. n - size |-> v], n) /\ Returns("resize")

(* An element throws in reserve, or in push_back when there are m.         *)
resize_throws(n, m, v) ==
    \/ n > capacity /\ CopyThrows("resize", m)
    \/ /\ size <= m /\ m < n
       /\ n <= capacity
       /\ array' = [p \in 0 .. capacity - 1 |->
                       IF \E i \in size .. m - 1 : p = Position(i) THEN v ELSE array[p]]
       /\ last' = IF m = size THEN last ELSE Position(m)
       /\ size' = m
       /\ Throws("resize")
       /\ UNCHANGED <<capacity, first, leaked>>
    \/ /\ size <= m /\ m < n
       /\ n > capacity /\ Iterable
       /\ Moved([i \in 1 .. m - size |-> v], n)
       /\ Throws("resize")

(* resize(n, a[i]): reserve frees the storage a[i] is in.                  *)
ResizeUpOwn(n, i) ==
    /\ n > capacity /\ i < size /\ Iterable
    /\ Moved(<<>>, n)
    /\ Answers("resize", "undefined", Raw)

-----------------------------------------------------------------------------
(* The three assign calls, on values that are not elements of this array.  *)

(* clear(); reserve(Len(s)); push the elements.                            *)
AssignSized(s) ==
    /\ Filled(s, IF Len(s) <= capacity THEN capacity ELSE Len(s))
    /\ leaked' = (leaked \/ LosesElements)
    /\ Returns("assign")

AssignCopies(n, v) == AssignSized([i \in 1 .. n |-> v])

AssignList(s) ==
    \/ (capacity > 0 \/ s # <<>>) /\ AssignSized(s)
    \/ capacity = 0 /\ s = <<>> /\ Fails("assign")

(* assign(first,last) does not know the count.  It grows when it is full:  *)
(* the storage it leaves then has first = last, so nothing in it is        *)
(* destroyed.  The inputs need at most one growth, within MaxCapacity.     *)
AssignRange(s) ==
    \/ /\ Len(s) <= capacity
       /\ AssignList(s)
    \/ /\ Len(s) > capacity
       /\ Len(s) <= capacity + Growth
       /\ capacity + Growth <= MaxCapacity
       /\ Filled(s, capacity + Growth)
       /\ leaked' = (leaked \/ LosesElements \/ capacity > 0)
       /\ Returns("assign")

(* An element throws when s was pushed, of n elements: s is the contents.  *)
(* A range may throw before, in, or after the growth, which then loses the *)
(* copies it made.                                                         *)
assign_throws(s, n) ==
    /\ Len(s) < n
    /\ \/ /\ Filled(s, IF n <= capacity THEN capacity ELSE n)
          /\ leaked' = (leaked \/ LosesElements)
       \/ /\ 0 < capacity /\ capacity < n /\ Len(s) <= capacity
          /\ Filled(s, capacity)
          /\ \/ leaked' = (leaked \/ LosesElements)
             \/ Len(s) = capacity /\ Len(s) > 1 /\ leaked' = TRUE
       \/ /\ capacity <= Len(s)
          /\ n <= capacity + Growth /\ capacity + Growth <= MaxCapacity
          /\ Filled(s, capacity + Growth)
          /\ leaked' = (leaked \/ LosesElements \/ capacity > 0)
    /\ Throws("assign")

(* assign(n, a[i]) and assign of a range of the own elements: clear() comes*)
(* first.  A reference then reads what is destroyed, or gone with the old  *)
(* storage; an iterator asks [] for an element of an empty array.          *)
AssignOwn(outcome) ==
    /\ size > 0
    /\ array' = Cleared
    /\ first' = 0 /\ last' = 0 /\ size' = 0
    /\ leaked' = (leaked \/ LosesElements)
    /\ Answers("assign", outcome, Raw)
    /\ UNCHANGED capacity

AssignOwnElement(n) == n > 0 /\ (~Full \/ n > capacity) /\ AssignOwn("undefined")
AssignOwnRange == AssignOwn("precondition_failed")

-----------------------------------------------------------------------------
Next ==
    \/ \E v \in Values : push_back(v)
    \/ \E v \in Values : push_front(v)
    \/ push_back_throws
    \/ push_front_throws
    \/ UsesUnconstructed
    \/ \E op \in {"push_back", "push_front"} : check_room_for_one_more(op)
    \/ pop_back
    \/ pop_front
    \/ front
    \/ back
    \/ \E op \in {"pop_back", "pop_front", "front", "back"} : CalledOnEmpty(op)
    \/ \E n \in 0 .. MaxCapacity : subscript(n)
    \/ \E n \in 0 .. MaxCapacity : at(n)
    \/ clear
    \/ \E c \in 0 .. MaxCapacity : reserve(c)
    \/ shrink_to_fit
    \/ \E n \in 0 .. MaxCapacity : ResizeDown(n)
    \/ \E n \in 0 .. MaxCapacity, v \in Values : ResizeUp(n, v)
    \/ \E n \in 0 .. MaxCapacity, v \in Values : AssignCopies(n, v)
    \/ \E s \in BoundedSeq(Values, MaxCapacity) : AssignList(s)
    \/ \E s \in BoundedSeq(Values, MaxCapacity) : AssignRange(s)
    \/ \E c, n \in 0 .. MaxCapacity : reserve_throws(c, n)
    \/ \E n \in 0 .. MaxCapacity : shrink_throws(n)
    \/ \E n, m \in 0 .. MaxCapacity, v \in Values : resize_throws(n, m, v)
    \/ \E s \in BoundedSeq(Values, MaxCapacity), n \in 0 .. MaxCapacity : assign_throws(s, n)
    \/ \E n, i \in 0 .. MaxCapacity : ResizeUpOwn(n, i)
    \/ \E n \in 0 .. MaxCapacity : AssignOwnElement(n)
    \/ AssignOwnRange

Spec == Init /\ [][Next]_vars

-----------------------------------------------------------------------------
(* Properties.                                                             *)

(* The fields, the storage and the reply have their types.                 *)
TypeOK ==
    /\ capacity \in Nat
    /\ array \in [0 .. capacity - 1 -> Values \cup {Raw}]
    /\ first \in Nat /\ last \in Nat
    /\ size \in 0 .. capacity
    /\ leaked \in BOOLEAN
    /\ reply \in [op : Ops, outcome : Outcomes, value : Values \cup {Raw}]

(* The three counters never drift apart: whatever calls were made at both  *)
(* ends, _last is the slot one past the last element (circularly), and     *)
(* both ends stay inside the storage.                                      *)
RingIndices ==
    /\ last = Position(size)
    /\ IF capacity = 0 THEN first = 0 ELSE first < capacity

(* Every element the array says it has is a constructed one: no call reads *)
(* or destroys a slot in which nothing was constructed, also after the     *)
(* constructor of an element threw in the middle of a call.  The one       *)
(* exception is a push_front that threw in its slot: its element is not.   *)
ElementsAreConstructed ==
    \A n \in 0 .. size - 1 :
        array[Position(n)] \in Values <=> ~(n = 0 /\ HalfDone)

(* And, until the first leak, nothing else in the storage is constructed:  *)
(* construct never overwrites a live element and every element that left   *)
(* the array was destroyed once.                                           *)
OnlyElementsAreConstructed ==
    ~leaked => \A p \in 0 .. capacity - 1 :
                   array[p] # Raw => \E n \in 0 .. size - 1 : p = Position(n)

(* The storage holds what the counters say: no slot is read or destroyed   *)
(* unconstructed, and none is constructed twice or forgotten.              *)
SlotsAreExact == ElementsAreConstructed /\ OnlyElementsAreConstructed

(* An access in range, and so any walk over the elements, can be refused   *)
(* by its own postcondition only in a full array whose first element is    *)
(* not in the first slot.                                                  *)
RefusedOnlyWhenFullAndRotated == ~Iterable => Full /\ first # 0

(* Elements are lost only by a call that clears, replaces or moves a full  *)
(* array, by an assign(first,last) that filled the array and outgrew it, or*)
(* by a copy to other storage that an element's exception interrupts.      *)
LossOnlyWhenFull ==
    [][leaked' /\ ~leaked =>
        \/ /\ Full \/ (reply'.op = "assign" /\ capacity' > capacity)
           /\ reply'.op \in {"clear", "reserve", "resize", "assign"}
        \/ reply'.outcome = "threw" /\ (size > 1 \/ size' > 1)]_vars

(* What the fields hold is a bounded deque.                                *)
Deque == INSTANCE BoundedDeque WITH contents <- Contents, Nothing <- Raw
ImplementsDeque == Deque!Spec
=============================================================================

------------------------ MODULE CircularArrayProofs ------------------------
(***************************************************************************)
(* Theorems about CircularArray, for every set of values, every capacity   *)
(* and every growth.                                                       *)
(***************************************************************************)
EXTENDS CircularArray, SequenceTheorems, TLAPS

AllConstructed == \A n \in 0 .. size - 1 : array[Position(n)] \in Values

(* The storage, the counters and the slots they delimit.                   *)
RingInv ==
    /\ capacity \in Nat
    /\ array \in [0 .. capacity - 1 -> Values \cup {Raw}]
    /\ first \in Nat
    /\ last \in Nat
    /\ size \in 0 .. capacity
    /\ RingIndices
    /\ AllConstructed

(* The same after push_front threw in its slot.                            *)
HalfRing ==
    /\ capacity \in Nat
    /\ array \in [0 .. capacity - 1 -> Values \cup {Raw}]
    /\ first \in Nat
    /\ last \in Nat
    /\ size \in 1 .. capacity
    /\ RingIndices
    /\ array[Position(0)] = Raw
    /\ \A n \in 1 .. size - 1 : array[Position(n)] \in Values

IInv ==
    /\ IF HalfDone THEN HalfRing ELSE RingInv
    /\ leaked \in BOOLEAN
    /\ reply \in [op : Ops, outcome : Outcomes, value : Values \cup {Raw}]

(* The slots of elements are in the storage, and no two share a slot.      *)
LEMMA PositionsInStorage ==
    ASSUME RingInv
    PROVE  /\ \A n \in 0 .. size - 1 : Position(n) \in 0 .. capacity - 1
           /\ \A n, m \in 0 .. size - 1 : Position(n) = Position(m) => n = m
BY DEF RingInv, RingIndices, Position, Wrap

(* The slot at _last is free while there is room.                          *)
LEMMA RoomAtLast ==
    ASSUME RingInv, ~Full
    PROVE  /\ last \in 0 .. capacity - 1
           /\ \A n \in 0 .. size - 1 : Position(n) # last
BY DEF RingInv, RingIndices, Position, Wrap, Full

(* The construction of an empty array establishes the invariant.           *)
LEMMA Initially == Init => IInv
<1> SUFFICES ASSUME Init PROVE IInv
  OBVIOUS
<1>1. capacity \in Nat /\ array \in [0 .. capacity - 1 -> Values \cup {Raw}]
  BY CapacityAssumption DEF Init
<1>2. RingInv
  BY <1>1 DEF Init, RingInv, RingIndices, AllConstructed, Position, Wrap
<1>3. reply \in [op : Ops, outcome : Outcomes, value : Values \cup {Raw}]
  BY DEF Init, Ops, Outcomes
<1>4. leaked \in BOOLEAN
  BY DEF Init
<1> QED BY <1>2, <1>3, <1>4 DEF IInv, HalfDone, Init

LEMMA PushBackKeeps ==
    ASSUME RingInv, NEW v \in Values, push_back(v)
    PROVE  RingInv'
<1>1. last \in 0 .. capacity - 1 /\ \A n \in 0 .. size - 1 : Position(n) # last
  BY RoomAtLast DEF push_back
<1>2. RingIndices' /\ size' \in 0 .. capacity' /\ last' \in Nat /\ first' \in Nat
  BY <1>1 DEF push_back, RingInv, RingIndices, Position, Wrap, Full
<1>3. array' \in [0 .. capacity' - 1 -> Values \cup {Raw}]
  BY <1>1 DEF push_back, RingInv
<1>4. AllConstructed'
  <2> SUFFICES ASSUME NEW n \in 0 .. size PROVE array'[Position(n)] \in Values
    BY DEF AllConstructed, Position, Wrap, push_back, RingInv
  <2>1. CASE n = size
    BY <2>1, <1>1 DEF push_back, RingInv, RingIndices
  <2>2. CASE n # size
    BY <2>2, <1>1, PositionsInStorage DEF push_back, RingInv, AllConstructed
  <2> QED BY <2>1, <2>2
<1> QED BY <1>2, <1>3, <1>4 DEF RingInv, push_back

LEMMA PushFrontKeeps ==
    ASSUME RingInv, NEW v \in Values, push_front(v)
    PROVE  RingInv'
<1>1. /\ Before(first) \in 0 .. capacity - 1
      /\ \A n \in 0 .. size - 1 : Position(n) # Before(first)
  BY DEF push_front, RingInv, RingIndices, Position, Wrap, Before, Full
<1>2. RingIndices' /\ size' \in 0 .. capacity' /\ last' \in Nat /\ first' \in Nat
  BY <1>1 DEF push_front, RingInv, RingIndices, Position, Wrap, Before, Full
<1>3. array' \in [0 .. capacity' - 1 -> Values \cup {Raw}]
  BY <1>1 DEF push_front, RingInv
<1>4. AllConstructed'
  <2> SUFFICES ASSUME NEW n \in 0 .. size PROVE array'[Position(n)'] \in Values
    BY DEF AllConstructed, push_front, RingInv
  <2>1. CASE n = 0
    <3>1. Position(n)' = Before(first)
      BY <2>1, <1>1 DEF push_front, RingInv, Position, Wrap
    <3> QED BY <3>1, <1>1 DEF push_front, RingInv
  <2>2. CASE n # 0
    <3>1. n - 1 \in 0 .. size - 1 /\ Position(n)' = Position(n - 1)
      BY <2>2 DEF push_front, RingInv, RingIndices, Position, Wrap, Before, Full
    <3>2. /\ Position(n - 1) \in 0 .. capacity - 1
          /\ Position(n - 1) # Before(first)
          /\ array[Position(n - 1)] \in Values
      BY <3>1, <1>1, PositionsInStorage DEF RingInv, AllConstructed
    <3> QED BY <3>1, <3>2, <1>1 DEF push_front, RingInv
  <2> QED BY <2>1, <2>2
<1> QED BY <1>2, <1>3, <1>4 DEF RingInv, push_front

(* The slot of an element that threw is the only one not constructed.      *)
LEMMA PushFrontThrows ==
    ASSUME RingInv, push_front_throws, ~UNCHANGED ring
    PROVE  HalfRing'
<1>1. /\ Before(first) \in 0 .. capacity - 1
      /\ \A n \in 0 .. size - 1 : Position(n) # Before(first)
  BY DEF push_front_throws, RingInv, RingIndices, Position, Wrap, Before, Full
<1>2. RingIndices' /\ size' \in 1 .. capacity' /\ last' \in Nat /\ first' \in Nat
  BY <1>1 DEF push_front_throws, RingInv, RingIndices, Position, Wrap, Before, Full
<1>3. array' \in [0 .. capacity' - 1 -> Values \cup {Raw}]
  BY <1>1 DEF push_front_throws, RingInv
<1>4. array'[Position(0)'] = Raw
  <2>1. Position(0)' = Before(first)
    BY <1>1 DEF push_front_throws, RingInv, Position, Wrap
  <2> QED BY <2>1, <1>1 DEF push_front_throws, RingInv
<1>5. ASSUME NEW n \in 1 .. size PROVE array'[Position(n)'] \in Values
  <2>1. n - 1 \in 0 .. size - 1 /\ Position(n)' = Position(n - 1)
    BY DEF push_front_throws, RingInv, RingIndices, Position, Wrap, Before, Full
  <2>2. /\ Position(n - 1) \in 0 .. capacity - 1
        /\ Position(n - 1) # Before(first)
        /\ array[Position(n - 1)] \in Values
    BY <2>1, <1>1, PositionsInStorage DEF RingInv, AllConstructed
  <2> QED BY <2>1, <2>2, <1>1 DEF push_front_throws, RingInv
<1>6. size' - 1 = size /\ capacity' \in Nat
  BY DEF push_front_throws, RingInv
<1>7. \A n \in 1 .. size' - 1 : array'[Position(n)'] \in Values
  BY <1>5, <1>6
<1> QED BY <1>2, <1>3, <1>4, <1>6, <1>7 DEF HalfRing

LEMMA PopBackKeeps ==
    ASSUME RingInv, pop_back
    PROVE  RingInv'
<1>1. Before(last) = Position(size - 1) /\ Before(last) \in 0 .. capacity - 1
  BY DEF pop_back, RingInv, RingIndices, Position, Wrap, Before
<1>2. RingIndices' /\ size' \in 0 .. capacity' /\ last' \in Nat /\ first' \in Nat
  BY <1>1 DEF pop_back, RingInv, RingIndices, Position, Wrap, Before
<1>3. array' \in [0 .. capacity' - 1 -> Values \cup {Raw}]
  BY <1>1 DEF pop_back, RingInv
<1>4. AllConstructed'
  <2> SUFFICES ASSUME NEW n \in 0 .. size - 2 PROVE array'[Position(n)] \in Values
    BY DEF AllConstructed, Position, Wrap, pop_back, RingInv
  <2>1. n \in 0 .. size - 1 /\ size - 1 \in 0 .. size - 1 /\ n # size - 1
    BY DEF pop_back, RingInv
  <2>2. Position(n) # Before(last) /\ array[Position(n)] \in Values
    BY <2>1, <1>1, PositionsInStorage DEF RingInv, AllConstructed
  <2> QED BY <2>1, <2>2, PositionsInStorage DEF pop_back, RingInv
<1> QED BY <1>2, <1>3, <1>4 DEF RingInv, pop_back

LEMMA PopFrontKeeps ==
    ASSUME RingInv, pop_front
    PROVE  RingInv'
<1>1. first = Position(0) /\ first \in 0 .. capacity - 1
  BY DEF pop_front, RingInv, RingIndices, Position, Wrap
<1>2. RingIndices' /\ size' \in 0 .. capacity' /\ last' \in Nat /\ first' \in Nat
  BY <1>1 DEF pop_front, RingInv, RingIndices, Position, Wrap
<1>3. array' \in [0 .. capacity' - 1 -> Values \cup {Raw}]
  BY <1>1 DEF pop_front, RingInv
<1>4. AllConstructed'
  <2> SUFFICES ASSUME NEW n \in 0 .. size - 2 PROVE array'[Position(n)'] \in Values
    BY DEF AllConstructed, pop_front, RingInv
  <2>1. n + 1 \in 0 .. size - 1 /\ 0 \in 0 .. size - 1 /\ Position(n)' = Position(n + 1)
    BY DEF pop_front, RingInv, RingIndices, Position, Wrap
  <2>2. Position(n + 1) # first /\ array[Position(n + 1)] \in Values
    BY <2>1, <1>1, PositionsInStorage DEF RingInv, AllConstructed
  <2> QED BY <2>1, <2>2, PositionsInStorage DEF pop_front, RingInv
<1> QED BY <1>2, <1>3, <1>4 DEF RingInv, pop_front

(* Assignment through the reference of [].                                 *)
LEMMA SubscriptKeeps ==
    ASSUME RingInv, NEW n \in Nat, subscript(n)
    PROVE  RingInv'
<1>1. CASE UNCHANGED ring
  BY <1>1 DEF RingInv, ring, RingIndices, AllConstructed, Position, Wrap
<1>2. CASE ~UNCHANGED ring
  <2>1. /\ n \in 0 .. size - 1
        /\ UNCHANGED <<capacity, first, last, size, leaked>>
    BY <1>2 DEF subscript, Fails, RingInv
  <2>2. PICK v \in Values : array' = [array EXCEPT ![Position(n)] = v]
    BY <1>2 DEF subscript, Fails
  <2>3. \A m \in 0 .. size - 1 : array'[Position(m)] \in Values
    BY <2>1, <2>2, PositionsInStorage DEF RingInv, AllConstructed
  <2>4. array' \in [0 .. capacity - 1 -> Values \cup {Raw}]
    BY <2>2 DEF RingInv
  <2> QED BY <2>1, <2>3, <2>4 DEF RingInv, RingIndices, AllConstructed, Position, Wrap
<1> QED BY <1>1, <1>2

(* Calls that leave the fields alone.                                      *)
LEMMA UnchangedKeeps == ASSUME RingInv, UNCHANGED ring PROVE RingInv'
BY DEF RingInv, ring, RingIndices, AllConstructed, Position, Wrap

(* clear starts again at the first slot, with nothing.                     *)
LEMMA ClearKeeps ==
    ASSUME RingInv, NEW outcome \in Outcomes, clear \/ AssignOwn(outcome)
    PROVE  RingInv'
<1>1. array' \in [0 .. capacity' - 1 -> Values \cup {Raw}]
  BY DEF clear, AssignOwn, Cleared, RingInv
<1>2. capacity' = capacity /\ first' = 0 /\ last' = 0 /\ size' = 0
  BY DEF clear, AssignOwn
<1> QED BY <1>1, <1>2 DEF RingInv, RingIndices, AllConstructed, Position, Wrap

LEMMA ResizeDownKeeps ==
    ASSUME RingInv, NEW n \in Nat, ResizeDown(n)
    PROVE  RingInv'
<1>1. RingIndices' /\ size' \in 0 .. capacity' /\ last' \in Nat /\ first' \in Nat
  BY DEF ResizeDown, RingInv, RingIndices, Position, Wrap
<1>2. array' \in [0 .. capacity' - 1 -> Values \cup {Raw}]
  BY DEF ResizeDown, RingInv
<1>3. AllConstructed'
  <2> SUFFICES ASSUME NEW m \in 0 .. n - 1 PROVE array'[Position(m)] \in Values
    BY DEF AllConstructed, Position, Wrap, ResizeDown, RingInv
  <2>1. m \in 0 .. size - 1 /\ \A i \in n .. size - 1 : i \in 0 .. size - 1 /\ m # i
    BY DEF ResizeDown, RingInv
  <2>2. /\ Position(m) \in 0 .. capacity - 1
        /\ array[Position(m)] \in Values
        /\ \A i \in n .. size - 1 : Position(m) # Position(i)
    BY <2>1, PositionsInStorage DEF RingInv, AllConstructed
  <2> QED BY <2>2 DEF ResizeDown
<1> QED BY <1>1, <1>2, <1>3 DEF RingInv, ResizeDown

(* Elements copied into other storage arrive at its first slots, in order, *)
(* with room for them.                                                     *)
LEMMA MovedKeeps ==
    ASSUME RingInv, NEW t \in Seq(Values), NEW c \in Nat, size + Len(t) <= c, Moved(t, c)
    PROVE  RingInv'
<1>1. Len(t) \in Nat /\ \A i \in 1 .. Len(t) : t[i] \in Values
  OBVIOUS
<1>2. \A i \in 1 .. size : Contents[i] \in Values
  BY DEF Contents, RingInv, AllConstructed
<1>3. RingIndices' /\ size' \in 0 .. capacity' /\ last' \in Nat /\ first' \in Nat
  BY <1>1 DEF Moved, RingInv, RingIndices, Position, Wrap
<1>4. array' \in [0 .. capacity' - 1 -> Values \cup {Raw}]
  BY <1>1, <1>2 DEF Moved, RingInv
<1>5. AllConstructed'
  <2> SUFFICES ASSUME NEW n \in 0 .. size' - 1 PROVE array'[Position(n)'] \in Values
    BY DEF AllConstructed
  <2>1. Position(n)' = n /\ n \in 0 .. c - 1 /\ n < size + Len(t)
    BY <1>1 DEF Moved, RingInv, Position, Wrap
  <2>2. array'[n] = IF n < size THEN Contents[n + 1] ELSE t[n + 1 - size]
    BY <2>1 DEF Moved
  <2> QED BY <1>1, <1>2, <2>1, <2>2 DEF RingInv
<1> QED BY <1>3, <1>4, <1>5 DEF RingInv, Moved

(* The same for elements pushed into an array that was cleared.            *)
LEMMA FilledKeeps ==
    ASSUME RingInv, NEW s \in Seq(Values), NEW c \in Nat, Len(s) <= c, Filled(s, c)
    PROVE  RingInv'
<1>1. Len(s) \in Nat /\ \A i \in 1 .. Len(s) : s[i] \in Values
  OBVIOUS
<1>2. RingIndices' /\ size' \in 0 .. capacity' /\ last' \in Nat /\ first' \in Nat
  BY <1>1 DEF Filled, RingInv, RingIndices, Position, Wrap
<1>3. \A p \in 0 .. capacity - 1 : Cleared[p] \in Values \cup {Raw}
  BY DEF Cleared, RingInv
<1>4. array' \in [0 .. capacity' - 1 -> Values \cup {Raw}]
  BY <1>1, <1>3 DEF Filled, RingInv
<1>5. AllConstructed'
  <2> SUFFICES ASSUME NEW n \in 0 .. Len(s) - 1 PROVE array'[n] \in Values
    BY <1>1 DEF AllConstructed, Filled, Position, Wrap
  <2> QED BY <1>1 DEF Filled
<1> QED BY <1>2, <1>4, <1>5 DEF RingInv, Filled

LEMMA ResizeUpKeeps ==
    ASSUME RingInv, NEW n \in Nat, NEW v \in Values, ResizeUp(n, v)
    PROVE  RingInv'
<1>1. CASE n <= capacity
  <2>1. RingIndices' /\ size' \in 0 .. capacity' /\ last' \in Nat /\ first' \in Nat
    BY <1>1 DEF ResizeUp, RingInv, RingIndices, Position, Wrap
  <2>2. array' \in [0 .. capacity' - 1 -> Values \cup {Raw}]
    BY <1>1 DEF ResizeUp, RingInv
  <2>3. AllConstructed'
    <3> SUFFICES ASSUME NEW m \in 0 .. n - 1 PROVE array'[Position(m)] \in Values
      BY <1>1 DEF AllConstructed, Position, Wrap, ResizeUp, RingInv
    <3>1. Position(m) \in 0 .. capacity - 1
      BY <1>1 DEF RingInv, RingIndices, Position, Wrap
    <3>2. CASE m < size
      <4>1. array[Position(m)] \in Values
        BY <3>2 DEF RingInv, AllConstructed
      <4> QED BY <1>1, <3>1, <4>1 DEF ResizeUp
    <3>3. CASE m >= size
      <4>1. m \in size .. n - 1
        BY <3>3 DEF RingInv
      <4> QED BY <1>1, <3>1, <4>1 DEF ResizeUp
    <3> QED BY <3>2, <3>3 DEF RingInv
  <2> QED BY <1>1, <2>1, <2>2, <2>3 DEF RingInv, ResizeUp
<1>2. CASE n > capacity /\ UNCHANGED ring
  BY <1>2, UnchangedKeeps
<1>3. CASE n > capacity /\ ~UNCHANGED ring
  <2> DEFINE t == [i \in 1 .. n - size |-> v]
  <2>1. n > size /\ Moved(t, n)
    BY <1>3 DEF ResizeUp, Fails, RingInv
  <2>2. t \in Seq(Values) /\ Len(t) = n - size
    BY <2>1 DEF RingInv
  <2> HIDE DEF t
  <2> QED BY <2>1, <2>2, MovedKeeps DEF RingInv
<1> QED BY <1>1, <1>2, <1>3 DEF RingInv

LEMMA StorageCallsKeep ==
    ASSUME RingInv, NEW c \in Nat, NEW i \in Nat,
           reserve(c) \/ shrink_to_fit \/ ResizeUpOwn(c, i)
    PROVE  RingInv'
<1>1. CASE UNCHANGED ring
  BY <1>1, UnchangedKeeps
<1>2. CASE ~UNCHANGED ring
  <2>1. <<>> \in Seq(Values) /\ Len(<<>>) = 0
    OBVIOUS
  <2>2. PICK d \in Nat : size <= d /\ Moved(<<>>, d)
    BY <1>2 DEF reserve, shrink_to_fit, ResizeUpOwn, Fails, Full, RingInv
  <2> QED BY <2>1, <2>2, MovedKeeps DEF RingInv
<1> QED BY <1>1, <1>2

(* A copy to other storage that an exception interrupts.                   *)
LEMMA CopyThrowsKeeps ==
    ASSUME RingInv, NEW op \in Ops, NEW n \in Nat, CopyThrows(op, n)
    PROVE  RingInv'
BY DEF CopyThrows, RingInv, RingIndices, AllConstructed, Position, Wrap

(* resize, interrupted with m elements, leaves what resize to m does.      *)
LEMMA ResizeThrowsKeeps ==
    ASSUME RingInv, NEW n \in Nat, NEW m \in Nat, NEW v \in Values, resize_throws(n, m, v)
    PROVE  RingInv'
<1>1. CASE CopyThrows("resize", m)
  BY <1>1, CopyThrowsKeeps DEF Ops
<1>2. CASE ~CopyThrows("resize", m) /\ n <= capacity
  <2>1. /\ size <= m /\ m < n
        /\ array' = [p \in 0 .. capacity - 1 |->
                       IF \E i \in size .. m - 1 : p = Position(i) THEN v ELSE array[p]]
    BY <1>2 DEF resize_throws, RingInv
  <2>2. /\ size' = m /\ first' = first /\ capacity' = capacity
        /\ last' = IF m = size THEN last ELSE Position(m)
    BY <1>2 DEF resize_throws, RingInv
  <2>3. RingIndices' /\ size' \in 0 .. capacity' /\ last' \in Nat /\ first' \in Nat
    BY <1>2, <2>1, <2>2 DEF RingInv, RingIndices, Position, Wrap
  <2>4. array' \in [0 .. capacity' - 1 -> Values \cup {Raw}]
    BY <2>1, <2>2 DEF RingInv
  <2>5. AllConstructed'
    <3> SUFFICES ASSUME NEW k \in 0 .. m - 1 PROVE array'[Position(k)] \in Values
      BY <1>2 DEF AllConstructed, Position, Wrap, resize_throws, RingInv
    <3>1. Position(k) \in 0 .. capacity - 1
      BY <1>2, <2>1 DEF RingInv, RingIndices, Position, Wrap
    <3>2. CASE k < size
      <4>1. array[Position(k)] \in Values
        BY <3>2 DEF RingInv, AllConstructed
      <4> QED BY <2>1, <3>1, <4>1
    <3>3. CASE k >= size
      <4>1. k \in size .. m - 1
        BY <3>3 DEF RingInv
      <4> QED BY <2>1, <3>1, <4>1
    <3> QED BY <3>2, <3>3 DEF RingInv
  <2> QED BY <1>2, <2>3, <2>4, <2>5 DEF RingInv, resize_throws
<1>3. CASE ~CopyThrows("resize", m) /\ n > capacity
  <2> DEFINE t == [i \in 1 .. m - size |-> v]
  <2>1. size <= m /\ m < n /\ Moved(t, n)
    BY <1>3 DEF resize_throws, RingInv
  <2>2. t \in Seq(Values) /\ Len(t) = m - size
    BY <2>1 DEF RingInv
  <2> HIDE DEF t
  <2> QED BY <2>1, <2>2, MovedKeeps DEF RingInv
<1> QED BY <1>1, <1>2, <1>3 DEF RingInv

LEMMA AssignCallsKeep ==
    ASSUME RingInv, NEW s \in Seq(Values), NEW n \in Nat,
           AssignSized(s) \/ AssignList(s) \/ AssignRange(s) \/ assign_throws(s, n)
    PROVE  RingInv'
<1>1. CASE UNCHANGED ring
  BY <1>1, UnchangedKeeps
<1>2. CASE ~UNCHANGED ring
  <2>1. Len(s) \in Nat /\ Growth \in Nat
    BY GrowthAssumption DEF Growth, RingInv
  <2>2. PICK c \in Nat : Len(s) <= c /\ Filled(s, c)
    BY <1>2, <2>1 DEF AssignSized, AssignList, AssignRange, assign_throws, Fails, RingInv
  <2> QED BY <2>2, FilledKeeps
<1> QED BY <1>1, <1>2

(* A call on a sequence of values gets a sequence of values.               *)
LEMMA InputSequences == \A s \in BoundedSeq(Values, MaxCapacity) : s \in Seq(Values)
BY CapacityAssumption DEF BoundedSeq, SeqOf

LEMMA CopiesAreSequences ==
    \A n \in Nat, v \in Values : [i \in 1 .. n |-> v] \in Seq(Values)
OBVIOUS

(* No step disturbs the ring but a push_front that throws in its slot.     *)
LEMMA RingStep ==
    ASSUME RingInv, [Next]_vars
    PROVE  RingInv' \/ (push_front_throws /\ ~UNCHANGED ring)
<1>1. ASSUME NEW v \in Values, push_back(v) PROVE RingInv'
  BY <1>1, PushBackKeeps
<1>2. ASSUME NEW v \in Values, push_front(v) PROVE RingInv'
  BY <1>2, PushFrontKeeps
<1>3. ASSUME NEW op \in {"push_back", "push_front"}, check_room_for_one_more(op) PROVE RingInv'
  BY <1>3, UnchangedKeeps DEF check_room_for_one_more
<1>4. CASE pop_back
  BY <1>4, PopBackKeeps
<1>5. CASE pop_front
  BY <1>5, PopFrontKeeps
<1>6. CASE front
  BY <1>6, UnchangedKeeps DEF front
<1>7. CASE back
  BY <1>7, UnchangedKeeps DEF back
<1>8. ASSUME NEW op \in {"pop_back", "pop_front", "front", "back"}, CalledOnEmpty(op)
      PROVE RingInv'
  BY <1>8, UnchangedKeeps DEF CalledOnEmpty
<1>9. ASSUME NEW n \in 0 .. MaxCapacity, subscript(n) PROVE RingInv'
  BY <1>9, SubscriptKeeps, CapacityAssumption
<1>10. ASSUME NEW n \in 0 .. MaxCapacity, at(n) PROVE RingInv'
  BY <1>10, UnchangedKeeps DEF at, Fails
<1>11. CASE clear
  BY <1>11, ClearKeeps DEF Outcomes
<1>12. ASSUME NEW c \in 0 .. MaxCapacity, reserve(c) PROVE RingInv'
  BY <1>12, StorageCallsKeep, CapacityAssumption
<1>13. CASE shrink_to_fit
  BY <1>13, StorageCallsKeep
<1>14. ASSUME NEW n \in 0 .. MaxCapacity, ResizeDown(n) PROVE RingInv'
  BY <1>14, ResizeDownKeeps, CapacityAssumption
<1>15. ASSUME NEW n \in 0 .. MaxCapacity, NEW v \in Values, ResizeUp(n, v) PROVE RingInv'
  BY <1>15, ResizeUpKeeps, CapacityAssumption
<1>16. ASSUME NEW n \in 0 .. MaxCapacity, NEW v \in Values, AssignCopies(n, v) PROVE RingInv'
  <2>1. [i \in 1 .. n |-> v] \in Seq(Values)
    BY CopiesAreSequences, CapacityAssumption
  <2> QED BY <1>16, <2>1, AssignCallsKeep DEF AssignCopies
<1>17. ASSUME NEW s \in BoundedSeq(Values, MaxCapacity), AssignList(s) PROVE RingInv'
  BY <1>17, AssignCallsKeep, InputSequences
<1>18. ASSUME NEW s \in BoundedSeq(Values, MaxCapacity), AssignRange(s) PROVE RingInv'
  BY <1>18, AssignCallsKeep, InputSequences
<1>20. CASE push_back_throws
  BY <1>20, UnchangedKeeps DEF push_back_throws
<1>21. CASE push_front_throws /\ UNCHANGED ring
  BY <1>21, UnchangedKeeps
<1>22. CASE UsesUnconstructed
  BY <1>22, UnchangedKeeps DEF UsesUnconstructed
<1>23. ASSUME NEW c \in 0 .. MaxCapacity, NEW n \in 0 .. MaxCapacity, reserve_throws(c, n)
       PROVE RingInv'
  BY <1>23, CopyThrowsKeeps, CapacityAssumption DEF reserve_throws, Ops
<1>24. ASSUME NEW n \in 0 .. MaxCapacity, shrink_throws(n) PROVE RingInv'
  BY <1>24, CopyThrowsKeeps, CapacityAssumption DEF shrink_throws, Ops
<1>25. ASSUME NEW n \in 0 .. MaxCapacity, NEW m \in 0 .. MaxCapacity, NEW v \in Values,
              resize_throws(n, m, v)
       PROVE RingInv'
  BY <1>25, ResizeThrowsKeeps, CapacityAssumption
<1>26. ASSUME NEW s \in BoundedSeq(Values, MaxCapacity), NEW n \in 0 .. MaxCapacity,
              assign_throws(s, n)
       PROVE RingInv'
  BY <1>26, AssignCallsKeep, InputSequences, CapacityAssumption
<1>27. ASSUME NEW n \in 0 .. MaxCapacity, NEW i \in 0 .. MaxCapacity, ResizeUpOwn(n, i)
       PROVE RingInv'
  BY <1>27, StorageCallsKeep, CapacityAssumption
<1>28. ASSUME NEW n \in 0 .. MaxCapacity, AssignOwnElement(n) PROVE RingInv'
  <2>1. "undefined" \in Outcomes /\ AssignOwn("undefined")
    BY <1>28 DEF AssignOwnElement, Outcomes
  <2> QED BY <2>1, ClearKeeps
<1>29. CASE AssignOwnRange
  <2>1. "precondition_failed" \in Outcomes /\ AssignOwn("precondition_failed")
    BY <1>29 DEF AssignOwnRange, Outcomes
  <2> QED BY <2>1, ClearKeeps
<1>19. CASE UNCHANGED vars
  BY <1>19, UnchangedKeeps DEF vars, ring
<1> QED
  BY <1>1, <1>2, <1>3, <1>4, <1>5, <1>6, <1>7, <1>8, <1>9, <1>10, <1>11, <1>12, <1>13,
     <1>14, <1>15, <1>16, <1>17, <1>18, <1>19, <1>20, <1>21, <1>22, <1>23, <1>24, <1>25,
     <1>26, <1>27, <1>28, <1>29 DEF Next

(* Every reply is a reply; a value it carries is an element.  Only the one *)
(* push_front answers that it is half done.                                *)
LEMMA ReplyStep ==
    ASSUME RingInv, Next, ~UsesUnconstructed,
           ~(push_front_throws /\ ~UNCHANGED ring)
    PROVE  /\ reply' \in [op : Ops, outcome : Outcomes, value : Values \cup {Raw}]
           /\ ~HalfDone'
<1> DEFINE Reply == [op : Ops, outcome : Outcomes, value : Values \cup {Raw}]
<1> DEFINE Whole == Outcomes \ {"half_done", "unconstructed"}
<1>1. \A op \in Ops, outcome \in Whole, v \in Values \cup {Raw} :
          Answers(op, outcome, v) => reply' \in Reply /\ ~HalfDone'
  BY DEF Answers, HalfDone
<1>2. \A n \in 0 .. size - 1 : array[Position(n)] \in Values
  BY DEF RingInv, AllConstructed
<1>3. size > 0 => array[first] \in Values /\ array[Before(last)] \in Values
  <2>1. size > 0 => /\ 0 \in 0 .. size - 1 /\ size - 1 \in 0 .. size - 1
                    /\ first = Position(0) /\ Before(last) = Position(size - 1)
    BY DEF RingInv, RingIndices, Position, Wrap, Before
  <2> QED BY <2>1, <1>2
<1>4. \A n \in 0 .. MaxCapacity : ~(n >= size) => n \in 0 .. size - 1
  BY CapacityAssumption DEF RingInv
<1> DEFINE Answered == \E op \in Ops, outcome \in Whole, v \in Values \cup {Raw} :
                           Answers(op, outcome, v)
<1>5. CASE \/ \E v \in Values : push_back(v) \/ push_front(v)
           \/ \E op \in {"push_back", "push_front"} : check_room_for_one_more(op)
           \/ pop_back \/ pop_front \/ front \/ back
           \/ \E op \in {"pop_back", "pop_front", "front", "back"} : CalledOnEmpty(op)
  <2>1. Answered
    BY <1>5, <1>3 DEF push_back, push_front, check_room_for_one_more, pop_back, pop_front, front,
       back, CalledOnEmpty, Returns, Ops, Outcomes
  <2> QED BY <2>1, <1>1
<1>6. CASE \/ \E n \in 0 .. MaxCapacity : subscript(n) \/ at(n)
  <2>1. Answered
    BY <1>6, <1>2, <1>4 DEF subscript, at, Returns, Fails, Ops, Outcomes
  <2> QED BY <2>1, <1>1
<1>7. CASE \/ clear
           \/ \E c \in 0 .. MaxCapacity : reserve(c)
           \/ shrink_to_fit
           \/ \E n \in 0 .. MaxCapacity : ResizeDown(n)
           \/ \E n \in 0 .. MaxCapacity, v \in Values : ResizeUp(n, v)
           \/ \E n \in 0 .. MaxCapacity, v \in Values : AssignCopies(n, v)
           \/ \E s \in BoundedSeq(Values, MaxCapacity) : AssignList(s) \/ AssignRange(s)
  <2>1. Answered
    BY <1>7 DEF clear, reserve, shrink_to_fit, ResizeDown, ResizeUp, AssignCopies, AssignSized,
       AssignList, AssignRange, Returns, Fails, Ops, Outcomes
  <2> QED BY <2>1, <1>1
<1>8. CASE \/ push_back_throws
           \/ push_front_throws /\ UNCHANGED ring
           \/ \E c, n \in 0 .. MaxCapacity : reserve_throws(c, n)
           \/ \E n \in 0 .. MaxCapacity : shrink_throws(n)
           \/ \E n, m \in 0 .. MaxCapacity, v \in Values : resize_throws(n, m, v)
           \/ \E s \in BoundedSeq(Values, MaxCapacity), n \in 0 .. MaxCapacity : assign_throws(s, n)
  <2>1. push_front_throws /\ UNCHANGED ring => Throws("push_front")
    BY DEF push_front_throws, ring, RingInv
  <2>2. Answered
    BY <1>8, <2>1 DEF push_back_throws, reserve_throws, shrink_throws,
       CopyThrows, resize_throws, assign_throws, Throws, Ops, Outcomes
  <2> QED BY <2>2, <1>1
<1>9. CASE \/ \E n, i \in 0 .. MaxCapacity : ResizeUpOwn(n, i)
           \/ \E n \in 0 .. MaxCapacity : AssignOwnElement(n)
           \/ AssignOwnRange
  <2>1. Answered
    BY <1>9 DEF ResizeUpOwn, AssignOwnElement, AssignOwnRange, AssignOwn, Ops, Outcomes
  <2> QED BY <2>1, <1>1
<1> QED BY <1>5, <1>6, <1>7, <1>8, <1>9 DEF Next

(* Past half-done nothing is called but what finds out.                    *)
LEMMA OnlyWhole == ASSUME Next, HalfDone PROVE UsesUnconstructed
<1>1. ~Alive
  BY DEF HalfDone, Alive
<1>2. \A op, outcome, v : ~Answers(op, outcome, v)
  BY <1>1 DEF Answers
<1>3. \A op : ~Returns(op) /\ ~Throws(op) /\ ~Fails(op)
  BY <1>2 DEF Returns, Throws, Fails
<1>4. ~(\/ \E v \in Values : push_back(v) \/ push_front(v)
        \/ push_back_throws \/ push_front_throws \/ pop_back \/ pop_front \/ front \/ back
        \/ \E op \in {"push_back", "push_front"} : check_room_for_one_more(op)
        \/ \E op \in {"pop_back", "pop_front", "front", "back"} : CalledOnEmpty(op)
        \/ \E n \in 0 .. MaxCapacity : subscript(n) \/ at(n))
  BY <1>2, <1>3 DEF push_back, push_front, push_back_throws, push_front_throws, pop_back,
     pop_front, front, back, check_room_for_one_more, CalledOnEmpty, subscript, at
<1>5. ~(\/ clear \/ shrink_to_fit
        \/ \E c \in 0 .. MaxCapacity : reserve(c)
        \/ \E n \in 0 .. MaxCapacity : ResizeDown(n)
        \/ \E n \in 0 .. MaxCapacity, v \in Values : ResizeUp(n, v) \/ AssignCopies(n, v)
        \/ \E s \in BoundedSeq(Values, MaxCapacity) : AssignList(s) \/ AssignRange(s))
  BY <1>3 DEF clear, shrink_to_fit, reserve, ResizeDown, ResizeUp, AssignCopies, AssignSized,
     AssignList, AssignRange
<1>6. ~(\/ \E c, n \in 0 .. MaxCapacity : reserve_throws(c, n) \/ ResizeUpOwn(c, n)
        \/ \E n \in 0 .. MaxCapacity : shrink_throws(n) \/ AssignOwnElement(n)
        \/ \E n, m \in 0 .. MaxCapacity, v \in Values : resize_throws(n, m, v)
        \/ \E s \in BoundedSeq(Values, MaxCapacity), n \in 0 .. MaxCapacity : assign_throws(s, n)
        \/ AssignOwnRange)
  BY <1>2, <1>3 DEF reserve_throws, shrink_throws, CopyThrows, resize_throws, assign_throws,
     ResizeUpOwn, AssignOwn, AssignOwnElement, AssignOwnRange
<1> QED BY <1>4, <1>5, <1>6 DEF Next

(* What a step does to the record of the leaks: nothing, or it adds to it. *)
LEMMA LeakedStep ==
    ASSUME leaked \in BOOLEAN, [Next]_vars
    PROVE  leaked' \in BOOLEAN /\ (leaked => leaked')
<1> DEFINE Kept == leaked' \in BOOLEAN /\ (leaked => leaked')
<1> SUFFICES Kept
  OBVIOUS
<1>1. UNCHANGED leaked => Kept
  OBVIOUS
<1>2. \A t, c : Moved(t, c) => Kept
  BY DEF Moved
<1>3. CASE UNCHANGED vars \/ front \/ back \/ UsesUnconstructed
  BY <1>1, <1>3 DEF vars, ring, front, back, UsesUnconstructed
<1>4. CASE \/ \E v \in Values : push_back(v) \/ push_front(v)
           \/ push_back_throws \/ push_front_throws
  BY <1>1, <1>4 DEF push_back, push_front, push_back_throws, push_front_throws, ring
<1>5. CASE \/ pop_back \/ pop_front
           \/ \E op \in {"push_back", "push_front"} : check_room_for_one_more(op)
           \/ \E op \in {"pop_back", "pop_front", "front", "back"} : CalledOnEmpty(op)
  BY <1>1, <1>5 DEF pop_back, pop_front, check_room_for_one_more, CalledOnEmpty, ring
<1>6. CASE \E n \in 0 .. MaxCapacity : subscript(n) \/ at(n)
  BY <1>1, <1>6 DEF subscript, at, Fails, ring
<1>7. CASE clear \/ shrink_to_fit \/ \E c \in 0 .. MaxCapacity : reserve(c)
  BY <1>1, <1>2, <1>7 DEF clear, shrink_to_fit, reserve, Fails, ring
<1>8. CASE \/ \E n \in 0 .. MaxCapacity : ResizeDown(n)
           \/ \E n \in 0 .. MaxCapacity, v \in Values : ResizeUp(n, v)
  BY <1>1, <1>2, <1>8 DEF ResizeDown, ResizeUp, Fails, ring
<1>9. \A s : AssignList(s) => Kept
  BY <1>1 DEF AssignList, AssignSized, Fails, ring
<1>10. CASE \E n \in 0 .. MaxCapacity, v \in Values : AssignCopies(n, v)
  BY <1>10 DEF AssignCopies, AssignSized
<1>11. CASE \E s \in BoundedSeq(Values, MaxCapacity) : AssignList(s) \/ AssignRange(s)
  BY <1>9, <1>11 DEF AssignRange
<1>12. CASE \/ \E c, n \in 0 .. MaxCapacity : reserve_throws(c, n)
            \/ \E n \in 0 .. MaxCapacity : shrink_throws(n)
            \/ \E n, m \in 0 .. MaxCapacity, v \in Values : resize_throws(n, m, v)
  <2>1. \A op, n : CopyThrows(op, n) => Kept
    BY DEF CopyThrows
  <2> QED BY <1>1, <1>2, <1>12, <2>1 DEF reserve_throws, shrink_throws, resize_throws
<1>13. CASE \E s \in BoundedSeq(Values, MaxCapacity), n \in 0 .. MaxCapacity : assign_throws(s, n)
  BY <1>13 DEF assign_throws
<1>14. CASE \/ \E n, i \in 0 .. MaxCapacity : ResizeUpOwn(n, i)
            \/ \E n \in 0 .. MaxCapacity : AssignOwnElement(n)
            \/ AssignOwnRange
  BY <1>2, <1>14 DEF ResizeUpOwn, AssignOwn, AssignOwnElement, AssignOwnRange
<1> QED
  BY <1>3, <1>4, <1>5, <1>6, <1>7, <1>8, <1>10, <1>11, <1>12, <1>13, <1>14 DEF Next

-----------------------------------------------------------------------------
(* Nothing else in the storage is constructed.                             *)
Owned ==
    \A p \in 0 .. capacity - 1 : array[p] # Raw => \E n \in 0 .. size - 1 : p = Position(n)

(* What the calls at the two ends construct and destroy, and an assignment *)
(* through the reference of [].                                            *)
LEMMA EndsOwn ==
    ASSUME RingInv, Owned,
           \/ \E v \in Values : push_back(v) \/ push_front(v)
           \/ push_front_throws \/ pop_back \/ pop_front
           \/ \E n \in Nat : subscript(n)
    PROVE  Owned'
<1> USE RawAssumption
<1>1. CASE UNCHANGED ring
  BY <1>1 DEF Owned, ring, Position, Wrap
<1>2. ASSUME NEW v \in Values, push_back(v) PROVE Owned'
  <2>3. capacity' = capacity /\ first' = first /\ size' - 1 = size /\ size \in Nat
    BY <1>2 DEF push_back, RingInv
  <2>4. \A n : Position(n)' = Position(n)
    BY <2>3 DEF Position, Wrap
  <2> SUFFICES ASSUME NEW p \in 0 .. capacity - 1, array'[p] # Raw
               PROVE \E n \in 0 .. size : p = Position(n)
    BY <2>3, <2>4 DEF Owned
  <2>1. CASE p = last
    BY <2>1 DEF RingInv, RingIndices
  <2>2. CASE p # last
    BY <2>2, <1>2 DEF push_back, Owned, RingInv
  <2> QED BY <2>1, <2>2
<1>3. CASE /\ ~UNCHANGED ring
           /\ push_front_throws \/ \E v \in Values : push_front(v)
  <2>1. /\ first' = Before(first) /\ size' = size + 1 /\ capacity' = capacity
        /\ size < capacity
        /\ \A p \in 0 .. capacity - 1 : p # Before(first) => array'[p] = array[p]
    BY <1>3 DEF push_front, push_front_throws, RingInv, Full
  <2>2. Position(0)' = Before(first)
    BY <2>1 DEF RingInv, RingIndices, Position, Wrap, Before
  <2>3. \A n \in 0 .. size - 1 : Position(n + 1)' = Position(n)
    BY <2>1 DEF RingInv, RingIndices, Position, Wrap, Before
  <2> SUFFICES ASSUME NEW p \in 0 .. capacity - 1, array'[p] # Raw
               PROVE \E n \in 0 .. size : p = Position(n)'
    BY <2>1 DEF Owned, RingInv
  <2>4. CASE p = Before(first)
    BY <2>2, <2>4 DEF RingInv
  <2>5. CASE p # Before(first)
    <3>1. PICK n \in 0 .. size - 1 : p = Position(n)
      BY <2>1, <2>5 DEF Owned
    <3> QED BY <3>1, <2>3 DEF RingInv
  <2> QED BY <2>4, <2>5
<1>4. CASE pop_back
  <2>1. Before(last) = Position(size - 1)
    BY <1>4 DEF pop_back, RingInv, RingIndices, Position, Wrap, Before
  <2>4. capacity' = capacity /\ first' = first /\ size' - 1 = size - 2 /\ size \in Nat
    BY <1>4 DEF pop_back, RingInv
  <2>5. \A n : Position(n)' = Position(n)
    BY <2>4 DEF Position, Wrap
  <2> SUFFICES ASSUME NEW p \in 0 .. capacity - 1, array'[p] # Raw
               PROVE \E n \in 0 .. size - 2 : p = Position(n)
    BY <2>4, <2>5 DEF Owned
  <2>2. p # Before(last) /\ array[p] # Raw
    BY <1>4 DEF pop_back, RingInv
  <2>3. PICK n \in 0 .. size - 1 : p = Position(n)
    BY <2>2 DEF Owned
  <2> QED BY <2>1, <2>2, <2>3 DEF RingInv
<1>5. CASE pop_front
  <2>1. first = Position(0)
    BY <1>5 DEF pop_front, RingInv, RingIndices, Position, Wrap
  <2>2. \A n \in 1 .. size - 1 : Position(n - 1)' = Position(n)
    BY <1>5 DEF pop_front, RingInv, RingIndices, Position, Wrap
  <2> SUFFICES ASSUME NEW p \in 0 .. capacity - 1, array'[p] # Raw
               PROVE \E n \in 0 .. size - 2 : p = Position(n)'
    BY <1>5 DEF pop_front, Owned, RingInv
  <2>3. p # first /\ array[p] # Raw
    BY <1>5 DEF pop_front, RingInv
  <2>4. PICK n \in 0 .. size - 1 : p = Position(n)
    BY <2>3 DEF Owned
  <2>5. n \in 1 .. size - 1 /\ n - 1 \in 0 .. size - 2
    BY <2>1, <2>3, <2>4 DEF RingInv
  <2> QED BY <2>2, <2>4, <2>5
<1>6. ASSUME NEW n \in Nat, subscript(n), ~UNCHANGED ring PROVE Owned'
  <2>1. n \in 0 .. size - 1 /\ UNCHANGED <<capacity, first, last, size, leaked>>
    BY <1>6 DEF subscript, Fails, RingInv
  <2>2. PICK v \in Values : array' = [array EXCEPT ![Position(n)] = v]
    BY <1>6 DEF subscript, Fails
  <2>3. \A p \in 0 .. capacity - 1 : array'[p] # Raw => array[p] # Raw \/ p = Position(n)
    BY <2>2 DEF RingInv
  <2> QED BY <2>1, <2>3 DEF Owned, Position, Wrap
<1> QED BY <1>1, <1>2, <1>3, <1>4, <1>5, <1>6

(* The calls that destroy or construct in place.                          *)
LEMMA ResizeDownOwns == ASSUME RingInv, Owned, NEW n \in Nat, ResizeDown(n) PROVE Owned'
<1> SUFFICES ASSUME NEW p \in 0 .. capacity - 1, array'[p] # Raw
             PROVE \E i \in 0 .. n - 1 : p = Position(i)
  BY DEF ResizeDown, Owned, Position, Wrap, RingInv
<1>1. array[p] # Raw /\ ~ \E i \in n .. size - 1 : p = Position(i)
  BY DEF ResizeDown
<1>2. PICK i \in 0 .. size - 1 : p = Position(i)
  BY <1>1 DEF Owned
<1> QED BY <1>1, <1>2 DEF RingInv

LEMMA ResizeUpOwns ==
    ASSUME RingInv, Owned, NEW n \in Nat, NEW m \in Nat, NEW v \in Values,
           n <= capacity, ResizeUp(n, v) \/ resize_throws(n, m, v)
    PROVE  Owned'
<1>1. CASE UNCHANGED <<array, capacity, first, last, size>>
  BY <1>1 DEF Owned, Position, Wrap
<1>2. CASE ~UNCHANGED <<array, capacity, first, last, size>>
  <2>1. PICK k \in Nat :
           /\ size <= k /\ size' = k /\ capacity' = capacity /\ first' = first
           /\ array' = [p \in 0 .. capacity - 1 |->
                          IF \E i \in size .. k - 1 : p = Position(i) THEN v ELSE array[p]]
    BY <1>2 DEF ResizeUp, resize_throws, CopyThrows, RingInv
  <2> SUFFICES ASSUME NEW p \in 0 .. capacity - 1, array'[p] # Raw
               PROVE \E i \in 0 .. k - 1 : p = Position(i)
    BY <2>1 DEF Owned, Position, Wrap, RingInv
  <2>2. CASE \E i \in size .. k - 1 : p = Position(i)
    BY <2>2 DEF RingInv
  <2>3. CASE ~ \E i \in size .. k - 1 : p = Position(i)
    <3>1. array[p] # Raw
      BY <2>1, <2>3
    <3>2. PICK i \in 0 .. size - 1 : p = Position(i)
      BY <3>1 DEF Owned
    <3> QED BY <2>1, <3>2 DEF RingInv
  <2> QED BY <2>2, <2>3
<1> QED BY <1>1, <1>2

(* Storage that is given up has nothing left in it, unless that is a leak. *)
LEMMA StorageOwned ==
    ASSUME RingInv, ~leaked',
           \/ clear \/ \E outcome \in Outcomes : AssignOwn(outcome)
           \/ \E t \in Seq(Values), c \in Nat : Moved(t, c)
           \/ \E s \in Seq(Values), c \in Nat : Filled(s, c) /\ (LosesElements => leaked')
    PROVE  Owned'
<1>1. CASE clear \/ \E outcome \in Outcomes : AssignOwn(outcome)
  BY <1>1 DEF clear, AssignOwn, LosesElements, Owned
<1>2. ASSUME NEW t \in Seq(Values), NEW c \in Nat, Moved(t, c) PROVE Owned'
  <2>1. Len(t) \in Nat
    OBVIOUS
  <2>4. capacity' = c /\ size' = size + Len(t)
    BY <1>2 DEF Moved
  <2> SUFFICES ASSUME NEW p \in 0 .. capacity' - 1, array'[p] # Raw
               PROVE \E n \in 0 .. size' - 1 : p = Position(n)'
    BY DEF Owned
  <2>2. p < size + Len(t)
    BY <1>2, <2>1, <2>4 DEF Moved, RingInv
  <2>3. Position(p)' = p
    BY <1>2, <2>4 DEF Moved, Position, Wrap
  <2> QED BY <2>1, <2>2, <2>3, <2>4 DEF RingInv
<1>3. ASSUME NEW s \in Seq(Values), NEW c \in Nat, Filled(s, c), LosesElements => leaked'
      PROVE Owned'
  <2>1. Len(s) \in Nat /\ \A p \in 0 .. capacity - 1 : Cleared[p] = Raw
    BY <1>3 DEF LosesElements
  <2>4. capacity' = c /\ size' = Len(s)
    BY <1>3 DEF Filled
  <2> SUFFICES ASSUME NEW p \in 0 .. capacity' - 1, array'[p] # Raw
               PROVE \E n \in 0 .. size' - 1 : p = Position(n)'
    BY DEF Owned
  <2>2. p < Len(s)
    BY <1>3, <2>1, <2>4 DEF Filled, RingInv
  <2>3. Position(p)' = p
    BY <1>3, <2>4 DEF Filled, Position, Wrap
  <2> QED BY <2>1, <2>2, <2>3, <2>4
<1> QED BY <1>1, <1>2, <1>3

(* A step that does not leak leaves nothing constructed but the elements.  *)
LEMMA OwnedStep ==
    ASSUME RingInv, Owned, Next, ~leaked'
    PROVE  Owned'
<1> DEFINE Still == UNCHANGED <<array, capacity, first, last, size>>
<1>1. CASE Still
  BY <1>1 DEF Owned, Position, Wrap
<1>2. CASE \/ \E v \in Values : push_back(v) \/ push_front(v)
           \/ push_front_throws \/ pop_back \/ pop_front
           \/ \E n \in 0 .. MaxCapacity : subscript(n)
  BY <1>2, EndsOwn, CapacityAssumption
<1>3. CASE clear \/ AssignOwnRange \/ \E n \in 0 .. MaxCapacity : AssignOwnElement(n)
  <2>1. clear \/ \E outcome \in Outcomes : AssignOwn(outcome)
    BY <1>3 DEF AssignOwnRange, AssignOwnElement, Outcomes
  <2> QED BY <2>1, StorageOwned
<1>4. ASSUME NEW n \in 0 .. MaxCapacity, ResizeDown(n) PROVE Owned'
  BY <1>4, ResizeDownOwns, CapacityAssumption
<1>11. ASSUME NEW n \in 0 .. MaxCapacity, NEW m \in 0 .. MaxCapacity, NEW v \in Values,
              ResizeUp(n, v) \/ resize_throws(n, m, v), ~Still
       PROVE Owned'
  <2>1. CASE n <= capacity
    BY <1>11, <2>1, ResizeUpOwns, CapacityAssumption
  <2>2. CASE n > capacity
    <3>1. \E k \in Nat : size <= k /\ Moved([i \in 1 .. k - size |-> v], n)
      <4>1. CASE ResizeUp(n, v)
        <5>1. n \in Nat /\ size <= n /\ Moved([i \in 1 .. n - size |-> v], n)
          BY <4>1, <1>11, <2>2, CapacityAssumption DEF ResizeUp, Fails, RingInv, ring
        <5> QED BY <5>1
      <4>2. CASE resize_throws(n, m, v)
        <5>1. m \in Nat /\ size <= m /\ Moved([i \in 1 .. m - size |-> v], n)
          BY <4>2, <1>11, <2>2, CapacityAssumption DEF resize_throws, CopyThrows, RingInv, ring
        <5> QED BY <5>1
      <4> QED BY <1>11, <4>1, <4>2
    <3>2. \A k \in Nat : size <= k => [i \in 1 .. k - size |-> v] \in Seq(Values)
      BY DEF RingInv
    <3> QED BY <3>1, <3>2, StorageOwned, CapacityAssumption
  <2> QED BY <2>1, <2>2, CapacityAssumption DEF RingInv
<1>5. ASSUME NEW c \in 0 .. MaxCapacity, NEW i \in 0 .. MaxCapacity,
             reserve(c) \/ shrink_to_fit \/ ResizeUpOwn(c, i), ~Still
      PROVE Owned'
  <2>1. \E d \in Nat : Moved(<<>>, d)
    BY <1>5, CapacityAssumption
       DEF reserve, shrink_to_fit, ResizeUpOwn, Fails, RingInv, ring
  <2>2. <<>> \in Seq(Values)
    OBVIOUS
  <2> QED BY <2>1, <2>2, StorageOwned
<1>6. ASSUME NEW s \in Seq(Values), NEW n \in 0 .. MaxCapacity, ~Still,
             AssignSized(s) \/ AssignList(s) \/ AssignRange(s) \/ assign_throws(s, n)
      PROVE Owned'
  <2>1. Len(s) \in Nat /\ Growth \in Nat
    BY GrowthAssumption DEF Growth, RingInv
  <2>2. \E c \in Nat : Filled(s, c) /\ (LosesElements => leaked')
    <3>1. CASE AssignSized(s) \/ AssignList(s)
      BY <3>1, <1>6, <2>1 DEF AssignSized, AssignList, Fails, RingInv, ring
    <3>2. CASE AssignRange(s) /\ ~AssignList(s)
      <4>1. capacity + Growth \in Nat
        BY <2>1 DEF RingInv
      <4>2. Filled(s, capacity + Growth) /\ (LosesElements => leaked')
        BY <3>2 DEF AssignRange
      <4> QED BY <4>1, <4>2
    <3>3. CASE assign_throws(s, n)
      <4>1. n \in Nat /\ capacity \in Nat /\ capacity + Growth \in Nat
        BY <2>1, CapacityAssumption DEF RingInv
      <4> QED BY <3>3, <4>1, <1>6 DEF assign_throws
    <3> QED BY <1>6, <3>1, <3>2, <3>3
  <2> QED BY <2>2, StorageOwned
<1>7. \A n \in 0 .. MaxCapacity, v \in Values : [i \in 1 .. n |-> v] \in Seq(Values)
  BY CopiesAreSequences, CapacityAssumption
<1>8. 0 \in 0 .. MaxCapacity
  BY CapacityAssumption
<1>9. \A n \in 0 .. MaxCapacity, v \in Values : AssignCopies(n, v) => Owned'
  BY <1>1, <1>6, <1>7, <1>8 DEF AssignCopies
<1>10. CASE \/ push_back_throws \/ UsesUnconstructed \/ front \/ back
            \/ \E op \in {"push_back", "push_front"} : check_room_for_one_more(op)
            \/ \E op \in {"pop_back", "pop_front", "front", "back"} : CalledOnEmpty(op)
            \/ \E n \in 0 .. MaxCapacity : at(n)
            \/ \E c, n \in 0 .. MaxCapacity : reserve_throws(c, n)
            \/ \E n \in 0 .. MaxCapacity : shrink_throws(n)
  BY <1>1, <1>10 DEF push_back_throws, UsesUnconstructed, front, back, check_room_for_one_more,
     CalledOnEmpty, at, Fails, reserve_throws, shrink_throws, CopyThrows, ring
<1> QED
  BY <1>1, <1>2, <1>3, <1>4, <1>5, <1>6, <1>8, <1>9, <1>10, <1>11, InputSequences DEF Next

-----------------------------------------------------------------------------
(* What clear and teardown do not reach is empty, unless the array is full.*)
LEMMA NothingElseToLose == ASSUME RingInv, Owned PROVE LosesElements => Full
<1> SUFFICES ASSUME NEW p \in 0 .. capacity - 1, Cleared[p] # Raw PROVE Full
  BY DEF LosesElements
<1>1. array[p] # Raw /\ p \notin Destroyed
  BY DEF Cleared
<1>2. PICK n \in 0 .. size - 1 : p = Position(n)
  BY <1>1 DEF Owned
<1> QED BY <1>1, <1>2 DEF RingInv, RingIndices, Position, Wrap, Destroyed, Full

(* The steps that may add to what is lost, and when they do.               *)
LEMMA LossStep ==
    ASSUME RingInv, Owned, ~leaked, Next, leaked'
    PROVE  \/ /\ Full \/ (reply'.op = "assign" /\ capacity' > capacity)
              /\ reply'.op \in {"clear", "reserve", "resize", "assign"}
           \/ reply'.outcome = "threw" /\ (size > 1 \/ size' > 1)
<1> DEFINE Explained ==
        \/ /\ Full \/ (reply'.op = "assign" /\ capacity' > capacity)
           /\ reply'.op \in {"clear", "reserve", "resize", "assign"}
        \/ reply'.outcome = "threw" /\ (size > 1 \/ size' > 1)
<1> SUFFICES Explained
  OBVIOUS
<1>1. leaked' # leaked
  OBVIOUS
<1>2. LosesElements => Full
  BY NothingElseToLose
<1>3. \A op, outcome, v : Answers(op, outcome, v) => reply'.op = op /\ reply'.outcome = outcome
  BY DEF Answers
<1>4. \A t, c : Moved(t, c) => Full
  BY <1>2 DEF Moved
<1>5. ~(front \/ back \/ UsesUnconstructed \/ push_back_throws \/ push_front_throws
        \/ pop_back \/ pop_front \/ \E v \in Values : push_back(v) \/ push_front(v))
  BY <1>1 DEF front, back, UsesUnconstructed, push_back_throws, push_front_throws, pop_back,
     pop_front, push_back, push_front, ring
<1>6. ~(\/ \E op \in {"push_back", "push_front"} : check_room_for_one_more(op)
        \/ \E op \in {"pop_back", "pop_front", "front", "back"} : CalledOnEmpty(op)
        \/ \E n \in 0 .. MaxCapacity : subscript(n) \/ at(n) \/ ResizeDown(n))
  BY <1>1 DEF check_room_for_one_more, CalledOnEmpty, subscript, at, ResizeDown, Fails, ring
<1>7. CASE clear \/ shrink_to_fit \/ \E c \in 0 .. MaxCapacity : reserve(c)
  <2>1. ~shrink_to_fit
    BY <1>1, <1>4 DEF shrink_to_fit, Fails, ring
  <2>2. clear => Explained
    BY <1>2, <1>3 DEF clear, Returns
  <2>3. ASSUME NEW c \in 0 .. MaxCapacity, reserve(c) PROVE Explained
    BY <1>1, <1>3, <1>4, <2>3 DEF reserve, Returns, Fails, ring
  <2> QED BY <1>7, <2>1, <2>2, <2>3
<1>8. ASSUME NEW n \in 0 .. MaxCapacity, NEW v \in Values, ResizeUp(n, v) PROVE Explained
  BY <1>1, <1>3, <1>4, <1>8 DEF ResizeUp, Returns, Fails, ring
<1>9. ASSUME NEW op, NEW n \in 0 .. MaxCapacity, CopyThrows(op, n) PROVE Explained
  <2>1. n \in Nat /\ size \in Nat
    BY CapacityAssumption DEF RingInv
  <2>2. n < size /\ Throws(op) /\ leaked' = (leaked \/ n > 0)
    BY <1>9 DEF CopyThrows
  <2>3. n > 0
    BY <2>2
  <2>4. size > 1
    BY <2>1, <2>2, <2>3
  <2> QED BY <2>2, <2>4, <1>3 DEF Throws
<1>10. CASE \/ \E c, n \in 0 .. MaxCapacity : reserve_throws(c, n)
            \/ \E n \in 0 .. MaxCapacity : shrink_throws(n)
            \/ \E n, m \in 0 .. MaxCapacity, v \in Values : resize_throws(n, m, v)
  <2>1. ASSUME NEW n \in 0 .. MaxCapacity, NEW m \in 0 .. MaxCapacity, NEW v \in Values,
               resize_throws(n, m, v)
        PROVE Explained
    BY <1>1, <1>3, <1>4, <1>9, <2>1 DEF resize_throws, Throws
  <2> QED BY <1>9, <1>10, <2>1 DEF reserve_throws, shrink_throws
<1>11. Growth \in Nat \ {0} /\ capacity \in Nat
  BY GrowthAssumption DEF Growth, RingInv
<1>12. \A s : AssignSized(s) => Explained
  BY <1>2, <1>3 DEF AssignSized, Returns
<1>13. \A s : AssignList(s) => Explained
  BY <1>1, <1>12 DEF AssignList, Fails, ring
<1>14. CASE \E n \in 0 .. MaxCapacity, v \in Values : AssignCopies(n, v)
  BY <1>12, <1>14 DEF AssignCopies
<1>15. ASSUME NEW s \in BoundedSeq(Values, MaxCapacity), AssignRange(s) PROVE Explained
  <2>1. CASE AssignList(s)
    BY <2>1, <1>13
  <2>2. CASE ~AssignList(s)
    <3>1. capacity' = capacity + Growth /\ Returns("assign")
      BY <1>15, <2>2 DEF AssignRange, Filled
    <3> QED BY <3>1, <1>3, <1>11 DEF Returns
  <2> QED BY <2>1, <2>2
<1>16. ASSUME NEW s \in BoundedSeq(Values, MaxCapacity), NEW n \in 0 .. MaxCapacity,
              assign_throws(s, n)
       PROVE Explained
  <2>1. reply'.op = "assign" /\ reply'.outcome = "threw"
    BY <1>3, <1>16 DEF assign_throws, Throws
  <2>2. \/ LosesElements
        \/ size' = Len(s) /\ Len(s) > 1
        \/ capacity' = capacity + Growth
    BY <1>1, <1>16 DEF assign_throws, Filled
  <2> QED BY <2>1, <2>2, <1>2, <1>11
<1>17. CASE \/ \E n, i \in 0 .. MaxCapacity : ResizeUpOwn(n, i)
            \/ \E n \in 0 .. MaxCapacity : AssignOwnElement(n)
            \/ AssignOwnRange
  <2>1. \A outcome : AssignOwn(outcome) => Explained
    BY <1>2, <1>3 DEF AssignOwn
  <2> QED BY <1>3, <1>4, <1>17, <2>1 DEF ResizeUpOwn, AssignOwnElement, AssignOwnRange
<1> QED
  BY <1>5, <1>6, <1>7, <1>8, <1>10, <1>13, <1>14, <1>15, <1>16, <1>17 DEF Next

-----------------------------------------------------------------------------
(* The invariant on which everything below rests.                          *)
THEOREM Invariance == Spec => []IInv
<1>1. IInv /\ [Next]_vars => IInv'
  <2> SUFFICES ASSUME IInv, [Next]_vars PROVE IInv'
    OBVIOUS
  <2>1. CASE UNCHANGED vars
    BY <2>1 DEF IInv, vars, HalfDone, HalfRing, RingInv, RingIndices, AllConstructed, Position, Wrap
  <2>2. CASE UsesUnconstructed
    <3>1. HalfDone /\ HalfDone' /\ UNCHANGED ring
      BY <2>2 DEF UsesUnconstructed, HalfDone
    <3>2. HalfRing'
      BY <3>1 DEF IInv, HalfRing, ring, RingIndices, Position, Wrap
    <3>3. reply' \in [op : Ops, outcome : Outcomes, value : Values \cup {Raw}]
      BY <2>2 DEF UsesUnconstructed, Ops, Outcomes
    <3> QED BY <3>1, <3>2, <3>3, LeakedStep DEF IInv
  <2>3. CASE Next /\ ~UsesUnconstructed /\ push_front_throws /\ ~UNCHANGED ring
    <3>1. RingInv
      BY <2>3, OnlyWhole DEF IInv
    <3>2. Answers("push_front", "half_done", Raw)
      BY <2>3 DEF push_front_throws
    <3>3. HalfDone' /\ reply' \in [op : Ops, outcome : Outcomes, value : Values \cup {Raw}]
      BY <3>2 DEF Answers, HalfDone, Ops, Outcomes
    <3> QED BY <2>3, <3>1, <3>3, PushFrontThrows, LeakedStep DEF IInv
  <2>4. CASE Next /\ ~UsesUnconstructed /\ ~(push_front_throws /\ ~UNCHANGED ring)
    <3>1. RingInv
      BY <2>4, OnlyWhole DEF IInv
    <3> QED BY <2>4, <3>1, RingStep, ReplyStep, LeakedStep DEF IInv
  <2> QED BY <2>1, <2>2, <2>3, <2>4
<1> QED BY Initially, <1>1, PTL DEF Spec

(* The fields, the storage and the reply keep their types.                 *)
THEOREM TypeCorrect == Spec => []TypeOK
<1>1. IInv => TypeOK
  BY DEF IInv, RingInv, HalfRing, TypeOK
<1> QED BY Invariance, <1>1, PTL

(* Through any sequence of calls, of any length, and whichever elements    *)
(* throw, _last stays one past the last element, both ends stay in the     *)
(* storage, and every slot the array counts as an element was constructed, *)
(* but the first after a push_front that threw in it.                      *)
THEOREM RingCorrect == Spec => [](RingIndices /\ ElementsAreConstructed)
<1>1. IInv => RingIndices
  BY DEF IInv, RingInv, HalfRing
<1>2. IInv => ElementsAreConstructed
  <2>1. ASSUME IInv, HalfDone PROVE ElementsAreConstructed
    BY <2>1, RawAssumption DEF IInv, HalfRing, ElementsAreConstructed
  <2>2. ASSUME IInv, ~HalfDone PROVE ElementsAreConstructed
    BY <2>2 DEF IInv, RingInv, AllConstructed, ElementsAreConstructed
  <2> QED BY <2>1, <2>2
<1> QED BY Invariance, <1>1, <1>2, PTL

(* The storage holds what the counters say, for every capacity: a slot is  *)
(* constructed just when it is an element's, but for a push_front that     *)
(* threw and what a leak leaves behind.                                    *)
THEOREM SlotsCorrect == Spec => []SlotsAreExact
<1>1. Init => OnlyElementsAreConstructed
  BY DEF Init, OnlyElementsAreConstructed
<1>2. IInv /\ OnlyElementsAreConstructed /\ [Next]_vars => OnlyElementsAreConstructed'
  <2> SUFFICES ASSUME IInv, OnlyElementsAreConstructed, [Next]_vars, ~leaked' PROVE Owned'
    BY DEF OnlyElementsAreConstructed, Owned, Position, Wrap
  <2>1. ~leaked
    BY LeakedStep DEF IInv
  <2>2. Owned
    BY <2>1 DEF OnlyElementsAreConstructed, Owned
  <2>3. CASE UNCHANGED vars \/ UsesUnconstructed
    BY <2>2, <2>3 DEF vars, ring, UsesUnconstructed, Owned, Position, Wrap
  <2>4. CASE Next /\ ~UsesUnconstructed
    BY <2>2, <2>4, OnlyWhole, OwnedStep DEF IInv
  <2> QED BY <2>3, <2>4
<1>3. Spec => []OnlyElementsAreConstructed
  BY <1>1, <1>2, Invariance, PTL DEF Spec
<1>4. RingIndices /\ ElementsAreConstructed /\ OnlyElementsAreConstructed => SlotsAreExact
  BY DEF SlotsAreExact
<1> QED BY <1>3, <1>4, RingCorrect, PTL

(* The postcondition of [] and at refuses an access in range only when the *)
(* array is full and its first element is not in the first slot.           *)
THEOREM RefusalsCorrect == Spec => []RefusedOnlyWhenFullAndRotated
<1>1. IInv => RefusedOnlyWhenFullAndRotated
  <2> SUFFICES ASSUME IInv PROVE RefusedOnlyWhenFullAndRotated
    OBVIOUS
  <2>1. /\ capacity \in Nat /\ first \in Nat /\ last \in Nat
        /\ size \in 0 .. capacity /\ RingIndices
    BY DEF IInv, RingInv, HalfRing
  <2> QED
    BY <2>1 DEF RingIndices, RefusedOnlyWhenFullAndRotated, Iterable, LegalPosition,
       Position, Wrap, Full
<1> QED BY Invariance, <1>1, PTL
(* An element is lost, its destructor never run, only by a call that clears*)
(* replaces or moves a full array, by an assign(first,last) that outgrew   *)
(* the array, or by a copy to other storage that an exception interrupts.  *)
THEOREM LossesExplained == Spec => LossOnlyWhenFull
<1> DEFINE Explained ==
        leaked' /\ ~leaked =>
            \/ /\ Full \/ (reply'.op = "assign" /\ capacity' > capacity)
               /\ reply'.op \in {"clear", "reserve", "resize", "assign"}
            \/ reply'.outcome = "threw" /\ (size > 1 \/ size' > 1)
<1>1. IInv /\ SlotsAreExact /\ [Next]_vars => [Explained]_vars
  <2> SUFFICES ASSUME IInv, SlotsAreExact, Next, leaked', ~leaked
               PROVE  \/ /\ Full \/ (reply'.op = "assign" /\ capacity' > capacity)
                         /\ reply'.op \in {"clear", "reserve", "resize", "assign"}
                      \/ reply'.outcome = "threw" /\ (size > 1 \/ size' > 1)
    OBVIOUS
  <2>1. ~UsesUnconstructed
    BY DEF UsesUnconstructed, ring
  <2>2. RingInv /\ Owned
    BY <2>1, OnlyWhole DEF IInv, SlotsAreExact, OnlyElementsAreConstructed, Owned
  <2> QED BY <2>2, LossStep
<1> QED BY <1>1, Invariance, SlotsCorrect, PTL DEF Spec, LossOnlyWhenFull

-----------------------------------------------------------------------------
(* The fields implement a bounded deque: each call maps to what the deque  *)
(* promises of it.                                                         *)

LEMMA ContentsTyped ==
    ASSUME RingInv
    PROVE  /\ Contents \in Seq(Values) /\ Len(Contents) = size
           /\ \A n \in 0 .. size - 1 : Contents[n + 1] = array[Position(n)]
<1>1. size \in Nat
  BY DEF RingInv
<1>2. \A i \in 1 .. size : array[Position(i - 1)] \in Values
  BY <1>1 DEF RingInv, AllConstructed
<1>3. Contents \in [1 .. size -> Values]
  BY <1>2 DEF Contents
<1>4. Contents \in Seq(Values) /\ Len(Contents) = size
  BY <1>1, <1>3
<1>5. \A n \in 0 .. size - 1 : n + 1 \in 1 .. size /\ (n + 1) - 1 = n
  BY <1>1
<1> QED BY <1>4, <1>5 DEF Contents

(* The contents after a call are s when its slots hold s, in order.        *)
LEMMA ContentsAfter ==
    ASSUME NEW s \in Seq(Values \cup {Raw}), size' = Len(s),
           \A n \in 0 .. Len(s) - 1 : array'[Position(n)'] = s[n + 1]
    PROVE  Contents' = s
<1>1. Len(s) \in Nat /\ s = [i \in 1 .. Len(s) |-> s[i]]
  OBVIOUS
<1>2. \A i \in 1 .. Len(s) : array'[Position(i - 1)'] = s[i]
  <2>1. \A i \in 1 .. Len(s) : i - 1 \in 0 .. Len(s) - 1 /\ (i - 1) + 1 = i
    BY <1>1
  <2> QED BY <2>1
<1>3. Contents' = [i \in 1 .. Len(s) |-> array'[Position(i - 1)']]
  BY DEF Contents
<1> QED BY <1>1, <1>2, <1>3

LEMMA ContentsKept ==
    ASSUME UNCHANGED <<array, capacity, first, last, size>>
    PROVE  Contents' = Contents
BY DEF Contents, Position, Wrap

LEMMA KeepRefines == ASSUME UNCHANGED ring PROVE Deque!Keep
BY ContentsKept DEF ring, Deque!Keep

LEMMA AnswersRefine ==
    \A op, outcome, v : Answers(op, outcome, v) => Deque!Answers(op, outcome, v)
BY DEF Answers, Alive, Deque!Answers, Deque!Alive

LEMMA PushBackRefines ==
    ASSUME RingInv, NEW v \in Values, push_back(v)
    PROVE  Deque!AppendBack(v)
<1> DEFINE s == Append(Contents, v)
<1>1. s \in Seq(Values \cup {Raw}) /\ Len(s) = size + 1
  BY ContentsTyped
<1>2. \A n \in 0 .. Len(s) - 1 : array'[Position(n)'] = s[n + 1]
  <2> SUFFICES ASSUME NEW n \in 0 .. size PROVE array'[Position(n)'] = s[n + 1]
    BY <1>1 DEF RingInv
  <2>1. Position(n)' = Position(n)
    BY DEF push_back, Position, Wrap
  <2>2. CASE n = size
    <3>1. Position(n) = last /\ last \in 0 .. capacity - 1
      BY <2>2, RoomAtLast DEF RingInv, RingIndices, push_back
    <3>2. s[n + 1] = v
      BY <2>2, ContentsTyped DEF RingInv
    <3> QED BY <2>1, <3>1, <3>2 DEF push_back, RingInv
  <2>3. CASE n # size
    <3>1. n \in 0 .. size - 1
      BY <2>3 DEF RingInv
    <3>2. Position(n) # last /\ Position(n) \in 0 .. capacity - 1
      BY <3>1, RoomAtLast, PositionsInStorage DEF push_back
    <3>3. s[n + 1] = Contents[n + 1]
      BY <3>1, ContentsTyped DEF RingInv
    <3> QED BY <2>1, <3>1, <3>2, <3>3, ContentsTyped DEF push_back, RingInv
  <2> QED BY <2>2, <2>3
<1>3. size' = Len(s)
  BY <1>1 DEF push_back
<1>4. Contents' = s
  <2> HIDE DEF s
  <2> QED BY <1>1, <1>2, <1>3, ContentsAfter
<1>5. Len(Contents) < capacity
  BY ContentsTyped DEF push_back, Full, RingInv
<1> QED BY <1>4, <1>5, AnswersRefine DEF push_back, Returns, Deque!AppendBack

LEMMA PushFrontRefines ==
    ASSUME RingInv, NEW v \in Values \cup {Raw}, ~Full,
           first' = Before(first), size' = size + 1, capacity' = capacity,
           array' = [array EXCEPT ![Before(first)] = v]
    PROVE  Contents' = <<v>> \o Contents /\ Len(Contents) < capacity
<1> DEFINE s == <<v>> \o Contents
<1>1. s \in Seq(Values \cup {Raw}) /\ Len(s) = size + 1
  BY ContentsTyped
<1>2. /\ Before(first) \in 0 .. capacity - 1
      /\ \A n \in 0 .. size - 1 : Position(n) # Before(first)
  BY DEF RingInv, RingIndices, Position, Wrap, Before, Full
<1>3. \A n \in 0 .. Len(s) - 1 : array'[Position(n)'] = s[n + 1]
  <2> SUFFICES ASSUME NEW n \in 0 .. size PROVE array'[Position(n)'] = s[n + 1]
    BY <1>1 DEF RingInv
  <2>1. CASE n = 0
    <3>1. Position(n)' = Before(first)
      BY <2>1, <1>2 DEF RingInv, Position, Wrap
    <3>2. s[n + 1] = v
      BY <2>1, ContentsTyped
    <3> QED BY <3>1, <3>2, <1>2 DEF RingInv
  <2>2. CASE n # 0
    <3>1. n - 1 \in 0 .. size - 1 /\ Position(n)' = Position(n - 1)
      BY <2>2 DEF RingInv, RingIndices, Position, Wrap, Before, Full
    <3>2. Position(n - 1) # Before(first) /\ Position(n - 1) \in 0 .. capacity - 1
      BY <3>1, <1>2, PositionsInStorage
    <3>3. s[n + 1] = Contents[n] /\ (n - 1) + 1 = n
      BY <3>1, ContentsTyped DEF RingInv
    <3>4. Contents[(n - 1) + 1] = array[Position(n - 1)]
      BY <3>1, ContentsTyped
    <3>5. array'[Position(n - 1)] = array[Position(n - 1)]
      BY <3>2 DEF RingInv
    <3> QED BY <3>1, <3>3, <3>4, <3>5
  <2> QED BY <2>1, <2>2
<1>4. size' = Len(s)
  BY <1>1
<1>5. Contents' = s
  <2> HIDE DEF s
  <2> QED BY <1>1, <1>3, <1>4, ContentsAfter
<1> QED BY <1>5, ContentsTyped DEF Full, RingInv

LEMMA PopBackRefines == ASSUME RingInv, pop_back PROVE Deque!RemoveBack
<1> DEFINE s == Front(Contents)
<1>1. Len(Contents) = size /\ size \in Nat \ {0} /\ Contents \in Seq(Values)
  BY ContentsTyped DEF pop_back, RingInv
<1>2. /\ s \in Seq(Values \cup {Raw}) /\ Len(s) = size - 1
      /\ \A i \in 1 .. size - 1 : s[i] = Contents[i]
  BY <1>1 DEF Front
<1>3. \A n \in 0 .. Len(s) - 1 : array'[Position(n)'] = s[n + 1]
  <2> SUFFICES ASSUME NEW n \in 0 .. size - 2 PROVE array'[Position(n)'] = s[n + 1]
    BY <1>1, <1>2
  <2>1. Position(n)' = Position(n)
    BY DEF pop_back, Position, Wrap
  <2>2. Before(last) = Position(size - 1)
    BY DEF pop_back, RingInv, RingIndices, Position, Wrap, Before
  <2>3. n \in 0 .. size - 1 /\ size - 1 \in 0 .. size - 1 /\ n # size - 1 /\ n + 1 \in 1 .. size - 1
    BY <1>1
  <2>4. Position(n) # Position(size - 1) /\ Position(n) \in 0 .. capacity - 1
    BY <2>3, PositionsInStorage
  <2>5. array'[Position(n)] = array[Position(n)]
    BY <2>2, <2>4 DEF pop_back, RingInv
  <2>6. Contents[n + 1] = array[Position(n)]
    BY <2>3, ContentsTyped
  <2> QED BY <1>2, <2>1, <2>3, <2>5, <2>6
<1>4. size' = Len(s)
  BY <1>2 DEF pop_back
<1>5. Contents' = s
  <2> HIDE DEF s
  <2> QED BY <1>2, <1>3, <1>4, ContentsAfter
<1>6. Contents # <<>>
  BY <1>1
<1> QED BY <1>5, <1>6, AnswersRefine DEF pop_back, Returns, Deque!RemoveBack, Front, Deque!Front

LEMMA PopFrontRefines == ASSUME RingInv, pop_front PROVE Deque!RemoveFront
<1> DEFINE s == Tail(Contents)
<1>1. Len(Contents) = size /\ size \in Nat \ {0} /\ Contents \in Seq(Values)
  BY ContentsTyped DEF pop_front, RingInv
<1>2. /\ s \in Seq(Values \cup {Raw}) /\ Len(s) = size - 1
      /\ \A i \in 1 .. size - 1 : s[i] = Contents[i + 1]
  BY <1>1
<1>3. \A n \in 0 .. Len(s) - 1 : array'[Position(n)'] = s[n + 1]
  <2> SUFFICES ASSUME NEW n \in 0 .. size - 2 PROVE array'[Position(n)'] = s[n + 1]
    BY <1>1, <1>2
  <2>1. /\ n + 1 \in 0 .. size - 1 /\ 0 \in 0 .. size - 1 /\ n + 1 # 0
        /\ n + 1 \in 1 .. size - 1
    BY <1>1
  <2>2. Position(n)' = Position(n + 1) /\ first = Position(0)
    BY DEF pop_front, RingInv, RingIndices, Position, Wrap
  <2>3. Position(n + 1) # Position(0) /\ Position(n + 1) \in 0 .. capacity - 1
    BY <2>1, PositionsInStorage
  <2>4. array'[Position(n + 1)] = array[Position(n + 1)]
    BY <2>2, <2>3 DEF pop_front, RingInv
  <2>5. Contents[(n + 1) + 1] = array[Position(n + 1)]
    BY <2>1, ContentsTyped
  <2> QED BY <1>2, <2>1, <2>2, <2>4, <2>5
<1>4. size' = Len(s)
  BY <1>2 DEF pop_front
<1>5. Contents' = s
  <2> HIDE DEF s
  <2> QED BY <1>2, <1>3, <1>4, ContentsAfter
<1>6. Contents # <<>>
  BY <1>1
<1> QED BY <1>5, <1>6, AnswersRefine DEF pop_front, Returns, Deque!RemoveFront

LEMMA EndsReadRefine == ASSUME RingInv, front \/ back PROVE Deque!ReadEnds
<1>1. /\ Len(Contents) = size /\ size \in Nat \ {0} /\ Contents \in Seq(Values)
      /\ 0 \in 0 .. size - 1 /\ size - 1 \in 0 .. size - 1
  BY ContentsTyped DEF front, back, RingInv
<1>2. Contents # <<>> /\ Head(Contents) = Contents[0 + 1] /\ (size - 1) + 1 = Len(Contents)
  BY <1>1
<1>3. first = Position(0) /\ Before(last) = Position(size - 1)
  BY <1>1 DEF RingInv, RingIndices, Position, Wrap, Before
<1>4. Head(Contents) = array[first] /\ Contents[Len(Contents)] = array[Before(last)]
  BY <1>1, <1>2, <1>3, ContentsTyped
<1> QED
  BY <1>2, <1>4, AnswersRefine, KeepRefines DEF front, back, Deque!ReadEnds, Deque!Last

(* An access by position whose own postcondition does not refuse it.       *)
LEMMA RefusalIsStopOnWalk ==
    ASSUME RingInv, ~Iterable
    PROVE  Full /\ Len(Contents) = capacity /\ Contents # <<>>
<1>1. Full
  BY DEF RingInv, RingIndices, Iterable, LegalPosition, Position, Wrap, Full
<1>2. size # 0
  BY DEF Iterable, RingInv
<1> QED BY <1>1, <1>2, ContentsTyped DEF Full, RingInv

LEMMA WalkFailsRefine ==
    ASSUME RingInv, ~Iterable, NEW op \in {"at", "[]", "reserve", "resize"}, Fails(op)
    PROVE  Deque!StopOnWalk
BY RefusalIsStopOnWalk, AnswersRefine, KeepRefines DEF Fails, Deque!StopOnWalk

LEMMA AccessRefines ==
    ASSUME RingInv, NEW n \in Nat, subscript(n) \/ at(n)
    PROVE  \/ Deque!Read("at", n) \/ Deque!Read("[]", n) \/ Deque!OutOfRange(n)
           \/ Deque!StopOnWalk \/ \E v \in Values : Deque!Write(n, v)
<1>1. Len(Contents) = size /\ size \in Nat /\ Contents \in Seq(Values)
  BY ContentsTyped DEF RingInv
<1>2. CASE n >= size
  <2>1. Deque!OutOfRange(n)
    BY <1>1, <1>2, AnswersRefine, KeepRefines DEF subscript, at, Deque!OutOfRange
  <2> QED BY <2>1
<1>3. CASE n < size /\ ~LegalPosition(Position(n))
  <2>1. ~Iterable /\ ~(n >= size)
    BY <1>1, <1>3 DEF Iterable
  <2>2. Fails("[]") \/ Fails("at")
    BY <1>3, <2>1 DEF subscript, at
  <2> QED BY <2>1, <2>2, WalkFailsRefine
<1>4. CASE n < size /\ LegalPosition(Position(n)) /\ UNCHANGED ring
  <2>1. n \in 0 .. size - 1 /\ ~(n >= size)
    BY <1>1, <1>4
  <2>2. Contents[n + 1] = array[Position(n)]
    BY <2>1, ContentsTyped
  <2>3. CASE \E op \in {"at", "[]"} : Answers(op, "returned", array[Position(n)])
    <3>1. Deque!Read("at", n) \/ Deque!Read("[]", n)
      BY <1>1, <1>4, <2>2, <2>3, AnswersRefine, KeepRefines DEF Deque!Read
    <3> QED BY <3>1
  <2>4. CASE \E v \in Values : array' = [array EXCEPT ![Position(n)] = v] /\ Returns("[]")
    <3>1. PICK v \in Values : array' = [array EXCEPT ![Position(n)] = v] /\ Returns("[]")
      BY <2>4
    <3>2. array[Position(n)] = v
      BY <1>4, <2>1, <3>1, PositionsInStorage DEF ring, RingInv
    <3>3. Contents' = [Contents EXCEPT ![n + 1] = v]
      BY <1>1, <1>4, <2>1, <2>2, <3>2, KeepRefines DEF Deque!Keep
    <3>4. Deque!Write(n, v)
      BY <1>1, <1>4, <3>1, <3>3, AnswersRefine DEF Returns, Deque!Write, ring
    <3> QED BY <3>4
  <2> QED BY <1>4, <2>1, <2>3, <2>4 DEF subscript, at
<1>5. CASE n < size /\ LegalPosition(Position(n)) /\ ~UNCHANGED ring
  <2>1. n \in 0 .. size - 1 /\ ~(n >= size) /\ n + 1 \in 1 .. size
    BY <1>1, <1>5
  <2>2. PICK v \in Values : /\ array' = [array EXCEPT ![Position(n)] = v]
                            /\ Returns("[]")
                            /\ UNCHANGED <<capacity, first, last, size, leaked>>
    BY <1>5, <2>1 DEF subscript, at
  <2> DEFINE s == [Contents EXCEPT ![n + 1] = v]
  <2>3. s \in Seq(Values \cup {Raw}) /\ Len(s) = size
    <3>1. Contents \in Seq(Values \cup {Raw}) /\ v \in Values \cup {Raw} /\ n + 1 \in 1 .. Len(Contents)
      BY <1>1, <2>1
    <3> QED BY <3>1, <1>1, ExceptSeq
  <2>4. \A m \in 0 .. Len(s) - 1 : array'[Position(m)'] = s[m + 1]
    <3> SUFFICES ASSUME NEW m \in 0 .. size - 1 PROVE array'[Position(m)'] = s[m + 1]
      BY <2>3
    <3>1. Position(m)' = Position(m) /\ m + 1 \in 1 .. size
      BY <1>1, <2>2 DEF Position, Wrap
    <3>2. /\ Position(m) \in 0 .. capacity - 1
          /\ m # n => Position(m) # Position(n)
      BY <2>1, PositionsInStorage
    <3>3. array'[Position(m)] = IF m = n THEN v ELSE array[Position(m)]
      BY <2>2, <3>2 DEF RingInv
    <3>4. s[m + 1] = IF m = n THEN v ELSE Contents[m + 1]
      BY <1>1, <2>1, <3>1
    <3> QED BY <3>1, <3>3, <3>4, ContentsTyped
  <2>5. size' = Len(s)
    BY <2>2, <2>3
  <2>6. Contents' = s
    <3> HIDE DEF s
    <3> QED BY <2>3, <2>4, <2>5, ContentsAfter
  <2>7. Deque!Write(n, v)
    BY <1>1, <1>5, <2>2, <2>6, AnswersRefine DEF Returns, Deque!Write
  <2> QED BY <2>7
<1> QED BY <1>1, <1>2, <1>3, <1>4, <1>5

LEMMA ClearRefines ==
    ASSUME size' = 0
    PROVE  Contents' = <<>>
BY DEF Contents

(* Copied into other storage, the elements are as they were, then t.       *)
LEMMA MovedContents ==
    ASSUME RingInv, NEW t \in Seq(Values), NEW c \in Nat, size + Len(t) <= c, Moved(t, c)
    PROVE  Contents' = Contents \o t
<1> DEFINE s == Contents \o t
<1>1. /\ Len(Contents) = size /\ size \in Nat /\ Contents \in Seq(Values) /\ Len(t) \in Nat
      /\ s \in Seq(Values \cup {Raw}) /\ Len(s) = size + Len(t)
      /\ \A i \in 1 .. size + Len(t) : s[i] = IF i <= size THEN Contents[i] ELSE t[i - size]
  <2>1. /\ Len(Contents) = size /\ size \in Nat /\ Contents \in Seq(Values) /\ Len(t) \in Nat
        /\ Contents \in Seq(Values \cup {Raw}) /\ t \in Seq(Values \cup {Raw})
    BY ContentsTyped DEF RingInv
  <2> QED BY <2>1, ConcatProperties
<1>2. \A n \in 0 .. Len(s) - 1 : array'[Position(n)'] = s[n + 1]
  <2> SUFFICES ASSUME NEW n \in 0 .. size + Len(t) - 1 PROVE array'[Position(n)'] = s[n + 1]
    BY <1>1
  <2>1. Position(n)' = n /\ n \in 0 .. c - 1
    BY <1>1 DEF Moved, Position, Wrap
  <2>2. array'[n] = IF n < size THEN Contents[n + 1] ELSE t[n + 1 - size]
    BY <1>1, <2>1 DEF Moved
  <2>3. s[n + 1] = IF n + 1 <= size THEN Contents[n + 1] ELSE t[n + 1 - size]
    <3>1. n + 1 \in 1 .. size + Len(t)
      BY <1>1
    <3> HIDE DEF s
    <3> QED BY <1>1, <3>1
  <2> QED BY <1>1, <2>1, <2>2, <2>3
<1>3. size' = Len(s)
  BY <1>1 DEF Moved
<1> HIDE DEF s
<1>4. Contents' = s
  BY <1>1, <1>2, <1>3, ContentsAfter
<1> QED BY <1>4 DEF s

LEMMA MovedAlone ==
    ASSUME RingInv, NEW c \in Nat, size <= c, Moved(<<>>, c)
    PROVE  Contents' = Contents /\ capacity' = c
<1>1. <<>> \in Seq(Values) /\ Len(<<>>) = 0 /\ size + 0 <= c
  BY DEF RingInv
<1>2. Contents' = Contents \o <<>>
  BY <1>1, MovedContents
<1> QED BY <1>2, ContentsTyped DEF Moved

(* Elements pushed into a cleared array are its contents.                  *)
LEMMA FilledContents ==
    ASSUME NEW s \in Seq(Values), NEW c \in Nat, Len(s) <= c, Filled(s, c)
    PROVE  Contents' = s
<1>1. Len(s) \in Nat /\ s \in Seq(Values \cup {Raw}) /\ size' = Len(s)
  BY DEF Filled
<1>2. \A n \in 0 .. Len(s) - 1 : array'[Position(n)'] = s[n + 1]
  BY <1>1 DEF Filled, Position, Wrap
<1> QED BY <1>1, <1>2, ContentsAfter

LEMMA StorageCallsRefine ==
    ASSUME RingInv, NEW c \in Nat, reserve(c) \/ shrink_to_fit
    PROVE  Deque!Enlarge(c) \/ Deque!Fit \/ Deque!StopOnWalk \/ Deque!StopOnNoPlaces
<1>1. Len(Contents) = size /\ size \in Nat /\ capacity \in Nat /\ size <= capacity
  BY ContentsTyped DEF RingInv
<1>2. CASE reserve(c)
  <2>1. CASE c <= capacity
    <3>1. Deque!Enlarge(c)
      BY <1>2, <2>1, AnswersRefine, KeepRefines
         DEF reserve, Returns, Deque!Enlarge, Deque!Keep, ring
    <3> QED BY <3>1
  <2>2. CASE ~(c <= capacity) /\ ~Iterable
    BY <1>2, <2>2, WalkFailsRefine DEF reserve
  <2>3. CASE ~(c <= capacity) /\ Iterable
    <3>1. Contents' = Contents /\ capacity' = c
      BY <1>1, <1>2, <2>3, MovedAlone DEF reserve
    <3>2. Deque!Enlarge(c)
      BY <1>2, <2>3, <3>1, AnswersRefine DEF reserve, Returns, Deque!Enlarge
    <3> QED BY <3>2
  <2> QED BY <2>1, <2>2, <2>3
<1>3. CASE shrink_to_fit
  <2>1. CASE Full
    <3>1. Deque!Fit
      BY <1>1, <1>3, <2>1, AnswersRefine, KeepRefines
         DEF shrink_to_fit, Returns, Full, Deque!Fit, Deque!Keep, ring
    <3> QED BY <3>1
  <2>2. Iterable \/ Full
    BY RefusalIsStopOnWalk
  <2>3. CASE ~Full /\ size = 0
    <3>1. Contents = <<>>
      BY <1>1, <2>3, ContentsTyped
    <3>2. Deque!StopOnNoPlaces
      BY <1>3, <2>3, <3>1, AnswersRefine, KeepRefines
         DEF shrink_to_fit, Fails, Deque!StopOnNoPlaces
    <3> QED BY <3>2
  <2>4. CASE ~Full /\ size # 0
    <3>1. Moved(<<>>, size) /\ Returns("shrink_to_fit")
      BY <1>3, <2>2, <2>4 DEF shrink_to_fit
    <3>2. Contents' = Contents /\ capacity' = size
      BY <1>1, <3>1, MovedAlone
    <3>3. Deque!Fit
      BY <1>1, <3>1, <3>2, AnswersRefine DEF Returns, Deque!Fit
    <3> QED BY <3>3
  <2> QED BY <2>1, <2>3, <2>4
<1> QED BY <1>2, <1>3

(* The first m of the elements, or all of them and then copies of v.       *)
Resized(m, v) == [i \in 1 .. m |-> IF i <= Len(Contents) THEN Contents[i] ELSE v]

LEMMA ResizedIsSequence ==
    ASSUME RingInv, NEW m \in Nat, NEW v \in Values
    PROVE  /\ Resized(m, v) \in Seq(Values \cup {Raw}) /\ Len(Resized(m, v)) = m
           /\ \A n \in 0 .. m - 1 :
                 Resized(m, v)[n + 1] = IF n < size THEN array[Position(n)] ELSE v
<1>1. Len(Contents) = size /\ size \in Nat /\ Contents \in Seq(Values)
  BY ContentsTyped DEF RingInv
<1>2. \A i \in 1 .. m : Resized(m, v)[i] \in Values \cup {Raw}
  BY <1>1 DEF Resized
<1>3. Resized(m, v) \in Seq(Values \cup {Raw}) /\ Len(Resized(m, v)) = m
  BY <1>2 DEF Resized
<1>4. ASSUME NEW n \in 0 .. m - 1
      PROVE Resized(m, v)[n + 1] = IF n < size THEN array[Position(n)] ELSE v
  <2>1. Resized(m, v)[n + 1] = IF n + 1 <= size THEN Contents[n + 1] ELSE v
    BY <1>1 DEF Resized
  <2>2. CASE n < size
    <3>1. n \in 0 .. size - 1 /\ n + 1 <= size
      BY <1>1, <2>2
    <3> QED BY <2>1, <2>2, <3>1, ContentsTyped
  <2>3. CASE ~(n < size)
    BY <1>1, <2>1, <2>3
  <2> QED BY <2>2, <2>3
<1> QED BY <1>3, <1>4

(* Elements destroyed or constructed in place, at the end.                 *)
LEMMA ResizedInPlace ==
    ASSUME RingInv, NEW m \in Nat, NEW v \in Values, m <= capacity,
           size' = m, first' = first, capacity' = capacity,
           \/ /\ m <= size
              /\ array' = [p \in 0 .. capacity - 1 |->
                              IF \E i \in m .. size - 1 : p = Position(i) THEN Raw ELSE array[p]]
           \/ /\ size <= m
              /\ array' = [p \in 0 .. capacity - 1 |->
                              IF \E i \in size .. m - 1 : p = Position(i) THEN v ELSE array[p]]
    PROVE  Contents' = Resized(m, v)
<1> DEFINE s == Resized(m, v)
<1>1. size \in Nat /\ capacity \in Nat
  BY DEF RingInv
<1>2. ASSUME NEW n \in 0 .. m - 1
      PROVE array'[Position(n)'] = IF n < size THEN array[Position(n)] ELSE v
  <2>1. Position(n)' = Position(n)
    BY DEF Position, Wrap
  <2>2. Position(n) \in 0 .. capacity - 1
    BY DEF RingInv, RingIndices, Position, Wrap
  <2>3. CASE n < size
    <3>1. \A i \in m .. size - 1 : i \in 0 .. size - 1 /\ i # n
      BY <1>1
    <3>2. n \in 0 .. size - 1
      BY <1>1, <2>3
    <3>3. \A i \in m .. size - 1 : Position(i) # Position(n)
      BY <3>1, <3>2, PositionsInStorage
    <3>4. \A i \in size .. m - 1 : Position(i) # Position(n)
      BY <1>1, <2>3 DEF RingInv, RingIndices, Position, Wrap
    <3> QED BY <2>1, <2>2, <2>3, <3>3, <3>4
  <2>4. CASE ~(n < size)
    <3>1. n \in size .. m - 1 /\ ~(m <= size)
      BY <1>1, <2>4
    <3> QED BY <2>1, <2>2, <2>4, <3>1
  <2> QED BY <2>3, <2>4
<1>3. s \in Seq(Values \cup {Raw}) /\ Len(s) = m
  BY ResizedIsSequence
<1>4. \A n \in 0 .. Len(s) - 1 : array'[Position(n)'] = s[n + 1]
  <2> SUFFICES ASSUME NEW n \in 0 .. m - 1 PROVE array'[Position(n)'] = s[n + 1]
    BY <1>3
  <2> QED BY <1>2, ResizedIsSequence
<1>5. size' = Len(s)
  BY <1>3
<1> HIDE DEF s
<1>6. Contents' = s
  BY <1>3, <1>4, <1>5, ContentsAfter
<1> QED BY <1>6 DEF s

(* And copies of v appended in other storage.                              *)
LEMMA ResizedElsewhere ==
    ASSUME RingInv, NEW m \in Nat, NEW n \in Nat, NEW v \in Values, size <= m, m <= n,
           NEW t, t = [i \in 1 .. m - size |-> v], Moved(t, n)
    PROVE  Contents' = Resized(m, v) /\ capacity' = n
<1>1. Len(Contents) = size /\ size \in Nat /\ Contents \in Seq(Values) /\ m - size \in Nat
  BY ContentsTyped DEF RingInv
<1>2. t \in Seq(Values) /\ Len(t) = m - size /\ \A i \in 1 .. m - size : t[i] = v
  BY <1>1
<1>3. size + Len(t) <= n
  BY <1>1, <1>2
<1>4. Contents' = Contents \o t
  BY <1>2, <1>3, MovedContents
<1>5. Contents \o t = Resized(m, v)
  <2>1. /\ Contents \o t \in Seq(Values \cup {Raw}) /\ Len(Contents \o t) = m
        /\ \A i \in 1 .. m : (Contents \o t)[i] = IF i <= size THEN Contents[i] ELSE t[i - size]
    BY <1>1, <1>2
  <2>2. \A i \in 1 .. m : Resized(m, v)[i] = IF i <= size THEN Contents[i] ELSE v
    BY <1>1 DEF Resized
  <2>3. \A i \in 1 .. m : ~(i <= size) => i - size \in 1 .. m - size
    BY <1>1
  <2>4. \A i \in 1 .. m : (Contents \o t)[i] = Resized(m, v)[i]
    BY <1>2, <2>1, <2>2, <2>3
  <2>5. Resized(m, v) \in Seq(Values \cup {Raw}) /\ Len(Resized(m, v)) = m
    BY ResizedIsSequence
  <2> QED BY <2>1, <2>4, <2>5, SeqEqual
<1> QED BY <1>3, <1>4, <1>5 DEF Moved

LEMMA ResizeRefines ==
    ASSUME RingInv, NEW n \in 0 .. MaxCapacity, NEW v \in Values, ResizeDown(n) \/ ResizeUp(n, v)
    PROVE  Deque!Resize(n, v) \/ Deque!StopOnWalk
<1>1. n \in Nat /\ size \in Nat /\ capacity \in Nat /\ size <= capacity
  BY CapacityAssumption DEF RingInv
<1>2. CASE ResizeDown(n) \/ (ResizeUp(n, v) /\ n <= capacity)
  <2>1. Contents' = Resized(n, v)
    BY <1>1, <1>2, ResizedInPlace DEF ResizeDown, ResizeUp
  <2>2. capacity' = capacity /\ n <= capacity /\ Returns("resize")
    BY <1>1, <1>2 DEF ResizeDown, ResizeUp
  <2> QED BY <2>1, <2>2, AnswersRefine DEF Returns, Resized, Deque!Resize
<1>3. CASE ResizeUp(n, v) /\ ~(n <= capacity) /\ ~Iterable
  BY <1>3, WalkFailsRefine DEF ResizeUp
<1>4. CASE ResizeUp(n, v) /\ ~(n <= capacity) /\ Iterable
  <2>1. PICK t : t = [i \in 1 .. n - size |-> v] /\ Moved(t, n)
    BY <1>4 DEF ResizeUp
  <2>2. Returns("resize") /\ size <= n /\ n <= n
    BY <1>1, <1>4 DEF ResizeUp
  <2>3. Contents' = Resized(n, v) /\ capacity' = n
    BY <1>1, <2>1, <2>2, ResizedElsewhere
  <2> QED BY <1>4, <2>2, <2>3, AnswersRefine DEF Returns, Resized, Deque!Resize
<1> QED BY <1>2, <1>3, <1>4

LEMMA ResizeThrowsRefine ==
    ASSUME RingInv, NEW n \in 0 .. MaxCapacity, NEW m \in 0 .. MaxCapacity, NEW v \in Values,
           resize_throws(n, m, v), ~CopyThrows("resize", m)
    PROVE  Deque!ThrowInResize(n, m, v)
<1>1. /\ n \in Nat /\ m \in Nat /\ size \in Nat /\ capacity \in Nat /\ size <= capacity
      /\ Len(Contents) = size /\ size <= m /\ m < n /\ Throws("resize")
  BY CapacityAssumption, ContentsTyped DEF RingInv, resize_throws
<1>2. CASE n <= capacity
  <2>1. /\ m <= capacity /\ size' = m /\ first' = first /\ capacity' = capacity
        /\ array' = [p \in 0 .. capacity - 1 |->
                       IF \E i \in size .. m - 1 : p = Position(i) THEN v ELSE array[p]]
    BY <1>1, <1>2 DEF resize_throws
  <2>2. Contents' = Resized(m, v)
    BY <1>1, <2>1, ResizedInPlace
  <2> QED BY <1>1, <1>2, <2>1, <2>2, AnswersRefine DEF Throws, Resized, Deque!ThrowInResize
<1>3. CASE ~(n <= capacity)
  <2>1. PICK t : t = [i \in 1 .. m - size |-> v] /\ Moved(t, n)
    BY <1>3 DEF resize_throws
  <2>2. m <= n
    BY <1>1
  <2>3. Contents' = Resized(m, v) /\ capacity' = n
    BY <1>1, <2>1, <2>2, ResizedElsewhere
  <2> QED BY <1>1, <1>3, <2>3, AnswersRefine DEF Throws, Resized, Deque!ThrowInResize
<1> QED BY <1>2, <1>3

LEMMA CopyThrowsRefines ==
    ASSUME NEW n, NEW op \in {"reserve", "resize", "shrink_to_fit"}, CopyThrows(op, n)
    PROVE  Deque!ThrowAndKeep
<1>1. Deque!Keep /\ Answers(op, "threw", Raw)
  BY ContentsKept DEF CopyThrows, Throws, Deque!Keep
<1> QED BY <1>1, AnswersRefine DEF Deque!ThrowAndKeep

LEMMA AssignRefines ==
    ASSUME RingInv, NEW s \in BoundedSeq(Values, MaxCapacity),
           AssignSized(s) \/ AssignList(s) \/ AssignRange(s)
    PROVE  Deque!Replace("assign", s) \/ Deque!StopOnNoPlaces
<1>1. /\ s \in Seq(Values) /\ Len(s) \in Nat /\ capacity \in Nat /\ size \in Nat
      /\ Growth \in Nat /\ capacity + Growth \in Nat
  BY InputSequences, GrowthAssumption DEF Growth, RingInv
<1>2. ASSUME NEW c \in Nat, c >= capacity, Len(s) <= c, Filled(s, c), Returns("assign")
      PROVE  Deque!Replace("assign", s)
  <2>1. Contents' = s /\ capacity' = c
    BY <1>1, <1>2, FilledContents DEF Filled
  <2> QED BY <1>2, <2>1, AnswersRefine DEF Returns, Deque!Replace
<1>3. CASE AssignSized(s)
  BY <1>1, <1>2, <1>3 DEF AssignSized
<1>4. CASE capacity = 0 /\ Fails("assign")
  <2>1. Contents = <<>>
    BY <1>4 DEF RingInv, Contents
  <2>2. Deque!StopOnNoPlaces
    BY <1>4, <2>1, AnswersRefine, KeepRefines DEF Fails, Deque!StopOnNoPlaces
  <2> QED BY <2>2
<1>5. CASE AssignRange(s) /\ ~AssignList(s)
  <2>1. /\ capacity + Growth >= capacity /\ Len(s) <= capacity + Growth
        /\ Filled(s, capacity + Growth) /\ Returns("assign")
    BY <1>1, <1>5 DEF AssignRange
  <2> QED BY <1>1, <1>2, <2>1
<1> QED BY <1>3, <1>4, <1>5 DEF AssignList

LEMMA AssignThrowsRefine ==
    ASSUME RingInv, NEW s \in BoundedSeq(Values, MaxCapacity), NEW n \in 0 .. MaxCapacity,
           assign_throws(s, n)
    PROVE  Deque!ThrowInAssign(s)
<1>1. /\ s \in Seq(Values) /\ Len(s) \in Nat /\ capacity \in Nat
      /\ Growth \in Nat /\ capacity + Growth \in Nat /\ n \in Nat
  BY InputSequences, GrowthAssumption, CapacityAssumption DEF Growth, RingInv
<1>2. Len(s) < n /\ Len(s) < MaxCapacity /\ Throws("assign")
  BY <1>1, CapacityAssumption DEF assign_throws
<1>3. PICK c \in Nat : c >= capacity /\ Len(s) <= c /\ Filled(s, c)
  <2>1. CASE Filled(s, IF n <= capacity THEN capacity ELSE n)
    BY <1>1, <1>2, <2>1
  <2>2. CASE Filled(s, capacity) /\ Len(s) <= capacity
    BY <1>1, <2>2
  <2>3. CASE Filled(s, capacity + Growth) /\ n <= capacity + Growth
    BY <1>1, <1>2, <2>3
  <2> QED BY <2>1, <2>2, <2>3 DEF assign_throws
<1>4. Contents' = s /\ capacity' = c
  BY <1>1, <1>3, FilledContents DEF Filled
<1> QED BY <1>2, <1>3, <1>4, AnswersRefine DEF Throws, Deque!ThrowInAssign

(* Calls given elements of this very array.                                *)
LEMMA OwnRefines ==
    ASSUME RingInv, NEW n \in 0 .. MaxCapacity, NEW i \in 0 .. MaxCapacity,
           ResizeUpOwn(n, i) \/ AssignOwnElement(n) \/ AssignOwnRange
    PROVE  Deque!UseOwn
<1>1. Len(Contents) = size /\ size \in Nat /\ capacity \in Nat /\ size <= capacity /\ n \in Nat /\ i \in Nat
  BY ContentsTyped, CapacityAssumption DEF RingInv
<1>2. CASE ResizeUpOwn(n, i)
  <2>1. Moved(<<>>, n) /\ size <= n /\ n > capacity /\ i < size /\ Answers("resize", "undefined", Raw)
    BY <1>1, <1>2 DEF ResizeUpOwn
  <2>2. Contents' = Contents /\ capacity' = n /\ Contents # <<>>
    BY <1>1, <2>1, MovedAlone
  <2> QED BY <2>1, <2>2, AnswersRefine DEF Deque!UseOwn
<1>3. ASSUME NEW outcome \in {"undefined", "precondition_failed"}, AssignOwn(outcome)
      PROVE  Deque!UseOwn
  <2>1. Contents' = <<>> /\ Contents # <<>> /\ capacity' = capacity
    BY <1>1, <1>3, ClearRefines DEF AssignOwn
  <2> QED BY <1>3, <2>1, AnswersRefine DEF AssignOwn, Deque!UseOwn
<1> QED BY <1>2, <1>3 DEF AssignOwnElement, AssignOwnRange

(* A place in front that holds nothing, and the call that finds out.       *)
LEMMA PushFrontThrowsRefines ==
    ASSUME RingInv, push_front_throws
    PROVE  Deque!ThrowAndKeep \/ Deque!ThrowInFront
<1>1. CASE UNCHANGED ring /\ Throws("push_front")
  BY <1>1, AnswersRefine, KeepRefines DEF Throws, Deque!ThrowAndKeep
<1>2. CASE ~(UNCHANGED ring /\ Throws("push_front"))
  <2>1. /\ ~Full /\ first' = Before(first) /\ size' = size + 1 /\ capacity' = capacity
        /\ array' = [array EXCEPT ![Before(first)] = Raw]
        /\ Answers("push_front", "half_done", Raw)
    BY <1>2 DEF push_front_throws
  <2>2. Contents' = <<Raw>> \o Contents /\ Len(Contents) < capacity
    BY <2>1, PushFrontRefines
  <2> QED BY <2>1, <2>2, AnswersRefine DEF Deque!ThrowInFront
<1> QED BY <1>1, <1>2

LEMMA UseNothingRefines ==
    ASSUME HalfRing, UsesUnconstructed
    PROVE  Deque!UseNothing
<1>1. Head(Contents) = Raw
  <2>1. 1 \in 1 .. size /\ 1 - 1 = 0
    BY DEF HalfRing
  <2>2. Contents[1] = array[Position(0)]
    BY <2>1 DEF Contents
  <2> QED BY <2>2 DEF HalfRing
<1> QED BY <1>1, KeepRefines DEF UsesUnconstructed, Deque!UseNothing

LEMMA CopiesAreInputs ==
    \A n \in 0 .. MaxCapacity, v \in Values : [i \in 1 .. n |-> v] \in BoundedSeq(Values, MaxCapacity)
<1> SUFFICES ASSUME NEW n \in 0 .. MaxCapacity, NEW v \in Values
             PROVE  [i \in 1 .. n |-> v] \in BoundedSeq(Values, MaxCapacity)
  OBVIOUS
<1>1. [i \in 1 .. n |-> v] \in [1 .. n -> Values]
  OBVIOUS
<1> QED BY <1>1 DEF BoundedSeq, SeqOf

(* Every call of a whole array is one of the deque's.                      *)
LEMMA CallRefines ==
    ASSUME RingInv, Next, ~UsesUnconstructed
    PROVE  Deque!Next
<1> USE CapacityAssumption
<1>1. Len(Contents) = size /\ size \in Nat /\ capacity \in Nat /\ (size = 0 => Contents = <<>>)
  BY ContentsTyped DEF RingInv
<1>2. ASSUME NEW v \in Values, push_back(v) \/ push_front(v) PROVE Deque!Next
  <2>1. CASE push_back(v)
    <3>1. Deque!AppendBack(v)
      BY <2>1, PushBackRefines
    <3> QED BY <3>1 DEF Deque!Next
  <2>2. CASE push_front(v)
    <3>1. Deque!AppendFront(v)
      <4>1. Contents' = <<v>> \o Contents /\ Len(Contents) < capacity
        BY <2>2, PushFrontRefines DEF push_front
      <4> QED BY <2>2, <4>1, AnswersRefine DEF push_front, Returns, Deque!AppendFront
    <3> QED BY <3>1 DEF Deque!Next
  <2> QED BY <1>2, <2>1, <2>2
<1>3. CASE push_back_throws \/ push_front_throws
  <2>1. push_back_throws => Deque!ThrowAndKeep
    BY AnswersRefine, KeepRefines DEF push_back_throws, Throws, Deque!ThrowAndKeep
  <2> QED BY <1>3, <2>1, PushFrontThrowsRefines DEF Deque!Next
<1>4. ASSUME NEW op \in {"push_back", "push_front"}, check_room_for_one_more(op)
      PROVE  Deque!Next
  <2>1. Deque!RefuseWhenFull
    BY <1>1, <1>4, AnswersRefine, KeepRefines
       DEF check_room_for_one_more, Full, Deque!RefuseWhenFull
  <2> QED BY <2>1 DEF Deque!Next
<1>5. CASE pop_back \/ pop_front \/ front \/ back
  BY <1>5, PopBackRefines, PopFrontRefines, EndsReadRefine DEF Deque!Next
<1>6. ASSUME NEW op \in {"pop_back", "pop_front", "front", "back"}, CalledOnEmpty(op)
      PROVE  Deque!Next
  <2>1. Deque!StopOnEmpty
    BY <1>1, <1>6, AnswersRefine, KeepRefines DEF CalledOnEmpty, Deque!StopOnEmpty
  <2> QED BY <2>1 DEF Deque!Next
<1>7. ASSUME NEW n \in 0 .. MaxCapacity, subscript(n) \/ at(n) PROVE Deque!Next
  <2>1. \/ Deque!Read("at", n) \/ Deque!Read("[]", n) \/ Deque!OutOfRange(n)
        \/ Deque!StopOnWalk \/ \E v \in Values : Deque!Write(n, v)
    BY <1>7, AccessRefines
  <2> QED BY <2>1 DEF Deque!Next
<1>8. CASE clear
  <2>1. Deque!Replace("clear", <<>>)
    <3>1. Contents' = <<>> /\ capacity' = capacity /\ Len(<<>>) = 0 /\ Returns("clear")
      BY <1>8, ClearRefines DEF clear
    <3> QED BY <1>1, <3>1, AnswersRefine DEF Returns, Deque!Replace
  <2> QED BY <2>1 DEF Deque!Next
<1>9. ASSUME NEW c \in 0 .. MaxCapacity, reserve(c) \/ shrink_to_fit PROVE Deque!Next
  <2>1. Deque!Enlarge(c) \/ Deque!Fit \/ Deque!StopOnWalk \/ Deque!StopOnNoPlaces
    BY <1>9, StorageCallsRefine
  <2> QED BY <2>1 DEF Deque!Next
<1>10. ASSUME NEW n \in 0 .. MaxCapacity, NEW v \in Values, ResizeDown(n) \/ ResizeUp(n, v)
       PROVE  Deque!Next
  <2>1. Deque!Resize(n, v) \/ Deque!StopOnWalk
    BY <1>10, ResizeRefines
  <2> QED BY <2>1 DEF Deque!Next
<1>11. ASSUME NEW s \in BoundedSeq(Values, MaxCapacity),
              AssignSized(s) \/ AssignList(s) \/ AssignRange(s)
       PROVE  Deque!Next
  <2>1. Deque!Replace("assign", s) \/ Deque!StopOnNoPlaces
    BY <1>11, AssignRefines
  <2> QED BY <2>1 DEF Deque!Next, BoundedSeq, SeqOf, Deque!BoundedSeq, Deque!SeqOf
<1>12. \A n \in 0 .. MaxCapacity, v \in Values : AssignCopies(n, v) => Deque!Next
  BY <1>11, CopiesAreInputs DEF AssignCopies
<1>13. ASSUME NEW n \in 0 .. MaxCapacity, NEW op \in {"reserve", "resize", "shrink_to_fit"},
              CopyThrows(op, n)
       PROVE  Deque!Next
  <2>1. Deque!ThrowAndKeep
    BY <1>13, CopyThrowsRefines
  <2> QED BY <2>1 DEF Deque!Next
<1>14. CASE \/ \E c, n \in 0 .. MaxCapacity : reserve_throws(c, n)
            \/ \E n \in 0 .. MaxCapacity : shrink_throws(n)
  BY <1>13, <1>14 DEF reserve_throws, shrink_throws
<1>15. ASSUME NEW n \in 0 .. MaxCapacity, NEW m \in 0 .. MaxCapacity, NEW v \in Values,
              resize_throws(n, m, v)
       PROVE  Deque!Next
  <2>1. CASE CopyThrows("resize", m)
    BY <2>1, <1>13
  <2>2. CASE ~CopyThrows("resize", m)
    <3>1. Deque!ThrowInResize(n, m, v)
      BY <1>15, <2>2, ResizeThrowsRefine
    <3> QED BY <3>1 DEF Deque!Next
  <2> QED BY <2>1, <2>2
<1>16. ASSUME NEW s \in BoundedSeq(Values, MaxCapacity), NEW n \in 0 .. MaxCapacity,
              assign_throws(s, n)
       PROVE  Deque!Next
  <2>1. Deque!ThrowInAssign(s)
    BY <1>16, AssignThrowsRefine
  <2> QED BY <2>1 DEF Deque!Next, BoundedSeq, SeqOf, Deque!BoundedSeq, Deque!SeqOf
<1>17. ASSUME NEW n \in 0 .. MaxCapacity, NEW i \in 0 .. MaxCapacity,
              ResizeUpOwn(n, i) \/ AssignOwnElement(n) \/ AssignOwnRange
       PROVE  Deque!Next
  <2>1. Deque!UseOwn
    BY <1>17, OwnRefines
  <2> QED BY <2>1 DEF Deque!Next
<1>18. 0 \in 0 .. MaxCapacity /\ \E v \in Values : TRUE
  BY ValuesAssumption
<1> QED
  BY <1>2, <1>3, <1>4, <1>5, <1>6, <1>7, <1>8, <1>9, <1>10, <1>11, <1>12, <1>14, <1>15, <1>16,
     <1>17, <1>18 DEF Next

(* Through any sequence of calls, and whichever elements throw, the array  *)
(* is a bounded deque: it holds what was pushed, in order, wherever in the *)
(* storage it is, and ends or throws just when the deque may.              *)
THEOREM DequeImplemented == Spec => ImplementsDeque
<1>1. Init => Deque!Init
  <2> SUFFICES ASSUME Init PROVE Deque!Init
    OBVIOUS
  <2>1. Contents = <<>>
    BY DEF Init, Contents
  <2> QED BY <2>1 DEF Init, Deque!Init
<1>2. IInv /\ [Next]_vars => [Deque!Next]_(Deque!vars)
  <2> SUFFICES ASSUME IInv, [Next]_vars PROVE [Deque!Next]_(Deque!vars)
    OBVIOUS
  <2>1. CASE UNCHANGED vars
    <3>1. Contents' = Contents
      BY <2>1, ContentsKept DEF vars
    <3> QED BY <2>1, <3>1 DEF vars, Deque!vars
  <2>2. CASE UsesUnconstructed
    <3>1. HalfRing
      BY <2>2 DEF UsesUnconstructed, IInv, HalfDone
    <3> QED BY <2>2, <3>1, UseNothingRefines DEF Deque!Next
  <2>3. CASE Next /\ ~UsesUnconstructed
    <3>1. RingInv
      BY <2>3, OnlyWhole DEF IInv
    <3> QED BY <2>3, <3>1, CallRefines
  <2> QED BY <2>1, <2>2, <2>3
<1> QED BY <1>1, <1>2, Invariance, PTL DEF Spec, ImplementsDeque, Deque!Spec
=============================================================================

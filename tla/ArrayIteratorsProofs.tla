----------------------- MODULE ArrayIteratorsProofs -----------------------
(* Arithmetic of the array iterators, for positions of any width.          *)
EXTENDS ArrayIterators, SequenceTheorems, TLAPS

(* The difference of a position and where it was moved from is the move,   *)
(* although the subtraction of unsigned numbers is turned round when the   *)
(* second is the larger.                                                   *)
LEMMA DifferenceOfAdvance ==
    ASSUME NEW p \in Positions, NEW n \in Differences
    PROVE  Difference(Advance(p, n), p) = n
  <1>1. Half \in Nat \ {0}
    BY HalfAssumption
  <1>2. CASE n >= 0
    BY <1>1, <1>2 DEF Difference, Advance, Unsigned, Signed, Positions, Differences, Modulus
  <1>3. CASE n < 0
    BY <1>1, <1>3
    DEF Difference, Advance, Unsigned, Signed, Negated, Positions, Differences, Modulus
  <1> QED
    BY <1>1, <1>2, <1>3 DEF Differences

(* -= undoes +=.                                                           *)
LEMMA RetreatUndoes ==
    ASSUME NEW p \in Positions, NEW n \in Differences
    PROVE  Retreat(Advance(p, n), n) = p
  <1>1. Half \in Nat \ {0}
    BY HalfAssumption
  <1>2. CASE n >= 0
    BY <1>1, <1>2 DEF Retreat, Advance, Unsigned, Positions, Differences, Modulus
  <1>3. CASE n < 0
    BY <1>1, <1>3 DEF Retreat, Advance, Unsigned, Negated, Positions, Differences, Modulus
  <1> QED
    BY <1>1, <1>2, <1>3 DEF Differences

(* Comparing two positions of the lower half is comparing their difference *)
(* with nothing.                                                           *)
LEMMA LessIsNegative ==
    ASSUME NEW p \in 0 .. Half - 1, NEW q \in 0 .. Half - 1
    PROVE  Less(p, q) <=> Difference(p, q) < 0
  <1>1. Half \in Nat \ {0}
    BY HalfAssumption
  <1> QED
    BY <1>1 DEF Less, Difference, Unsigned, Signed, Modulus

(* The arithmetic of iterator.hpp is exact for every width of size_t and   *)
(* every difference it can be given, the least one included.               *)
THEOREM ArithmeticCorrect == ArithmeticIsExact
  <1>1. ASSUME NEW p \in Positions, NEW n \in Differences
        PROVE  /\ Difference(Advance(p, n), p) = n
               /\ Retreat(Advance(p, n), n) = p
    BY <1>1, DifferenceOfAdvance, RetreatUndoes
  <1>2. ASSUME NEW p \in 0 .. Half - 1, NEW q \in 0 .. Half - 1
        PROVE  Less(p, q) <=> Difference(p, q) < 0
    BY <1>2, LessIsNegative
  <1> QED
    BY <1>1, <1>2 DEF ArithmeticIsExact

-----------------------------------------------------------------------------
(* The storage of the objects.                                             *)

Outcomes == {"returned", "length_error", "threw", "bad_alloc", "condition_failed", "undefined"}

Typed ==
    /\ obj \in [Objects -> FieldValues \cup {NoObject}]
    /\ store \in [Buffers -> Seq(Values) \cup {Freed}]
    /\ lost \subseteq Buffers
    /\ reply.outcome \in Outcomes
    /\ it.pos \in Nat

IInv == Typed /\ OwnersAgree /\ StorageAccountedFor

(* The storage of o in the hands of nobody.                                *)
Given(o) == IF Exists(o) THEN Teardown(o) ELSE store

(* The other objects keep their fields and their elements.                 *)
Elsewhere(S) ==
    \A q \in Objects \ S : obj'[q] = obj[q] /\ (Exists(q) => Elements(q)' = Elements(q))

(* Only the objects a call names are touched by it, and of those a copy is *)
(* constructed from only the new one.                                      *)
NamedOnly ==
    \A q \in Objects :
        \/ q \in reply'.on /\ (reply'.op = "copy_construct" => ~Exists(q))
        \/ obj'[q] = obj[q] /\ (Exists(q) => Elements(q)' = Elements(q))

LEMMA ObjectFields ==
    ASSUME Typed, NEW o \in Objects, Exists(o)
    PROVE  /\ obj[o] \in FieldValues
           /\ obj[o].array \in Buffers \cup {Null}
           /\ obj[o].capacity \in Nat /\ obj[o].first \in Nat /\ obj[o].size \in Nat
<1>1. obj[o] \in FieldValues
  BY DEF Typed, Exists
<1> QED BY <1>1 DEF FieldValues

(* An object moves to storage of its own, and what it had is free.         *)
LEMMA NewStorage ==
    ASSUME IInv, Alive, NEW o \in Objects, NEW b \in Buffers, Given(o)[b] = Freed,
           NEW s \in Seq(Values), NEW c \in Nat, Len(s) <= c,
           obj' = [obj EXCEPT ![o] = Fields(b, c, 0, Len(s))],
           store' = [Given(o) EXCEPT ![b] = s],
           UNCHANGED lost, reply'.outcome \in Outcomes, it'.pos \in Nat
    PROVE  IInv' /\ Elsewhere({o})
<1> DEFINE f == Fields(b, c, 0, Len(s))
<1>1. f \in FieldValues /\ f.array = b /\ f.size = Len(s) /\ f.capacity = c /\ f # NoObject
  BY NamesAssumption DEF Fields, FieldValues
<1>2. /\ obj'[o] = f
      /\ \A q \in Objects \ {o} : obj'[q] = obj[q]
      /\ obj' \in [Objects -> FieldValues \cup {NoObject}]
  BY <1>1 DEF IInv, Typed
<1>3. Given(o) \in [Buffers -> Seq(Values) \cup {Freed}]
  BY DEF Given, Teardown, IInv, Typed
<1> HIDE DEF f
<1>4. /\ store'[b] = s
      /\ \A d \in Buffers \ {b} : store'[d] = Given(o)[d]
  BY <1>3
<1>5. \A d \in Buffers : Given(o)[d] = IF Exists(o) /\ d = obj[o].array THEN Freed ELSE store[d]
  BY NamesAssumption DEF Given, Teardown, IInv, Typed
<1>6. Typed'
  <2>1. store' \in [Buffers -> Seq(Values) \cup {Freed}]
    BY <1>3
  <2> QED BY <1>2, <2>1 DEF IInv, Typed
<1>7. s # Freed
  BY NamesAssumption
<1>8. ASSUME NEW q \in Objects \ {o}, Exists(q), obj[q].array # Null
      PROVE  /\ obj[q].array # b /\ store[obj[q].array] # Freed
             /\ store'[obj[q].array] = store[obj[q].array]
  <2>1. obj[q].array \in Buffers /\ store[obj[q].array] # Freed
    BY <1>8, ObjectFields DEF IInv, OwnersAgree
  <2>2. Exists(o) => obj[q].array # obj[o].array
    BY <1>8 DEF IInv, OwnersAgree
  <2>3. Given(o)[obj[q].array] = store[obj[q].array]
    BY <1>5, <2>1, <2>2
  <2> QED BY <1>4, <2>1, <2>3
<1>9. OwnersAgree'
  <2> SUFFICES ASSUME NEW q \in Objects, Exists(q)', obj'[q].array # Null
               PROVE  /\ \A p \in Objects \ {q} : Exists(p)' => obj'[p].array # obj'[q].array
                      /\ store'[obj'[q].array] # Freed
                      /\ obj'[q].size = Len(store'[obj'[q].array])
                      /\ obj'[q].size <= obj'[q].capacity
    BY DEF OwnersAgree
  <2>1. CASE q = o
    <3>1. \A p \in Objects \ {o} : Exists(p)' => obj'[p].array # b
      BY <1>2, <1>8, NamesAssumption DEF Exists
    <3> QED BY <2>1, <3>1, <1>1, <1>2, <1>4, <1>7
  <2>2. CASE q # o
    <3>1. Exists(q) /\ obj'[q] = obj[q] /\ obj[q].array # Null
      BY <1>2, <2>2 DEF Exists
    <3>2. \A p \in Objects \ {q} : Exists(p)' => obj'[p].array # obj'[q].array
      BY <1>1, <1>2, <1>8, <2>2, <3>1 DEF Exists, IInv, OwnersAgree
    <3>3. /\ obj[q].size = Len(store[obj[q].array])
          /\ obj[q].size <= obj[q].capacity
      BY <3>1 DEF IInv, OwnersAgree
    <3> QED BY <1>8, <2>2, <3>1, <3>2, <3>3
  <2> QED BY <2>1, <2>2
<1>10. StorageAccountedFor'
  <2> SUFFICES ASSUME NEW d \in Buffers, store'[d] # Freed, d \notin lost
               PROVE  \E q \in Objects : Exists(q)' /\ obj'[q].array = d
    BY DEF StorageAccountedFor
  <2>1. CASE d = b
    BY <1>1, <1>2, <2>1 DEF Exists
  <2>2. CASE d # b
    <3>1. store[d] # Freed /\ (Exists(o) => d # obj[o].array)
      BY <1>4, <1>5, <2>2
    <3>2. PICK q \in Objects : Exists(q) /\ obj[q].array = d
      BY <3>1 DEF IInv, StorageAccountedFor
    <3> QED BY <1>2, <3>1, <3>2 DEF Exists
  <2> QED BY <2>1, <2>2
<1>11. Elsewhere({o})
  BY <1>2, <1>8 DEF Elsewhere, Elements
<1> QED BY <1>6, <1>9, <1>10, <1>11 DEF IInv
(* An object gives its storage up, or has none.                            *)
LEMMA WithoutStorage ==
    ASSUME IInv, Alive, NEW o \in Objects, NEW r \in FieldValues \cup {NoObject},
           r # NoObject => r.array = Null,
           obj' = [obj EXCEPT ![o] = r], store' = Given(o),
           UNCHANGED lost, reply'.outcome \in Outcomes, it'.pos \in Nat
    PROVE  IInv' /\ Elsewhere({o})
<1>1. /\ obj'[o] = r
      /\ \A q \in Objects \ {o} : obj'[q] = obj[q]
      /\ obj' \in [Objects -> FieldValues \cup {NoObject}]
  BY DEF IInv, Typed
<1>2. \A d \in Buffers : Given(o)[d] = IF Exists(o) /\ d = obj[o].array THEN Freed ELSE store[d]
  BY NamesAssumption DEF Given, Teardown, IInv, Typed
<1>3. Typed'
  <2>1. store' \in [Buffers -> Seq(Values) \cup {Freed}]
    BY DEF Given, Teardown, IInv, Typed
  <2> QED BY <1>1, <2>1 DEF IInv, Typed
<1>4. ASSUME NEW q \in Objects, Exists(q)', obj'[q].array # Null
      PROVE  /\ q # o /\ Exists(q) /\ obj'[q] = obj[q] /\ obj[q].array \in Buffers
             /\ store[obj[q].array] # Freed
             /\ store'[obj[q].array] = store[obj[q].array]
  <2>1. q # o /\ Exists(q) /\ obj'[q] = obj[q]
    BY <1>1, <1>4 DEF Exists
  <2>2. obj[q].array \in Buffers /\ store[obj[q].array] # Freed
    BY <1>4, <2>1, ObjectFields DEF IInv, OwnersAgree
  <2>3. Exists(o) => obj[q].array # obj[o].array
    BY <1>4, <2>1 DEF IInv, OwnersAgree
  <2> QED BY <1>2, <2>1, <2>2, <2>3
<1>5. OwnersAgree'
  <2> SUFFICES ASSUME NEW q \in Objects, Exists(q)', obj'[q].array # Null
               PROVE  /\ \A p \in Objects \ {q} : Exists(p)' => obj'[p].array # obj'[q].array
                      /\ store'[obj'[q].array] # Freed
                      /\ obj'[q].size = Len(store'[obj'[q].array])
                      /\ obj'[q].size <= obj'[q].capacity
    BY DEF OwnersAgree
  <2>1. \A p \in Objects \ {q} : Exists(p)' => obj'[p].array # obj'[q].array
    BY <1>4 DEF IInv, OwnersAgree
  <2> QED BY <1>4, <2>1 DEF IInv, OwnersAgree
<1>6. StorageAccountedFor'
  <2> SUFFICES ASSUME NEW d \in Buffers, store'[d] # Freed, d \notin lost
               PROVE  \E q \in Objects : Exists(q)' /\ obj'[q].array = d
    BY DEF StorageAccountedFor
  <2>1. store[d] # Freed /\ (Exists(o) => d # obj[o].array)
    BY <1>2
  <2>2. PICK q \in Objects : Exists(q) /\ obj[q].array = d
    BY <2>1 DEF IInv, StorageAccountedFor
  <2> QED BY <1>1, <2>1, <2>2 DEF Exists
<1>7. Elsewhere({o})
  <2> SUFFICES ASSUME NEW q \in Objects \ {o}, Exists(q), obj[q].array # Null
               PROVE  store'[obj[q].array] = store[obj[q].array]
    BY <1>1 DEF Elsewhere, Elements
  <2>1. Exists(q)' /\ obj'[q] = obj[q]
    BY <1>1 DEF Exists
  <2> QED BY <1>4, <2>1
<1> QED BY <1>3, <1>5, <1>6, <1>7 DEF IInv

(* An object changes what it has in its storage.                           *)
LEMMA SameStorage ==
    ASSUME IInv, Alive, NEW o \in Objects, Exists(o), obj[o].array # Null,
           NEW s \in Seq(Values), NEW r \in FieldValues,
           r.array = obj[o].array, r.size = Len(s), r.size <= r.capacity,
           obj' = [obj EXCEPT ![o] = r], store' = [store EXCEPT ![obj[o].array] = s],
           UNCHANGED lost, reply'.outcome \in Outcomes, it'.pos \in Nat
    PROVE  IInv' /\ Elsewhere({o})
<1>1. /\ obj'[o] = r /\ r # NoObject
      /\ \A q \in Objects \ {o} : obj'[q] = obj[q]
      /\ obj' \in [Objects -> FieldValues \cup {NoObject}]
  BY NamesAssumption DEF IInv, Typed
<1>2. /\ obj[o].array \in Buffers
      /\ store'[obj[o].array] = s /\ s # Freed
      /\ \A d \in Buffers \ {obj[o].array} : store'[d] = store[d]
      /\ store' \in [Buffers -> Seq(Values) \cup {Freed}]
  BY ObjectFields, NamesAssumption DEF IInv, Typed
<1>3. Typed'
  BY <1>1, <1>2 DEF IInv, Typed
<1>4. \A q \in Objects : /\ Exists(q)' <=> Exists(q)
                         /\ obj'[q].array = obj[q].array
  BY <1>1 DEF Exists
<1>5. OwnersAgree'
  <2> SUFFICES ASSUME NEW q \in Objects, Exists(q)', obj'[q].array # Null
               PROVE  /\ \A p \in Objects \ {q} : Exists(p)' => obj'[p].array # obj'[q].array
                      /\ store'[obj'[q].array] # Freed
                      /\ obj'[q].size = Len(store'[obj'[q].array])
                      /\ obj'[q].size <= obj'[q].capacity
    BY DEF OwnersAgree
  <2>1. \A p \in Objects \ {q} : Exists(p)' => obj'[p].array # obj'[q].array
    BY <1>4 DEF IInv, OwnersAgree
  <2>2. CASE q = o
    BY <1>1, <1>2, <2>1, <2>2
  <2>3. CASE q # o
    <3>1. Exists(q) /\ obj'[q] = obj[q] /\ obj[q].array \in Buffers \ {obj[o].array}
      BY <1>1, <1>4, <2>3, ObjectFields DEF IInv, OwnersAgree
    <3> QED BY <1>2, <2>1, <3>1 DEF IInv, OwnersAgree
  <2> QED BY <2>2, <2>3
<1>6. StorageAccountedFor'
  BY <1>1, <1>2, <1>4 DEF IInv, StorageAccountedFor
<1>7. Elsewhere({o})
  <2> SUFFICES ASSUME NEW q \in Objects \ {o}, Exists(q), obj[q].array # Null
               PROVE  store'[obj[q].array] = store[obj[q].array]
    BY <1>1 DEF Elsewhere, Elements
  <2>1. obj[q].array \in Buffers \ {obj[o].array}
    BY ObjectFields DEF IInv, OwnersAgree
  <2> QED BY <1>2, <2>1
<1> QED BY <1>3, <1>5, <1>6, <1>7 DEF IInv

(* The calls that change nothing, and those the program does not outlive.  *)
LEMMA NothingChanged ==
    ASSUME IInv, Alive, UNCHANGED <<obj, store, lost>>, reply'.outcome \in Outcomes, it'.pos \in Nat
    PROVE  IInv' /\ \A S : Elsewhere(S)
<1>1. IInv'
  BY DEF IInv, Typed, OwnersAgree, StorageAccountedFor, Exists
<1>2. \A S : Elsewhere(S)
  BY DEF Elsewhere, Elements
<1> QED BY <1>1, <1>2

LEMMA Stopped ==
    ASSUME Typed', ~Alive'
    PROVE  IInv'
BY DEF IInv, OwnersAgree, StorageAccountedFor

(* What p had is o's, and o had nothing.                                   *)
LEMMA MoveConstructKeeps ==
    ASSUME IInv, UNCHANGED it, NEW o \in Objects, NEW p \in Objects, move_construct(o, p)
    PROVE  IInv' /\ Elsewhere({o, p})
<1>1. Alive /\ ~Exists(o) /\ Exists(p) /\ o # p /\ it'.pos \in Nat /\ obj[p] \in FieldValues
  BY ObjectFields DEF move_construct, Constructible, IInv, Typed
<1>2. CASE obj[p].array = Null \/ obj[p].capacity = 0
  BY <1>1, <1>2, NothingChanged DEF move_construct, Fails, Answers, Outcomes
<1>3. CASE ~(obj[p].array = Null \/ obj[p].capacity = 0)
  <2>1. /\ obj' = [obj EXCEPT ![o] = obj[p], ![p] = Nothing]
        /\ UNCHANGED <<store, lost>> /\ reply'.outcome \in Outcomes
    BY <1>3 DEF move_construct, Answers, Outcomes
  <2>2. Nothing \in FieldValues /\ Nothing.array = Null
    BY DEF Nothing, Fields, FieldValues
  <2> HIDE DEF Nothing
  <2>3. /\ obj'[o] = obj[p] /\ obj'[p] = Nothing
        /\ \A q \in Objects \ {o, p} : obj'[q] = obj[q]
        /\ obj' \in [Objects -> FieldValues \cup {NoObject}]
    BY <1>1, <2>1, <2>2 DEF IInv, Typed
  <2>4. Typed'
    BY <1>1, <2>1, <2>3 DEF IInv, Typed
  <2>5. OwnersAgree'
    <3> SUFFICES ASSUME NEW q \in Objects, Exists(q)', obj'[q].array # Null
                 PROVE  /\ \A x \in Objects \ {q} : Exists(x)' => obj'[x].array # obj'[q].array
                        /\ store'[obj'[q].array] # Freed
                        /\ obj'[q].size = Len(store'[obj'[q].array])
                        /\ obj'[q].size <= obj'[q].capacity
      BY DEF OwnersAgree
    <3> DEFINE was(x) == IF x = o THEN p ELSE x
    <3>1. \A x \in Objects : Exists(x)' /\ obj'[x].array # Null =>
              was(x) \in Objects /\ Exists(was(x)) /\ obj'[x] = obj[was(x)] /\ x # p
      BY <1>1, <2>2, <2>3 DEF Exists
    <3>2. \A x \in Objects \ {q} : x # p => was(x) # was(q)
      BY <3>1
    <3> HIDE DEF was
    <3>3. \A x \in Objects \ {q} : Exists(x)' => obj'[x].array # obj'[q].array
      BY <1>1, <3>1, <3>2 DEF IInv, OwnersAgree
    <3> QED BY <1>1, <2>1, <3>1, <3>3 DEF IInv, OwnersAgree
  <2>6. StorageAccountedFor'
    <3> SUFFICES ASSUME NEW d \in Buffers, store[d] # Freed, d \notin lost
                 PROVE  \E q \in Objects : Exists(q)' /\ obj'[q].array = d
      BY <2>1 DEF StorageAccountedFor
    <3>1. PICK q \in Objects : Exists(q) /\ obj[q].array = d
      BY <1>1 DEF IInv, StorageAccountedFor
    <3>2. CASE q = p
      BY <1>1, <2>3, <3>1, <3>2 DEF Exists
    <3>3. CASE q # p
      BY <1>1, <2>3, <3>1, <3>3 DEF Exists
    <3> QED BY <3>2, <3>3
  <2>7. Elsewhere({o, p})
    BY <2>1, <2>3 DEF Elsewhere, Elements
  <2> QED BY <2>4, <2>5, <2>6, <2>7 DEF IInv
<1> QED BY <1>2, <1>3

LEMMA SwapKeeps ==
    ASSUME IInv, UNCHANGED it, NEW o \in Objects, NEW p \in Objects, swap(o, p)
    PROVE  IInv' /\ Elsewhere({o, p})
<1>1. Alive /\ Exists(o) /\ Exists(p) /\ o # p /\ it'.pos \in Nat
  BY DEF swap, Callable, IInv, Typed
<1>2. /\ obj' = [obj EXCEPT ![o] = obj[p], ![p] = obj[o]]
      /\ UNCHANGED <<store, lost>> /\ reply'.outcome \in Outcomes
  BY DEF swap, Answers, Outcomes
<1> DEFINE was(x) == IF x = o THEN p ELSE IF x = p THEN o ELSE x
<1>3. /\ \A x \in Objects : was(x) \in Objects /\ obj'[x] = obj[was(x)] /\ was(was(x)) = x
      /\ obj' \in [Objects -> FieldValues \cup {NoObject}]
  BY <1>1, <1>2 DEF IInv, Typed
<1> HIDE DEF was
<1>4. Typed'
  BY <1>1, <1>2, <1>3 DEF IInv, Typed
<1>5. OwnersAgree'
  <2> SUFFICES ASSUME NEW q \in Objects, Exists(q)', obj'[q].array # Null
               PROVE  /\ \A x \in Objects \ {q} : Exists(x)' => obj'[x].array # obj'[q].array
                      /\ store'[obj'[q].array] # Freed
                      /\ obj'[q].size = Len(store'[obj'[q].array])
                      /\ obj'[q].size <= obj'[q].capacity
    BY DEF OwnersAgree
  <2>1. \A x \in Objects \ {q} : was(x) # was(q)
    BY <1>3
  <2>2. \A x \in Objects \ {q} : Exists(x)' => obj'[x].array # obj'[q].array
    BY <1>1, <1>3, <2>1 DEF IInv, OwnersAgree, Exists
  <2> QED BY <1>1, <1>2, <1>3, <2>2 DEF IInv, OwnersAgree, Exists
<1>6. StorageAccountedFor'
  <2> SUFFICES ASSUME NEW d \in Buffers, store[d] # Freed, d \notin lost
               PROVE  \E q \in Objects : Exists(q)' /\ obj'[q].array = d
    BY <1>2 DEF StorageAccountedFor
  <2>1. PICK q \in Objects : Exists(q) /\ obj[q].array = d
    BY <1>1 DEF IInv, StorageAccountedFor
  <2>2. was(q) \in Objects /\ obj'[was(q)] = obj[q]
    BY <1>3
  <2> QED BY <2>1, <2>2 DEF Exists
<1>7. Elsewhere({o, p})
  BY <1>1, <1>2 DEF Elsewhere, Elements, IInv, Typed
<1> QED BY <1>4, <1>5, <1>6, <1>7 DEF IInv
(* The elements of an object whose [] passes its conditions are those it   *)
(* counts, and it has room for them.                                       *)
LEMMA WalkedElements ==
    ASSUME IInv, Alive, NEW p \in Objects, Exists(p), Walkable(p)
    PROVE  /\ Elements(p) \in Seq(Values) /\ Len(Elements(p)) = obj[p].size
           /\ obj[p].size \in Nat /\ obj[p].capacity \in Nat
           /\ obj[p].size <= obj[p].capacity
<1>1. obj[p].size \in Nat /\ obj[p].capacity \in Nat /\ obj[p].array \in Buffers \cup {Null}
  BY ObjectFields DEF IInv
<1>2. CASE obj[p].array = Null
  BY <1>1, <1>2, EmptySeq DEF Walkable, Elements
<1>3. CASE obj[p].array # Null
  <2>1. store[obj[p].array] # Freed /\ store[obj[p].array] \in Seq(Values) \cup {Freed}
    BY <1>1, <1>3 DEF IInv, OwnersAgree, Typed
  <2> QED BY <1>1, <1>3, <2>1 DEF IInv, OwnersAgree, Elements
<1> QED BY <1>2, <1>3

LEMMA Prefix ==
    ASSUME NEW s \in Seq(Values), NEW n \in 0 .. Len(s)
    PROVE  SubSeq(s, 1, n) \in Seq(Values) /\ Len(SubSeq(s, 1, n)) = n
<1>1. Len(s) \in Nat /\ \A i \in 1 .. n : s[i] \in Values
  BY LenProperties, ElementOfSeq
<1>2. /\ SubSeq(s, 1, n) \in Seq(Values)
      /\ Len(SubSeq(s, 1, n)) = IF 1 <= n THEN n - 1 + 1 ELSE 0
  BY <1>1, SubSeqProperties
<1> QED BY <1>1, <1>2

LEMMA ConstructKeeps ==
    ASSUME IInv, UNCHANGED it, NEW o \in Objects, NEW c \in Nat, construct(o, c)
    PROVE  IInv' /\ Elsewhere({o})
<1>1. Alive /\ Given(o) = store /\ it'.pos \in Nat /\ reply'.outcome \in Outcomes
  BY DEF construct, Constructible, Given, IInv, Typed, Answers, Outcomes
<1>2. PICK b \in Buffers : /\ store[b] = Freed
                           /\ obj' = [obj EXCEPT ![o] = Fields(b, c, 0, 0)]
                           /\ store' = [store EXCEPT ![b] = <<>>]
  BY DEF construct
<1> DEFINE s == <<>>
<1>3. s \in Seq(Values) /\ Len(s) = 0 /\ Len(s) <= c /\ UNCHANGED lost
  BY EmptySeq DEF construct
<1>4. store' = [store EXCEPT ![b] = s]
  BY <1>2
<1> HIDE DEF s
<1>5. obj' = [obj EXCEPT ![o] = Fields(b, c, 0, Len(s))]
  BY <1>2, <1>3
<1> QED BY <1>1, <1>2, <1>3, <1>4, <1>5, NewStorage

LEMMA CopyConstructKeeps ==
    ASSUME IInv, UNCHANGED it, NEW o \in Objects, NEW p \in Objects, NEW c \in Nat,
           copy_construct(o, p, c)
    PROVE  IInv' /\ Elsewhere({o})
<1>1. Alive /\ Exists(p) /\ Given(o) = store /\ it'.pos \in Nat
  BY DEF copy_construct, Constructible, Given, IInv, Typed
<1>2. CASE CopyFails(p, c)
  BY <1>1, <1>2, NothingChanged DEF copy_construct, Fails, Answers, Outcomes
<1>3. CASE ~CopyFails(p, c)
  <2>1. PICK b \in Buffers :
           /\ store[b] = Freed
           /\ obj' = [obj EXCEPT ![o] = Fields(b, AtLeast(c, obj[p].size), 0, obj[p].size)]
           /\ store' = [store EXCEPT ![b] = Elements(p)]
    BY <1>3 DEF copy_construct
  <2>2. Elements(p) \in Seq(Values) /\ Len(Elements(p)) = obj[p].size /\ obj[p].size \in Nat
    BY <1>1, <1>3, WalkedElements DEF CopyFails
  <2>3. AtLeast(c, obj[p].size) \in Nat /\ obj[p].size <= AtLeast(c, obj[p].size)
    BY <2>2 DEF AtLeast
  <2>4. UNCHANGED lost /\ reply'.outcome \in Outcomes
    BY <1>3 DEF copy_construct, Answers, Outcomes
  <2> QED BY <1>1, <2>1, <2>2, <2>3, <2>4, NewStorage
<1> QED BY <1>2, <1>3

(* The storage is lost, and nothing else changes.                          *)
LEMMA CopyConstructThrowsKeeps ==
    ASSUME IInv, UNCHANGED it, NEW o \in Objects, NEW p \in Objects, NEW c \in Nat,
           copy_construct_throws(o, p, c)
    PROVE  IInv' /\ Elsewhere({o})
<1>1. Alive /\ Exists(p) /\ Walkable(p) /\ UNCHANGED obj /\ reply'.outcome \in Outcomes
  BY DEF copy_construct_throws, Constructible, CopyFails, Answers, Outcomes
<1>2. PICK b \in Buffers, n \in 0 .. obj[p].size - 1 :
         /\ store[b] = Freed
         /\ store' = [store EXCEPT ![b] = SubSeq(Elements(p), 1, n)]
         /\ lost' = lost \cup {b}
  BY DEF copy_construct_throws
<1>3. SubSeq(Elements(p), 1, n) \in Seq(Values)
  BY <1>1, WalkedElements, Prefix
<1>4. Typed'
  BY <1>1, <1>2, <1>3 DEF IInv, Typed
<1>5. \A q \in Objects : Exists(q) /\ obj[q].array # Null =>
          obj[q].array # b /\ store'[obj[q].array] = store[obj[q].array]
  BY <1>1, <1>2, ObjectFields DEF IInv, OwnersAgree, Typed
<1>6. OwnersAgree'
  BY <1>1, <1>5 DEF IInv, OwnersAgree, Exists
<1>7. StorageAccountedFor'
  BY <1>1, <1>2 DEF IInv, Typed, StorageAccountedFor, Exists
<1>8. Elsewhere({o})
  BY <1>1, <1>5 DEF Elsewhere, Elements
<1> QED BY <1>4, <1>6, <1>7, <1>8 DEF IInv

LEMMA DestroyKeeps ==
    ASSUME IInv, UNCHANGED it, NEW o \in Objects, destroy(o)
    PROVE  IInv' /\ Elsewhere({o})
<1> DEFINE r == NoObject
<1>1. /\ Alive /\ store' = Given(o) /\ obj' = [obj EXCEPT ![o] = r] /\ r = NoObject
      /\ UNCHANGED lost /\ reply'.outcome \in Outcomes /\ it'.pos \in Nat
  BY DEF destroy, Callable, Given, Answers, Outcomes, IInv, Typed
<1>2. r \in FieldValues \cup {NoObject}
  OBVIOUS
<1> HIDE DEF r
<1> QED BY <1>1, <1>2, WithoutStorage

(* What one iteration of the assignment loop has built belongs to o.       *)
LEMMA AssignFromKeeps ==
    ASSUME IInv, Alive, UNCHANGED it, NEW o \in Objects, NEW p \in Objects, Exists(o), Exists(p),
           Walkable(p), NEW outcome \in Outcomes, NEW n \in 0 .. obj[p].size,
           AssignFrom(o, p, outcome, n)
    PROVE  IInv' /\ Elsewhere({o})
<1>1. /\ Elements(p) \in Seq(Values) /\ Len(Elements(p)) = obj[p].size
      /\ obj[p].size \in Nat /\ obj[p].capacity \in Nat /\ obj[p].size <= obj[p].capacity
  BY WalkedElements
<1> DEFINE s == SubSeq(Elements(p), 1, n)
<1>2. s \in Seq(Values) /\ Len(s) = n /\ n \in Nat /\ n <= obj[p].capacity
  BY <1>1, Prefix
<1>3. Given(o) = Teardown(o) /\ UNCHANGED lost /\ reply'.outcome \in Outcomes /\ it'.pos \in Nat
  BY DEF Given, AssignFrom, Answers, IInv, Typed
<1>4. PICK b \in Buffers :
         /\ Teardown(o)[b] = Freed
         /\ obj' = [obj EXCEPT ![o] = Fields(b, obj[p].capacity, 0, n)]
         /\ store' = [Teardown(o) EXCEPT ![b] = s]
  BY DEF AssignFrom
<1> HIDE DEF s
<1>5. obj' = [obj EXCEPT ![o] = Fields(b, obj[p].capacity, 0, Len(s))]
  BY <1>2, <1>4
<1> QED BY <1>1, <1>2, <1>3, <1>4, <1>5, NewStorage

LEMMA CopyAssignKeeps ==
    ASSUME IInv, UNCHANGED it, NEW o \in Objects, NEW p \in Objects, copy_assign(o, p)
    PROVE  IInv' /\ Elsewhere({o})
<1>1. Alive /\ Exists(o) /\ Exists(p) /\ it'.pos \in Nat /\ obj[p].size \in Nat
  BY ObjectFields DEF copy_assign, Callable, IInv, Typed
<1>2. CASE o = p \/ ~Walkable(p)
  BY <1>1, <1>2, NothingChanged DEF copy_assign, Fails, Answers, Outcomes
<1>3. CASE o # p /\ Walkable(p)
  <2>1. CASE AssignFrom(o, p, "returned", obj[p].size)
    <3>1. obj[p].size \in 0 .. obj[p].size /\ "returned" \in Outcomes
      BY <1>1 DEF Outcomes
    <3> QED BY <1>1, <1>3, <2>1, <3>1, AssignFromKeeps
  <2>2. CASE \E n \in 0 .. obj[p].size - 1 : AssignFrom(o, p, "threw", n)
    <3>1. PICK n \in 0 .. obj[p].size - 1 : AssignFrom(o, p, "threw", n)
      BY <2>2
    <3>2. n \in 0 .. obj[p].size /\ "threw" \in Outcomes
      BY <1>1 DEF Outcomes
    <3> QED BY <1>1, <1>3, <3>1, <3>2, AssignFromKeeps
  <2> QED BY <1>3, <2>1, <2>2 DEF copy_assign
<1> QED BY <1>2, <1>3

LEMMA CopyAssignNoMemoryKeeps ==
    ASSUME IInv, UNCHANGED it, NEW o \in Objects, NEW p \in Objects, copy_assign_no_memory(o, p)
    PROVE  IInv' /\ Elsewhere({o})
<1> DEFINE r == [obj[o] EXCEPT !.array = Null]
<1>1. Alive /\ Exists(o) /\ it'.pos \in Nat /\ store' = Given(o) /\ UNCHANGED lost
  BY DEF copy_assign_no_memory, Callable, Given, IInv, Typed
<1>2. r \in FieldValues /\ r.array = Null
  BY <1>1, ObjectFields DEF IInv, FieldValues
<1>3. obj' = [obj EXCEPT ![o] = r] /\ reply'.outcome \in Outcomes
  BY DEF copy_assign_no_memory, Answers, Outcomes
<1> HIDE DEF r
<1> QED BY <1>1, <1>2, <1>3, WithoutStorage
(* Whatever the objects are, its postconditions contradict one another.    *)
LEMMA MoveAssignNeverReturns ==
    ASSUME Typed, NEW o \in Objects, NEW p \in Objects, move_assign(o, p)
    PROVE  Alive /\ ~Alive' /\ reply' = [op |-> "move_assign", on |-> {o, p}, outcome |-> "condition_failed"]
<1> USE DEF move_assign, Answers
<1>1. CASE o = p
  BY <1>1 DEF Callable, Alive
<1>2. CASE o # p
  <2>1. Exists(o) /\ Exists(p) /\ obj[p] \in FieldValues
    BY ObjectFields DEF Callable
  <2>2. obj'[o].capacity = obj[p].capacity /\ obj'[p].capacity = obj[p].capacity
    BY <1>2, <2>1 DEF Typed, FieldValues
  <2>3. obj'[o].capacity > 0 => obj'[p].capacity # 0
    BY <2>1, <2>2 DEF FieldValues
  <2> QED BY <2>3 DEF Callable, Alive
<1> QED BY <1>1, <1>2

LEMMA MoveAssignKeeps ==
    ASSUME IInv, UNCHANGED it, NEW o \in Objects, NEW p \in Objects, move_assign(o, p)
    PROVE  IInv' /\ Elsewhere({o, p})
<1>1. ~Alive' /\ reply'.outcome \in Outcomes /\ Exists(o) /\ Exists(p)
  BY MoveAssignNeverReturns DEF IInv, Outcomes, move_assign, Callable
<1>2. obj' \in [Objects -> FieldValues \cup {NoObject}]
  <2>1. CASE o = p
    BY <2>1 DEF move_assign, IInv, Typed
  <2>2. CASE o # p
    <3>1. [obj[p] EXCEPT !.array = Null] \in FieldValues /\ obj[p] \in FieldValues
      BY <1>1, ObjectFields DEF IInv, FieldValues
    <3>2. obj' = [obj EXCEPT ![o] = obj[p], ![p] = [obj[p] EXCEPT !.array = Null]]
      BY <2>2 DEF move_assign, IInv, Typed
    <3> QED BY <3>1, <3>2 DEF IInv, Typed
  <2> QED BY <2>1, <2>2
<1>3. store' \in [Buffers -> Seq(Values) \cup {Freed}] /\ UNCHANGED lost
  BY DEF move_assign, IInv, Typed
<1>4. Typed'
  BY <1>1, <1>2, <1>3 DEF IInv, Typed
<1>5. Elsewhere({o, p})
  <2> SUFFICES ASSUME NEW q \in Objects \ {o, p}
               PROVE  obj'[q] = obj[q] /\ (Exists(q) => Elements(q)' = Elements(q))
    BY DEF Elsewhere
  <2>1. obj'[q] = obj[q]
    BY DEF move_assign, IInv, Typed
  <2>2. ASSUME Exists(q), obj[q].array # Null
        PROVE  store'[obj[q].array] = store[obj[q].array]
    <3>1. obj[q].array \in Buffers \ {obj[o].array, obj[p].array}
      BY <1>1, <2>2, ObjectFields, MoveAssignNeverReturns DEF IInv, OwnersAgree
    <3> QED BY <3>1 DEF move_assign
  <2> QED BY <2>1, <2>2 DEF Elements
<1> QED BY <1>1, <1>4, <1>5, Stopped

(* The fields of an object that counts its elements anew.                  *)
Recount(old, count, place) == [old EXCEPT !.size = count, !.first = place]

LEMMA Recounted ==
    ASSUME NEW old \in FieldValues, NEW count \in Nat, NEW place \in Nat
    PROVE  /\ Recount(old, count, place) \in FieldValues
           /\ Recount(old, count, place).array = old.array
           /\ Recount(old, count, place).capacity = old.capacity
           /\ Recount(old, count, place).size = count
           /\ Recount(old, count, place).first = place
<1>1. [old EXCEPT !.size = count] \in FieldValues
  BY DEF FieldValues
<1>2. Recount(old, count, place) \in FieldValues
  BY <1>1 DEF FieldValues, Recount
<1> QED BY <1>1, <1>2 DEF FieldValues, Recount

(* What an object with storage has in it.                                  *)
LEMMA OwnElements ==
    ASSUME IInv, Alive, NEW o \in Objects, Exists(o), obj[o].array # Null
    PROVE  /\ obj[o].array \in Buffers /\ store[obj[o].array] \in Seq(Values)
           /\ Len(store[obj[o].array]) = obj[o].size /\ obj[o].size <= obj[o].capacity
BY ObjectFields DEF IInv, OwnersAgree, Typed

LEMMA PushBackKeeps ==
    ASSUME IInv, UNCHANGED it, NEW o \in Objects, NEW v \in Values, push_back(o, v)
    PROVE  IInv' /\ Elsewhere({o})
<1>1. /\ Alive /\ Exists(o) /\ it'.pos \in Nat /\ UNCHANGED lost
      /\ obj[o] \in FieldValues /\ obj[o].size \in Nat /\ obj[o].capacity \in Nat
  BY ObjectFields DEF push_back, Callable, IInv, Typed
<1>2. reply'.outcome \in Outcomes
  BY DEF push_back, Answers, Outcomes
<1>3. CASE UNCHANGED <<obj, store>>
  BY <1>1, <1>2, <1>3, NothingChanged
<1>4. CASE /\ obj[o].size < obj[o].capacity /\ obj[o].array # Null
           /\ obj' = [obj EXCEPT ![o].size = @ + 1]
           /\ store' = [store EXCEPT ![obj[o].array] = Append(@, v)]
  <2> DEFINE s == Append(store[obj[o].array], v)
             r == [obj[o] EXCEPT !.size = @ + 1]
  <2>1. s \in Seq(Values) /\ Len(s) = obj[o].size + 1
    BY <1>1, <1>4, OwnElements, AppendProperties
  <2>2. /\ r \in FieldValues /\ r.array = obj[o].array /\ r.size = obj[o].size + 1
        /\ r.size <= r.capacity /\ r.size = Len(s)
    BY <1>1, <1>4, <2>1 DEF FieldValues
  <2>3. obj' = [obj EXCEPT ![o] = r] /\ store' = [store EXCEPT ![obj[o].array] = s]
    BY <1>4, OwnElements
  <2> HIDE DEF r, s
  <2> QED BY <1>1, <1>2, <1>4, <2>1, <2>2, <2>3, SameStorage
<1> QED BY <1>3, <1>4 DEF push_back

LEMMA PushFrontKeeps ==
    ASSUME IInv, UNCHANGED it, NEW o \in Objects, NEW v \in Values, push_front(o, v)
    PROVE  IInv' /\ Elsewhere({o})
<1>1. /\ Alive /\ Exists(o) /\ it'.pos \in Nat /\ UNCHANGED lost
      /\ obj[o] \in FieldValues /\ obj[o].size \in Nat /\ obj[o].capacity \in Nat
      /\ obj[o].first \in Nat
  BY ObjectFields DEF push_front, Callable, IInv, Typed
<1>2. reply'.outcome \in Outcomes
  BY DEF push_front, Answers, Outcomes
<1>3. CASE UNCHANGED <<obj, store>>
  BY <1>1, <1>2, <1>3, NothingChanged
<1>4. CASE /\ obj[o].size < obj[o].capacity /\ obj[o].array # Null
           /\ obj' = [obj EXCEPT ![o].size = @ + 1,
                                 ![o].first = (IF @ = 0 THEN obj[o].capacity ELSE @) - 1]
           /\ store' = [store EXCEPT ![obj[o].array] = <<v>> \o @]
  <2> DEFINE s == <<v>> \o store[obj[o].array]
             f == (IF obj[o].first = 0 THEN obj[o].capacity ELSE obj[o].first) - 1
             n == obj[o].size + 1
             r == Recount(obj[o], n, f)
  <2>1. s \in Seq(Values) /\ Len(s) = obj[o].size + 1
    <3>1. <<v>> \in Seq(Values) /\ Len(<<v>>) = 1
      OBVIOUS
    <3> QED BY <1>1, <1>4, <3>1, OwnElements, ConcatProperties
  <2>2. f \in Nat
    BY <1>1, <1>4
  <2>3. obj' = [obj EXCEPT ![o] = r] /\ store' = [store EXCEPT ![obj[o].array] = s]
    BY <1>1, <1>4, OwnElements DEF Recount, FieldValues, IInv, Typed
  <2>4. n \in Nat /\ n <= obj[o].capacity /\ n = Len(s)
    BY <1>1, <1>4, <2>1
  <2> HIDE DEF f, s, n
  <2>5. r \in FieldValues /\ r.array = obj[o].array /\ r.size = Len(s) /\ r.size <= r.capacity
    <3>1. obj[o] \in FieldValues /\ n \in Nat /\ f \in Nat
      BY <1>1, <2>2, <2>4
    <3>2. /\ r \in FieldValues /\ r.array = obj[o].array /\ r.capacity = obj[o].capacity
          /\ r.size = n
      BY <3>1, Recounted
    <3> HIDE DEF r
    <3> QED BY <1>1, <2>2, <2>4, <3>2
  <2> HIDE DEF r
  <2> QED BY <1>1, <1>2, <1>4, <2>1, <2>3, <2>5, SameStorage
<1> QED BY <1>3, <1>4 DEF push_front

LEMMA PopFrontKeeps ==
    ASSUME IInv, UNCHANGED it, NEW o \in Objects, pop_front(o)
    PROVE  IInv' /\ Elsewhere({o})
<1>1. /\ Alive /\ Exists(o) /\ it'.pos \in Nat
      /\ obj[o] \in FieldValues /\ obj[o].size \in Nat /\ obj[o].capacity \in Nat
      /\ obj[o].first \in Nat
  BY ObjectFields DEF pop_front, Callable, IInv, Typed
<1>2. CASE obj[o].array = Null \/ obj[o].size = 0
  BY <1>1, <1>2, NothingChanged DEF pop_front, Fails, Answers, Outcomes
<1>3. CASE ~(obj[o].array = Null \/ obj[o].size = 0)
  <2> DEFINE s == Tail(store[obj[o].array])
             f == IF obj[o].first + 1 >= obj[o].capacity THEN 0 ELSE obj[o].first + 1
             n == obj[o].size - 1
             r == Recount(obj[o], n, f)
  <2>1. /\ obj' = [obj EXCEPT ![o].size = @ - 1,
                              ![o].first = IF @ + 1 >= obj[o].capacity THEN 0 ELSE @ + 1]
        /\ store' = [store EXCEPT ![obj[o].array] = Tail(@)]
        /\ UNCHANGED lost /\ reply'.outcome \in Outcomes
    BY <1>3 DEF pop_front, Answers, Outcomes
  <2>2. /\ store[obj[o].array] \in Seq(Values) /\ Len(store[obj[o].array]) = obj[o].size
        /\ obj[o].size <= obj[o].capacity /\ store[obj[o].array] # <<>>
    BY <1>1, <1>3, OwnElements
  <2>3. s \in Seq(Values) /\ Len(s) = obj[o].size - 1
    BY <2>2, HeadTailProperties
  <2>4. f \in Nat
    BY <1>1
  <2>5. obj' = [obj EXCEPT ![o] = r] /\ store' = [store EXCEPT ![obj[o].array] = s]
    BY <1>1, <2>1 DEF Recount, FieldValues, IInv, Typed
  <2>6. n \in Nat /\ n <= obj[o].capacity /\ n = Len(s)
    BY <1>1, <1>3, <2>2, <2>3
  <2> HIDE DEF f, s, n
  <2>7. r \in FieldValues /\ r.array = obj[o].array /\ r.size = Len(s) /\ r.size <= r.capacity
    <3>1. obj[o] \in FieldValues /\ n \in Nat /\ f \in Nat
      BY <1>1, <2>4, <2>6
    <3>2. /\ r \in FieldValues /\ r.array = obj[o].array /\ r.capacity = obj[o].capacity
          /\ r.size = n
      BY <3>1, Recounted
    <3> HIDE DEF r
    <3> QED BY <1>1, <2>4, <2>6, <3>2
  <2> HIDE DEF r
  <2> QED BY <1>1, <1>3, <2>1, <2>3, <2>5, <2>7, SameStorage
<1> QED BY <1>2, <1>3

LEMMA ClearKeeps ==
    ASSUME IInv, UNCHANGED it, NEW o \in Objects, clear(o)
    PROVE  IInv' /\ Elsewhere({o})
<1>1. /\ Alive /\ Exists(o) /\ it'.pos \in Nat
      /\ obj[o] \in FieldValues /\ obj[o].capacity \in Nat
      /\ UNCHANGED lost /\ reply'.outcome \in Outcomes
  BY ObjectFields DEF clear, Callable, Answers, Outcomes, IInv, Typed
<1>2. CASE UNCHANGED <<obj, store>>
  BY <1>1, <1>2, NothingChanged
<1>3. CASE /\ obj' = [obj EXCEPT ![o].first = 0, ![o].size = 0]
           /\ store' = [b \in Buffers |-> IF b = obj[o].array THEN <<>> ELSE store[b]]
  <2> DEFINE s == <<>>
             r == Recount(obj[o], 0, 0)
  <2>1. s \in Seq(Values) /\ Len(s) = 0
    BY EmptySeq
  <2>2. store' = [b \in Buffers |-> IF b = obj[o].array THEN s ELSE store[b]]
    BY <1>3
  <2> HIDE DEF s
  <2>3. r \in FieldValues /\ r.array = obj[o].array /\ r.size = Len(s) /\ r.size <= r.capacity
    <3>1. obj[o] \in FieldValues /\ 0 \in Nat /\ 0 \in Nat
      BY <1>1, <2>1
    <3>2. /\ r \in FieldValues /\ r.array = obj[o].array /\ r.capacity = obj[o].capacity
          /\ r.size = 0
      BY <3>1, Recounted
    <3> HIDE DEF r
    <3> QED BY <1>1, <2>1, <3>2
  <2>4. obj' = [obj EXCEPT ![o] = r]
    BY <1>1, <1>3 DEF Recount, FieldValues, IInv, Typed
  <2> HIDE DEF r
  <2>5. CASE obj[o].array = Null
    <3>1. store' = Given(o)
      BY <1>1, <2>2, <2>5, NamesAssumption DEF Given, Teardown, IInv, Typed
    <3> QED BY <1>1, <2>3, <2>4, <2>5, <3>1, WithoutStorage
  <2>6. CASE obj[o].array # Null
    <3>1. store' = [store EXCEPT ![obj[o].array] = s]
      BY <2>2 DEF IInv, Typed
    <3> QED BY <1>1, <2>1, <2>3, <2>4, <2>6, <3>1, SameStorage
  <2> QED BY <2>5, <2>6
<1> QED BY <1>2, <1>3 DEF clear

LEMMA ReserveKeeps ==
    ASSUME IInv, UNCHANGED it, NEW o \in Objects, NEW c \in Nat, reserve(o, c)
    PROVE  IInv' /\ Elsewhere({o})
<1>1. /\ Alive /\ Exists(o) /\ it'.pos \in Nat /\ UNCHANGED lost /\ reply'.outcome \in Outcomes
  BY DEF reserve, Callable, Answers, Outcomes, IInv, Typed
<1>2. CASE c <= obj[o].capacity \/ ~Walkable(o)
  <2>1. UNCHANGED <<obj, store>>
    BY <1>2 DEF reserve
  <2> QED BY <1>1, <2>1, NothingChanged
<1>3. CASE ~(c <= obj[o].capacity) /\ Walkable(o)
  <2>1. PICK b \in Buffers : /\ store[b] = Freed
                             /\ obj' = [obj EXCEPT ![o] = Fields(b, c, 0, obj[o].size)]
                             /\ store' = [Teardown(o) EXCEPT ![b] = Elements(o)]
    BY <1>3 DEF reserve
  <2>2. /\ Elements(o) \in Seq(Values) /\ Len(Elements(o)) = obj[o].size
        /\ obj[o].size <= c
    BY <1>1, <1>3, WalkedElements
  <2>3. Given(o) = Teardown(o) /\ Given(o)[b] = Freed
    BY <1>1, <2>1 DEF Given, Teardown, IInv, Typed
  <2> QED BY <1>1, <2>1, <2>2, <2>3, NewStorage
<1> QED BY <1>2, <1>3
(* The iterator's own calls leave the objects alone.                       *)
LEMMA MoveIteratorKeeps ==
    ASSUME IInv, NEW n \in Differences, move(n)
    PROVE  IInv' /\ Elsewhere({})
<1>1. Half \in Nat \ {0} /\ it.pos \in Nat
  BY HalfAssumption DEF IInv, Typed
<1>2. Advance(it.pos, n) \in Nat /\ Retreat(it.pos, n) \in Nat
  BY <1>1 DEF Advance, Retreat, Unsigned, Negated, Differences, Modulus
<1> HIDE DEF Advance, Retreat
<1>3. it'.pos \in Nat
  <2>1. CASE it' = [it EXCEPT !.pos = Advance(@, n)]
    BY <1>2, <2>1
  <2>2. CASE it' = [it EXCEPT !.pos = Retreat(@, n)]
    BY <1>2, <2>2
  <2> QED BY <2>1, <2>2 DEF move
<1>4. Alive /\ UNCHANGED <<obj, store, lost>> /\ reply'.outcome \in Outcomes
  BY DEF move, Answers, Outcomes
<1> QED BY <1>3, <1>4, NothingChanged

LEMMA BeginEndKeep ==
    ASSUME IInv, NEW o \in Objects, begin(o) \/ end(o)
    PROVE  IInv' /\ Elsewhere({})
<1>1. Alive /\ Exists(o) /\ obj[o].size \in Nat
  BY ObjectFields DEF begin, end, Callable, IInv
<1>2. it'.pos \in Nat
  BY <1>1 DEF begin, end
<1>3. UNCHANGED <<obj, store, lost>> /\ reply'.outcome \in Outcomes
  BY DEF begin, end, Answers, Outcomes
<1> QED BY <1>1, <1>2, <1>3, NothingChanged

LEMMA DereferenceKeeps ==
    ASSUME IInv, NEW i \in Positions, dereference(i)
    PROVE  IInv' /\ Elsewhere({})
<1>1. Alive /\ UNCHANGED <<obj, store, lost, it>> /\ reply'.outcome \in Outcomes
  BY DEF dereference, Answers, Outcomes
<1> QED BY <1>1, NothingChanged DEF IInv, Typed

(* What is written is an element of the array the iterator names.          *)
LEMMA WriteKeeps ==
    ASSUME IInv, NEW i \in Positions, NEW v \in Values, write(i, v)
    PROVE  IInv' /\ Elsewhere({it.at})
<1> DEFINE n == Unsigned(it.pos + i)
           o == it.at
           s == [store[obj[o].array] EXCEPT ![n + 1] = v]
<1>1. /\ Alive /\ o \in Objects /\ Exists(o) /\ Granted(o, n)
      /\ store' = [store EXCEPT ![obj[o].array][n + 1] = v]
      /\ UNCHANGED <<obj, lost, it>> /\ reply'.outcome \in Outcomes
  BY DEF write, Answers, Outcomes
<1>2. n \in Nat
  BY HalfAssumption DEF Unsigned, Modulus, Positions, IInv, Typed
<1>3. store' = [store EXCEPT ![obj[o].array] = s]
  BY <1>1
<1> HIDE DEF n, o
<1>4. obj[o].array # Null /\ n < obj[o].size
  BY <1>1 DEF Granted
<1>5. store[obj[o].array] \in Seq(Values) /\ Len(store[obj[o].array]) = obj[o].size
  BY <1>1, <1>4, OwnElements
<1>6. s \in Seq(Values) /\ Len(s) = obj[o].size
  <2>1. n + 1 \in 1 .. Len(store[obj[o].array])
    BY <1>1, <1>2, <1>4, <1>5, ObjectFields DEF IInv
  <2> QED BY <1>5, <2>1, ExceptSeq
<1> HIDE DEF s
<1> DEFINE r == obj[o]
<1>7. r \in FieldValues /\ r.array = obj[o].array /\ r.size = Len(s) /\ r.size <= r.capacity
  BY <1>1, <1>4, <1>6, OwnElements, ObjectFields DEF IInv
<1>8. obj' = [obj EXCEPT ![o] = r] /\ it'.pos \in Nat
  BY <1>1 DEF IInv, Typed
<1> HIDE DEF r
<1>9. IInv' /\ Elsewhere({o})
  BY <1>1, <1>3, <1>4, <1>6, <1>7, <1>8, SameStorage
<1> QED BY <1>9 DEF o

LEMMA Initially == ItInit => IInv
<1> SUFFICES ASSUME ItInit
             PROVE  IInv
  OBVIOUS
<1>1. /\ obj = [o \in Objects |-> NoObject] /\ store = [b \in Buffers |-> Freed] /\ lost = {}
      /\ reply.outcome = "returned" /\ it.pos = 0
  BY DEF ItInit, Init
<1>2. Typed
  BY <1>1 DEF Typed, Outcomes
<1>3. OwnersAgree /\ StorageAccountedFor
  BY <1>1 DEF OwnersAgree, StorageAccountedFor, Exists
<1> QED BY <1>2, <1>3 DEF IInv

LEMMA ArraySteps ==
    ASSUME IInv, UNCHANGED it, Next
    PROVE  IInv' /\ NamedOnly
<1>0. \A c \in 0 .. MaxCapacity : c \in Nat
  BY CapacityAssumption
<1>1. PICK o \in Objects :
        \/ \E c \in 0 .. MaxCapacity : construct(o, c)
        \/ \E p \in Objects, c \in 0 .. MaxCapacity : copy_construct(o, p, c)
        \/ \E p \in Objects, c \in 0 .. MaxCapacity : copy_construct_throws(o, p, c)
        \/ \E p \in Objects : move_construct(o, p)
        \/ destroy(o)
        \/ \E p \in Objects : copy_assign(o, p)
        \/ \E p \in Objects : copy_assign_no_memory(o, p)
        \/ \E p \in Objects : move_assign(o, p)
        \/ \E p \in Objects : swap(o, p)
        \/ \E v \in Values : push_back(o, v)
        \/ \E v \in Values : push_front(o, v)
        \/ pop_front(o)
        \/ clear(o)
        \/ \E c \in 0 .. MaxCapacity : reserve(o, c)
  BY DEF Next
<1>2. CASE \E c \in 0 .. MaxCapacity : construct(o, c)
  <2>1. PICK c \in Nat : construct(o, c)
    BY <1>0, <1>2
  <2>2. reply'.on = {o} /\ reply'.op = "construct"
    BY <2>1 DEF construct, Answers
  <2> QED BY <2>1, <2>2, ConstructKeeps DEF Elsewhere, NamedOnly
<1>3. CASE \E p \in Objects, c \in 0 .. MaxCapacity : copy_construct(o, p, c)
  BY <1>0, <1>3, CopyConstructKeeps DEF copy_construct, Fails, Constructible, Answers, Elsewhere, NamedOnly
<1>4. CASE \E p \in Objects, c \in 0 .. MaxCapacity : copy_construct_throws(o, p, c)
  BY <1>0, <1>4, CopyConstructThrowsKeeps DEF copy_construct_throws, Constructible, Answers, Elsewhere, NamedOnly
<1>5. CASE \E p \in Objects : move_construct(o, p)
  BY <1>5, MoveConstructKeeps DEF move_construct, Fails, Answers, Elsewhere, NamedOnly
<1>6. CASE destroy(o)
  BY <1>6, DestroyKeeps DEF destroy, Answers, Elsewhere, NamedOnly
<1>7. CASE \E p \in Objects : copy_assign(o, p)
  BY <1>7, CopyAssignKeeps DEF copy_assign, AssignFrom, Fails, Answers, Elsewhere, NamedOnly
<1>8. CASE \E p \in Objects : copy_assign_no_memory(o, p)
  <2>1. PICK p \in Objects : copy_assign_no_memory(o, p)
    BY <1>8
  <2>2. reply'.on = {o, p} /\ reply'.op = "copy_assign"
    BY <2>1 DEF copy_assign_no_memory, Answers
  <2> QED BY <2>1, <2>2, CopyAssignNoMemoryKeeps DEF Elsewhere, NamedOnly
<1>9. CASE \E p \in Objects : move_assign(o, p)
  BY <1>9, MoveAssignKeeps DEF move_assign, Answers, Elsewhere, NamedOnly
<1>10. CASE \E p \in Objects : swap(o, p)
  <2>1. PICK p \in Objects : swap(o, p)
    BY <1>10
  <2>2. reply'.on = {o, p} /\ reply'.op = "swap"
    BY <2>1 DEF swap, Answers
  <2> QED BY <2>1, <2>2, SwapKeeps DEF Elsewhere, NamedOnly
<1>11. CASE \E v \in Values : push_back(o, v)
  <2>1. PICK v \in Values : push_back(o, v)
    BY <1>11
  <2>2. reply'.on = {o} /\ reply'.op = "push_back"
    BY <2>1 DEF push_back, Answers
  <2>3. IInv' /\ Elsewhere({o})
    BY <2>1, PushBackKeeps
  <2> QED BY <2>2, <2>3 DEF Elsewhere, NamedOnly
<1>12. CASE \E v \in Values : push_front(o, v)
  <2>1. PICK v \in Values : push_front(o, v)
    BY <1>12
  <2>2. reply'.on = {o} /\ reply'.op = "push_front"
    BY <2>1 DEF push_front, Answers
  <2>3. IInv' /\ Elsewhere({o})
    BY <2>1, PushFrontKeeps
  <2> QED BY <2>2, <2>3 DEF Elsewhere, NamedOnly
<1>13. CASE pop_front(o)
  BY <1>13, PopFrontKeeps DEF pop_front, Fails, Answers, Elsewhere, NamedOnly
<1>14. CASE clear(o)
  BY <1>14, ClearKeeps DEF clear, Answers, Elsewhere, NamedOnly
<1>15. CASE \E c \in 0 .. MaxCapacity : reserve(o, c)
  BY <1>0, <1>15, ReserveKeeps DEF reserve, Answers, Elsewhere, NamedOnly
<1> QED BY <1>1, <1>2, <1>3, <1>4, <1>5, <1>6, <1>7, <1>8, <1>9, <1>10, <1>11, <1>12, <1>13,
           <1>14, <1>15

LEMMA Steps == IInv /\ [ItNext]_itvars => IInv' /\ NamedOnly
<1> SUFFICES ASSUME IInv, [ItNext]_itvars
             PROVE  IInv' /\ NamedOnly
  OBVIOUS
<1>1. CASE Next /\ UNCHANGED it
  BY <1>1, ArraySteps
<1>2. CASE \E o \in Objects : begin(o) \/ end(o)
  BY <1>2, BeginEndKeep DEF Elsewhere, NamedOnly
<1>3. CASE \E n \in Differences : move(n)
  BY <1>3, MoveIteratorKeeps DEF Elsewhere, NamedOnly
<1>4. CASE \E i \in Positions : dereference(i)
  BY <1>4, DereferenceKeeps DEF Elsewhere, NamedOnly
<1>5. CASE \E i \in Positions, v \in Values : write(i, v)
  <2>1. reply'.on = {it.at} /\ reply'.op = "write"
    BY <1>5 DEF write, Answers
  <2> QED BY <1>5, <2>1, WriteKeeps DEF Elsewhere, NamedOnly
<1>6. CASE UNCHANGED itvars
  <2>1. IInv'
    BY <1>6 DEF itvars, IInv, Typed, OwnersAgree, StorageAccountedFor, Alive, Exists
  <2>2. NamedOnly
    BY <1>6 DEF itvars, NamedOnly, Elements
  <2> QED BY <2>1, <2>2
<1> QED BY <1>1, <1>2, <1>3, <1>4, <1>5, <1>6 DEF ItNext

LEMMA Kept == ItSpec => []IInv
<1> QED BY Initially, Steps, PTL DEF ItSpec

LEMMA KeptIsOwned == IInv => StorageHasOneOwner
<1> SUFFICES ASSUME IInv
             PROVE  StorageHasOneOwner
  OBVIOUS
<1>1. TypeOK
  BY ObjectFields DEF IInv, Typed, TypeOK, Outcomes
<1> QED BY <1>1 DEF IInv, StorageHasOneOwner

(* Whatever is copied, moved, swapped, assigned or interrupted, for any    *)
(* number of arrays of any capacity, storage in use has one owner, which   *)
(* counts the elements in it, and what has no owner is free or was left    *)
(* behind by a copy constructor that threw.                                *)
THEOREM StorageOwned == ItSpec => []StorageHasOneOwner
<1> QED BY Kept, KeptIsOwned, PTL
(* What is done to one array is seen in no other: neither a copy nor what  *)
(* it was copied from, and neither of two arrays that were exchanged,      *)
(* changes its elements by a call on the other.                            *)
THEOREM CopiesIndependent == ItSpec => CopiesAreIndependent
<1>1. IInv /\ [ItNext]_itvars =>
        [\A p \in Objects :
            \/ ~Exists(p)
            \/ p \in reply'.on /\ reply'.op \notin {"copy_construct"}
            \/ Exists(p)' /\ Elements(p)' = Elements(p)]_vars
  <2> SUFFICES ASSUME IInv, [ItNext]_itvars, NEW p \in Objects, Exists(p)
               PROVE  \/ p \in reply'.on /\ reply'.op \notin {"copy_construct"}
                      \/ Exists(p)' /\ Elements(p)' = Elements(p)
    OBVIOUS
  <2>1. \/ p \in reply'.on /\ (reply'.op = "copy_construct" => ~Exists(p))
        \/ obj'[p] = obj[p] /\ (Exists(p) => Elements(p)' = Elements(p))
    BY Steps DEF NamedOnly
  <2> QED BY <2>1 DEF Exists
<1> QED BY <1>1, Kept, PTL DEF CopiesAreIndependent, ItSpec
-----------------------------------------------------------------------------
(* Objects without storage.                                                *)

Whole(o) == Exists(o) /\ obj[o].array = Null => obj[o] = Nothing

(* The calls that leave whole objects whole.                               *)
Undermines == reply'.op = "copy_assign" /\ reply'.outcome = "bad_alloc"

LEMMA NewIsWhole ==
    ASSUME NEW b \in Buffers, NEW c, NEW n, NEW o \in Objects,
           obj \in [Objects -> FieldValues \cup {NoObject}],
           obj' = [obj EXCEPT ![o] = Fields(b, c, 0, n)]
    PROVE  Whole(o)'
<1>1. obj'[o].array = b
  BY DEF Fields
<1> QED BY <1>1, NamesAssumption DEF Whole

LEMMA WholeStep ==
    ASSUME IInv, Next, UNCHANGED it, Alive', ~Undermines, \A q \in Objects : Whole(q)
    PROVE  \A q \in Objects : Whole(q)'
<1>0. /\ \A c \in 0 .. MaxCapacity : c \in Nat
      /\ obj \in [Objects -> FieldValues \cup {NoObject}]
      /\ reply'.outcome # "condition_failed"
  BY CapacityAssumption DEF IInv, Typed, Alive
<1>a. ASSUME NEW o \in Objects, Elsewhere({o}), Whole(o)'
      PROVE  \A q \in Objects : Whole(q)'
  BY <1>a DEF Elsewhere, Whole, Exists
<1>b. ASSUME UNCHANGED obj
      PROVE  \A q \in Objects : Whole(q)'
  BY <1>b DEF Whole, Exists
<1>1. PICK o \in Objects :
        \/ \E c \in 0 .. MaxCapacity : construct(o, c)
        \/ \E p \in Objects, c \in 0 .. MaxCapacity : copy_construct(o, p, c)
        \/ \E p \in Objects, c \in 0 .. MaxCapacity : copy_construct_throws(o, p, c)
        \/ \E p \in Objects : move_construct(o, p)
        \/ destroy(o)
        \/ \E p \in Objects : copy_assign(o, p)
        \/ \E p \in Objects : copy_assign_no_memory(o, p)
        \/ \E p \in Objects : move_assign(o, p)
        \/ \E p \in Objects : swap(o, p)
        \/ \E v \in Values : push_back(o, v)
        \/ \E v \in Values : push_front(o, v)
        \/ pop_front(o)
        \/ clear(o)
        \/ \E c \in 0 .. MaxCapacity : reserve(o, c)
  BY DEF Next
<1>2. CASE \E c \in 0 .. MaxCapacity : construct(o, c)
  <2>1. Elsewhere({o})
    BY <1>0, <1>2, ConstructKeeps
  <2>2. Whole(o)'
    BY <1>0, <1>2, NewIsWhole DEF construct
  <2> QED BY <1>a, <2>1, <2>2
<1>3. CASE \E p \in Objects, c \in 0 .. MaxCapacity : copy_construct(o, p, c)
  <2>1. Elsewhere({o})
    BY <1>0, <1>3, CopyConstructKeeps
  <2>2. Whole(o)'
    BY <1>0, <1>3, NewIsWhole DEF copy_construct, Fails, Answers
  <2> QED BY <1>a, <2>1, <2>2
<1>4. CASE \E p \in Objects, c \in 0 .. MaxCapacity : copy_construct_throws(o, p, c)
  BY <1>4, <1>b DEF copy_construct_throws
<1>5. CASE \E p \in Objects : move_construct(o, p)
  <2>1. PICK p \in Objects : move_construct(o, p)
    BY <1>5
  <2>2. /\ obj' = [obj EXCEPT ![o] = obj[p], ![p] = Nothing] /\ o # p
        /\ obj[p].array # Null
    BY <1>0, <2>1 DEF move_construct, Constructible, Fails, Answers
  <2> QED BY <1>0, <2>2 DEF Whole, Exists
<1>6. CASE destroy(o)
  <2>1. Elsewhere({o})
    BY <1>6, DestroyKeeps
  <2>2. Whole(o)'
    BY <1>0, <1>6 DEF destroy, Whole, Exists
  <2> QED BY <1>a, <2>1, <2>2
<1>7. CASE \E p \in Objects : copy_assign(o, p)
  <2>1. PICK p \in Objects : copy_assign(o, p)
    BY <1>7
  <2>2. CASE UNCHANGED obj
    BY <1>b, <2>2
  <2>3. CASE \E outcome, n : AssignFrom(o, p, outcome, n)
    <3>1. Elsewhere({o})
      BY <2>1, CopyAssignKeeps
    <3>2. Whole(o)'
      BY <1>0, <2>3, NewIsWhole DEF AssignFrom
    <3> QED BY <1>a, <3>1, <3>2
  <2> QED BY <2>1, <2>2, <2>3 DEF copy_assign, Fails
<1>8. CASE \E p \in Objects : copy_assign_no_memory(o, p)
  BY <1>8 DEF copy_assign_no_memory, Answers, Undermines
<1>9. CASE \E p \in Objects : move_assign(o, p)
  BY <1>9, MoveAssignNeverReturns DEF IInv
<1>10. CASE \E p \in Objects : swap(o, p)
  <2>1. PICK p \in Objects : o # p /\ obj' = [obj EXCEPT ![o] = obj[p], ![p] = obj[o]]
    BY <1>10 DEF swap
  <2> QED BY <1>0, <2>1 DEF Whole, Exists
<1>11. CASE \E v \in Values : push_back(o, v)
  <2>1. Elsewhere({o})
    BY <1>11, PushBackKeeps
  <2>2. Whole(o)'
    BY <1>0, <1>11 DEF push_back, Callable, Whole, Exists, FieldValues
  <2> QED BY <1>a, <2>1, <2>2
<1>12. CASE \E v \in Values : push_front(o, v)
  <2>1. Elsewhere({o})
    BY <1>12, PushFrontKeeps
  <2>2. Whole(o)'
    BY <1>0, <1>12 DEF push_front, Callable, Whole, Exists, FieldValues
  <2> QED BY <1>a, <2>1, <2>2
<1>13. CASE pop_front(o)
  <2>1. Elsewhere({o})
    BY <1>13, PopFrontKeeps
  <2>2. Whole(o)'
    BY <1>0, <1>13 DEF pop_front, Fails, Answers, Callable, Whole, Exists, FieldValues
  <2> QED BY <1>a, <2>1, <2>2
<1>14. CASE clear(o)
  <2>1. Elsewhere({o})
    BY <1>14, ClearKeeps
  <2>2. Exists(o) /\ obj[o] \in FieldValues
    BY <1>0, <1>14 DEF clear, Callable, Exists
  <2>3. CASE UNCHANGED obj
    BY <1>b, <2>3
  <2>4. CASE obj' = [obj EXCEPT ![o].first = 0, ![o].size = 0]
    <3>1. /\ obj'[o].array = obj[o].array /\ obj'[o].capacity = obj[o].capacity
          /\ obj'[o].first = 0 /\ obj'[o].size = 0 /\ obj'[o] \in FieldValues
      BY <1>0, <2>2, <2>4 DEF FieldValues
    <3>2. obj[o] = Nothing => obj'[o] = Nothing
      BY <3>1 DEF Nothing, Fields, FieldValues
    <3> QED BY <1>a, <2>1, <2>2, <3>1, <3>2 DEF Whole
  <2> QED BY <1>14, <2>3, <2>4 DEF clear
<1>15. CASE \E c \in 0 .. MaxCapacity : reserve(o, c)
  <2>1. Elsewhere({o})
    BY <1>0, <1>15, ReserveKeeps
  <2>2. CASE UNCHANGED obj
    BY <1>b, <2>2
  <2>3. CASE \E b \in Buffers : \E c : obj' = [obj EXCEPT ![o] = Fields(b, c, 0, obj[o].size)]
    <3>1. Whole(o)'
      BY <1>0, <2>3, NewIsWhole
    <3> QED BY <1>a, <2>1, <3>1
  <2> QED BY <1>15, <2>2, <2>3 DEF reserve
<1> QED BY <1>1, <1>2, <1>3, <1>4, <1>5, <1>6, <1>7, <1>8, <1>9, <1>10, <1>11, <1>12, <1>13,
           <1>14, <1>15
LEMMA IteratorsChangeNoObject ==
    ASSUME ItNext, ~(Next /\ UNCHANGED it)
    PROVE  UNCHANGED obj
BY DEF ItNext, begin, end, move, dereference, write

(* As long as no copy assignment runs out of memory, an array without      *)
(* storage has no elements and no room: nothing else that fails, and       *)
(* nothing that succeeds, leaves an array which a call would misuse.       *)
THEOREM OnlyAssignmentUndermines == ItSpec => OnlyInterruptedAssignmentUndermines
<1>1. IInv /\ [ItNext]_itvars =>
        [(\A o \in Objects : Exists(o) /\ obj[o].array = Null => obj[o] = Nothing)
         /\ Alive /\ Alive'
         /\ ~(reply'.op = "copy_assign" /\ reply'.outcome = "bad_alloc")
           => \A o \in Objects : Exists(o)' /\ obj'[o].array = Null => obj'[o] = Nothing]_vars
  <2> SUFFICES ASSUME IInv, ItNext, Alive', ~Undermines, \A q \in Objects : Whole(q)
               PROVE  \A q \in Objects : Whole(q)'
    BY DEF itvars, vars, Whole, Undermines
  <2>1. CASE Next /\ UNCHANGED it
    BY <2>1, WholeStep
  <2>2. CASE ~(Next /\ UNCHANGED it)
    BY <2>2, IteratorsChangeNoObject DEF Whole, Exists
  <2> QED BY <2>1, <2>2
<1> QED BY <1>1, Kept, PTL DEF OnlyInterruptedAssignmentUndermines, ItSpec

-----------------------------------------------------------------------------
(* What an iterator names.                                                 *)

(* The iterator's array is another than those the call names.              *)
LEMMA PlaceElsewhere ==
    ASSUME NEW q \in Objects, NEW n \in Nat, obj'[q] = obj[q],
           Exists(q) => Elements(q)' = Elements(q)
    PROVE  Place(q, n)' = Place(q, n)
BY DEF Place, Exists

(* Elements(q) as they are told by Place.                                  *)
LEMMA PlaceOfElements ==
    ASSUME IInv, Alive, NEW q \in Objects, NEW n \in Nat
    PROVE  Place(q, n) = IF Exists(q) /\ obj[q].array # Null /\ n < obj[q].size
                         THEN {store[obj[q].array][n + 1]} ELSE {}
BY OwnElements DEF Place, Elements

LEMMA PushBackPlace ==
    ASSUME IInv, NEW o \in Objects, NEW v \in Values, push_back(o, v), NEW n \in Nat
    PROVE  Place(o, n)' = Place(o, n) \/ Place(o, n) = {}
<1>1. Alive /\ Exists(o) /\ obj \in [Objects -> FieldValues \cup {NoObject}]
  BY DEF push_back, Callable, IInv, Typed
<1>2. CASE UNCHANGED <<obj, store>>
  BY <1>2 DEF Place, Elements, Exists
<1>3. CASE /\ obj[o].array # Null
           /\ obj' = [obj EXCEPT ![o].size = @ + 1]
           /\ store' = [store EXCEPT ![obj[o].array] = Append(@, v)]
  <2> DEFINE s == store[obj[o].array]
  <2>1. s \in Seq(Values) /\ obj[o].array \in Buffers /\ store'[obj[o].array] = Append(s, v)
    BY <1>1, <1>3, OwnElements DEF IInv, Typed
  <2>2. obj'[o].array = obj[o].array /\ Exists(o)'
    BY <1>1, <1>3, NamesAssumption, ObjectFields DEF IInv, Exists, FieldValues
  <2>3. Elements(o) = s /\ Elements(o)' = Append(s, v)
    BY <1>3, <2>1, <2>2 DEF Elements
  <2> HIDE DEF s
  <2>4. n < Len(s) => n < Len(Append(s, v)) /\ Append(s, v)[n + 1] = s[n + 1]
    <3>1. Len(s) \in Nat /\ Len(Append(s, v)) = Len(s) + 1
      BY <2>1, AppendProperties
    <3>2. n < Len(s) => n + 1 \in 1 .. Len(s)
      BY <3>1
    <3> QED BY <2>1, <3>1, <3>2, AppendProperties
  <2> QED BY <1>1, <2>2, <2>3, <2>4 DEF Place
<1> QED BY <1>2, <1>3 DEF push_back

LEMMA PushFrontPlace ==
    ASSUME IInv, NEW o \in Objects, NEW v \in Values, push_front(o, v),
           reply'.outcome = "returned", NEW n \in Nat \ {0}
    PROVE  Place(o, n)' = Place(o, n - 1)
<1>1. Alive /\ Exists(o) /\ obj[o] \in FieldValues
  BY ObjectFields DEF push_front, Callable, IInv
<1>2. /\ obj[o].array # Null /\ obj[o].size < obj[o].capacity
      /\ obj' = [obj EXCEPT ![o].size = @ + 1,
                            ![o].first = (IF @ = 0 THEN obj[o].capacity ELSE @) - 1]
      /\ store' = [store EXCEPT ![obj[o].array] = <<v>> \o @]
  <2>1. ~Answers("push_front", {o}, "length_error") /\ ~Answers("push_front", {o}, "undefined")
    BY DEF Answers
  <2> QED BY <2>1 DEF push_front
<1> DEFINE s == store[obj[o].array]
<1>3. s \in Seq(Values) /\ obj[o].array \in Buffers /\ store'[obj[o].array] = <<v>> \o s
  <2>1. s \in Seq(Values) /\ obj[o].array \in Buffers
    BY <1>1, <1>2, OwnElements
  <2>2. store \in [Buffers -> Seq(Values) \cup {Freed}]
    BY DEF IInv, Typed
  <2>3. store' = [store EXCEPT ![obj[o].array] = <<v>> \o @]
    BY <1>2
  <2> QED BY <2>1, <2>2, <2>3
<1>4. obj'[o].array = obj[o].array /\ Exists(o)'
  <2> DEFINE f == (IF obj[o].first = 0 THEN obj[o].capacity ELSE obj[o].first) - 1
             k == obj[o].size + 1
  <2>1. f \in Nat /\ k \in Nat
    BY <1>1, <1>2 DEF FieldValues
  <2>2. obj'[o] = Recount(obj[o], k, f)
    BY <1>1, <1>2 DEF Recount, IInv, Typed, FieldValues
  <2> HIDE DEF f, k
  <2>3. obj'[o] \in FieldValues /\ obj'[o].array = obj[o].array
    BY <1>1, <2>1, <2>2, Recounted
  <2> QED BY <2>3, NamesAssumption DEF Exists
<1>5. Elements(o) = s /\ Elements(o)' = <<v>> \o s
  BY <1>2, <1>3, <1>4 DEF Elements
<1> HIDE DEF s
<1>6. Len(s) \in Nat /\ Len(<<v>> \o s) = Len(s) + 1
  BY <1>3, ConcatProperties
<1>7. n < Len(s) + 1 => (<<v>> \o s)[n + 1] = s[n]
  BY <1>3, <1>6, ConcatProperties
<1> DEFINE t == <<v>> \o s
<1>8. n - 1 + 1 = n /\ (n - 1 < Len(s) <=> n < Len(t)) /\ (n - 1 < Len(s) => t[n + 1] = s[n])
  BY <1>6, <1>7
<1>9. Elements(o)' = t
  BY <1>5
<1> HIDE DEF t
<1> QED BY <1>1, <1>2, <1>4, <1>5, <1>8, <1>9 DEF Place
LEMMA PopFrontPlace ==
    ASSUME IInv, Alive', NEW o \in Objects, pop_front(o), NEW n \in Nat
    PROVE  Place(o, n)' = Place(o, n + 1)
<1>1. Alive /\ Exists(o) /\ obj[o] \in FieldValues
  BY ObjectFields DEF pop_front, Callable, IInv
<1>2. /\ obj[o].array # Null /\ obj[o].size # 0
      /\ obj' = [obj EXCEPT ![o].size = @ - 1,
                            ![o].first = IF @ + 1 >= obj[o].capacity THEN 0 ELSE @ + 1]
      /\ store' = [store EXCEPT ![obj[o].array] = Tail(@)]
  BY DEF pop_front, Fails, Answers, Alive
<1> DEFINE s == store[obj[o].array]
           t == Tail(s)
<1>3. /\ s \in Seq(Values) /\ s # <<>> /\ obj[o].array \in Buffers
      /\ store'[obj[o].array] = t
  BY <1>1, <1>2, OwnElements DEF IInv, Typed
<1>4. obj'[o].array = obj[o].array /\ Exists(o)'
  <2> DEFINE f == IF obj[o].first + 1 >= obj[o].capacity THEN 0 ELSE obj[o].first + 1
             k == obj[o].size - 1
  <2>1. f \in Nat /\ k \in Nat
    BY <1>1, <1>2 DEF FieldValues
  <2>2. obj'[o] = Recount(obj[o], k, f)
    BY <1>1, <1>2 DEF Recount, IInv, Typed, FieldValues
  <2> HIDE DEF f, k
  <2>3. obj'[o] \in FieldValues /\ obj'[o].array = obj[o].array
    BY <1>1, <2>1, <2>2, Recounted
  <2> QED BY <2>3, NamesAssumption DEF Exists
<1>5. Elements(o) = s /\ Elements(o)' = t
  BY <1>2, <1>3, <1>4 DEF Elements
<1> HIDE DEF s
<1>6. Len(s) \in Nat /\ Len(t) = Len(s) - 1
  BY <1>3, HeadTailProperties
<1>7. n < Len(t) => t[n + 1] = s[n + 1 + 1]
  BY <1>3, <1>6, HeadTailProperties
<1>8. n < Len(t) <=> n + 1 < Len(s)
  BY <1>6
<1> HIDE DEF t
<1> QED BY <1>1, <1>2, <1>4, <1>5, <1>7, <1>8 DEF Place

LEMMA ReservePlace ==
    ASSUME IInv, NEW o \in Objects, NEW c \in Nat, reserve(o, c), NEW n \in Nat
    PROVE  Place(o, n)' = Place(o, n) \/ Place(o, n) = {}
<1>1. Alive /\ Exists(o)
  BY DEF reserve, Callable
<1>2. CASE UNCHANGED <<obj, store>>
  BY <1>2 DEF Place, Elements, Exists
<1>3. CASE \E b \in Buffers : /\ store[b] = Freed
                              /\ obj' = [obj EXCEPT ![o] = Fields(b, c, 0, obj[o].size)]
                              /\ store' = [Teardown(o) EXCEPT ![b] = Elements(o)]
  <2>1. PICK b \in Buffers : /\ obj' = [obj EXCEPT ![o] = Fields(b, c, 0, obj[o].size)]
                             /\ store' = [Teardown(o) EXCEPT ![b] = Elements(o)]
    BY <1>3
  <2>2. obj'[o].array = b /\ b # Null
    BY <2>1, NamesAssumption DEF Fields, IInv, Typed
  <2>3. Exists(o)'
    <3>1. Fields(b, c, 0, obj[o].size) \in FieldValues
      BY <1>1, ObjectFields DEF IInv, Fields, FieldValues
    <3> QED BY <2>1, <3>1, NamesAssumption DEF Exists, IInv, Typed
  <2>4. Elements(o)' = Elements(o)
    BY <2>1, <2>2 DEF Elements, Teardown, IInv, Typed
  <2> QED BY <1>1, <2>2, <2>3, <2>4 DEF Place
<1> QED BY <1>2, <1>3 DEF reserve

LEMMA SwapPlace ==
    ASSUME IInv, NEW o \in Objects, NEW p \in Objects, swap(o, p), NEW n \in Nat
    PROVE  o # p /\ Place(o, n)' = Place(p, n) /\ Place(p, n)' = Place(o, n)
<1>1. /\ Exists(o) /\ Exists(p) /\ o # p /\ UNCHANGED store
      /\ obj' = [obj EXCEPT ![o] = obj[p], ![p] = obj[o]]
  BY DEF swap, Callable
<1>2. obj'[o] = obj[p] /\ obj'[p] = obj[o]
  BY <1>1 DEF IInv, Typed
<1> QED BY <1>1, <1>2 DEF Place, Elements, Exists

(* A call leaves its name.                                                 *)
LEMMA NamedCall ==
    ASSUME Next
    PROVE  /\ reply'.op = "push_back" => \E o \in Objects, v \in Values :
                                            push_back(o, v) /\ reply'.on = {o}
           /\ reply'.op = "push_front" => \E o \in Objects, v \in Values :
                                            push_front(o, v) /\ reply'.on = {o}
           /\ reply'.op = "pop_front" => \E o \in Objects : pop_front(o) /\ reply'.on = {o}
           /\ reply'.op = "reserve" => \E o \in Objects, c \in 0 .. MaxCapacity :
                                            reserve(o, c) /\ reply'.on = {o}
           /\ reply'.op = "swap" => \E o, p \in Objects : swap(o, p) /\ reply'.on = {o, p}
           /\ reply'.op # "dereference"
<1>1. PICK o \in Objects :
        \/ \E c \in 0 .. MaxCapacity : construct(o, c)
        \/ \E p \in Objects, c \in 0 .. MaxCapacity : copy_construct(o, p, c)
        \/ \E p \in Objects, c \in 0 .. MaxCapacity : copy_construct_throws(o, p, c)
        \/ \E p \in Objects : move_construct(o, p)
        \/ destroy(o)
        \/ \E p \in Objects : copy_assign(o, p)
        \/ \E p \in Objects : copy_assign_no_memory(o, p)
        \/ \E p \in Objects : move_assign(o, p)
        \/ \E p \in Objects : swap(o, p)
        \/ \E v \in Values : push_back(o, v)
        \/ \E v \in Values : push_front(o, v)
        \/ pop_front(o)
        \/ clear(o)
        \/ \E c \in 0 .. MaxCapacity : reserve(o, c)
  BY DEF Next
<1> DEFINE Known == {"construct", "copy_construct", "move_construct", "destroy", "copy_assign",
                     "move_assign", "clear"}
<1>2. ASSUME \/ \E c \in 0 .. MaxCapacity : construct(o, c)
             \/ \E p \in Objects, c \in 0 .. MaxCapacity : copy_construct(o, p, c)
             \/ \E p \in Objects, c \in 0 .. MaxCapacity : copy_construct_throws(o, p, c)
             \/ \E p \in Objects : move_construct(o, p)
             \/ destroy(o)
      PROVE  reply'.op \in Known
  BY <1>2 DEF construct, copy_construct, copy_construct_throws, move_construct, destroy, Fails,
              Answers
<1>3. ASSUME \/ \E p \in Objects : copy_assign(o, p)
             \/ \E p \in Objects : copy_assign_no_memory(o, p)
             \/ \E p \in Objects : move_assign(o, p)
             \/ clear(o)
      PROVE  reply'.op \in Known
  BY <1>3 DEF copy_assign, AssignFrom, copy_assign_no_memory, move_assign, clear, Fails, Answers
<1>4. CASE \E p \in Objects : swap(o, p)
  <2>1. PICK p \in Objects : swap(o, p)
    BY <1>4
  <2>2. reply'.op = "swap" /\ reply'.on = {o, p}
    BY <2>1 DEF swap, Answers
  <2> QED BY <2>1, <2>2
<1>5. CASE \E v \in Values : push_back(o, v)
  <2>1. PICK v \in Values : push_back(o, v)
    BY <1>5
  <2>2. reply'.op = "push_back" /\ reply'.on = {o}
    BY <2>1 DEF push_back, Answers
  <2> QED BY <2>1, <2>2
<1>6. CASE \E v \in Values : push_front(o, v)
  <2>1. PICK v \in Values : push_front(o, v)
    BY <1>6
  <2>2. reply'.op = "push_front" /\ reply'.on = {o}
    BY <2>1 DEF push_front, Answers
  <2> QED BY <2>1, <2>2
<1>7. CASE pop_front(o)
  BY <1>7 DEF pop_front, Fails, Answers
<1>8. CASE \E c \in 0 .. MaxCapacity : reserve(o, c)
  BY <1>8 DEF reserve, Answers
<1> QED BY <1>1, <1>2, <1>3, <1>4, <1>5, <1>6, <1>7, <1>8
(* The same of every step, for an iterator at place n of array q.          *)
LEMMA PlaceStep ==
    ASSUME IInv, [ItNext]_itvars, Alive', UNCHANGED it, NEW q \in Objects, NEW n \in Nat,
           ItNext, it.at = q
    PROVE  /\ q \notin reply'.on => Place(q, n)' = Place(q, n)
           /\ reply'.op \in {"push_back", "reserve", "copy_construct", "dereference"}
                  => Place(q, n)' = Place(q, n) \/ Place(q, n) = {}
           /\ (reply'.op = "pop_front" /\ q \in reply'.on) => Place(q, n)' = Place(q, n + 1)
           /\ (reply'.op = "push_front" /\ reply'.outcome = "returned" /\ q \in reply'.on /\ n > 0)
                  => Place(q, n)' = Place(q, n - 1)
           /\ (reply'.op = "swap" /\ q \in reply'.on)
                  => \E o \in Objects \ {q} : o \in reply'.on /\ Place(q, n)' = Place(o, n)
<1>1. \/ q \in reply'.on /\ (reply'.op = "copy_construct" => Place(q, n) = {})
      \/ Place(q, n)' = Place(q, n)
  BY Steps, PlaceElsewhere DEF NamedOnly, Place
<1>2. CASE Next
  <2>1. reply'.op = "push_back" /\ q \in reply'.on =>
            Place(q, n)' = Place(q, n) \/ Place(q, n) = {}
    BY <1>2, NamedCall, PushBackPlace
  <2>2. reply'.op = "reserve" /\ q \in reply'.on =>
            Place(q, n)' = Place(q, n) \/ Place(q, n) = {}
    BY <1>2, NamedCall, ReservePlace, CapacityAssumption
  <2>3. reply'.op = "pop_front" /\ q \in reply'.on => Place(q, n)' = Place(q, n + 1)
    BY <1>2, NamedCall, PopFrontPlace
  <2>4. reply'.op = "push_front" /\ reply'.outcome = "returned" /\ q \in reply'.on /\ n > 0
            => Place(q, n)' = Place(q, n - 1)
    BY <1>2, NamedCall, PushFrontPlace
  <2>5. reply'.op = "swap" /\ q \in reply'.on
            => \E o \in Objects \ {q} : o \in reply'.on /\ Place(q, n)' = Place(o, n)
    BY <1>2, NamedCall, SwapPlace
  <2>6. reply'.op # "dereference"
    BY <1>2, NamedCall
  <2> HIDE DEF Place
  <2> QED BY <1>1, <2>1, <2>2, <2>3, <2>4, <2>5, <2>6
<1>3. CASE ~Next
  <2> DEFINE Named == /\ reply'.op \in {"begin", "end", "move", "dereference", "write"}
                      /\ reply'.op = "dereference" => UNCHANGED <<obj, store>>
  <2>a. ASSUME \E o \in Objects : begin(o) \/ end(o)
        PROVE  Named
    BY <2>a DEF begin, end, Answers
  <2>b. ASSUME \E m \in Differences : move(m)
        PROVE  Named
    BY <2>b DEF move, Answers
  <2>c. ASSUME \E i \in Positions : dereference(i)
        PROVE  Named
    BY <2>c DEF dereference, Answers
  <2>d. ASSUME \E i \in Positions, v \in Values : write(i, v)
        PROVE  Named
    BY <2>d DEF write, Answers
  <2>1. reply'.op \in {"begin", "end", "move", "dereference", "write"}
    BY <1>3, <2>a, <2>b, <2>c, <2>d DEF ItNext
  <2>2. reply'.op = "dereference" => UNCHANGED <<obj, store>>
    BY <1>3, <2>a, <2>b, <2>c, <2>d DEF ItNext
  <2>3. reply'.op = "dereference" => Place(q, n)' = Place(q, n)
    BY <2>2 DEF Place, Elements, Exists
  <2> QED BY <1>1, <2>1, <2>3
<1> QED BY <1>2, <1>3

(* An iterator keeps naming a place: for any arrays and whatever is done   *)
(* to them it is on its element after an insertion behind and after growth,*)
(* one further after a removal in front, one back after an insertion       *)
(* there, and on the other array's element after an exchange.              *)
THEOREM IteratorsNamePlaces == ItSpec => IteratorNamesPlace
<1>1. IInv /\ [ItNext]_itvars =>
        [(it.at \in Objects /\ UNCHANGED it /\ Alive') =>
            LET now == Place(it.at, it.pos)'
                was(n) == Place(it.at, n)
            IN  /\ it.at \notin reply'.on => now = was(it.pos)
                /\ reply'.op \in {"push_back", "reserve", "copy_construct", "dereference"}
                      => now = was(it.pos) \/ was(it.pos) = {}
                /\ (reply'.op = "pop_front" /\ it.at \in reply'.on)
                      => now = was(it.pos + 1)
                /\ (reply'.op = "push_front" /\ reply'.outcome = "returned"
                    /\ it.at \in reply'.on /\ it.pos > 0)
                      => now = was(it.pos - 1)
                /\ (reply'.op = "swap" /\ it.at \in reply'.on)
                      => \E o \in Objects \ {it.at} : o \in reply'.on /\ now = Place(o, it.pos)]_itvars
  <2> SUFFICES ASSUME IInv, ItNext, it.at \in Objects, UNCHANGED it, Alive'
               PROVE  LET now == Place(it.at, it.pos)'
                          was(n) == Place(it.at, n)
                      IN  /\ it.at \notin reply'.on => now = was(it.pos)
                          /\ reply'.op \in {"push_back", "reserve", "copy_construct", "dereference"}
                                => now = was(it.pos) \/ was(it.pos) = {}
                          /\ (reply'.op = "pop_front" /\ it.at \in reply'.on)
                                => now = was(it.pos + 1)
                          /\ (reply'.op = "push_front" /\ reply'.outcome = "returned"
                              /\ it.at \in reply'.on /\ it.pos > 0)
                                => now = was(it.pos - 1)
                          /\ (reply'.op = "swap" /\ it.at \in reply'.on)
                                => \E o \in Objects \ {it.at} :
                                      o \in reply'.on /\ now = Place(o, it.pos)
    OBVIOUS
  <2>1. it.pos \in Nat
    BY DEF IInv, Typed
  <2>2. PICK q \in Objects, n \in Nat : q = it.at /\ n = it.pos
    BY <2>1
  <2>3. Place(it.at, it.pos)' = Place(q, n)'
    BY <2>2 DEF Place, Elements, Exists
  <2> QED BY <2>2, <2>3, PlaceStep
<1> QED BY <1>1, Kept, PTL DEF IteratorNamesPlace, ItSpec
=============================================================================

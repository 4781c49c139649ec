------------------------ MODULE CircularArrayObjects ------------------------
(***************************************************************************)
(* Several CircularArray objects and the storage they own: construction,   *)
(* copy, move, swap, assignment and destruction (circular_array.hpp), with *)
(* the exceptions the allocator and the copy constructor of value_type may *)
(* throw.  What one object does with its slots is module CircularArray;    *)
(* here `store' keeps the elements of a piece of storage in their logical  *)
(* order, and an object the fields that decide who may use it.             *)
(***************************************************************************)
EXTENDS Naturals, SequencesExt

CONSTANTS
    Objects, Values,
    Buffers,       (* pieces of storage the allocator hands out            *)
    Null,          (* nullptr                                              *)
    NoObject,      (* not constructed, or destroyed                        *)
    Freed,         (* storage the allocator may hand out                   *)
    MaxCapacity    (* bound on the capacities asked for                    *)

(* The fields of an object.                                                *)
FieldValues == [array : Buffers \cup {Null}, capacity : Nat, first : Nat, size : Nat]

ASSUME NamesAssumption ==
    /\ Null \notin Buffers
    /\ NoObject \notin FieldValues /\ Freed \notin Seq(Values)
ASSUME CapacityAssumption == MaxCapacity \in Nat

VARIABLES
    obj,      (* the fields of each object                                 *)
    store,    (* the elements in each piece of storage                     *)
    lost,     (* storage whose owner's constructor threw                   *)
    reply     (* the last call: its name, its objects, how it ended        *)

vars == <<obj, store, lost, reply>>

(* A failed contract condition or undefined behaviour ends the run.        *)
Alive == reply.outcome \notin {"condition_failed", "undefined"}

Answers(op, on, outcome) == reply' = [op |-> op, on |-> on, outcome |-> outcome]

Fails(op, on) == Answers(op, on, "condition_failed") /\ UNCHANGED <<obj, store, lost>>

Exists(o) == obj[o] # NoObject

(* Only a running process calls anything.                                  *)
Callable(o) == Alive /\ Exists(o)
Constructible(o) == Alive /\ ~Exists(o)
Fields(b, c, f, n) == [array |-> b, capacity |-> c, first |-> f, size |-> n]
Nothing == Fields(Null, 0, 0, 0)

Elements(o) == IF obj[o].array = Null THEN <<>> ELSE store[obj[o].array]

(* [] passes its conditions for every element: see CircularArray!Iterable. *)
Walkable(o) ==
    obj[o].size > 0 => /\ obj[o].array # Null
                       /\ obj[o].size < obj[o].capacity \/ obj[o].first = 0

(* The storage after _array of an object was deallocated, if it has one.   *)
Teardown(o) ==
    IF obj[o].array = Null THEN store ELSE [store EXCEPT ![obj[o].array] = Freed]

AtLeast(c, n) == IF c < n THEN n ELSE c

Init ==
    /\ obj = [o \in Objects |-> NoObject]
    /\ store = [b \in Buffers |-> Freed]
    /\ lost = {}
    /\ reply = [op |-> "none", on |-> {}, outcome |-> "returned"]

-----------------------------------------------------------------------------
(* Construction and destruction.                                           *)

construct(o, c) ==
    /\ Constructible(o)
    /\ \E b \in Buffers :
          /\ store[b] = Freed
          /\ obj' = [obj EXCEPT ![o] = Fields(b, c, 0, 0)]
          /\ store' = [store EXCEPT ![b] = <<>>]
    /\ Answers("construct", {o}, "returned")
    /\ UNCHANGED lost

(* The copy goes through assign(begin, end), whose postcondition asks for  *)
(* a capacity greater than 0.                                              *)
CopyFails(p, c) == ~Walkable(p) \/ AtLeast(c, obj[p].size) = 0

copy_construct(o, p, c) ==
    /\ Constructible(o) /\ Exists(p)
    /\ IF CopyFails(p, c) THEN Fails("copy_construct", {o, p})
       ELSE /\ \E b \in Buffers :
                  /\ store[b] = Freed
                  /\ obj' = [obj EXCEPT ![o] = Fields(b, AtLeast(c, obj[p].size), 0, obj[p].size)]
                  /\ store' = [store EXCEPT ![b] = Elements(p)]
            /\ Answers("copy_construct", {o, p}, "returned")
            /\ UNCHANGED lost

(* An element's copy throws.  No destructor runs for an object that was    *)
(* not constructed, and _array is a plain pointer.                         *)
copy_construct_throws(o, p, c) ==
    /\ Constructible(o) /\ Exists(p) /\ ~CopyFails(p, c) /\ obj[p].size > 0
    /\ \E b \in Buffers, n \in 0 .. obj[p].size - 1 :
          /\ store[b] = Freed
          /\ store' = [store EXCEPT ![b] = SubSeq(Elements(p), 1, n)]
          /\ lost' = lost \cup {b}
    /\ Answers("copy_construct", {o, p}, "threw")
    /\ UNCHANGED obj

(* Seeded fault: the source keeps its fields.                              *)
move_construct_shared(o, p) ==
    /\ Constructible(o) /\ Exists(p)
    /\ IF obj[p].array = Null \/ obj[p].capacity = 0 THEN Fails("move_construct", {o, p})
       ELSE /\ obj' = [obj EXCEPT ![o] = obj[p]]
            /\ Answers("move_construct", {o, p}, "returned")
            /\ UNCHANGED <<store, lost>>

(* Seeded fault: only the pointer of the source is reset.                  *)
move_construct_counted(o, p) ==
    /\ Constructible(o) /\ Exists(p)
    /\ IF obj[p].array = Null \/ obj[p].capacity = 0 THEN Fails("move_construct", {o, p})
       ELSE /\ obj' = [obj EXCEPT ![o] = obj[p], ![p].array = Null]
            /\ Answers("move_construct", {o, p}, "returned")
            /\ UNCHANGED <<store, lost>>

move_construct(o, p) ==
    /\ Constructible(o) /\ Exists(p)
    /\ IF obj[p].array = Null \/ obj[p].capacity = 0 THEN Fails("move_construct", {o, p})
       ELSE /\ obj' = [obj EXCEPT ![o] = obj[p], ![p] = Nothing]
            /\ Answers("move_construct", {o, p}, "returned")
            /\ UNCHANGED <<store, lost>>

destroy(o) ==
    /\ Callable(o)
    /\ store' = Teardown(o)
    /\ obj' = [obj EXCEPT ![o] = NoObject]
    /\ Answers("destroy", {o}, "returned")
    /\ UNCHANGED lost

-----------------------------------------------------------------------------
(* Assignment and swap.                                                    *)

(* Seeded fault: the old storage is not torn down.                         *)
AssignFromKept(o, p, outcome, n) ==
    /\ \E b \in Buffers :
          /\ store[b] = Freed
          /\ obj' = [obj EXCEPT ![o] = Fields(b, obj[p].capacity, 0, n)]
          /\ store' = [store EXCEPT ![b] = SubSeq(Elements(p), 1, n)]
    /\ Answers("copy_assign", {o, p}, outcome)
    /\ UNCHANGED lost

(* teardown(); init(ca.capacity()); push the first n elements of ca.       *)
AssignFrom(o, p, outcome, n) ==
    /\ \E b \in Buffers :
          /\ Teardown(o)[b] = Freed
          /\ obj' = [obj EXCEPT ![o] = Fields(b, obj[p].capacity, 0, n)]
          /\ store' = [Teardown(o) EXCEPT ![b] = SubSeq(Elements(p), 1, n)]
    /\ Answers("copy_assign", {o, p}, outcome)
    /\ UNCHANGED lost

copy_assign(o, p) ==
    /\ Callable(o) /\ Exists(p)
    /\ IF o = p
       THEN IF obj[o].array = Null THEN Fails("copy_assign", {o})
            ELSE Answers("copy_assign", {o}, "returned") /\ UNCHANGED <<obj, store, lost>>
       ELSE IF ~Walkable(p) THEN Fails("copy_assign", {o, p})
       ELSE \/ AssignFrom(o, p, "returned", obj[p].size)
            \/ \E n \in 0 .. obj[p].size - 1 : AssignFrom(o, p, "threw", n)

(* The allocation in init throws: teardown has set _array to nullptr and   *)
(* nothing has reset the other fields.                                     *)
copy_assign_no_memory(o, p) ==
    /\ Callable(o) /\ Exists(p) /\ o # p
    /\ store' = Teardown(o)
    /\ obj' = [obj EXCEPT ![o].array = Null]
    /\ Answers("copy_assign", {o, p}, "bad_alloc")
    /\ UNCHANGED lost

(* The fields are taken over and then the source is torn down, with the    *)
(* storage they share; the postconditions look at what that leaves.        *)
move_assign(o, p) ==
    /\ Callable(o) /\ Exists(p)
    /\ IF o = p THEN UNCHANGED <<obj, store>>
       ELSE /\ obj' = [obj EXCEPT ![o] = obj[p], ![p].array = Null]
            /\ store' = [b \in Buffers |->
                            IF b \in {obj[o].array, obj[p].array} THEN Freed ELSE store[b]]
    /\ Answers("move_assign", {o, p},
               IF /\ obj'[o].array # Null
                  /\ obj'[o].capacity >= obj'[o].size
                  /\ obj'[o].capacity > 0
                  /\ obj'[p].array = Null
                  /\ obj'[p].capacity = 0
                  /\ obj'[p].size = 0
               THEN "returned" ELSE "condition_failed")
    /\ UNCHANGED lost

swap(o, p) ==
    /\ Callable(o) /\ Exists(p) /\ o # p
    /\ obj' = [obj EXCEPT ![o] = obj[p], ![p] = obj[o]]
    /\ Answers("swap", {o, p}, "returned")
    /\ UNCHANGED <<store, lost>>

-----------------------------------------------------------------------------
(* What the owner of one object does with it.                              *)

push_back(o, v) ==
    /\ Callable(o)
    /\ \/ /\ obj[o].size = obj[o].capacity
          /\ Answers("push_back", {o}, "length_error")
          /\ UNCHANGED <<obj, store>>
       \/ /\ obj[o].size < obj[o].capacity /\ obj[o].array # Null
          /\ obj' = [obj EXCEPT ![o].size = @ + 1]
          /\ store' = [store EXCEPT ![obj[o].array] = Append(@, v)]
          /\ Answers("push_back", {o}, "returned")
       \/ /\ obj[o].size < obj[o].capacity /\ obj[o].array = Null
          /\ Answers("push_back", {o}, "undefined")
          /\ UNCHANGED <<obj, store>>
    /\ UNCHANGED lost

(* Seeded fault: the element is constructed before _first moves.           *)
push_front_in_place(o, v) ==
    /\ Callable(o)
    /\ obj[o].size < obj[o].capacity /\ obj[o].array # Null
    /\ obj' = [obj EXCEPT ![o].size = @ + 1,
                          ![o].first = (IF @ = 0 THEN obj[o].capacity ELSE @) - 1]
    /\ store' = [store EXCEPT ![obj[o].array] = <<v>> \o [i \in DOMAIN @ |-> IF i = 1 THEN v ELSE @[i]]]
    /\ Answers("push_front", {o}, "returned")
    /\ UNCHANGED lost

push_front(o, v) ==
    /\ Callable(o)
    /\ \/ /\ obj[o].size = obj[o].capacity
          /\ Answers("push_front", {o}, "length_error")
          /\ UNCHANGED <<obj, store>>
       \/ /\ obj[o].size < obj[o].capacity /\ obj[o].array # Null
          /\ obj' = [obj EXCEPT ![o].size = @ + 1,
                                ![o].first = (IF @ = 0 THEN obj[o].capacity ELSE @) - 1]
          /\ store' = [store EXCEPT ![obj[o].array] = <<v>> \o @]
          /\ Answers("push_front", {o}, "returned")
       \/ /\ obj[o].size < obj[o].capacity /\ obj[o].array = Null
          /\ Answers("push_front", {o}, "undefined")
          /\ UNCHANGED <<obj, store>>
    /\ UNCHANGED lost

pop_front(o) ==
    /\ Callable(o)
    /\ IF obj[o].array = Null \/ obj[o].size = 0 THEN Fails("pop_front", {o})
       ELSE /\ obj' = [obj EXCEPT ![o].size = @ - 1,
                                  ![o].first = IF @ + 1 >= obj[o].capacity THEN 0 ELSE @ + 1]
            /\ store' = [store EXCEPT ![obj[o].array] = Tail(@)]
            /\ Answers("pop_front", {o}, "returned")
            /\ UNCHANGED lost

(* Without storage, destroy is given addresses next to nullptr; when the   *)
(* array counts as full it is given none.                                  *)
clear(o) ==
    /\ Callable(o)
    /\ IF obj[o].array = Null /\ obj[o].size \notin {0, obj[o].capacity}
       THEN Answers("clear", {o}, "undefined") /\ UNCHANGED <<obj, store>>
       ELSE /\ obj' = [obj EXCEPT ![o].first = 0, ![o].size = 0]
            /\ store' = [b \in Buffers |-> IF b = obj[o].array THEN <<>> ELSE store[b]]
            /\ Answers("clear", {o}, "returned")
    /\ UNCHANGED lost

(* A copy with more capacity, swapped with this object, and destroyed.     *)
reserve(o, c) ==
    /\ Callable(o)
    /\ IF c <= obj[o].capacity
       THEN Answers("reserve", {o}, "returned") /\ UNCHANGED <<obj, store>>
       ELSE IF ~Walkable(o) THEN Answers("reserve", {o}, "condition_failed") /\ UNCHANGED <<obj, store>>
       ELSE /\ \E b \in Buffers :
                  /\ store[b] = Freed
                  /\ obj' = [obj EXCEPT ![o] = Fields(b, c, 0, obj[o].size)]
                  /\ store' = [Teardown(o) EXCEPT ![b] = Elements(o)]
            /\ Answers("reserve", {o}, "returned")
    /\ UNCHANGED lost

Next ==
    \E o \in Objects :
        \/ \E c \in 0 .. MaxCapacity : construct(o, c)
        \/ \E p \in Objects, c \in 0 .. MaxCapacity : copy_construct(o, p, c)
        \/ \E p \in Objects, c \in 0 .. MaxCapacity : copy_construct_throws(o, p, c)
        \/ \E p \in Objects : move_construct(o, p)
        \/ destroy(o)
        \/ \E p \in Objects : copy_assign(o, p)
        \/ \E p \in Objects : copy_assign_no_memory(o, p)
        \/ \E p \in Objects : move_assign(o, p)
        \/ \E p \in Objects : swap(o, p)
        \/ \E v \in Values : push_back(o, v)
        \/ \E v \in Values : push_front(o, v)
        \/ pop_front(o)
        \/ clear(o)
        \/ \E c \in 0 .. MaxCapacity : reserve(o, c)

Spec == Init /\ [][Next]_vars

-----------------------------------------------------------------------------
(* Properties.                                                             *)

(* Objects are absent or have their fields; storage is free or holds       *)
(* elements.                                                               *)
TypeOK ==
    /\ \A o \in Objects : Exists(o) => obj[o] \in FieldValues
    /\ \A b \in Buffers : store[b] = Freed \/ store[b] \in Seq(Values)
    /\ lost \subseteq Buffers
    /\ reply.outcome \in {"returned", "length_error", "threw", "bad_alloc",
                          "condition_failed", "undefined"}

(* While the program runs, each object has storage of its own, which was   *)
(* not freed, and whose elements are as many as the object counts.         *)
OwnersAgree ==
    Alive => \A o \in Objects : Exists(o) /\ obj[o].array # Null =>
        /\ \A p \in Objects \ {o} : Exists(p) => obj[p].array # obj[o].array
        /\ store[obj[o].array] # Freed
        /\ obj[o].size = Len(store[obj[o].array])
        /\ obj[o].size <= obj[o].capacity

(* Storage is in use by an object, free, or was left by a copy constructor *)
(* that threw: no other call loses any.                                    *)
StorageAccountedFor ==
    Alive => \A b \in Buffers :
        \/ store[b] = Freed
        \/ b \in lost
        \/ \E o \in Objects : Exists(o) /\ obj[o].array = b

(* The two together: whatever was copied, moved, swapped, assigned or      *)
(* interrupted, storage in use has exactly one owner, which agrees with it.*)
StorageHasOneOwner == TypeOK /\ OwnersAgree /\ StorageAccountedFor

(* An object's elements change only by calls it takes part in, and not by  *)
(* being what another is constructed from by copy.                         *)
CopiesAreIndependent ==
    [][\A p \in Objects :
         \/ ~Exists(p)
         \/ p \in reply'.on /\ reply'.op \notin {"copy_construct"}
         \/ Exists(p)' /\ Elements(p)' = Elements(p)]_vars

(* Outside a failed copy assignment an object without storage counts no    *)
(* elements and has no room: every call on it is refused or starts anew,   *)
(* and none is undefined.  Only what an interrupted assignment left can    *)
(* break that, and a throw elsewhere leaves every object as it was or      *)
(* whole.                                                                  *)
OnlyInterruptedAssignmentUndermines ==
    [][(\A o \in Objects : Exists(o) /\ obj[o].array = Null => obj[o] = Nothing)
       /\ Alive /\ Alive'
       /\ ~(reply'.op = "copy_assign" /\ reply'.outcome = "bad_alloc")
         => \A o \in Objects : Exists(o)' /\ obj'[o].array = Null => obj'[o] = Nothing]_vars

(* An assignment that moves an array returns (its postconditions, and the  *)
(* comment "These will affect both the capacity and the contents").        *)
MoveAssignReturns ==
    [][reply'.op = "move_assign" /\ (\E o, p \in reply'.on : o # p)
       /\ (\A o \in reply'.on : Elements(o) # <<>>)
         => reply'.outcome = "returned"]_vars
=============================================================================

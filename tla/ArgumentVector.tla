--------------------------- MODULE ArgumentVector ---------------------------
(***************************************************************************)
(* kss::util::po::ArgumentVector (Sources/argumentvector.hpp and .cpp):    *)
(* several vectors, and a program that keeps what argv() handed it while   *)
(* it goes on calling.  An object holds `strings' and, in a buffer with    *)
(* room for `room' of them, `pointers' to their characters.  A pointer is  *)
(* given by the text it reads; Dangling is one whose characters were freed *)
(* or moved.                                                               *)
(*                                                                         *)
(* Any allocation may throw.  `cause' is the only ghost: the call that     *)
(* threw after it had changed an object whose pointers are not rebuilt.    *)
(***************************************************************************)
EXTENDS Naturals, SequencesExt

CONSTANTS
    Objects, Texts,
    NoObject,      (* not constructed, or destroyed                        *)
    Dangling,
    Nothing,       (* the program holds no argv                            *)
    Gone,          (* the argv it holds was freed                          *)
    MaxArguments   (* bound on the strings of an object                    *)

ASSUME ObjectsAssumption ==
    /\ Dangling \notin Texts
    /\ NoObject \notin [strings : Seq(Texts), pointers : Seq(Texts \cup {Dangling}), room : Nat]
    /\ {Nothing, Gone} \cap Objects = {} /\ Nothing # Gone
ASSUME BoundAssumption == MaxArguments \in Nat

VARIABLES
    obj, cause,
    held,      (* the object whose buffer of pointers the program holds    *)
    reply

argvars == <<obj, cause, held, reply>>

Fields(s, p, n) == [strings |-> s, pointers |-> p, room |-> n]
Empty == Fields(<<>>, <<>>, 0)

Exists(o) == obj[o] # NoObject
SizesAgree(o) == Len(obj[o].pointers) = Len(obj[o].strings)

Alive == reply.outcome \notin {"terminated", "undefined"}
Callable(o) == Alive /\ Exists(o)

Answers(op, o, outcome) == reply' = [op |-> op, on |-> o, outcome |-> outcome]

Terminates(op, o) == Answers(op, o, "terminated") /\ UNCHANGED <<obj, cause, held>>
Unchanged(op, o) == Answers(op, o, "threw") /\ UNCHANGED <<obj, cause, held>>

ArgInit ==
    /\ obj = [o \in Objects |-> NoObject]
    /\ cause = [o \in Objects |-> "none"]
    /\ held = Nothing
    /\ reply = [op |-> "none", on |-> Nothing, outcome |-> "returned"]

(* The buffer of an object is freed.                                       *)
Freed(o) == IF held = o THEN Gone ELSE held

-----------------------------------------------------------------------------
(* Seeded fault: the old pointers are not cleared.                         *)
rebuild_behind(op, o, s) ==
    LET p == obj[o].pointers
    IN  /\ obj' = [obj EXCEPT ![o] = Fields(s, p \o SubSeq(s, Len(p) + 1, Len(s)), Len(s))]
        /\ cause' = [cause EXCEPT ![o] = "none"]
        /\ held' = Freed(o)
        /\ Answers(op, o, "returned")

(* clear(), reserve(), and a pointer to each string.  Without memory for   *)
(* more room the vector of pointers stays empty.                           *)
rebuild(op, o, s) ==
    \/ /\ obj' = [obj EXCEPT ![o] =
                     Fields(s, s, IF Len(s) > @.room THEN Len(s) ELSE @.room)]
       /\ cause' = [cause EXCEPT ![o] = "none"]
       /\ held' = IF Len(s) > obj[o].room THEN Freed(o) ELSE held
       /\ Answers(op, o, "returned")
    \/ /\ Len(s) > obj[o].room
       /\ obj' = [obj EXCEPT ![o] = Fields(s, <<>>, @.room)]
       /\ cause' = [cause EXCEPT ![o] = op]
       /\ Answers(op, o, "threw")
       /\ UNCHANGED held

construct(o, s) ==
    /\ Alive /\ ~Exists(o)
    /\ obj' = [obj EXCEPT ![o] = Fields(s, s, Len(s))]
    /\ Answers("construct", o, "returned")
    /\ UNCHANGED <<cause, held>>

(* A constructor that throws leaves nothing behind.                        *)
construct_throws(o) ==
    /\ Alive /\ ~Exists(o)
    /\ Unchanged("construct", o)

copy_construct(o, p) ==
    /\ Exists(p)
    /\ construct(o, obj[p].strings)

(* Both vectors change hands; what is left is empty.                       *)
move_construct(o, p) ==
    /\ Alive /\ ~Exists(o) /\ Exists(p)
    /\ obj' = [obj EXCEPT ![o] = obj[p], ![p] = Empty]
    /\ cause' = [cause EXCEPT ![o] = cause[p], ![p] = "none"]
    /\ held' = IF held = p THEN o ELSE held
    /\ Answers("move_construct", o, "returned")

destroy(o) ==
    /\ Callable(o)
    /\ obj' = [obj EXCEPT ![o] = NoObject]
    /\ cause' = [cause EXCEPT ![o] = "none"]
    /\ held' = Freed(o)
    /\ Answers("destroy", o, "returned")

(* The strings that exist are assigned one by one; a copy that throws      *)
(* leaves n of them new.  Where the vector must grow it throws unchanged.  *)
AssignmentThrows(o, p) ==
    LET was == obj[o].strings
        new == obj[p].strings
        mixed(n) == [i \in DOMAIN was |-> IF i <= n THEN new[i] ELSE was[i]]
    IN  \E n \in 0 .. Len(was) : \E d \in SUBSET (1 .. n) :
            /\ n <= Len(new)
            /\ d \subseteq DOMAIN obj[o].pointers
            /\ obj' = [obj EXCEPT ![o].strings = mixed(n),
                 ![o].pointers = [i \in DOMAIN @ |->
                     IF i \in d THEN Dangling ELSE IF i <= n THEN new[i] ELSE @[i]]]
            /\ cause' = IF n = 0 THEN cause ELSE [cause EXCEPT ![o] = "copy_assign"]
            /\ Answers("copy_assign", o, "threw")
            /\ UNCHANGED held

copy_assign(o, p) ==
    /\ Callable(o) /\ Exists(p)
    /\ IF o = p
       THEN IF ~SizesAgree(o) THEN Terminates("copy_assign", o)
            ELSE Answers("copy_assign", o, "returned") /\ UNCHANGED <<obj, cause, held>>
       ELSE \/ rebuild("copy_assign", o, obj[p].strings)
            \/ AssignmentThrows(o, p)

(* Seeded fault: the pointers are copied, and go with the source.          *)
move_assign_copied(o, p) ==
    /\ Callable(o) /\ Exists(p) /\ o # p
    /\ obj' = [obj EXCEPT ![o] = obj[p], ![p] = Empty]
    /\ cause' = [cause EXCEPT ![o] = cause[p], ![p] = "none"]
    /\ held' = IF held \in {o, p} THEN Gone ELSE held
    /\ Answers("move_assign", o, "returned")

move_assign(o, p) ==
    /\ Callable(o) /\ Exists(p) /\ o # p
    /\ obj' = [obj EXCEPT ![o] = obj[p], ![p] = Empty]
    /\ cause' = [cause EXCEPT ![o] = cause[p], ![p] = "none"]
    /\ held' = IF held = p THEN o ELSE Freed(o)
    /\ Answers("move_assign", o, "returned")

-----------------------------------------------------------------------------
add(o, t) ==
    /\ Callable(o)
    /\ IF ~SizesAgree(o) THEN Terminates("add", o)
       ELSE \/ rebuild("add", o, Append(obj[o].strings, t))
            \/ Unchanged("add", o)

(* The range asks nothing of the sizes.  A string that finds no memory     *)
(* leaves those before it, in a vector that may have moved to grow.        *)
add_range(o, s) ==
    /\ Callable(o)
    /\ \/ s # <<>> /\ rebuild("add", o, obj[o].strings \o s)
       \/ Unchanged("add", o)
       \/ \E n \in 1 .. Len(s) - 1 : \E d \in SUBSET DOMAIN obj[o].pointers :
            /\ obj' = [obj EXCEPT
                  ![o].strings = @ \o SubSeq(s, 1, n),
                  ![o].pointers = [i \in DOMAIN @ |-> IF i \in d THEN Dangling ELSE @[i]]]
            /\ cause' = [cause EXCEPT ![o] = IF @ = "none" THEN "add" ELSE @]
            /\ Answers("add", o, "threw")
            /\ UNCHANGED held

(* argc() and argv(); nullptr is handed out for no arguments.              *)
argv(o) ==
    /\ Callable(o)
    /\ IF ~SizesAgree(o) THEN Terminates("argv", o)
       ELSE /\ held' = IF obj[o].pointers = <<>> THEN Nothing ELSE o
            /\ Answers("argv", o, "returned")
            /\ UNCHANGED <<obj, cause>>

(* The program, or what it called, puts other characters in an argument.   *)
change(n, t) ==
    /\ Alive /\ held \in Objects
    /\ n \in DOMAIN obj[held].pointers
    /\ IF obj[held].pointers[n] = Dangling
       THEN Answers("change", held, "undefined") /\ UNCHANGED obj
       ELSE /\ obj' = [obj EXCEPT ![held].strings[n] = t, ![held].pointers[n] = t]
            /\ Answers("change", held, "returned")
    /\ UNCHANGED <<cause, held>>

Inputs == UNION {[1 .. n -> Texts] : n \in 0 .. MaxArguments}
Fits(o, n) == Exists(o) => Len(obj[o].strings) + n <= MaxArguments

ArgNext ==
    \/ \E o \in Objects, s \in Inputs : construct(o, s)
    \/ \E o \in Objects : construct_throws(o)
    \/ \E o, p \in Objects : copy_construct(o, p)
    \/ \E o, p \in Objects : move_construct(o, p)
    \/ \E o \in Objects : destroy(o)
    \/ \E o, p \in Objects : copy_assign(o, p)
    \/ \E o, p \in Objects : move_assign(o, p)
    \/ \E o \in Objects, t \in Texts : Fits(o, 1) /\ add(o, t)
    \/ \E o \in Objects, s \in Inputs : Fits(o, Len(s)) /\ add_range(o, s)
    \/ \E o \in Objects : argv(o)
    \/ \E n \in 1 .. MaxArguments, t \in Texts : change(n, t)

ArgSpec == ArgInit /\ [][ArgNext]_argvars

-----------------------------------------------------------------------------
(* Properties.                                                             *)

(* What argv() hands out are the strings.  After an add that threw argc()  *)
(* and argv() end the process instead: the sizes differ.  After a copy     *)
(* assignment that threw they may not notice, and hand out pointers that   *)
(* read the new text of a string or dangle.                                *)
ArgvIsCurrent ==
    \A o \in Objects : Exists(o) =>
        /\ cause[o] = "none" => obj[o].pointers = obj[o].strings
        /\ cause[o] = "add" => ~SizesAgree(o)
        /\ obj[o].pointers # <<>> =>
              \A n \in DOMAIN obj[o].pointers :
                  obj[o].pointers[n] \in {obj[o].strings[n], Dangling}

(* An argv that the program keeps stays good through every call on other   *)
(* objects and moves with the object: only a call that changes the object  *)
(* takes it away, and an add only when there is no room for the strings.   *)
HeldArgvIsFreedByItsOwner ==
    [][(held \in Objects /\ held' = Gone)
       => /\ reply'.on = held
          /\ \/ reply'.op \in {"destroy", "move_assign"}
             \/ /\ reply'.op \in {"add", "copy_assign"}
                /\ obj[held].room < Len(obj'[held].strings)]_argvars
=============================================================================

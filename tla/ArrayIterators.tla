--------------------------- MODULE ArrayIterators ---------------------------
(***************************************************************************)
(* The iterators of CircularArray (RandomAccessIterator and its const and  *)
(* copy versions, Sources/iterator.hpp), held while the arrays of          *)
(* CircularArrayObjects are used: an iterator is the address of an array   *)
(* and a position, an unsigned number that is not looked at before [].     *)
(* The three classes have the same members; they differ in what may be     *)
(* written through them.                                                   *)
(***************************************************************************)
EXTENDS CircularArrayObjects

CONSTANT Half      (* one more than the largest difference_type            *)

ASSUME HalfAssumption == Half \in Nat \ {0}

VARIABLE it        (* an iterator of the program                           *)

itvars == <<obj, store, lost, reply, it>>

Modulus == 2 * Half
Positions == 0 .. Modulus - 1
Differences == -Half .. Half - 1

-----------------------------------------------------------------------------
(* Arithmetic.  Every sum and difference below is at most one modulus off. *)

Unsigned(x) == IF x < 0 THEN x + Modulus ELSE IF x >= Modulus THEN x - Modulus ELSE x
Signed(x) == IF x >= Half THEN x - Modulus ELSE x

(* size_t(-n); there is no -n for the least n, and the build wraps.        *)
Negated(n) == IF n = -Half THEN Half ELSE -n

Advance(p, n) == IF n >= 0 THEN Unsigned(p + n) ELSE Unsigned(p - Negated(n))
Retreat(p, n) == IF n >= 0 THEN Unsigned(p - n) ELSE Unsigned(p + Negated(n))
Difference(p, q) == Signed(IF p >= q THEN p - q ELSE Unsigned(-(q - p)))
Less(p, q) == p < q

-----------------------------------------------------------------------------
begin(o) ==
    /\ Callable(o)
    /\ it' = [at |-> o, pos |-> 0]
    /\ Answers("begin", {o}, "returned")
    /\ UNCHANGED <<obj, store, lost>>

end(o) ==
    /\ Callable(o)
    /\ it' = [at |-> o, pos |-> obj[o].size]
    /\ Answers("end", {o}, "returned")
    /\ UNCHANGED <<obj, store, lost>>

(* ++, += and +; --, -= and -.                                             *)
move(n) ==
    /\ Alive
    /\ \/ it' = [it EXCEPT !.pos = Advance(@, n)]
       \/ it' = [it EXCEPT !.pos = Retreat(@, n)]
    /\ Answers("move", {}, "returned")
    /\ UNCHANGED <<obj, store, lost>>

(* The conditions of [] hold for place n of the array.                     *)
Granted(o, n) ==
    /\ obj[o].array # Null /\ n < obj[o].size
    /\ obj[o].size < obj[o].capacity \/ obj[o].first + n < obj[o].capacity

(* [](_pos + i) of an array that is there.                                 *)
dereference(i) ==
    LET n == Unsigned(it.pos + i)
    IN  /\ Alive
        /\ IF it.at = Null \/ (it.at \in Objects /\ ~Exists(it.at))
           THEN Answers("dereference", {}, "undefined")
           ELSE Answers("dereference", {it.at},
                        IF Granted(it.at, n) THEN "returned" ELSE "condition_failed")
        /\ UNCHANGED <<obj, store, lost, it>>

(* Through the reference of the iterator that is not const.                *)
write(i, v) ==
    LET n == Unsigned(it.pos + i)
    IN  /\ Alive /\ it.at \in Objects /\ Exists(it.at) /\ Granted(it.at, n)
        /\ store' = [store EXCEPT ![obj[it.at].array][n + 1] = v]
        /\ Answers("write", {it.at}, "returned")
        /\ UNCHANGED <<obj, lost, it>>

ItInit == Init /\ it = [at |-> Null, pos |-> 0]

ItNext ==
    \/ Next /\ UNCHANGED it
    \/ \E o \in Objects : begin(o) \/ end(o)
    \/ \E n \in Differences : move(n)
    \/ \E i \in Positions : dereference(i)
    \/ \E i \in Positions, v \in Values : write(i, v)

ItSpec == ItInit /\ [][ItNext]_itvars

-----------------------------------------------------------------------------
(* Properties.                                                             *)

(* What place n of an array holds; nothing outside.                        *)
Place(o, n) ==
    IF Exists(o) /\ obj[o].array # Null /\ n < Len(Elements(o)) THEN {Elements(o)[n + 1]}
    ELSE {}

(* An iterator names a place of an array object, not an element.  It stays *)
(* with its element when elements are added behind, when the array grows   *)
(* and whatever happens to other arrays; it slides to the next element     *)
(* when the first goes and to the one before when one is put there (an end *)
(* iterator to the last); and when its array is exchanged it names the     *)
(* other array's element.                                                  *)
IteratorNamesPlace ==
    [][(it.at \in Objects /\ UNCHANGED it /\ Alive') =>
        LET now == Place(it.at, it.pos)'
            was(n) == Place(it.at, n)
        IN  /\ it.at \notin reply'.on => now = was(it.pos)
            /\ reply'.op \in {"push_back", "reserve", "copy_construct", "dereference"}
                  => now = was(it.pos) \/ was(it.pos) = {}
            /\ (reply'.op = "pop_front" /\ it.at \in reply'.on)
                  => now = was(it.pos + 1)
            /\ (reply'.op = "push_front" /\ reply'.outcome = "returned"
                /\ it.at \in reply'.on /\ it.pos > 0)
                  => now = was(it.pos - 1)
            /\ (reply'.op = "swap" /\ it.at \in reply'.on)
                  => \E o \in Objects \ {it.at} : o \in reply'.on /\ now = Place(o, it.pos)]_itvars

(* From any position, adding any n and taking the difference gives n, and   *)
(* going back gives the position, also past either end of the numbers; the *)
(* order agrees with the sign of the difference as long as both positions  *)
(* are in the lower half.                                                  *)
ArithmeticIsExact ==
    /\ \A p \in Positions, n \in Differences :
          /\ Difference(Advance(p, n), p) = n
          /\ Retreat(Advance(p, n), n) = p
    /\ \A p, q \in 0 .. Half - 1 : Less(p, q) <=> Difference(p, q) < 0
=============================================================================

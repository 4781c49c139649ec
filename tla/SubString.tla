----------------------------- MODULE SubString -----------------------------
(***************************************************************************)
(* kss::util::strings::SubString: views on one string, which the program   *)
(* may change under them, and the copies c_str() makes and keeps.          *)
(*                                                                         *)
(* A view is its position, its size and the C string it keeps; positions   *)
(* and sizes are unsigned.  `heap' holds the C strings that are allocated. *)
(* The process has stopped after "terminated" and undefined behaviour, of  *)
(* which `outcome' says the kind.                                          *)
(***************************************************************************)
EXTENDS Integers, Sequences, FiniteSetsExt

CONSTANTS
    Views,
    Chars,
    Nul,               (* the character behind the last one of a string    *)
    MaxLength,         (* bound: characters in the string                  *)
    Width,             (* bits of a size_type                              *)
    CStrings,          (* memory for C strings                             *)
    NoCString

npos == 2 ^ Width - 1
ASSUME WidthAssumption == Width \in Nat /\ 2 ^ Width \in Nat \ {0}
ASSUME MaxLengthAssumption == MaxLength \in Nat /\ MaxLength + 1 < npos
ASSUME NoCStringAssumption == NoCString \notin CStrings

Texts == UNION {[1 .. m -> Chars] : m \in 0 .. MaxLength}

VARIABLES
    str,               (* the string all views refer to                    *)
    view,              (* [views in scope -> position, size, C string]     *)
    heap,              (* [C strings allocated -> their characters]        *)
    shared,            (* ghost: C strings that a copied view took along   *)
    outcome            (* of the last call                                 *)
vars == <<str, view, heap, shared, outcome>>

Undefined == {"reads_outside", "assigns_outside", "uses_freed", "reads_null"}
Running == outcome \in {"returned", "thrown"}
Live(v) == v \in DOMAIN view
Allocated(c) == c \in DOMAIN heap
Holders(c) == {v \in DOMAIN view : view[v].cstr = c}

(* f with x mapped to y, and f without x.                                  *)
With(f, x, y) == [z \in DOMAIN f \cup {x} |-> IF z = x THEN y ELSE f[z]]
Without(f, x) == [z \in DOMAIN f \ {x} |-> f[z]]

(* data() is not null.                                                     *)
Valid(v) == view[v].i < Len(str)
Inside(v) == Valid(v) /\ view[v].i + view[v].n <= Len(str)

(* The first m characters from data() on can be read, the Nul included.    *)
Readable(v, m) == m = 0 \/ (Valid(v) /\ view[v].i + m <= Len(str) + 1)
Data(v, m) == IF m = 0 THEN <<>> ELSE SubSeq(Append(str, Nul), view[v].i + 1, view[v].i + m)

(* The view as a string: cut at the end of the string.                     *)
AsString(v) ==
    IF ~Valid(v) \/ view[v].n = 0 THEN <<>>
    ELSE SubSeq(str, view[v].i + 1, Min({Len(str), view[v].i + view[v].n}))

Init ==
    /\ str \in Texts
    /\ view = [v \in {} |-> 0]
    /\ heap = [c \in {} |-> 0]
    /\ shared = {}
    /\ outcome = "returned"

Answer(o) == outcome' = o /\ UNCHANGED <<str, view, heap, shared>>
Place(v, i, n) ==
    /\ view' = With(view, v, [i |-> i, n |-> n, cstr |-> NoCString])
    /\ outcome' = "returned"
    /\ UNCHANGED <<str, heap, shared>>

-----------------------------------------------------------------------------
(* A position behind the end meets a postcondition; npos itself does not.  *)
(* The room left from npos on is len + 1, without sign.                    *)
construct_cut_at_length(v, i, n) ==
    /\ ~Live(v)
    /\ IF i < Len(str) THEN Place(v, i, Min({n, Len(str)})) ELSE Answer("terminated")
construct(v, i, n) ==
    /\ ~Live(v)
    /\ LET at == IF i >= Len(str) THEN npos ELSE i
           room == (Len(str) - at) % 2 ^ Width
       IN  IF at = i THEN Place(v, at, Min({n, room})) ELSE Answer("terminated")

Occurrences(text, i) ==
    {p \in i .. Len(str) - Len(text) : SubSeq(str, p + 1, p + Len(text)) = text}
construct_search(v, text, i) ==
    /\ ~Live(v)
    /\ IF Occurrences(text, i) = {} THEN Place(v, npos, 0)
       ELSE \E p \in Occurrences(text, i) :
               (\A q \in Occurrences(text, i) : p <= q) /\ Place(v, p, Len(text))

(* The class declares no copy constructor: the copy takes the pointer to   *)
(* the C string along.                                                     *)
copy_construct(v, w) ==
    /\ ~Live(v) /\ Live(w)
    /\ view' = With(view, v, view[w])
    /\ shared' = shared \cup ({view[w].cstr} \ {NoCString})
    /\ outcome' = "returned"
    /\ UNCHANGED <<str, heap>>

(* freeCStr() of a C string that was freed before is undefined.            *)
destroy(v) ==
    /\ Live(v)
    /\ LET c == view[v].cstr
       IN  IF c = NoCString
           THEN /\ view' = Without(view, v)
                /\ outcome' = "returned"
                /\ UNCHANGED <<str, heap, shared>>
           ELSE IF ~Allocated(c) THEN Answer("uses_freed")
           ELSE /\ view' = Without(view, v)
                /\ heap' = Without(heap, c)
                /\ shared' = IF Holders(c) = {v} THEN shared \ {c} ELSE shared
                /\ outcome' = "returned"
                /\ UNCHANGED str

-----------------------------------------------------------------------------
Replaced(v, text) ==
    SubSeq(str, 1, view[v].i) \o text \o SubSeq(str, view[v].i + view[v].n + 1, Len(str))

(* The writes refuse a view that keeps a C string and one out of range.    *)
Refuses(v) ==
    \/ view[v].cstr # NoCString /\ Answer("terminated")
    \/ view[v].cstr = NoCString /\ ~Valid(v) /\ Answer("thrown")
AcceptsKeepingCString(v) == Valid(v)
Accepts(v) == view[v].cstr = NoCString /\ Valid(v)

replace_in_place(v, text) ==
    /\ Len(Replaced(v, text)) <= MaxLength
    /\ str' = Replaced(v, text)
    /\ outcome' = "returned"
    /\ UNCHANGED <<view, heap, shared>>
replace(v, text) ==
    /\ Len(Replaced(v, text)) <= MaxLength
    /\ str' = Replaced(v, text)
    /\ view' = [view EXCEPT ![v].n = Len(text)]
    /\ outcome' = "returned"
    /\ UNCHANGED <<heap, shared>>

assign(v, text) == Live(v) /\ (Refuses(v) \/ (Accepts(v) /\ replace(v, text)))

(* The size of a null pointer's text is taken before anything is checked.  *)
assign_null(v) == Live(v) /\ Answer("reads_null")

(* Assignment of a view reads as many characters as this view has.         *)
assign_view(v, w) ==
    /\ Live(v) /\ Live(w)
    /\ \/ Refuses(v)
       \/ Accepts(v) /\ Readable(w, view[v].n) /\ replace(v, Data(w, view[v].n))
       \/ Accepts(v) /\ ~Readable(w, view[v].n) /\ Answer("assigns_outside")

(* c_str() keeps what it allocates; what it returns is null for a view out *)
(* of range, and dangles if a copy of the view has freed it.               *)
allocate(v, c) ==
    /\ ~Allocated(c) /\ Holders(c) = {}
    /\ heap' = With(heap, c, Data(v, view[v].n))
    /\ view' = [view EXCEPT ![v].cstr = c]
    /\ outcome' = "returned"
    /\ UNCHANGED <<str, shared>>
c_str(v) ==
    /\ Live(v)
    /\ LET c == view[v].cstr
       IN  \/ c # NoCString /\ Answer(IF Allocated(c) THEN "returned" ELSE "uses_freed")
           \/ c = NoCString /\ ~Valid(v) /\ Answer("returned")
           \/ c = NoCString /\ Valid(v) /\ ~Readable(v, view[v].n) /\ Answer("reads_outside")
           \/ c = NoCString /\ Valid(v) /\ Readable(v, view[v].n)
              /\ \E fresh \in CStrings : allocate(v, fresh)
           \/ c = NoCString /\ Valid(v) /\ Answer("thrown")      (* bad_alloc *)

(* == and <: as many characters as the smaller view has are compared, none *)
(* by == if the sizes differ.                                              *)
compare(v, w, m) ==
    Answer(IF Readable(v, m) /\ Readable(w, m) THEN "returned" ELSE "reads_outside")
equal(v, w) ==
    /\ Live(v) /\ Live(w) /\ v # w
    /\ compare(v, w, IF view[v].n = view[w].n THEN view[v].n ELSE 0)
less_of_larger(v, w) ==
    /\ Live(v) /\ Live(w) /\ v # w
    /\ compare(v, w, Max({view[v].n, view[w].n}))
less(v, w) ==
    /\ Live(v) /\ Live(w) /\ v # w
    /\ compare(v, w, Min({view[v].n, view[w].n}))

(* The same with a string, or the text at a pointer, on either side.       *)
compare_text(v, m) == Answer(IF Readable(v, m) THEN "returned" ELSE "reads_outside")
equal_text(v, text) ==
    Live(v) /\ compare_text(v, IF view[v].n = Len(text) THEN view[v].n ELSE 0)
less_text(v, text) == Live(v) /\ compare_text(v, Min({view[v].n, Len(text)}))

(* The program changes its string.                                         *)
edit(text) ==
    /\ str' = text
    /\ outcome' = "returned"
    /\ UNCHANGED <<view, heap, shared>>

Next ==
    /\ Running
    /\ \/ \E v \in Views, i \in 0 .. MaxLength, n \in 0 .. MaxLength : construct(v, i, n)
       \/ \E v \in Views : construct(v, npos, npos) \/ construct(v, 0, npos)
       \/ \E v \in Views, text \in Texts, i \in 0 .. MaxLength : construct_search(v, text, i)
       \/ \E v, w \in Views : copy_construct(v, w)
       \/ \E v \in Views : destroy(v)
       \/ \E v \in Views, text \in Texts : assign(v, text)
       \/ \E v \in Views : assign_null(v)
       \/ \E v, w \in Views : assign_view(v, w)
       \/ \E v \in Views : c_str(v)
       \/ \E v, w \in Views : equal(v, w)
       \/ \E v, w \in Views : less(v, w)
       \/ \E v \in Views, text \in Texts : equal_text(v, text)
       \/ \E v \in Views, text \in Texts : less_text(v, text)
       \/ \E text \in Texts : edit(text)

Spec == Init /\ [][Next]_vars

-----------------------------------------------------------------------------
(* The size of a view is never more than the string has had, and one, which*)
(* is the size of a view constructed at npos.                              *)
TypeOK ==
    /\ str \in Seq(Chars \cup {Nul}) /\ Len(str) <= MaxLength
    /\ DOMAIN view \subseteq Views
    /\ \A v \in DOMAIN view :
          view[v] \in [i : 0 .. npos, n : 0 .. MaxLength + 1, cstr : CStrings \cup {NoCString}]
    /\ DOMAIN heap \subseteq CStrings
    /\ \A c \in DOMAIN heap : heap[c] \in Seq(Chars \cup {Nul})
    /\ shared \subseteq CStrings
    /\ outcome \in {"returned", "thrown", "terminated"} \cup Undefined

(* Every C string that is allocated belongs to a view in scope, which will *)
(* free it with the size it was allocated with; it has one owner, and is   *)
(* there as long as that one is, unless a view that kept it was copied.    *)
CStringsAccountedFor ==
    \A c \in CStrings :
        /\ Allocated(c) => Holders(c) # {} /\ \A v \in Holders(c) : Len(heap[c]) = view[v].n
        /\ c \notin shared => \A v, w \in Holders(c) : v = w /\ Allocated(c)

(* A view lies inside the string when it is constructed, unless at npos or *)
(* after a failed search, and stops to only if the string gets shorter     *)
(* other than by a write through this view, or the view ends at its end    *)
(* and is emptied.                                                         *)
InsideUnlessShortened ==
    [][\A v \in Views :
         /\ ~Live(v) /\ Live(v)' /\ ~Inside(v)' =>
               \/ view'[v].i = npos
               \/ view'[v].n = 0 /\ view'[v].i = Len(str)
               \/ \E w \in Views : Live(w) /\ ~Inside(w) /\ copy_construct(v, w)
         /\ Live(v) /\ Live(v)' /\ Inside(v) /\ ~Inside(v)' =>
               /\ Len(str') < Len(str)
               /\ view'[v] # view[v] => view'[v].n = 0 /\ view'[v].i = Len(str')]_vars

Written(v) ==
    /\ outcome' = "returned"
    /\ (\E text \in Texts : assign(v, text)) \/ (\E w \in Views : assign_view(v, w))
Before(w, v) == view[w].i + view[w].n <= view[v].i

(* What is written through a view is what it reads afterwards; a view is   *)
(* written whole to one of its own size.  The text of every view before it *)
(* is left alone, and of every view behind it if the size stays the same.  *)
WritesThrough ==
    [][\A v \in Views :
         /\ \A text \in Texts :
              assign(v, text) /\ outcome' = "returned" => AsString(v)' = text
         /\ \A w \in Views :
              assign_view(v, w) /\ outcome' = "returned" /\ Inside(w) /\ view[w].n = view[v].n =>
                 AsString(v)' = AsString(w)
         /\ Written(v) =>
              \A w \in DOMAIN view \ {v} :
                 Before(w, v) \/ (Before(v, w) /\ view'[v].n = view[v].n) =>
                    AsString(w)' = AsString(w)]_vars

(* Reading outside the string needs a view that is not inside it, or the   *)
(* assignment of a view to a larger one; using a C string that was freed   *)
(* needs a copy of a view that kept it.                                    *)
UndefinedOnlyOutside ==
    [][/\ outcome' = "reads_outside" =>
             \E v \in DOMAIN view : view[v].n # 0 /\ ~Inside(v)
       /\ outcome' = "assigns_outside" =>
             \/ \E v \in DOMAIN view : view[v].n # 0 /\ ~Inside(v)
             \/ \E v, w \in DOMAIN view : view[w].n < view[v].n
       /\ outcome' = "uses_freed" => shared # {}]_vars
=============================================================================

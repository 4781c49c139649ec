-------------------------- MODULE SubStringProofs --------------------------
(***************************************************************************)
(* Theorems about SubString for any number of views and any string.        *)
(***************************************************************************)
EXTENDS SubString, SequenceTheorems, TLAPS

Characters == Chars \cup {Nul}
Placements == [i : Nat, n : Nat, cstr : CStrings \cup {NoCString}]

(* What the sizes of C strings and the readable range rest on.             *)
Typed ==
    /\ str \in Seq(Characters)
    /\ \A v \in DOMAIN view : view[v] \in Placements
    /\ DOMAIN heap \subseteq CStrings

IInv == Typed /\ CStringsAccountedFor

LEMMA MinOfTwo ==
    ASSUME NEW a \in Nat, NEW b \in Nat
    PROVE  Min({a, b}) \in Nat /\ Min({a, b}) <= a /\ Min({a, b}) <= b
<1>1. \E x \in {a, b} : \A y \in {a, b} : x <= y
  <2>1. CASE a <= b
    BY <2>1
  <2>2. CASE b <= a
    BY <2>2
  <2> QED BY <2>1, <2>2
<1>2. Min({a, b}) \in {a, b} /\ \A y \in {a, b} : Min({a, b}) <= y
  BY <1>1 DEF Min
<1> QED BY <1>2

(* What data() reads are characters, as many as were asked for.            *)
LEMMA DataRead ==
    ASSUME Typed, NEW v \in DOMAIN view, NEW m \in Nat, Readable(v, m)
    PROVE  Data(v, m) \in Seq(Characters) /\ Len(Data(v, m)) = m
<1>1. CASE m = 0
  BY <1>1 DEF Data
<1>2. CASE m # 0
  <2> DEFINE all == Append(str, Nul)
             from == view[v].i + 1
             to == view[v].i + m
  <2>1. str \in Seq(Characters) /\ view[v].i \in Nat /\ view[v].i + m <= Len(str) + 1
    BY <1>2 DEF Typed, Placements, Readable
  <2>2. all \in Seq(Characters) /\ Len(all) = Len(str) + 1
    BY <2>1 DEF Characters
  <2>3. /\ from \in Int /\ to \in Int /\ 1 <= from /\ from <= to + 1 /\ to <= Len(all)
        /\ to - from + 1 = m
    <3> DEFINE i == view[v].i
               len == Len(all)
    <3>1. i \in Nat /\ len \in Nat /\ i + m <= len
      BY <2>1, <2>2
    <3>2. from = i + 1 /\ to = i + m
      OBVIOUS
    <3> HIDE DEF i, len, from, to, all
    <3>3. /\ from \in Int /\ to \in Int /\ 1 <= from /\ from <= to + 1 /\ to <= len
          /\ to - from + 1 = m
      BY <3>1, <3>2
    <3> QED BY <3>3 DEF len
  <2>4. Data(v, m) = SubSeq(all, from, to)
    BY <1>2 DEF Data
  <2>5. \A k \in from .. to : k \in 1 .. Len(all)
    BY <2>3
  <2> HIDE DEF all, from, to
  <2>6. \A k \in from .. to : all[k] \in Characters
    BY <2>2, <2>5, ElementOfSeq
  <2>7. /\ SubSeq(all, from, to) \in Seq(Characters)
        /\ Len(SubSeq(all, from, to)) = IF from <= to THEN to - from + 1 ELSE 0
    BY <2>3, <2>6, SubSeqProperties
  <2>8. from <= to
    BY <1>2, <2>3
  <2> QED BY <2>3, <2>4, <2>7, <2>8
<1> QED BY <1>1, <1>2

LEMMA RoomIsNat ==
    ASSUME Typed
    PROVE  /\ npos \in Nat
           /\ \A at \in Nat : (Len(str) - at) % 2 ^ Width \in Nat
BY WidthAssumption DEF Typed, npos

(* A new view that keeps no C string.                                      *)
LEMMA PlaceKeeps ==
    ASSUME IInv, NEW v \in Views, ~Live(v), NEW i \in Nat, NEW n \in Nat, Place(v, i, n)
    PROVE  IInv'
<1>1. /\ DOMAIN view' = DOMAIN view \cup {v}
      /\ \A w \in DOMAIN view : view'[w] = view[w]
      /\ view'[v] = [i |-> i, n |-> n, cstr |-> NoCString]
  BY DEF Place, With, Live
<1>2. heap' = heap /\ shared' = shared /\ str' = str
  BY DEF Place
<1>3. Typed'
  BY <1>1, <1>2 DEF IInv, Typed, Placements
<1>4. \A c \in CStrings : Holders(c)' = Holders(c)
  BY <1>1, NoCStringAssumption DEF Holders, Live
<1>5. CStringsAccountedFor'
  BY <1>1, <1>2, <1>4 DEF IInv, CStringsAccountedFor, Allocated, Holders
<1> QED BY <1>3, <1>5 DEF IInv

LEMMA CopyKeeps ==
    ASSUME IInv, NEW v \in Views, NEW w \in Views, copy_construct(v, w)
    PROVE  IInv'
<1>1. /\ w \in DOMAIN view /\ v \notin DOMAIN view
      /\ DOMAIN view' = DOMAIN view \cup {v}
      /\ \A u \in DOMAIN view : view'[u] = view[u]
      /\ view'[v] = view[w]
  BY DEF copy_construct, With, Live
<1>2. heap' = heap /\ str' = str /\ shared' = shared \cup ({view[w].cstr} \ {NoCString})
  BY DEF copy_construct
<1>3. Typed'
  BY <1>1, <1>2 DEF IInv, Typed
<1>4. ASSUME NEW c \in CStrings
      PROVE  /\ Allocated(c)' => Holders(c)' # {} /\ \A u \in Holders(c)' : Len(heap'[c]) = view'[u].n
             /\ c \notin shared' => \A u, x \in Holders(c)' : u = x /\ Allocated(c)'
  <2>1. CASE view[w].cstr = c
    <3>1. Holders(c)' = Holders(c) \cup {v} /\ w \in Holders(c) /\ c \in shared'
      BY <1>1, <1>2, <2>1, NoCStringAssumption DEF Holders
    <3> QED BY <1>1, <1>2, <3>1 DEF IInv, CStringsAccountedFor, Allocated, Holders
  <2>2. CASE view[w].cstr # c
    <3>1. Holders(c)' = Holders(c) /\ (c \in shared' <=> c \in shared)
      BY <1>1, <1>2, <2>2 DEF Holders
    <3> QED BY <1>1, <1>2, <3>1 DEF IInv, CStringsAccountedFor, Allocated, Holders
  <2> QED BY <2>1, <2>2
<1> QED BY <1>3, <1>4 DEF IInv, CStringsAccountedFor

LEMMA DestroyKeeps ==
    ASSUME IInv, NEW v \in Views, destroy(v)
    PROVE  IInv'
<1> DEFINE own == view[v].cstr
<1>0. v \in DOMAIN view
  BY DEF destroy, Live
<1>1. CASE own # NoCString /\ ~Allocated(own)
  BY <1>1 DEF destroy, Answer, IInv, Typed, CStringsAccountedFor, Holders, Allocated
<1>2. CASE own = NoCString
  <2>1. view' = Without(view, v) /\ heap' = heap /\ shared' = shared /\ str' = str
    BY <1>2 DEF destroy
  <2>2. DOMAIN view' = DOMAIN view \ {v} /\ \A w \in DOMAIN view' : view'[w] = view[w]
    BY <2>1 DEF Without
  <2>3. \A c \in CStrings : Holders(c)' = Holders(c)
    BY <1>2, <2>2, NoCStringAssumption DEF Holders
  <2>4. CStringsAccountedFor'
    BY <2>1, <2>2, <2>3 DEF IInv, CStringsAccountedFor, Allocated, Holders
  <2> QED BY <2>1, <2>2, <2>4 DEF IInv, Typed
<1>3. CASE own # NoCString /\ Allocated(own)
  <2>1. /\ view' = Without(view, v) /\ heap' = Without(heap, own) /\ str' = str
        /\ shared' = IF Holders(own) = {v} THEN shared \ {own} ELSE shared
    BY <1>3 DEF destroy
  <2>2. DOMAIN view' = DOMAIN view \ {v} /\ \A w \in DOMAIN view' : view'[w] = view[w]
    BY <2>1 DEF Without
  <2>3. DOMAIN heap' = DOMAIN heap \ {own} /\ \A c \in DOMAIN heap' : heap'[c] = heap[c]
    BY <2>1 DEF Without
  <2>4. ASSUME NEW c \in CStrings
        PROVE  /\ Allocated(c)' => Holders(c)' # {} /\ \A u \in Holders(c)' : Len(heap'[c]) = view'[u].n
               /\ c \notin shared' => \A u, x \in Holders(c)' : u = x /\ Allocated(c)'
    <3>1. CASE c = own
      <4>1. Holders(c)' = Holders(c) \ {v} /\ v \in Holders(c) /\ ~Allocated(c)'
        BY <1>0, <2>2, <2>3, <3>1 DEF Holders, Allocated
      <4>2. c \notin shared' => Holders(c)' = {}
        BY <2>1, <3>1, <4>1 DEF IInv, CStringsAccountedFor
      <4> QED BY <4>1, <4>2
    <3>2. CASE c # own
      <4>1. Holders(c)' = Holders(c) /\ (Allocated(c)' <=> Allocated(c))
            /\ (c \in shared' <=> c \in shared)
        BY <2>1, <2>2, <2>3, <3>2 DEF Holders, Allocated
      <4>2. \A u \in Holders(c)' : view'[u] = view[u]
        BY <2>2 DEF Holders
      <4>3. Allocated(c)' => heap'[c] = heap[c]
        BY <2>3 DEF Allocated
      <4> QED BY <4>1, <4>2, <4>3 DEF IInv, CStringsAccountedFor
    <3> QED BY <3>1, <3>2
  <2> QED BY <2>1, <2>2, <2>3, <2>4 DEF IInv, Typed, CStringsAccountedFor
<1> QED BY <1>1, <1>2, <1>3

(* A view that is written keeps no C string, so that none changes its size.*)
LEMMA ReplaceKeeps ==
    ASSUME IInv, NEW v \in DOMAIN view, Accepts(v),
           NEW text \in Seq(Characters), replace(v, text)
    PROVE  IInv'
<1>1. view[v] \in Placements /\ view[v].cstr = NoCString /\ str \in Seq(Characters)
      /\ view[v].i < Len(str)
  BY DEF IInv, Typed, Accepts, Valid
<1>2. heap' = heap /\ shared' = shared /\ str' = Replaced(v, text)
      /\ view' = [view EXCEPT ![v].n = Len(text)]
  BY DEF replace
<1>3. DOMAIN view' = DOMAIN view /\ (\A w \in DOMAIN view \ {v} : view'[w] = view[w])
      /\ view'[v] \in Placements /\ view'[v].cstr = NoCString
  BY <1>1, <1>2 DEF Placements
<1>4. str' \in Seq(Characters)
  <2>1. SubSeq(str, 1, view[v].i) \in Seq(Characters)
    BY <1>1 DEF Placements
  <2>2. SubSeq(str, view[v].i + view[v].n + 1, Len(str)) \in Seq(Characters)
    BY <1>1 DEF Placements
  <2> QED BY <1>2, <2>1, <2>2 DEF Replaced
<1>5. \A c \in CStrings : Holders(c)' = Holders(c) /\ v \notin Holders(c)
  BY <1>1, <1>3, NoCStringAssumption DEF Holders
<1>6. CStringsAccountedFor'
  BY <1>2, <1>3, <1>5 DEF IInv, CStringsAccountedFor, Allocated, Holders
<1> QED BY <1>2, <1>3, <1>4, <1>6 DEF IInv, Typed

LEMMA AnswerKeeps == ASSUME IInv, NEW o, Answer(o) PROVE IInv'
BY DEF Answer, IInv, Typed, CStringsAccountedFor, Holders, Allocated

LEMMA AllocateKeeps ==
    ASSUME IInv, NEW v \in DOMAIN view, NEW c \in CStrings, view[v].cstr = NoCString,
           Readable(v, view[v].n), allocate(v, c)
    PROVE  IInv'
<1>1. view[v] \in Placements /\ Len(Data(v, view[v].n)) = view[v].n
  BY DataRead DEF IInv, Typed, Placements
<1>2. /\ str' = str /\ shared' = shared /\ c \notin DOMAIN heap /\ Holders(c) = {}
      /\ DOMAIN heap' = DOMAIN heap \cup {c} /\ heap'[c] = Data(v, view[v].n)
      /\ \A d \in DOMAIN heap : heap'[d] = heap[d]
      /\ view' = [view EXCEPT ![v].cstr = c]
  BY DEF allocate, With, Allocated
<1>3. DOMAIN view' = DOMAIN view /\ (\A w \in DOMAIN view \ {v} : view'[w] = view[w])
      /\ view'[v] \in Placements /\ view'[v].cstr = c /\ view'[v].n = view[v].n
  BY <1>1, <1>2 DEF Placements
<1>4. Typed'
  BY <1>2, <1>3 DEF IInv, Typed
<1>5. Holders(c)' = {v}
  BY <1>2, <1>3 DEF Holders
<1>6. \A d \in CStrings \ {c} : Holders(d)' = Holders(d) /\ v \notin Holders(d)
  BY <1>3, NoCStringAssumption DEF Holders
<1>7. \A d \in CStrings \ {c} : (Allocated(d)' <=> Allocated(d))
                                /\ (Allocated(d) => heap'[d] = heap[d])
                                /\ \A w \in Holders(d) : view'[w] = view[w]
  BY <1>2, <1>3, <1>6 DEF Allocated, Holders
<1>8. Allocated(c)' /\ Len(heap'[c]) = view'[v].n
  BY <1>1, <1>2, <1>3 DEF Allocated
<1>9. ASSUME NEW d \in CStrings
      PROVE  /\ Allocated(d)' => Holders(d)' # {} /\ \A u \in Holders(d)' : Len(heap'[d]) = view'[u].n
             /\ d \notin shared' => \A u, x \in Holders(d)' : u = x /\ Allocated(d)'
  <2>1. CASE d = c
    BY <1>5, <1>8, <2>1
  <2>2. CASE d # c
    <3>1. /\ Allocated(d) => Holders(d) # {} /\ \A u \in Holders(d) : Len(heap[d]) = view[u].n
          /\ d \notin shared => \A u, x \in Holders(d) : u = x /\ Allocated(d)
      BY DEF IInv, CStringsAccountedFor
    <3> QED BY <1>2, <1>6, <1>7, <2>2, <3>1
  <2> QED BY <2>1, <2>2
<1> QED BY <1>4, <1>9 DEF IInv, CStringsAccountedFor

LEMMA AssignKeeps ==
    ASSUME IInv, NEW v \in DOMAIN view, NEW text \in Seq(Characters),
           Refuses(v) \/ (Accepts(v) /\ replace(v, text))
    PROVE  IInv'
BY ReplaceKeeps, AnswerKeeps DEF Refuses

LEMMA Initially == Init => IInv
BY DEF Init, IInv, Typed, CStringsAccountedFor, Holders, Allocated, Texts, Characters

LEMMA Steps == ASSUME IInv, [Next]_vars PROVE IInv'
<1>1. CASE UNCHANGED vars
  BY <1>1 DEF vars, IInv, Typed, CStringsAccountedFor, Holders, Allocated
<1>2. ASSUME NEW v \in Views, NEW i \in Nat, NEW n \in Nat, construct(v, i, n) PROVE IInv'
  <2> DEFINE at == IF i >= Len(str) THEN npos ELSE i
             room == (Len(str) - at) % 2 ^ Width
  <2>1. ~Live(v) /\ (Place(v, at, Min({n, room})) \/ Answer("terminated"))
    BY <1>2 DEF construct
  <2>2. at \in Nat /\ room \in Nat
    BY RoomIsNat DEF IInv
  <2> HIDE DEF at, room
  <2>3. Min({n, room}) \in Nat
    BY <2>2, MinOfTwo
  <2> QED BY <2>1, <2>2, <2>3, PlaceKeeps, AnswerKeeps
<1>3. ASSUME NEW v \in Views, NEW text \in Texts, NEW i \in Nat, construct_search(v, text, i)
      PROVE  IInv'
  <2>1. ~Live(v) /\ Len(text) \in Nat /\ npos \in Nat
    BY <1>3, RoomIsNat DEF construct_search, Texts, IInv
  <2>2. CASE Place(v, npos, 0)
    BY <2>1, <2>2, PlaceKeeps
  <2>3. ASSUME NEW p \in Occurrences(text, i), Place(v, p, Len(text)) PROVE IInv'
    <3>1. p \in Nat
      BY DEF Occurrences, IInv, Typed
    <3> QED BY <2>1, <2>3, <3>1, PlaceKeeps
  <2> QED BY <1>3, <2>2, <2>3 DEF construct_search
<1>4. ASSUME NEW v \in Views, NEW text \in Texts, assign(v, text) PROVE IInv'
  <2>1. text \in Seq(Characters) /\ v \in DOMAIN view
    BY <1>4 DEF assign, Live, Texts, Characters
  <2> QED BY <1>4, <2>1, AssignKeeps DEF assign
<1>5. ASSUME NEW v \in Views, NEW w \in Views, assign_view(v, w) PROVE IInv'
  <2>1. v \in DOMAIN view /\ w \in DOMAIN view /\ view[v].n \in Nat
    BY <1>5 DEF assign_view, Live, IInv, Typed, Placements
  <2>2. CASE Accepts(v) /\ Readable(w, view[v].n) /\ replace(v, Data(w, view[v].n))
    BY <2>1, <2>2, DataRead, AssignKeeps DEF IInv
  <2> QED BY <1>5, <2>2, AnswerKeeps DEF assign_view, Refuses
<1>6. ASSUME NEW v \in Views, c_str(v) PROVE IInv'
  <2>1. v \in DOMAIN view
    BY <1>6 DEF c_str, Live
  <2>2. ASSUME view[v].cstr = NoCString, Readable(v, view[v].n),
               NEW fresh \in CStrings, allocate(v, fresh)
        PROVE  IInv'
    BY <2>1, <2>2, AllocateKeeps
  <2> QED BY <1>6, <2>2, AnswerKeeps DEF c_str
<1>7. ASSUME NEW text \in Texts, edit(text) PROVE IInv'
  BY <1>7 DEF edit, Texts, Characters, IInv, Typed, CStringsAccountedFor, Holders, Allocated
<1>8. ASSUME NEW v \in Views, assign_null(v) \/ \E w \in Views : equal(v, w) \/ less(v, w)
      PROVE  IInv'
  BY <1>8, AnswerKeeps DEF assign_null, equal, less, compare
<1>9. ASSUME NEW v \in Views, NEW text, equal_text(v, text) \/ less_text(v, text) PROVE IInv'
  BY <1>9, AnswerKeeps DEF equal_text, less_text, compare_text
<1>10. CASE Next
  <2>1. 0 \in Nat /\ npos \in Nat /\ 0 .. MaxLength \subseteq Nat
    BY RoomIsNat, MaxLengthAssumption DEF IInv
  <2> QED
    BY <1>2, <1>3, <1>4, <1>5, <1>6, <1>7, <1>8, <1>9, <1>10, <2>1, CopyKeeps, DestroyKeeps DEF Next
<1> QED BY <1>1, <1>10

(* Every C string has a view in scope that will free it with its size, and *)
(* only one unless a view that kept it was copied.                         *)
THEOREM CStringsCorrect == Spec => []CStringsAccountedFor
<1>1. IInv => CStringsAccountedFor
  BY DEF IInv
<1> QED BY <1>1, Initially, Steps, PTL DEF Spec

(* A view inside the string can be read in its whole length.               *)
LEMMA InsideIsReadable ==
    ASSUME IInv, NEW v \in DOMAIN view, NEW m \in Nat, m <= view[v].n, ~Readable(v, m)
    PROVE  view[v].n # 0 /\ ~Inside(v)
BY DEF IInv, Typed, Placements, Readable, Inside, Valid

Outside == \E v \in DOMAIN view : view[v].n # 0 /\ ~Inside(v)
Excused ==
    /\ outcome' = "reads_outside" => Outside
    /\ outcome' = "assigns_outside" =>
          Outside \/ \E v, w \in DOMAIN view : view[w].n < view[v].n
    /\ outcome' = "uses_freed" => shared # {}

LEMMA DefinedStep ==
    ASSUME outcome' \in {"returned", "thrown", "terminated", "reads_null"}
    PROVE  Excused
BY DEF Excused

LEMMA UndefinedStep == ASSUME IInv, Next PROVE Excused
<1>0. \A v \in DOMAIN view : view[v] \in Placements
  BY DEF IInv, Typed
<1>1. ASSUME NEW v \in DOMAIN view, NEW c \in CStrings, view[v].cstr = c, ~Allocated(c)
      PROVE  shared # {}
  BY <1>1 DEF IInv, CStringsAccountedFor, Holders
<1>2. ASSUME NEW v \in DOMAIN view, NEW m \in Nat, m <= view[v].n, ~Readable(v, m)
      PROVE  Outside
  BY <1>2, InsideIsReadable DEF Outside
<1>3. ASSUME NEW v \in Views, destroy(v) PROVE Excused
  BY <1>0, <1>1, <1>3 DEF destroy, Answer, Live, Placements, Excused
<1>4. ASSUME NEW v \in Views, c_str(v) PROVE Excused
  <2>1. v \in DOMAIN view /\ view[v].n \in Nat /\ view[v].n <= view[v].n
        /\ view[v].cstr \in CStrings \cup {NoCString}
    BY <1>0, <1>4 DEF c_str, Live, Placements
  <2>2. CASE view[v].cstr # NoCString
    BY <1>1, <1>4, <2>1, <2>2 DEF c_str, Answer, Excused
  <2>3. CASE view[v].cstr = NoCString /\ ~Readable(v, view[v].n)
    BY <1>2, <1>4, <2>1, <2>3 DEF c_str, Answer, Excused
  <2>4. CASE view[v].cstr = NoCString /\ Readable(v, view[v].n)
    BY <1>4, <2>4, DefinedStep DEF c_str, Answer, allocate
  <2> QED BY <2>2, <2>3, <2>4
<1>5. ASSUME NEW v \in Views, NEW w \in Views, assign_view(v, w) PROVE Excused
  <2>1. v \in DOMAIN view /\ w \in DOMAIN view
        /\ view[v].n \in Nat /\ view[w].n \in Nat
    BY <1>0, <1>5 DEF assign_view, Live, Placements
  <2>2. CASE ~Readable(w, view[v].n) /\ outcome' = "assigns_outside"
    <3>1. CASE view[w].n < view[v].n
      BY <2>1, <2>2, <3>1 DEF Excused
    <3>2. CASE view[v].n <= view[w].n
      BY <1>2, <2>1, <2>2, <3>2 DEF Excused
    <3> QED BY <2>1, <3>1, <3>2
  <2> QED BY <1>5, <2>2, DefinedStep DEF assign_view, Refuses, Answer, replace
<1>6. ASSUME NEW v \in DOMAIN view, NEW w \in DOMAIN view, NEW m \in Nat,
             m <= view[v].n, m <= view[w].n, compare(v, w, m)
      PROVE  Excused
  BY <1>2, <1>6 DEF compare, Answer, Excused
<1>7. ASSUME NEW v \in Views, NEW w \in Views, equal(v, w) PROVE Excused
  BY <1>0, <1>6, <1>7 DEF equal, Live, Placements
<1>8. ASSUME NEW v \in Views, NEW w \in Views, less(v, w) PROVE Excused
  <2>1. v \in DOMAIN view /\ w \in DOMAIN view /\ view[v].n \in Nat /\ view[w].n \in Nat
    BY <1>0, <1>8 DEF less, Live, Placements
  <2> QED BY <1>6, <1>8, <2>1, MinOfTwo DEF less
<1>9. ASSUME NEW v \in Views, NEW text \in Texts, equal_text(v, text) \/ less_text(v, text)
      PROVE  Excused
  <2>1. v \in DOMAIN view /\ view[v].n \in Nat /\ Len(text) \in Nat
    BY <1>0, <1>9 DEF equal_text, less_text, Live, Placements, Texts
  <2>2. ASSUME NEW m \in Nat, m <= view[v].n, compare_text(v, m) PROVE Excused
    BY <1>2, <2>1, <2>2 DEF compare_text, Answer, Excused
  <2>3. CASE equal_text(v, text)
    BY <2>1, <2>2, <2>3 DEF equal_text
  <2>4. CASE less_text(v, text)
    BY <2>1, <2>2, <2>4, MinOfTwo DEF less_text
  <2> QED BY <1>9, <2>3, <2>4
<1>10. ASSUME NEW v \in Views, NEW i, NEW n, construct(v, i, n) PROVE Excused
  BY <1>10, DefinedStep DEF construct, Place, Answer
<1>11. ASSUME NEW v \in Views, NEW text \in Texts, NEW i, construct_search(v, text, i)
       PROVE  Excused
  BY <1>11, DefinedStep DEF construct_search, Place
<1>12. ASSUME NEW v \in Views, NEW text \in Texts, assign(v, text) PROVE Excused
  BY <1>12, DefinedStep DEF assign, Refuses, Answer, replace
<1>13. ASSUME NEW v \in Views, assign_null(v) PROVE Excused
  BY <1>13, DefinedStep DEF assign_null, Answer
<1>14. ASSUME NEW text, edit(text) PROVE Excused
  BY <1>14, DefinedStep DEF edit
<1>15. ASSUME NEW v \in Views, NEW w \in Views, copy_construct(v, w) PROVE Excused
  BY <1>15, DefinedStep DEF copy_construct
<1> QED
  BY <1>3, <1>4, <1>5, <1>7, <1>8, <1>9, <1>10, <1>11, <1>12, <1>13, <1>14, <1>15 DEF Next

(* A program reads outside its string only through a view that lies outside*)
(* or by the assignment of a view to a larger one, and uses a C string that*)
(* was freed only after it copied a view that kept one.                    *)
THEOREM UndefinedCorrect == Spec => UndefinedOnlyOutside
<1>1. IInv /\ [Next]_vars => [Excused]_vars
  BY UndefinedStep
<1>2. [Excused]_vars =>
        [/\ outcome' = "reads_outside" =>
               \E v \in DOMAIN view : view[v].n # 0 /\ ~Inside(v)
         /\ outcome' = "assigns_outside" =>
               \/ \E v \in DOMAIN view : view[v].n # 0 /\ ~Inside(v)
               \/ \E v, w \in DOMAIN view : view[w].n < view[v].n
         /\ outcome' = "uses_freed" => shared # {}]_vars
  BY DEF Excused, Outside
<1> QED BY <1>1, <1>2, Initially, Steps, PTL DEF Spec, UndefinedOnlyOutside

-----------------------------------------------------------------------------
(* Where the views are.                                                    *)

(* The room left is what it should be: positions and lengths are below npos.*)
LEMMA Room ==
    ASSUME TypeOK
    PROVE  /\ Len(str) \in Nat /\ Len(str) < npos /\ npos \in Nat
           /\ \A i \in Nat : i < Len(str) => (Len(str) - i) % 2 ^ Width = Len(str) - i
           /\ (Len(str) - npos) % 2 ^ Width = Len(str) + 1
<1> DEFINE N == 2 ^ Width
           L == Len(str)
<1>1. N \in Nat \ {0} /\ npos = N - 1
  BY WidthAssumption DEF npos
<1>2. L \in Nat /\ L + 1 < npos
  BY MaxLengthAssumption, <1>1 DEF TypeOK
<1> HIDE DEF N, L
<1>3. \A i \in Nat : i < L => (L - i) % N = L - i
  <2> SUFFICES ASSUME NEW i \in Nat, i < L PROVE (L - i) % N = L - i
    OBVIOUS
  <2>1. L - i \in Nat /\ L - i < N
    BY <1>1, <1>2
  <2> DEFINE d == L - i
  <2> HIDE DEF d
  <2>2. d \in Nat /\ d < N
    BY <2>1 DEF d
  <2>3. d % N = d
    BY <1>1, <2>2
  <2> QED BY <2>3 DEF d
<1>4. (L - npos) % N = L + 1
  <2> DEFINE d == L - npos
  <2>1. d \in Int /\ 0 <= d + N /\ d + N < N /\ d + N = L + 1
    BY <1>1, <1>2
  <2> HIDE DEF d
  <2>2. d % N = d + N
    BY <1>1, <2>1
  <2> QED BY <2>1, <2>2 DEF d
<1> QED BY <1>1, <1>2, <1>3, <1>4 DEF N, L

LEMMA TextTyped ==
    ASSUME NEW text \in Texts
    PROVE  text \in Seq(Characters) /\ Len(text) \in 0 .. MaxLength
BY MaxLengthAssumption DEF Texts, Characters

(* A view the first constructor places is inside, or at npos.              *)
LEMMA ConstructPlaces ==
    ASSUME TypeOK, NEW v, NEW i \in Nat, NEW n \in Nat, construct(v, i, n)
    PROVE  \/ Answer("terminated")
           \/ \E m \in 0 .. MaxLength + 1 :
                /\ Place(v, i, m)
                /\ \/ i = npos
                   \/ i < Len(str) /\ i + m <= Len(str)
<1> DEFINE at == IF i >= Len(str) THEN npos ELSE i
           room == (Len(str) - at) % 2 ^ Width
<1>1. \/ Answer("terminated")
      \/ at = i /\ Place(v, at, Min({n, room}))
  BY DEF construct
<1>2. MaxLength \in Nat /\ Len(str) <= MaxLength
  BY MaxLengthAssumption DEF TypeOK
<1>3. CASE at = i /\ i < Len(str) /\ Place(v, at, Min({n, room}))
  <2>1. room = Len(str) - i /\ room \in Nat
    BY <1>3, Room
  <2> HIDE DEF at, room
  <2>2. Min({n, room}) \in Nat /\ Min({n, room}) <= room
    BY <2>1, MinOfTwo
  <2> DEFINE m == Min({n, room})
  <2> HIDE DEF m
  <2>3. m \in 0 .. MaxLength + 1 /\ i + m <= Len(str) /\ Place(v, i, m)
    BY <1>2, <1>3, <2>1, <2>2, Room DEF m
  <2> QED BY <1>3, <2>3
<1>4. CASE at = i /\ ~(i < Len(str)) /\ Place(v, at, Min({n, room}))
  <2>1. i = npos /\ room = Len(str) + 1 /\ room \in Nat
    BY <1>4, Room
  <2> HIDE DEF at, room
  <2>2. Min({n, room}) \in Nat /\ Min({n, room}) <= room
    BY <2>1, MinOfTwo
  <2> DEFINE m == Min({n, room})
  <2> HIDE DEF m
  <2>3. m \in 0 .. MaxLength + 1 /\ Place(v, i, m)
    BY <1>2, <1>4, <2>1, <2>2, Room DEF m
  <2> QED BY <2>1, <2>3
<1> QED BY <1>1, <1>3, <1>4

(* A search places it where the text was found, or at npos.                *)
LEMMA SearchPlaces ==
    ASSUME TypeOK, NEW v, NEW text \in Texts, NEW i \in Nat, construct_search(v, text, i)
    PROVE  \/ Place(v, npos, 0)
           \/ \E p \in Nat : p + Len(text) <= Len(str) /\ Place(v, p, Len(text))
<1>1. ASSUME NEW p \in Occurrences(text, i) PROVE p \in Nat /\ p + Len(text) <= Len(str)
  BY TextTyped, Room DEF Occurrences
<1> QED BY <1>1 DEF construct_search

(* What a write leaves of the string, position by position.                *)
Rest(v) ==
    IF view[v].i + view[v].n <= Len(str) THEN Len(str) - (view[v].i + view[v].n) ELSE 0
ReplacedAs(v, text, i, n, rest, s) ==
    /\ i \in Nat /\ n \in Nat /\ i < Len(str) /\ rest \in Nat
    /\ s \in Seq(Characters) /\ Len(s) = i + Len(text) + rest
    /\ \A k \in 1 .. i : s[k] = str[k]
    /\ \A k \in 1 .. Len(text) : s[i + k] = text[k]
    /\ \A k \in 1 .. rest : s[i + Len(text) + k] = str[i + n + k]

LEMMA ReplacedText ==
    ASSUME TypeOK, NEW v \in DOMAIN view, Valid(v), NEW text \in Seq(Characters)
    PROVE  ReplacedAs(v, text, view[v].i, view[v].n, Rest(v), Replaced(v, text))
<1> DEFINE i == view[v].i
           n == view[v].n
           rest == IF i + n <= Len(str) THEN Len(str) - (i + n) ELSE 0
           front == SubSeq(str, 1, i)
           behind == SubSeq(str, i + n + 1, Len(str))
<1>1. i \in Nat /\ n \in Nat /\ i < Len(str) /\ Len(str) \in Nat /\ str \in Seq(Characters)
  BY Room DEF TypeOK, Valid, Characters
<1>2. rest \in Nat
  BY <1>1
<1>3. front \in Seq(Characters) /\ Len(front) = i /\ \A k \in 1 .. i : front[k] = str[k]
  BY <1>1
<1>4. behind \in Seq(Characters) /\ Len(behind) = rest /\ \A k \in 1 .. rest : behind[k] = str[i + n + k]
  <2> HIDE DEF i, n
  <2> DEFINE from == i + n + 1
             to == Len(str)
  <2>1. from \in Int /\ to \in Int /\ \A k \in from .. to : str[k] \in Characters
    BY <1>1
  <2>2. behind = SubSeq(str, from, to)
    BY DEF i, n
  <2>3. /\ behind \in Seq(Characters)
        /\ Len(behind) = IF from <= to THEN to - from + 1 ELSE 0
        /\ \A k \in 1 .. to - from + 1 : behind[k] = str[from + k - 1]
    <3> HIDE DEF from, to, behind
    <3> QED BY <2>1, <2>2, SubSeqProperties
  <2>4. Len(behind) = rest
    BY <1>1, <2>3
  <2>5. \A k \in 1 .. rest : k \in 1 .. to - from + 1 /\ from + k - 1 = i + n + k
    BY <1>1
  <2> QED BY <2>3, <2>4, <2>5
<1>5. Replaced(v, text) = (front \o text) \o behind
  BY DEF Replaced
<1> HIDE DEF i, n, rest, front, behind
<1> DEFINE half == front \o text
<1>6. /\ half \in Seq(Characters) /\ Len(half) = i + Len(text) /\ Len(text) \in Nat
      /\ \A k \in 1 .. i : half[k] = front[k]
      /\ \A k \in 1 .. Len(text) : half[i + k] = text[k]
  <2>1. /\ half \in Seq(Characters) /\ Len(half) = Len(front) + Len(text)
        /\ \A k \in 1 .. Len(front) + Len(text) :
              half[k] = IF k <= Len(front) THEN front[k] ELSE text[k - Len(front)]
    <3>1. front \in Seq(Characters) /\ text \in Seq(Characters)
      BY <1>3
    <3> QED BY ONLY <3>1, ConcatProperties DEF half
  <2> DEFINE b == Len(text)
  <2> HIDE DEF half
  <2>2. b \in Nat /\ i \in Nat /\ Len(front) = i
    BY <1>1, <1>3
  <2> HIDE DEF b
  <2>3. \A k \in 1 .. i : k \in 1 .. i + b /\ k <= i
    BY <2>2
  <2>4. \A k \in 1 .. b : i + k \in 1 .. i + b /\ ~(i + k <= i) /\ i + k - i = k
    BY <2>2
  <2>5. Len(half) = Len(front) + b /\ \A k \in 1 .. Len(front) + b :
              half[k] = IF k <= Len(front) THEN front[k] ELSE text[k - Len(front)]
    BY <2>1 DEF b
  <2>6. /\ Len(half) = i + b /\ \A k \in 1 .. i : half[k] = front[k]
        /\ \A k \in 1 .. b : half[i + k] = text[k]
    BY <2>2, <2>3, <2>4, <2>5
  <2> QED BY <2>1, <2>2, <2>6 DEF b
<1> HIDE DEF half
<1> DEFINE s == half \o behind
<1>7. /\ s \in Seq(Characters) /\ Len(s) = i + Len(text) + rest
      /\ \A k \in 1 .. i + Len(text) : s[k] = half[k]
      /\ \A k \in 1 .. rest : s[i + Len(text) + k] = behind[k]
  <2>1. /\ s \in Seq(Characters) /\ Len(s) = Len(half) + Len(behind)
        /\ \A k \in 1 .. Len(half) + Len(behind) :
              s[k] = IF k <= Len(half) THEN half[k] ELSE behind[k - Len(half)]
    <3>1. half \in Seq(Characters) /\ behind \in Seq(Characters)
      BY <1>4, <1>6
    <3> QED BY ONLY <3>1, ConcatProperties DEF s
  <2> DEFINE a == i + Len(text)
  <2> HIDE DEF s
  <2>2. a \in Nat /\ Len(half) = a /\ Len(behind) = rest
    BY <1>1, <1>4, <1>6
  <2> HIDE DEF a
  <2>3. \A k \in 1 .. a : k \in 1 .. a + rest /\ k <= a
    BY <1>2, <2>2
  <2>4. \A k \in 1 .. rest : a + k \in 1 .. a + rest /\ ~(a + k <= a) /\ a + k - a = k
    BY <1>2, <2>2
  <2>5. /\ Len(s) = a + rest /\ \A k \in 1 .. a : s[k] = half[k]
        /\ \A k \in 1 .. rest : s[a + k] = behind[k]
    BY <2>1, <2>2, <2>3, <2>4
  <2> QED BY <2>1, <2>5 DEF a
<1> HIDE DEF s
<1>8. s = Replaced(v, text)
  BY <1>5 DEF s, half
<1>9. \A k \in 1 .. i : k \in 1 .. i + Len(text)
  BY <1>1, <1>6
<1>10. \A k \in 1 .. Len(text) : i + k \in 1 .. i + Len(text)
  BY <1>1, <1>6
<1>11. /\ \A k \in 1 .. i : s[k] = str[k]
       /\ \A k \in 1 .. Len(text) : s[i + k] = text[k]
       /\ \A k \in 1 .. rest : s[i + Len(text) + k] = str[i + n + k]
  <2>1. \A k \in 1 .. i : s[k] = str[k]
    BY <1>3, <1>6, <1>7, <1>9
  <2>2. \A k \in 1 .. Len(text) : s[i + k] = text[k]
    BY <1>6, <1>7, <1>10
  <2>3. \A k \in 1 .. rest : s[i + Len(text) + k] = str[i + n + k]
    BY <1>4, <1>7
  <2> QED BY <2>1, <2>2, <2>3
<1>12. ReplacedAs(v, text, i, n, rest, s)
  BY <1>1, <1>2, <1>7, <1>8, <1>11 DEF ReplacedAs
<1>13. s = Replaced(v, text) /\ rest = Rest(v)
  BY <1>8 DEF i, n, rest, Rest
<1> QED BY <1>12, <1>13 DEF i, n

ViewValues == [i : 0 .. npos, n : 0 .. MaxLength + 1, cstr : CStrings \cup {NoCString}]

LEMMA TypesAreTyped == ASSUME TypeOK PROVE Typed
BY Room DEF TypeOK, Typed, Placements, Characters

LEMMA PlaceTyped ==
    ASSUME TypeOK, NEW v \in Views, NEW i \in 0 .. npos, NEW n \in 0 .. MaxLength + 1, Place(v, i, n)
    PROVE  TypeOK'
<1>1. /\ DOMAIN view' = DOMAIN view \cup {v}
      /\ \A w \in DOMAIN view \ {v} : view'[w] = view[w]
      /\ view'[v] = [i |-> i, n |-> n, cstr |-> NoCString]
  BY DEF Place, With
<1>2. view'[v] \in ViewValues
  BY <1>1 DEF ViewValues
<1>3. heap' = heap /\ shared' = shared /\ str' = str /\ outcome' = "returned"
  BY DEF Place
<1> QED BY <1>1, <1>2, <1>3 DEF TypeOK, ViewValues

LEMMA AnswerTyped ==
    ASSUME TypeOK, NEW o \in {"returned", "thrown", "terminated"} \cup Undefined, Answer(o)
    PROVE  TypeOK'
BY DEF TypeOK, Answer

LEMMA ReplaceTyped ==
    ASSUME TypeOK, NEW v \in DOMAIN view, Accepts(v), NEW text \in Seq(Characters),
           Len(text) <= MaxLength + 1, replace(v, text)
    PROVE  TypeOK'
<1>1. Replaced(v, text) \in Seq(Characters) /\ Len(text) \in 0 .. MaxLength + 1
  BY ReplacedText, MaxLengthAssumption DEF Accepts, ReplacedAs
<1>2. str' \in Seq(Characters) /\ Len(str') <= MaxLength
  BY <1>1 DEF replace
<1>3. DOMAIN view' = DOMAIN view /\ \A w \in DOMAIN view : view'[w] \in ViewValues
  BY <1>1 DEF replace, TypeOK, ViewValues
<1>4. UNCHANGED <<heap, shared>> /\ outcome' = "returned"
  BY DEF replace
<1> QED BY <1>2, <1>3, <1>4 DEF TypeOK, ViewValues, Characters

LEMMA TypeStep == ASSUME TypeOK, [Next]_vars PROVE TypeOK'
<1>0. MaxLength \in Nat /\ MaxLength + 1 < npos /\ npos \in Nat /\ Typed
  BY MaxLengthAssumption, Room, TypesAreTyped
<1>1. CASE UNCHANGED vars
  BY <1>1 DEF vars, TypeOK
<1>2. ASSUME NEW v \in Views, NEW i \in 0 .. npos, NEW n \in Nat, construct(v, i, n) PROVE TypeOK'
  <2>1. i \in Nat
    BY <1>0
  <2> QED BY <1>2, <2>1, ConstructPlaces, PlaceTyped, AnswerTyped
<1>3. ASSUME NEW v \in Views, NEW text \in Texts, NEW i \in Nat, construct_search(v, text, i)
      PROVE  TypeOK'
  <2>1. CASE Place(v, npos, 0)
    <3>1. npos \in 0 .. npos /\ 0 \in 0 .. MaxLength + 1
      BY <1>0
    <3> QED BY <2>1, <3>1, PlaceTyped
  <2>2. ASSUME NEW p \in Nat, p + Len(text) <= Len(str), Place(v, p, Len(text)) PROVE TypeOK'
    <3>1. p \in 0 .. npos /\ Len(text) \in 0 .. MaxLength + 1
      BY <1>0, <2>2, TextTyped, Room
    <3> QED BY <2>2, <3>1, PlaceTyped
  <2> QED BY <1>3, <2>1, <2>2, SearchPlaces
<1>4. ASSUME NEW v \in Views, NEW w \in Views, copy_construct(v, w) PROVE TypeOK'
  <2>1. /\ w \in DOMAIN view /\ DOMAIN view' = DOMAIN view \cup {v}
        /\ \A u \in DOMAIN view \ {v} : view'[u] = view[u]
        /\ view'[v] = view[w]
    BY <1>4 DEF copy_construct, With, Live
  <2>2. /\ shared' = shared \cup ({view[w].cstr} \ {NoCString})
        /\ UNCHANGED <<str, heap>> /\ outcome' = "returned"
    BY <1>4 DEF copy_construct
  <2>3. view[w] \in ViewValues
    BY <2>1 DEF TypeOK, ViewValues
  <2>4. shared' \subseteq CStrings
    BY <2>2, <2>3 DEF TypeOK, ViewValues
  <2> QED BY <2>1, <2>2, <2>3, <2>4 DEF TypeOK, ViewValues
<1>5. ASSUME NEW v \in Views, destroy(v) PROVE TypeOK'
  <2>1. CASE Answer("uses_freed")
    BY <2>1, AnswerTyped DEF Undefined
  <2>2. CASE ~Answer("uses_freed")
    <3>1. /\ view' = Without(view, v) /\ str' = str /\ outcome' = "returned"
          /\ heap' = heap \/ heap' = Without(heap, view[v].cstr)
          /\ shared' \subseteq shared
      BY <1>5, <2>2 DEF destroy
    <3>2. /\ DOMAIN view' \subseteq DOMAIN view /\ \A w \in DOMAIN view' : view'[w] = view[w]
          /\ DOMAIN heap' \subseteq DOMAIN heap /\ \A c \in DOMAIN heap' : heap'[c] = heap[c]
      BY <3>1 DEF Without
    <3> QED BY <3>1, <3>2 DEF TypeOK
  <2> QED BY <2>1, <2>2
<1>6. ASSUME NEW v \in DOMAIN view, Refuses(v) PROVE TypeOK'
  BY <1>6, AnswerTyped DEF Refuses
<1>7. ASSUME NEW v \in Views, NEW text \in Texts, assign(v, text) PROVE TypeOK'
  <2>1. text \in Seq(Characters) /\ Len(text) <= MaxLength + 1 /\ v \in DOMAIN view
    BY <1>0, <1>7, TextTyped DEF assign, Live
  <2> QED BY <1>6, <1>7, <2>1, ReplaceTyped DEF assign
<1>8. ASSUME NEW v \in Views, NEW w \in Views, assign_view(v, w) PROVE TypeOK'
  <2>1. v \in DOMAIN view /\ w \in DOMAIN view /\ view[v].n \in 0 .. MaxLength + 1
    BY <1>8 DEF assign_view, Live, TypeOK
  <2>2. CASE Accepts(v) /\ Readable(w, view[v].n) /\ replace(v, Data(w, view[v].n))
    <3>1. Data(w, view[v].n) \in Seq(Characters) /\ Len(Data(w, view[v].n)) <= MaxLength + 1
      BY <1>0, <2>1, <2>2, DataRead
    <3> QED BY <2>1, <2>2, <3>1, ReplaceTyped
  <2> QED BY <1>6, <1>8, <2>1, <2>2, AnswerTyped DEF assign_view, Undefined
<1>9. ASSUME NEW v \in Views, c_str(v) PROVE TypeOK'
  <2>1. v \in DOMAIN view /\ view[v] \in ViewValues
    BY <1>9 DEF c_str, Live, TypeOK, ViewValues
  <2>2. ASSUME Readable(v, view[v].n), NEW c \in CStrings, allocate(v, c) PROVE TypeOK'
    <3>1. Data(v, view[v].n) \in Seq(Characters)
      BY <1>0, <2>1, <2>2, DataRead DEF ViewValues
    <3>2. /\ DOMAIN view' = DOMAIN view
          /\ \A w \in DOMAIN view : view'[w] \in ViewValues
      BY <2>1, <2>2 DEF allocate, TypeOK, ViewValues
    <3>3. /\ DOMAIN heap' = DOMAIN heap \cup {c} /\ heap'[c] = Data(v, view[v].n)
          /\ \A d \in DOMAIN heap \ {c} : heap'[d] = heap[d]
      BY <2>2 DEF allocate, With
    <3>4. UNCHANGED <<str, shared>> /\ outcome' = "returned"
      BY <2>2 DEF allocate
    <3> QED BY <3>1, <3>2, <3>3, <3>4 DEF TypeOK, ViewValues, Characters
  <2> QED BY <1>9, <2>2, AnswerTyped DEF c_str, Undefined
<1>10. ASSUME NEW text \in Texts, edit(text) PROVE TypeOK'
  BY <1>0, <1>10, TextTyped DEF edit, TypeOK, Characters
<1>11. ASSUME NEW v \in Views, NEW w \in Views, assign_null(v) \/ equal(v, w) \/ less(v, w)
       PROVE  TypeOK'
  BY <1>11, AnswerTyped DEF assign_null, equal, less, compare, Undefined
<1>12. ASSUME NEW v \in Views, NEW text, equal_text(v, text) \/ less_text(v, text) PROVE TypeOK'
  BY <1>12, AnswerTyped DEF equal_text, less_text, compare_text, Undefined
<1>13. CASE Next
  <2>1. 0 \in 0 .. npos /\ npos \in 0 .. npos /\ npos \in Nat
        /\ \A i \in 0 .. MaxLength : i \in 0 .. npos /\ i \in Nat
    BY <1>0
  <2> QED
    BY <1>2, <1>3, <1>4, <1>5, <1>7, <1>8, <1>9, <1>10, <1>11, <1>12, <1>13, <2>1 DEF Next
<1> QED BY <1>1, <1>13

(* Positions, sizes and C strings are what they can be: a view never gets  *)
(* larger than a string may be, and one, whatever is written through it.   *)
THEOREM TypeCorrect == Spec => []TypeOK
<1>1. Init => TypeOK
  BY MaxLengthAssumption, TextTyped DEF Init, TypeOK, Characters
<1> QED BY <1>1, TypeStep, PTL DEF Spec

(* Which view may stop to be, or start without being, inside the string.   *)
StartsInside(v) ==
    ~Live(v) /\ Live(v)' /\ ~Inside(v)' =>
        \/ view'[v].i = npos
        \/ view'[v].n = 0 /\ view'[v].i = Len(str)
        \/ \E w \in Views : Live(w) /\ ~Inside(w) /\ copy_construct(v, w)
StaysInside(v) ==
    Live(v) /\ Live(v)' /\ Inside(v) /\ ~Inside(v)' =>
        /\ Len(str') < Len(str)
        /\ view'[v] # view[v] => view'[v].n = 0 /\ view'[v].i = Len(str')

(* The views that are there stay as they are, and so does the string.      *)
LEMMA OthersKept ==
    ASSUME UNCHANGED str, NEW v, \A w \in DOMAIN view : Live(w)' => view'[w] = view[w]
    PROVE  StaysInside(v)
BY DEF StaysInside, Live, Inside, Valid

LEMMA NoneStarts == ASSUME DOMAIN view' \subseteq DOMAIN view, NEW v PROVE StartsInside(v)
BY DEF StartsInside, Live

LEMMA PlacedInside ==
    ASSUME TypeOK, NEW u \in Views, ~Live(u), NEW i \in Nat, NEW n \in Nat, Place(u, i, n),
           i = npos \/ i + n <= Len(str), NEW v \in Views
    PROVE  StartsInside(v) /\ StaysInside(v)
<1>1. /\ UNCHANGED str /\ DOMAIN view' = DOMAIN view \cup {u}
      /\ \A w \in DOMAIN view : view'[w] = view[w]
      /\ view'[u].i = i /\ view'[u].n = n
  BY DEF Place, With, Live
<1>2. StaysInside(v)
  BY <1>1, OthersKept
<1>3. CASE v # u
  BY <1>1, <1>2, <1>3 DEF StartsInside, Live
<1>4. CASE v = u
  <2>1. i = npos \/ (n = 0 /\ i = Len(str)) \/ i < Len(str)
    BY Room
  <2>2. i = npos \/ (n = 0 /\ i = Len(str)) \/ Inside(u)'
    BY <1>1, <2>1, Room DEF Inside, Valid
  <2> QED BY <1>1, <1>2, <1>4, <2>2 DEF StartsInside
<1> QED BY <1>3, <1>4

(* A view the string is changed under.                                     *)
LEMMA Shortened ==
    ASSUME TypeOK, NEW v \in DOMAIN view, Len(str') \in Nat, v \in DOMAIN view',
           view'[v] = view[v], Inside(v), ~Inside(v)'
    PROVE  Len(str') < Len(str)
<1>1. view[v].i \in Nat /\ view[v].n \in Nat
  BY Room DEF TypeOK
<1> QED BY <1>1, Room DEF Inside, Valid

LEMMA ReplacedInside ==
    ASSUME TypeOK, NEW u \in DOMAIN view, Accepts(u), NEW text \in Seq(Characters),
           replace(u, text), NEW v \in Views
    PROVE  StartsInside(v) /\ StaysInside(v)
<1> DEFINE i == view[u].i
           n == view[u].n
           rest == IF i + n <= Len(str) THEN Len(str) - (i + n) ELSE 0
<1>1. /\ i \in Nat /\ n \in Nat /\ i < Len(str) /\ rest \in Nat
      /\ Len(str') = i + Len(text) + rest /\ Len(text) \in Nat
  BY ReplacedText DEF Accepts, replace, ReplacedAs, Rest
<1>2. /\ DOMAIN view' = DOMAIN view
      /\ \A w \in DOMAIN view \ {u} : view'[w] = view[w]
      /\ view'[u] = [view[u] EXCEPT !.n = Len(text)]
  BY DEF replace
<1>3. view'[u].i = i /\ view'[u].n = Len(text)
  BY <1>2 DEF TypeOK
<1>4. StartsInside(v)
  BY <1>2, NoneStarts
<1>5. CASE v # u
  <2>1. Len(str') \in Nat
    BY <1>1
  <2> QED BY <1>2, <1>4, <1>5, <2>1, Shortened DEF StaysInside, Live
<1>6. CASE v = u
  <2>1. ASSUME Inside(u), ~Inside(u)'
        PROVE  Len(str') < Len(str) /\ Len(text) = 0 /\ i = Len(str')
    <3>1. i + n <= Len(str) /\ (~(i < Len(str')) \/ ~(i + Len(text) <= Len(str')))
      BY <1>3, <2>1 DEF Inside, Valid
    <3> HIDE DEF i, n
    <3> QED BY <1>1, <3>1
  <2> QED BY <1>3, <1>4, <1>6, <2>1 DEF StaysInside
<1> QED BY <1>5, <1>6

LEMMA InsideStep ==
    ASSUME TypeOK, Next, NEW v \in Views
    PROVE  StartsInside(v) /\ StaysInside(v)
<1>0. MaxLength \in Nat /\ Typed /\ npos \in Nat
  BY MaxLengthAssumption, TypesAreTyped, Room
<1>1. ASSUME UNCHANGED <<str, view>> PROVE StartsInside(v) /\ StaysInside(v)
  BY <1>1, OthersKept, NoneStarts
<1>2. ASSUME NEW o, Answer(o) PROVE StartsInside(v) /\ StaysInside(v)
  BY <1>1, <1>2 DEF Answer
<1>3. ASSUME NEW u \in Views, NEW i \in Nat, NEW n \in Nat, construct(u, i, n)
      PROVE  StartsInside(v) /\ StaysInside(v)
  <2>1. ~Live(u)
    BY <1>3 DEF construct
  <2>2. CASE \E m \in 0 .. MaxLength + 1 :
                Place(u, i, m) /\ (i = npos \/ (i < Len(str) /\ i + m <= Len(str)))
    <3>1. PICK m \in 0 .. MaxLength + 1 :
                Place(u, i, m) /\ (i = npos \/ (i < Len(str) /\ i + m <= Len(str)))
      BY <2>2
    <3>2. m \in Nat
      BY <1>0
    <3> QED BY <2>1, <3>1, <3>2, PlacedInside
  <2> QED BY <1>2, <1>3, <2>2, ConstructPlaces
<1>4. ASSUME NEW u \in Views, NEW text \in Texts, NEW i \in Nat, construct_search(u, text, i)
      PROVE  StartsInside(v) /\ StaysInside(v)
  <2>1. ~Live(u) /\ Len(text) \in Nat /\ 0 \in Nat
    BY <1>4, TextTyped DEF construct_search
  <2> QED BY <1>0, <1>4, <2>1, SearchPlaces, PlacedInside
<1>5. ASSUME NEW u \in Views, NEW w \in Views, copy_construct(u, w)
      PROVE  StartsInside(v) /\ StaysInside(v)
  <2>1. /\ Live(w) /\ ~Live(u) /\ UNCHANGED str /\ DOMAIN view' = DOMAIN view \cup {u}
        /\ \A x \in DOMAIN view : view'[x] = view[x]
        /\ view'[u] = view[w]
    BY <1>5 DEF copy_construct, With, Live
  <2>2. StaysInside(v)
    BY <2>1, OthersKept
  <2>3. CASE v = u
    <3>1. Inside(v)' <=> Inside(w)
      BY <2>1, <2>3 DEF Inside, Valid
    <3> QED BY <1>5, <2>1, <2>2, <2>3, <3>1 DEF StartsInside
  <2>4. CASE v # u
    BY <2>1, <2>2, <2>4 DEF StartsInside, Live
  <2> QED BY <2>3, <2>4
<1>6. ASSUME NEW u \in Views, destroy(u) PROVE StartsInside(v) /\ StaysInside(v)
  <2>1. CASE Answer("uses_freed")
    BY <1>2, <2>1
  <2>2. CASE ~Answer("uses_freed")
    <3>1. view' = Without(view, u) /\ str' = str
      BY <1>6, <2>2 DEF destroy
    <3>2. DOMAIN view' \subseteq DOMAIN view /\ \A w \in DOMAIN view' : view'[w] = view[w]
      BY <3>1 DEF Without
    <3> QED BY <3>1, <3>2, OthersKept, NoneStarts DEF Live
  <2> QED BY <2>1, <2>2
<1>7. ASSUME NEW u, Refuses(u) PROVE StartsInside(v) /\ StaysInside(v)
  BY <1>2, <1>7 DEF Refuses
<1>8. ASSUME NEW u \in Views, NEW text \in Texts, assign(u, text)
      PROVE  StartsInside(v) /\ StaysInside(v)
  <2>1. u \in DOMAIN view /\ text \in Seq(Characters)
    BY <1>8, TextTyped DEF assign, Live
  <2> QED BY <1>7, <1>8, <2>1, ReplacedInside DEF assign
<1>9. ASSUME NEW u \in Views, NEW w \in Views, assign_view(u, w)
      PROVE  StartsInside(v) /\ StaysInside(v)
  <2>1. u \in DOMAIN view /\ w \in DOMAIN view /\ view[u].n \in Nat
    BY <1>9 DEF assign_view, Live, TypeOK
  <2>2. CASE Accepts(u) /\ Readable(w, view[u].n) /\ replace(u, Data(w, view[u].n))
    <3>1. Data(w, view[u].n) \in Seq(Characters)
      BY <1>0, <2>1, <2>2, DataRead
    <3> QED BY <2>1, <2>2, <3>1, ReplacedInside
  <2> QED BY <1>2, <1>7, <1>9, <2>2 DEF assign_view
<1>10. ASSUME NEW u \in Views, c_str(u) PROVE StartsInside(v) /\ StaysInside(v)
  <2>1. ASSUME NEW c, allocate(u, c) PROVE StartsInside(v) /\ StaysInside(v)
    <3>1. UNCHANGED str /\ view' = [view EXCEPT ![u].cstr = c]
      BY <2>1 DEF allocate
    <3>2. /\ DOMAIN view' = DOMAIN view
          /\ \A w \in DOMAIN view : view'[w].i = view[w].i /\ view'[w].n = view[w].n
      BY <3>1 DEF TypeOK
    <3>3. \A w \in DOMAIN view : Inside(w)' <=> Inside(w)
      BY <3>1, <3>2 DEF Inside, Valid
    <3> QED BY <3>2, <3>3, NoneStarts DEF StaysInside, Live
  <2> QED BY <1>2, <1>10, <2>1 DEF c_str
<1>11. ASSUME NEW text \in Texts, edit(text) PROVE StartsInside(v) /\ StaysInside(v)
  <2>1. UNCHANGED view /\ Len(str') \in Nat
    BY <1>0, <1>11, TextTyped DEF edit
  <2> QED BY <2>1, NoneStarts, Shortened DEF StaysInside, Live
<1>12. ASSUME NEW u \in Views, NEW w \in Views, assign_null(u) \/ equal(u, w) \/ less(u, w)
       PROVE  StartsInside(v) /\ StaysInside(v)
  BY <1>2, <1>12 DEF assign_null, equal, less, compare
<1>13. ASSUME NEW u \in Views, NEW text, equal_text(u, text) \/ less_text(u, text)
       PROVE  StartsInside(v) /\ StaysInside(v)
  BY <1>2, <1>13 DEF equal_text, less_text, compare_text
<1>14. 0 \in Nat /\ \A i \in 0 .. MaxLength : i \in Nat
  BY <1>0
<1> QED
  BY <1>0, <1>3, <1>4, <1>5, <1>6, <1>8, <1>9, <1>10, <1>11, <1>12, <1>13, <1>14 DEF Next

(* A view is inside the string when it is made, but at npos or behind a    *)
(* failed search, and stays there while the string does not get shorter    *)
(* under it, or it is emptied at the end.                                  *)
THEOREM InsideCorrect == Spec => InsideUnlessShortened
<1>1. TypeOK /\ [Next]_vars => [\A v \in Views : StartsInside(v) /\ StaysInside(v)]_vars
  BY InsideStep
<1>2. [\A v \in Views : StartsInside(v) /\ StaysInside(v)]_vars =>
        [\A v \in Views :
           /\ ~Live(v) /\ Live(v)' /\ ~Inside(v)' =>
                 \/ view'[v].i = npos
                 \/ view'[v].n = 0 /\ view'[v].i = Len(str)
                 \/ \E w \in Views : Live(w) /\ ~Inside(w) /\ copy_construct(v, w)
           /\ Live(v) /\ Live(v)' /\ Inside(v) /\ ~Inside(v)' =>
                 /\ Len(str') < Len(str)
                 /\ view'[v] # view[v] => view'[v].n = 0 /\ view'[v].i = Len(str')]_vars
  BY DEF StartsInside, StaysInside
<1> QED BY <1>1, <1>2, TypeCorrect, PTL DEF Spec, InsideUnlessShortened

-----------------------------------------------------------------------------
(* What is written through a view.                                         *)

LEMMA SameText ==
    ASSUME NEW s \in Seq(Characters), NEW t \in Seq(Characters), NEW a \in Nat, NEW m \in Nat,
           a + m <= Len(s), a + m <= Len(t),
           \A k \in 1 .. m : s[a + k] = t[a + k]
    PROVE  SubSeq(s, a + 1, a + m) = SubSeq(t, a + 1, a + m)
<1> DEFINE from == a + 1
           to == a + m
<1>1. /\ from \in Int /\ to \in Int /\ to - from + 1 = m /\ (from <= to <=> m # 0)
      /\ \A k \in from .. to : k \in 1 .. Len(s) /\ k \in 1 .. Len(t)
      /\ \A k \in 1 .. m : from + k - 1 = a + k
  OBVIOUS
<1> HIDE DEF from, to
<1>2. ASSUME NEW k \in from .. to PROVE s[k] \in Characters /\ t[k] \in Characters
  <2>1. k \in 1 .. Len(s) /\ k \in 1 .. Len(t)
    BY <1>1
  <2> QED BY <2>1, ElementOfSeq
<1>3. ASSUME NEW u \in {s, t}
      PROVE  /\ SubSeq(u, from, to) \in Seq(Characters) /\ Len(SubSeq(u, from, to)) = m
             /\ \A k \in 1 .. m : SubSeq(u, from, to)[k] = u[a + k]
  <2>1. \A k \in from .. to : u[k] \in Characters
    BY <1>2
  <2>2. /\ SubSeq(u, from, to) \in Seq(Characters)
        /\ Len(SubSeq(u, from, to)) = IF from <= to THEN to - from + 1 ELSE 0
        /\ \A k \in 1 .. to - from + 1 : SubSeq(u, from, to)[k] = u[from + k - 1]
    BY <1>1, <2>1, SubSeqProperties
  <2> QED BY <1>1, <2>2
<1>4. SubSeq(s, from, to) = SubSeq(t, from, to)
  BY <1>3, SeqEqual
<1> QED BY <1>4 DEF from, to

LEMMA MinOfEither ==
    ASSUME NEW a \in Nat, NEW b \in Nat
    PROVE  Min({a, b}) = a \/ Min({a, b}) = b
<1>1. \E x \in {a, b} : \A y \in {a, b} : x <= y
  <2>1. CASE a <= b
    BY <2>1
  <2>2. CASE b <= a
    BY <2>2
  <2> QED BY <2>1, <2>2
<1> QED BY <1>1 DEF Min

LEMMA MinOfLarger ==
    ASSUME NEW a \in Nat, NEW b \in Nat, b <= a
    PROVE  Min({a, b}) = b
<1>1. Min({a, b}) <= b /\ (Min({a, b}) = a \/ Min({a, b}) = b)
  BY MinOfTwo, MinOfEither
<1> QED BY <1>1

(* It reads back what was written.                                         *)
LEMMA ReadsBack ==
    ASSUME TypeOK, TypeOK', NEW v \in DOMAIN view, Accepts(v), NEW text \in Seq(Characters),
           replace(v, text)
    PROVE  AsString(v)' = text
<1> DEFINE i == view[v].i
           n == view[v].n
           rest == IF i + n <= Len(str) THEN Len(str) - (i + n) ELSE 0
           m == Len(text)
<1>1. /\ i \in Nat /\ rest \in Nat /\ str' \in Seq(Characters) /\ Len(str') = i + m + rest
      /\ \A k \in 1 .. m : str'[i + k] = text[k]
  BY ReplacedText DEF Accepts, replace, ReplacedAs, Rest
<1>2. view'[v].i = i /\ view'[v].n = m /\ m \in Nat /\ v \in DOMAIN view'
  BY DEF replace, TypeOK
<1> HIDE DEF i, n, rest, m
<1>3. CASE m = 0
  <2>1. text = <<>>
    BY <1>3 DEF m
  <2> QED BY <1>2, <1>3, <2>1 DEF AsString
<1>4. CASE m # 0
  <2>1. Valid(v)' /\ i + m <= Len(str') /\ Len(str') \in Nat
    BY <1>1, <1>2, <1>4 DEF Valid
  <2>2. Min({Len(str'), i + m}) = i + m
    BY <1>1, <1>2, <2>1, MinOfLarger
  <2>3. AsString(v)' = SubSeq(str', i + 1, i + m)
    BY <1>2, <1>4, <2>1, <2>2 DEF AsString
  <2>4. SubSeq(str', i + 1, i + m) = text
    <3> DEFINE from == i + 1
               to == i + m
    <3>1. /\ from \in Int /\ to \in Int /\ from <= to /\ to - from + 1 = m
          /\ \A k \in from .. to : k \in 1 .. Len(str')
          /\ \A k \in 1 .. m : from + k - 1 = i + k
      <4> DEFINE len == Len(str')
      <4>1. i \in Nat /\ m \in Nat /\ m # 0 /\ len \in Nat /\ i + m <= len
        BY <1>1, <1>2, <1>4, <2>1
      <4> HIDE DEF len
      <4>2. /\ from \in Int /\ to \in Int /\ from <= to /\ to - from + 1 = m
            /\ \A k \in from .. to : k \in 1 .. len
            /\ \A k \in 1 .. m : from + k - 1 = i + k
        BY <4>1
      <4> QED BY <4>2 DEF len
    <3> HIDE DEF from, to
    <3>2. \A k \in from .. to : str'[k] \in Characters
      BY <1>1, <3>1
    <3>3. /\ SubSeq(str', from, to) \in Seq(Characters) /\ Len(SubSeq(str', from, to)) = m
          /\ \A k \in 1 .. m : SubSeq(str', from, to)[k] = str'[i + k]
      BY <3>1, <3>2, SubSeqProperties
    <3>4. Len(text) = m
      BY DEF m
    <3>5. SubSeq(str', from, to) = text
      BY <1>1, <3>3, <3>4, SeqEqual
    <3> QED BY <3>5 DEF from, to
  <2> QED BY <2>3, <2>4
<1> QED BY <1>3, <1>4

(* A view inside the string is written whole to one of its size.           *)
LEMMA DataOfInside ==
    ASSUME TypeOK, NEW w \in DOMAIN view, Inside(w)
    PROVE  Data(w, view[w].n) = AsString(w)
<1> DEFINE i == view[w].i
           n == view[w].n
           all == Append(str, Nul)
<1>1. i \in Nat /\ n \in Nat /\ i + n <= Len(str) /\ Len(str) \in Nat /\ str \in Seq(Characters)
  BY Room DEF TypeOK, Inside, Valid, Characters
<1>2. all \in Seq(Characters) /\ i + n <= Len(all) /\ \A k \in 1 .. n : all[i + k] = str[i + k]
  BY <1>1 DEF Characters
<1>3. Min({Len(str), i + n}) = i + n
  <2> HIDE DEF i, n
  <2> QED BY <1>1, MinOfLarger
<1> HIDE DEF all
<1>4. SubSeq(all, i + 1, i + n) = SubSeq(str, i + 1, i + n)
  <2> HIDE DEF i, n
  <2> QED BY <1>1, <1>2, SameText
<1> QED BY <1>3, <1>4 DEF Data, AsString, Inside, all

(* The text of a view before or behind it is left alone.                   *)
LEMMA OthersRead ==
    ASSUME TypeOK, NEW v \in DOMAIN view, Accepts(v), NEW text \in Seq(Characters),
           replace(v, text), NEW w \in DOMAIN view \ {v},
           Before(w, v) \/ (Before(v, w) /\ view'[v].n = view[v].n)
    PROVE  AsString(w)' = AsString(w)
<1> DEFINE i == view[v].i
           n == view[v].n
           j == view[w].i
           m == view[w].n
           rest == IF i + n <= Len(str) THEN Len(str) - (i + n) ELSE 0
           L == Len(str)
           M == Len(str')
<1>1. /\ i \in Nat /\ n \in Nat /\ rest \in Nat /\ i < L /\ L \in Nat
      /\ str' \in Seq(Characters) /\ M = i + Len(text) + rest /\ Len(text) \in Nat
      /\ str \in Seq(Characters)
      /\ \A k \in 1 .. i : str'[k] = str[k]
      /\ \A k \in 1 .. rest : str'[i + Len(text) + k] = str[i + n + k]
  <2>1. Valid(v) /\ str' = Replaced(v, text) /\ str \in Seq(Characters) /\ L \in Nat
    BY Room DEF Accepts, replace, TypeOK, Characters
  <2>2. ReplacedAs(v, text, i, n, Rest(v), str')
    BY <2>1, ReplacedText
  <2>3. rest = Rest(v)
    BY DEF Rest
  <2> HIDE DEF i, n, rest
  <2> QED BY <2>1, <2>2, <2>3 DEF ReplacedAs
<1>2. view'[w] = view[w] /\ w \in DOMAIN view' /\ j \in Nat /\ m \in Nat /\ view'[v].n = Len(text)
  BY Room DEF replace, TypeOK
<1>3. CASE m = 0
  BY <1>2, <1>3 DEF AsString
<1>4. CASE m # 0 /\ Before(w, v)
  <2>1. j + m <= i
    BY <1>4 DEF Before
  <2> HIDE DEF i, n, j, m, rest
  <2>2. j < L /\ j < M /\ j + m <= L /\ j + m <= M /\ M \in Nat
    BY <1>1, <1>2, <1>4, <2>1
  <2>3. \A k \in 1 .. m : j + k \in 1 .. i
    BY <1>1, <1>2, <2>1
  <2>4. \A k \in 1 .. m : str'[j + k] = str[j + k]
    BY <1>1, <2>3
  <2>5. SubSeq(str', j + 1, j + m) = SubSeq(str, j + 1, j + m)
    <3>1. /\ str' \in Seq(Characters) /\ str \in Seq(Characters) /\ j \in Nat /\ m \in Nat
          /\ j + m <= Len(str') /\ j + m <= Len(str)
      BY <1>1, <1>2, <2>2
    <3> QED BY ONLY <3>1, <2>4, SameText
  <2>6. Min({L, j + m}) = j + m /\ Min({M, j + m}) = j + m
    <3> DEFINE b == j + m
    <3>1. b \in Nat /\ b <= L /\ b <= M /\ L \in Nat /\ M \in Nat
      BY <1>1, <1>2, <2>2
    <3> HIDE DEF b, L, M
    <3>2. Min({L, b}) = b /\ Min({M, b}) = b
      BY <3>1, MinOfLarger
    <3> QED BY <3>2 DEF b
  <2> QED BY <1>2, <2>2, <2>5, <2>6 DEF AsString, Valid, j, m
<1>5. CASE m # 0 /\ ~Before(w, v)
  <2>1. i + n <= j /\ Len(text) = n
    BY <1>2, <1>5 DEF Before
  <2>2. CASE i + n <= L
    <3>1. M = L /\ rest = L - (i + n)
      BY <1>1, <2>1, <2>2
    <3> HIDE DEF i, n, j, m, rest
    <3>2. \A k \in i + n + 1 .. L : str'[k] = str[k]
      <4> DEFINE e == i + n
      <4>1. \A k \in e + 1 .. L : k - e \in 1 .. rest /\ e + (k - e) = k
        <5>1. e \in Nat /\ e <= L /\ rest = L - e
          BY <1>1, <2>2, <3>1
        <5> HIDE DEF e, L
        <5> QED BY <1>1, <5>1
      <4>2. \A k \in 1 .. rest : str'[e + k] = str[e + k]
        BY <1>1, <2>1
      <4> HIDE DEF e
      <4>3. \A k \in e + 1 .. L : str'[k] = str[k]
        <5> SUFFICES ASSUME NEW k \in e + 1 .. L PROVE str'[k] = str[k]
          OBVIOUS
        <5>1. str'[e + (k - e)] = str[e + (k - e)]
          BY <4>1, <4>2
        <5> QED BY <4>1, <5>1
      <4> QED BY <4>3 DEF e
    <3>3. CASE j < L
      <4> DEFINE e == Min({L, j + m})
                 d == e - j
      <4>1. e \in Nat /\ e <= L /\ e <= j + m /\ j <= e
        <5> DEFINE b == j + m
        <5>1. b \in Nat /\ j <= b /\ j <= L /\ L \in Nat
          BY <1>1, <1>2, <3>3
        <5> HIDE DEF b, L, e
        <5>2. Min({L, b}) \in Nat /\ Min({L, b}) <= L /\ Min({L, b}) <= b /\ j <= Min({L, b})
          BY <5>1, MinOfTwo, MinOfEither
        <5> QED BY <5>2 DEF b, e
      <4> HIDE DEF e
      <4>2. d \in Nat /\ j + d = e /\ \A k \in 1 .. d : j + k \in i + n + 1 .. L
        BY <1>1, <1>2, <2>1, <4>1
      <4> HIDE DEF d
      <4>3. SubSeq(str', j + 1, j + d) = SubSeq(str, j + 1, j + d)
        <5>1. /\ str' \in Seq(Characters) /\ str \in Seq(Characters) /\ j \in Nat /\ d \in Nat
              /\ j + d <= Len(str') /\ j + d <= Len(str)
          BY <1>1, <1>2, <3>1, <4>1, <4>2
        <5>2. \A k \in 1 .. d : str'[j + k] = str[j + k]
          BY <3>2, <4>2
        <5> QED BY ONLY <5>1, <5>2, SameText
      <4> QED BY <1>2, <3>1, <4>2, <4>3 DEF AsString, Valid, j, m, e
    <3>4. CASE ~(j < L)
      BY <1>2, <3>1, <3>4 DEF AsString, Valid, j
    <3> QED BY <3>3, <3>4
  <2>3. CASE ~(i + n <= L)
    <3>1. M = i + n
      BY <1>1, <2>1, <2>3
    <3>2. ~(j < L) /\ ~(j < M)
      BY <1>1, <1>2, <2>1, <2>3, <3>1
    <3> QED BY <1>2, <3>2 DEF AsString, Valid
  <2> QED BY <2>2, <2>3
<1> QED BY <1>3, <1>4, <1>5

WritesAsGiven(v) ==
    /\ \A text \in Texts : assign(v, text) /\ outcome' = "returned" => AsString(v)' = text
    /\ \A w \in Views :
          assign_view(v, w) /\ outcome' = "returned" /\ Inside(w) /\ view[w].n = view[v].n =>
             AsString(v)' = AsString(w)
    /\ Written(v) =>
          \A w \in DOMAIN view \ {v} :
             Before(w, v) \/ (Before(v, w) /\ view'[v].n = view[v].n) =>
                AsString(w)' = AsString(w)

LEMMA AssignWrites ==
    ASSUME NEW v \in Views, NEW text, assign(v, text), outcome' = "returned"
    PROVE  v \in DOMAIN view /\ Accepts(v) /\ replace(v, text)
BY DEF assign, Refuses, Answer, Live

LEMMA AssignViewWrites ==
    ASSUME TypeOK, NEW v \in Views, NEW w \in Views, assign_view(v, w), outcome' = "returned"
    PROVE  /\ v \in DOMAIN view /\ w \in DOMAIN view /\ Accepts(v)
           /\ replace(v, Data(w, view[v].n)) /\ Data(w, view[v].n) \in Seq(Characters)
<1>1. /\ v \in DOMAIN view /\ w \in DOMAIN view /\ Accepts(v)
      /\ Readable(w, view[v].n) /\ replace(v, Data(w, view[v].n))
  BY DEF assign_view, Refuses, Answer, Live
<1>2. view[v].n \in Nat
  BY <1>1, Room DEF TypeOK
<1>3. Data(w, view[v].n) \in Seq(Characters)
  BY <1>1, <1>2, TypesAreTyped, DataRead
<1> QED BY <1>1, <1>3

LEMMA WritesStep ==
    ASSUME TypeOK, TypeOK', NEW v \in Views
    PROVE  WritesAsGiven(v)
<1>1. ASSUME NEW text \in Texts, assign(v, text), outcome' = "returned"
      PROVE  AsString(v)' = text
  <2>1. v \in DOMAIN view /\ Accepts(v) /\ replace(v, text) /\ text \in Seq(Characters)
    BY <1>1, AssignWrites, TextTyped
  <2> QED BY <2>1, ReadsBack
<1>2. ASSUME NEW w \in Views, assign_view(v, w), outcome' = "returned",
             Inside(w), view[w].n = view[v].n
      PROVE  AsString(v)' = AsString(w)
  <2>1. /\ v \in DOMAIN view /\ w \in DOMAIN view /\ Accepts(v)
        /\ replace(v, Data(w, view[v].n)) /\ Data(w, view[v].n) \in Seq(Characters)
    BY <1>2, AssignViewWrites
  <2>2. AsString(v)' = Data(w, view[v].n)
    BY <2>1, ReadsBack
  <2>3. Data(w, view[w].n) = AsString(w)
    BY <1>2, <2>1, DataOfInside
  <2> QED BY <1>2, <2>2, <2>3
<1>3. ASSUME Written(v), NEW w \in DOMAIN view \ {v},
             Before(w, v) \/ (Before(v, w) /\ view'[v].n = view[v].n)
      PROVE  AsString(w)' = AsString(w)
  <2>1. v \in DOMAIN view /\ Accepts(v)
        /\ \E text : text \in Seq(Characters) /\ replace(v, text)
    <3>1. CASE \E text \in Texts : assign(v, text)
      <4>1. PICK text \in Texts : assign(v, text)
        BY <3>1
      <4>2. v \in DOMAIN view /\ Accepts(v) /\ replace(v, text) /\ text \in Seq(Characters)
        BY <1>3, <4>1, AssignWrites, TextTyped DEF Written
      <4> QED BY <4>2
    <3>2. CASE \E u \in Views : assign_view(v, u)
      <4>1. PICK u \in Views : assign_view(v, u)
        BY <3>2
      <4>2. v \in DOMAIN view /\ Accepts(v)
            /\ replace(v, Data(u, view[v].n)) /\ Data(u, view[v].n) \in Seq(Characters)
        BY <1>3, <4>1, AssignViewWrites DEF Written
      <4> QED BY <4>2
    <3> QED BY <1>3, <3>1, <3>2 DEF Written
  <2>2. PICK text : text \in Seq(Characters) /\ replace(v, text)
    BY <2>1
  <2> QED BY <1>3, <2>1, <2>2, OthersRead
<1> QED BY <1>1, <1>2, <1>3 DEF WritesAsGiven

(* What is written through a view is what it reads afterwards, also when   *)
(* it is another view's text, and the text of every other view that the    *)
(* write does not move or overlap is left alone.                           *)
THEOREM WritesCorrect == Spec => WritesThrough
<1>1. TypeOK /\ TypeOK' => \A v \in Views : WritesAsGiven(v)
  BY WritesStep
<1>2. TypeOK /\ TypeOK' => [\A v \in Views : WritesAsGiven(v)]_vars
  BY <1>1
<1>3. [\A v \in Views : WritesAsGiven(v)]_vars =>
        [\A v \in Views :
           /\ \A text \in Texts :
                assign(v, text) /\ outcome' = "returned" => AsString(v)' = text
           /\ \A w \in Views :
                assign_view(v, w) /\ outcome' = "returned" /\ Inside(w) /\ view[w].n = view[v].n =>
                   AsString(v)' = AsString(w)
           /\ Written(v) =>
                \A w \in DOMAIN view \ {v} :
                   Before(w, v) \/ (Before(v, w) /\ view'[v].n = view[v].n) =>
                      AsString(w)' = AsString(w)]_vars
  BY DEF WritesAsGiven
<1> QED BY <1>2, <1>3, TypeCorrect, PTL DEF WritesThrough
=============================================================================

------------------------ MODULE SequentialMapProofs ------------------------
(***************************************************************************)
(* Theorems about SequentialMap for any keys, values and number of entries.*)
(***************************************************************************)
EXTENDS SequentialMap, FiniteSetTheorems, SequenceTheorems, WellFoundedInduction, TLAPS

Entries == [key : Keys, value : Values]

(* The first n entries have their places filed, and no other key is known. *)
Filed(n) ==
    /\ \A k \in DOMAIN map : map[k] \in 0 .. n - 1 /\ vec[map[k] + 1].key = k
    /\ \A i \in 1 .. n : vec[i].key \in DOMAIN map /\ map[vec[i].key] = i - 1

(* A place is within vec even after an eraseIf has shuffled the entries.   *)
Typed ==
    /\ vec \in Seq(Entries) /\ Len(vec) <= MaxEntries
    /\ DOMAIN map \subseteq Keys /\ IsFiniteSet(DOMAIN map)
    /\ \A k \in DOMAIN map : map[k] \in Int /\ map[k] < Len(vec)
    /\ moved \in [Keys -> Keys] /\ shuffled \in BOOLEAN
    /\ reply.value \in Values \cup {Nothing}

(* All entries are filed, or all but the last, which an insertion left.    *)
InStep ==
    \/ Filed(Len(vec))
    \/ /\ Len(vec) > 0 /\ Filed(Len(vec) - 1)
       /\ Alive => reply.outcome = "bad_alloc"

IInv == Typed /\ (~shuffled => InStep)

(* Filing n places is knowing n keys.                                      *)
LEMMA Counted ==
    ASSUME NEW m, NEW v, NEW n \in Nat,
           \A k \in DOMAIN m : m[k] \in 0 .. n - 1 /\ v[m[k] + 1].key = k,
           \A i \in 1 .. n : v[i].key \in DOMAIN m /\ m[v[i].key] = i - 1
    PROVE  IsFiniteSet(DOMAIN m) /\ Cardinality(DOMAIN m) = n
<1> DEFINE b == [i \in 1 .. n |-> v[i].key]
<1>1. b \in Injection(1 .. n, DOMAIN m)
  <2>1. b \in [1 .. n -> DOMAIN m]
    OBVIOUS
  <2>2. ASSUME NEW i \in 1 .. n, NEW j \in 1 .. n, b[i] = b[j]
        PROVE  i = j
    <3>1. m[b[i]] = i - 1 /\ m[b[j]] = j - 1
      OBVIOUS
    <3>2. i - 1 = j - 1
      BY <2>2, <3>1
    <3> QED BY <3>2
  <2> HIDE DEF b
  <2> QED BY <2>1, <2>2 DEF Injection, IsInjective
<1>2. b \in Surjection(1 .. n, DOMAIN m)
  <2>1. b \in [1 .. n -> DOMAIN m]
    OBVIOUS
  <2>2. ASSUME NEW k \in DOMAIN m
        PROVE  \E i \in 1 .. n : b[i] = k
    <3>1. m[k] + 1 \in 1 .. n /\ v[m[k] + 1].key = k
      OBVIOUS
    <3> QED BY <3>1
  <2> QED BY <2>1, <2>2 DEF Surjection
<1> HIDE DEF b
<1>3. ExistsBijection(1 .. n, DOMAIN m)
  BY <1>1, <1>2 DEF ExistsBijection, Bijection
<1>4. IsFiniteSet(DOMAIN m)
  BY <1>3, FS_NatBijection
<1> QED BY <1>3, <1>4, FS_CountingElements

LEMMA FiledSize ==
    ASSUME NEW n \in Nat, Filed(n)
    PROVE  IsFiniteSet(DOMAIN map) /\ Cardinality(DOMAIN map) = n
BY Counted DEF Filed

(* When the sizes agree every entry is filed.                              *)
LEMMA AgreedIsFiled ==
    ASSUME IInv, ~shuffled, SizesAgree
    PROVE  Filed(Len(vec)) /\ Len(vec) \in Nat
<1>1. Len(vec) \in Nat
  BY LenProperties DEF IInv, Typed
<1>2. ASSUME Len(vec) > 0, Filed(Len(vec) - 1)
      PROVE  FALSE
  <2>1. Cardinality(DOMAIN map) = Len(vec) - 1
    BY <1>1, <1>2, FiledSize
  <2> QED BY <1>1, <2>1 DEF SizesAgree
<1> QED BY <1>1, <1>2 DEF IInv, InStep

LEMMA FiledAgrees ==
    ASSUME Typed, Filed(Len(vec))
    PROVE  SizesAgree
<1>1. Len(vec) \in Nat
  BY LenProperties DEF Typed
<1> QED BY <1>1, FiledSize DEF SizesAgree

LEMMA KnownEntry ==
    ASSUME IInv, NEW k \in DOMAIN map, map[k] >= 0
    PROVE  /\ map[k] + 1 \in 1 .. Len(vec) /\ Found(k) \in Entries
           /\ Found(k).key \in Keys /\ Found(k).value \in Values
<1>1. /\ vec \in Seq(Entries) /\ Len(vec) \in Nat
      /\ map[k] \in Int /\ map[k] < Len(vec)
  BY LenProperties DEF IInv, Typed
<1>2. map[k] + 1 \in 1 .. Len(vec)
  BY <1>1
<1>3. Found(k) \in Entries
  BY <1>1, <1>2, ElementOfSeq DEF Found
<1> QED BY <1>2, <1>3 DEF Entries

(* Calls that leave the two halves as they are.                            *)
LEMMA SameHalves ==
    ASSUME IInv, UNCHANGED <<vec, map, moved, shuffled>>,
           reply'.value \in Values \cup {Nothing},
           SizesAgree \/ ~Alive' \/ shuffled
    PROVE  IInv'
<1>1. Typed'
  BY DEF IInv, Typed
<1>2. Filed(Len(vec)) => Filed(Len(vec))'
  BY DEF Filed
<1>3. Filed(Len(vec) - 1) => Filed(Len(vec) - 1)'
  BY DEF Filed
<1>4. ~shuffled' => InStep'
  BY <1>2, <1>3, AgreedIsFiled DEF IInv, InStep
<1> QED BY <1>1, <1>4 DEF IInv

LEMMA LookUpKeeps ==
    ASSUME IInv, NEW op, NEW k, NEW unknown, LookUp(op, k, unknown)
    PROVE  IInv'
<1>1. reply'.value \in Values \cup {Nothing}
  BY KnownEntry DEF LookUp, Known, Answers
<1> QED BY <1>1, SameHalves DEF LookUp, Unchanged

LEMMA SizesDisagreeKeeps ==
    ASSUME IInv, NEW op, Followed, SizesDisagree(op)
    PROVE  IInv'
<1>1. ~Alive' /\ reply'.value = Nothing
  BY DEF SizesDisagree, Answers, Alive
<1> QED BY <1>1, SameHalves DEF SizesDisagree, Followed, Unchanged

(* A new entry is the last one, filed or not; or there is none.            *)
LEMMA InsertNewKeeps ==
    ASSUME IInv, Followed, SizesAgree, NEW op, NEW k \in Keys, NEW v \in Values,
           InsertNew(op, k, v)
    PROVE  /\ IInv'
           /\ reply'.outcome = "returned" => Filed(Len(vec))'
           /\ vec' # vec /\ reply'.outcome # "returned" => Filed(Len(vec) - 1)'
<1>1. /\ Filed(Len(vec)) /\ Len(vec) \in Nat /\ vec \in Seq(Entries) /\ Entry(k, v) \in Entries
      /\ UNCHANGED <<moved, shuffled>>
  BY AgreedIsFiled DEF IInv, Typed, Followed, Entry, Entries
<1>2. ASSUME vec' = Append(vec, Entry(k, v))
      PROVE  /\ vec' \in Seq(Entries) /\ Len(vec') = Len(vec) + 1
             /\ \A i \in 1 .. Len(vec) : vec'[i] = vec[i]
             /\ vec'[Len(vec) + 1].key = k
  BY <1>1, <1>2, AppendProperties DEF Entry
<1>3. CASE /\ vec' = Append(vec, Entry(k, v))
           /\ map' = [i \in DOMAIN map \cup {k} |-> IF i = k THEN Len(vec) ELSE map[i]]
           /\ Answers(op, "returned", v)
  <2>0. /\ vec' \in Seq(Entries) /\ Len(vec') = Len(vec) + 1
        /\ \A i \in 1 .. Len(vec) : vec'[i] = vec[i]
        /\ vec'[Len(vec) + 1].key = k
    BY <1>2, <1>3
  <2>1. DOMAIN map' = DOMAIN map \cup {k} /\ map'[k] = Len(vec)
    BY <1>3
  <2>2. \A i \in DOMAIN map : i # k /\ map'[i] = map[i]
    BY <1>3 DEF InsertNew, Known
  <2>3. Filed(Len(vec))'
    <3>1. ASSUME NEW i \in DOMAIN map'
          PROVE  map'[i] \in 0 .. Len(vec') - 1 /\ vec'[map'[i] + 1].key = i
      <4>1. CASE i = k
        BY <1>1, <2>0, <2>1, <4>1
      <4>2. CASE i # k
        <5>1. i \in DOMAIN map /\ map'[i] = map[i]
          BY <2>1, <2>2, <4>2
        <5>2. map[i] \in 0 .. Len(vec) - 1 /\ vec[map[i] + 1].key = i
          BY <1>1, <5>1 DEF Filed
        <5> QED BY <1>1, <2>0, <5>1, <5>2
      <4> QED BY <4>1, <4>2
    <3>2. ASSUME NEW i \in 1 .. Len(vec')
          PROVE  vec'[i].key \in DOMAIN map' /\ map'[vec'[i].key] = i - 1
      <4>1. CASE i = Len(vec) + 1
        BY <1>1, <2>0, <2>1, <4>1
      <4>2. CASE i # Len(vec) + 1
        <5>1. i \in 1 .. Len(vec)
          BY <1>1, <2>0, <4>2
        <5> QED BY <1>1, <2>0, <2>1, <2>2, <5>1 DEF Filed
      <4> QED BY <4>1, <4>2
    <3> QED BY <3>1, <3>2 DEF Filed
  <2>4. Typed'
    <3>1. IsFiniteSet(DOMAIN map) /\ DOMAIN map \subseteq Keys
      BY DEF IInv, Typed
    <3>3. IsFiniteSet(DOMAIN map \cup {k})
      BY <3>1, FS_AddElement
    <3>4. IsFiniteSet(DOMAIN map') /\ DOMAIN map' \subseteq Keys
      BY <2>1, <3>1, <3>3
    <3>2. \A i \in DOMAIN map' : map'[i] \in Int /\ map'[i] < Len(vec')
      BY <1>1, <2>0, <2>3 DEF Filed
    <3> QED BY <1>1, <2>0, <1>3, <3>4, <3>2, BoundAssumption DEF IInv, Typed, InsertNew, Answers
  <2>5. reply'.outcome = "returned"
    BY <1>3 DEF Answers
  <2> QED BY <2>3, <2>4, <2>5 DEF IInv, InStep
<1>4. CASE vec' = Append(vec, Entry(k, v)) /\ UNCHANGED map /\ Answers(op, "bad_alloc", Nothing)
  <2>0. /\ vec' \in Seq(Entries) /\ Len(vec') = Len(vec) + 1
        /\ \A i \in 1 .. Len(vec) : vec'[i] = vec[i]
        /\ vec'[Len(vec) + 1].key = k
    BY <1>2, <1>4
  <2>1. Filed(Len(vec) - 1)'
    <3>1. Len(vec') - 1 = Len(vec)
      BY <1>1, <2>0
    <3>2. ASSUME NEW i \in DOMAIN map'
          PROVE  map'[i] \in 0 .. Len(vec) - 1 /\ vec'[map'[i] + 1].key = i
      <4>1. map'[i] = map[i] /\ map[i] \in 0 .. Len(vec) - 1 /\ vec[map[i] + 1].key = i
        BY <1>1, <1>4 DEF Filed
      <4>2. vec'[map[i] + 1] = vec[map[i] + 1]
        BY <1>1, <2>0, <4>1
      <4> QED BY <4>1, <4>2
    <3>3. ASSUME NEW i \in 1 .. Len(vec)
          PROVE  vec'[i].key \in DOMAIN map' /\ map'[vec'[i].key] = i - 1
      BY <1>1, <2>0, <1>4 DEF Filed
    <3> QED BY <3>1, <3>2, <3>3 DEF Filed
  <2>2. Typed'
    BY <1>1, <2>0, <1>4, BoundAssumption DEF IInv, Typed, InsertNew, Answers
  <2>3. reply'.outcome = "bad_alloc"
    BY <1>4 DEF Answers
  <2>4. Len(vec') > 0
    BY <1>1, <2>0, <1>4
  <2> QED BY <2>1, <2>2, <2>3, <2>4 DEF IInv, InStep
<1>5. CASE Unchanged /\ Answers(op, "bad_alloc", Nothing)
  <2>1. Filed(Len(vec))'
    BY <1>1, <1>5 DEF Unchanged, Filed
  <2>2. Typed'
    BY <1>1, <1>5 DEF IInv, Typed, Unchanged, Answers
  <2>3. vec' = vec /\ reply'.outcome = "bad_alloc"
    BY <1>5 DEF Unchanged, Answers
  <2> QED BY <2>1, <2>2, <2>3 DEF IInv, InStep
<1> QED BY <1>3, <1>4, <1>5 DEF InsertNew, Unchanged
-----------------------------------------------------------------------------
(* Erasing a stretch of entries.                                           *)
WithoutStretch(s, i, j) == SubSeq(s, 1, i) \o SubSeq(s, j + 1, Len(s))

LEMMA CutEntries ==
    ASSUME NEW S, NEW s \in Seq(S), NEW i \in Nat, NEW j \in Nat, i <= j, j <= Len(s)
    PROVE  LET c == WithoutStretch(s, i, j)
           IN  /\ c \in Seq(S) /\ Len(c) = Len(s) - (j - i)
               /\ \A n \in 1 .. i : c[n] = s[n]
               /\ \A n \in i + 1 .. Len(s) - (j - i) : c[n] = s[n + (j - i)]
<1> DEFINE c == WithoutStretch(s, i, j)
<1>1. Len(s) \in Nat /\ \A n \in 1 .. Len(s) : s[n] \in S
  BY LenProperties, ElementOfSeq
<1> DEFINE a == SubSeq(s, 1, i)
           b == SubSeq(s, j + 1, Len(s))
<1>2. a \in Seq(S) /\ Len(a) = i /\ \A n \in 1 .. i : a[n] = s[n]
  <2>1. \A n \in 1 .. i : s[n] \in S
    BY <1>1
  <2>2. /\ a \in Seq(S) /\ Len(a) = IF 1 <= i THEN i - 1 + 1 ELSE 0
        /\ \A n \in 1 .. i - 1 + 1 : a[n] = s[1 + n - 1]
    BY <2>1, SubSeqProperties
  <2> HIDE DEF a
  <2>3. \A n \in 1 .. i : 1 + n - 1 = n /\ n \in 1 .. i - 1 + 1
    OBVIOUS
  <2> QED BY <2>2, <2>3
<1>3. /\ b \in Seq(S) /\ Len(b) = Len(s) - j
      /\ \A n \in 1 .. Len(s) - j : b[n] = s[j + n]
  <2>1. \A n \in j + 1 .. Len(s) : s[n] \in S
    BY <1>1
  <2>2. /\ b \in Seq(S) /\ Len(b) = IF j + 1 <= Len(s) THEN Len(s) - (j + 1) + 1 ELSE 0
        /\ \A n \in 1 .. Len(s) - (j + 1) + 1 : b[n] = s[j + 1 + n - 1]
    BY <1>1, <2>1, SubSeqProperties
  <2> HIDE DEF b
  <2>3. \A n \in 1 .. Len(s) - j : j + 1 + n - 1 = j + n /\ n \in 1 .. Len(s) - (j + 1) + 1
    BY <1>1
  <2> QED BY <1>1, <2>2, <2>3
<1>4. c = a \o b
  BY DEF WithoutStretch
<1> HIDE DEF a, b, c
<1>5. /\ c \in Seq(S) /\ Len(c) = Len(a) + Len(b)
      /\ \A n \in 1 .. Len(a) + Len(b) : c[n] = IF n <= Len(a) THEN a[n] ELSE b[n - Len(a)]
  <2>1. /\ a \o b \in Seq(S) /\ Len(a \o b) = Len(a) + Len(b)
        /\ \A n \in 1 .. Len(a) + Len(b) :
              (a \o b)[n] = IF n <= Len(a) THEN a[n] ELSE b[n - Len(a)]
    <3>1. a \in Seq(S) /\ b \in Seq(S)
      BY <1>2, <1>3
    <3> QED BY ONLY <3>1, ConcatProperties
  <2> QED BY <1>4, <2>1
<1>6. Len(c) = Len(s) - (j - i)
  <2>1. Len(c) = Len(a) + Len(b) /\ Len(a) = i /\ Len(b) = Len(s) - j /\ Len(s) \in Nat
    BY <1>1, <1>2, <1>3, <1>5
  <2> QED BY ONLY <2>1, i \in Nat, j \in Nat
<1>7. ASSUME NEW n \in 1 .. i
      PROVE  c[n] = s[n]
  <2>1. n \in 1 .. Len(a) + Len(b) /\ n <= Len(a)
    BY <1>1, <1>2, <1>3
  <2>2. c[n] = a[n]
    BY <1>5, <2>1
  <2> QED BY <1>2, <2>2
<1>8. ASSUME NEW n \in i + 1 .. Len(s) - (j - i)
      PROVE  c[n] = s[n + (j - i)]
  <2>1. n \in 1 .. Len(a) + Len(b) /\ ~(n <= Len(a)) /\ n - Len(a) \in 1 .. Len(s) - j
    BY <1>1, <1>2, <1>3
  <2>2. c[n] = b[n - i] /\ b[n - i] = s[j + (n - i)]
    BY <1>2, <1>3, <1>5, <2>1
  <2>3. j + (n - i) = n + (j - i)
    BY <1>1
  <2> QED BY <2>2, <2>3
<1> QED BY <1>5, <1>6, <1>7, <1>8 DEF c

(* The entries that follow a stretch move down with their places.          *)
LEMMA EraseKeeps ==
    ASSUME IInv, Filed(Len(vec)), NEW i \in Nat, NEW j \in Nat, i <= j, j <= Len(vec),
           Erase(i, j), UNCHANGED <<moved, shuffled>>, reply'.value \in Values \cup {Nothing}
    PROVE  IInv' /\ Filed(Len(vec))'
<1> DEFINE m == j - i
           L == Len(vec)
<1>1. /\ vec \in Seq(Entries) /\ L \in Nat /\ m \in Nat /\ L - m \in Nat /\ i <= L - m /\ L <= MaxEntries
      /\ IsFiniteSet(DOMAIN map) /\ DOMAIN map \subseteq Keys
  <2>1. vec \in Seq(Entries) /\ L <= MaxEntries /\ IsFiniteSet(DOMAIN map) /\ DOMAIN map \subseteq Keys
    BY DEF IInv, Typed
  <2>2. L \in Nat
    BY <2>1, LenProperties
  <2> QED BY <2>1, <2>2
<1>2. /\ vec' \in Seq(Entries) /\ Len(vec') = L - m
      /\ \A n \in 1 .. i : vec'[n] = vec[n]
      /\ \A n \in i + 1 .. L - m : vec'[n] = vec[n + m]
  <2>1. vec' = WithoutStretch(vec, i, j)
    BY DEF Erase, WithoutStretch
  <2> DEFINE c == WithoutStretch(vec, i, j)
  <2>2. vec \in Seq(Entries) /\ i \in Nat /\ j \in Nat /\ i <= j /\ j <= Len(vec)
    BY <1>1
  <2>3. /\ c \in Seq(Entries) /\ Len(c) = Len(vec) - (j - i)
        /\ \A n \in 1 .. i : c[n] = vec[n]
        /\ \A n \in i + 1 .. Len(vec) - (j - i) : c[n] = vec[n + (j - i)]
    BY ONLY <2>2, CutEntries, Zenon
  <2>4. vec' = c
    BY <2>1
  <2> HIDE DEF c
  <2> QED BY <2>3, <2>4
<1> DEFINE Gone == {vec[n].key : n \in i + 1 .. j}
<1>3. /\ DOMAIN map' = DOMAIN map \ Gone
      /\ \A k \in DOMAIN map \ Gone : map'[k] = IF map[k] >= i THEN map[k] - m ELSE map[k]
  BY DEF Erase
<1>4. ASSUME NEW k \in DOMAIN map'
      PROVE  map'[k] \in 0 .. L - m - 1 /\ vec'[map'[k] + 1].key = k
  <2>1. /\ k \in DOMAIN map /\ k \notin Gone
        /\ map[k] \in 0 .. L - 1 /\ vec[map[k] + 1].key = k
    BY <1>3 DEF Filed
  <2>2. map[k] + 1 \notin i + 1 .. j
    BY <2>1
  <2>3. map[k] + 1 <= i \/ map[k] + 1 > j
    BY <2>1, <2>2
  <2>4. map'[k] = IF map[k] >= i THEN map[k] - m ELSE map[k]
    BY <1>3, <2>1
  <2> HIDE DEF Gone
  <2>5. CASE map[k] + 1 <= i
    <3>1. map'[k] = map[k] /\ map[k] + 1 \in 1 .. i
      BY <2>1, <2>4, <2>5
    <3> QED BY <1>1, <1>2, <2>1, <3>1
  <2>6. CASE map[k] + 1 > j
    <3> DEFINE p == map[k]
    <3>0. p \in Int /\ p < L /\ p + 1 > j /\ L \in Nat /\ vec[p + 1].key = k
      BY <1>1, <2>1, <2>6
    <3>1. map'[k] = p - m
      BY <2>1, <2>4, <2>6
    <3> HIDE DEF p, L
    <3>2. p - m + 1 \in i + 1 .. L - m /\ p - m + 1 + m = p + 1 /\ p - m \in 0 .. L - m - 1
      BY ONLY <3>0, i \in Nat, j \in Nat, i <= j DEF m
    <3> HIDE DEF m
    <3>3. vec'[p - m + 1] = vec[p - m + 1 + m]
      BY <1>2, <3>2
    <3> QED BY <3>0, <3>1, <3>2, <3>3
  <2> QED BY <2>3, <2>5, <2>6
<1>5. ASSUME NEW q \in 1 .. L, q \notin i + 1 .. j
      PROVE  vec[q].key \in DOMAIN map' /\ map'[vec[q].key] = IF q > i THEN q - 1 - m ELSE q - 1
  <2>1. vec[q].key \in DOMAIN map /\ map[vec[q].key] = q - 1
    BY DEF Filed
  <2>2. \A n \in i + 1 .. j : vec[n].key # vec[q].key
    <3>1. \A n \in i + 1 .. j : n \in 1 .. L /\ map[vec[n].key] = n - 1
      BY <1>1 DEF Filed
    <3> QED BY <1>5, <2>1, <3>1
  <2>3. vec[q].key \in DOMAIN map \ Gone
    BY <2>1, <2>2
  <2>4. q - 1 >= i <=> q > i
    BY <1>1
  <2> HIDE DEF Gone
  <2> QED BY <1>3, <2>1, <2>3, <2>4
<1>6. ASSUME NEW q \in 1 .. L - m
      PROVE  vec'[q].key \in DOMAIN map' /\ map'[vec'[q].key] = q - 1
  <2>1. CASE q <= i
    <3>1. q \in 1 .. L /\ q \notin i + 1 .. j /\ ~(q > i) /\ vec'[q] = vec[q]
      BY <1>1, <1>2, <2>1
    <3> QED BY <1>5, <3>1
  <2>2. CASE q > i
    <3> DEFINE w == q + m
    <3>1. w \in 1 .. L /\ w \notin i + 1 .. j /\ w > i /\ w - 1 - m = q - 1 /\ vec'[q] = vec[w]
      BY <1>1, <1>2, <2>2
    <3> HIDE DEF w, m, L
    <3>2. vec[w].key \in DOMAIN map' /\ map'[vec[w].key] = w - 1 - m
      BY <1>5, <3>1
    <3> QED BY <3>1, <3>2
  <2> QED BY <1>1, <2>1, <2>2
<1>7. Filed(Len(vec))'
  BY <1>2, <1>4, <1>6 DEF Filed
<1>8. IsFiniteSet(DOMAIN map') /\ DOMAIN map' \subseteq Keys
  <2>1. DOMAIN map' \subseteq DOMAIN map
    BY <1>3
  <2> QED BY <1>1, <2>1, FS_Subset
<1>9. \A k \in DOMAIN map' : map'[k] \in Int /\ map'[k] < Len(vec')
  BY <1>1, <1>2, <1>4
<1>10. Typed'
  BY <1>1, <1>2, <1>8, <1>9, BoundAssumption DEF IInv, Typed
<1> QED BY <1>7, <1>10 DEF IInv, InStep
LEMMA FunctionIsSeq ==
    ASSUME NEW S, NEW n \in Nat, NEW f \in [1 .. n -> S]
    PROVE  f \in Seq(S) /\ Len(f) = n
<1>1. f \in Seq(S)
  BY SeqDef
<1>2. 1 .. Len(f) = 1 .. n /\ Len(f) \in Nat
  BY <1>1, LenProperties
<1> QED BY <1>1, <1>2

(* A new value leaves the keys and their places as they are.               *)
LEMMA AssignKeeps ==
    ASSUME IInv, Followed, NEW k \in Keys, NEW v \in Values, assign(k, v)
    PROVE  /\ IInv' /\ Filed(Len(vec)) /\ Filed(Len(vec))' /\ reply'.outcome = "returned"
           /\ map[k] + 1 \in DOMAIN vec /\ vec[map[k] + 1].key = k
<1>1. /\ vec \in Seq(Entries) /\ Len(vec) \in Nat /\ DOMAIN vec = 1 .. Len(vec)
      /\ vec' = [vec EXCEPT ![map[k] + 1].value = v]
      /\ UNCHANGED map /\ UNCHANGED <<moved, shuffled>>
      /\ reply'.value = v /\ reply'.outcome = "returned"
  <2>1. vec \in Seq(Entries)
    BY DEF IInv, Typed
  <2>2. Len(vec) \in Nat /\ DOMAIN vec = 1 .. Len(vec)
    BY <2>1, LenProperties
  <2> QED BY <2>1, <2>2 DEF assign, Answers, Followed
<1>2. Filed(Len(vec)) /\ k \in DOMAIN map
  BY AgreedIsFiled DEF assign, Followed, Known
<1> DEFINE p == map[k] + 1
<1>3. p \in DOMAIN vec /\ vec[p].key = k
  BY <1>1, <1>2 DEF Filed
<1>4. \A n \in DOMAIN vec : vec[n] \in Entries
  BY <1>1, ElementOfSeq
<1>5. vec' = [vec EXCEPT ![p].value = v]
  BY <1>1
<1> HIDE DEF p
<1>6. /\ DOMAIN vec' = DOMAIN vec /\ vec' \in [DOMAIN vec -> Entries]
      /\ \A n \in DOMAIN vec : vec'[n].key = vec[n].key
  <2>1. [vec[p] EXCEPT !.value = v] \in Entries /\ [vec[p] EXCEPT !.value = v].key = vec[p].key
    BY <1>3, <1>4 DEF Entries
  <2>2. vec' = [n \in DOMAIN vec |-> IF n = p THEN [vec[p] EXCEPT !.value = v] ELSE vec[n]]
    BY <1>1, <1>3, <1>5
  <2> QED BY <1>4, <2>1, <2>2
<1>7. vec' \in Seq(Entries) /\ Len(vec') = Len(vec)
  <2>1. vec' \in [1 .. Len(vec) -> Entries] /\ Len(vec) \in Nat
    BY <1>1, <1>6
  <2> QED BY ONLY <2>1, FunctionIsSeq
<1>8. ASSUME NEW i \in DOMAIN map
      PROVE  map[i] \in 0 .. Len(vec) - 1 /\ vec'[map[i] + 1].key = i
  <2>1. map[i] \in 0 .. Len(vec) - 1 /\ vec[map[i] + 1].key = i
    BY <1>2 DEF Filed
  <2>2. map[i] + 1 \in DOMAIN vec
    BY <1>1, <2>1
  <2> QED BY <1>6, <2>1, <2>2
<1>9. ASSUME NEW n \in 1 .. Len(vec)
      PROVE  vec'[n].key \in DOMAIN map /\ map[vec'[n].key] = n - 1
  BY <1>1, <1>2, <1>6 DEF Filed
<1>10. Filed(Len(vec))'
  BY <1>1, <1>7, <1>8, <1>9 DEF Filed
<1>11. Typed'
  BY <1>1, <1>7 DEF IInv, Typed
<1> QED BY <1>1, <1>2, <1>3, <1>10, <1>11 DEF IInv, InStep, p

LEMMA ClearKeeps ==
    ASSUME IInv, clear
    PROVE  IInv' /\ SizesAgree'
<1>1. /\ vec' = <<>> /\ map' = <<>> /\ Len(vec') = 0 /\ DOMAIN map' = {}
      /\ reply'.value = Nothing /\ shuffled' = FALSE /\ moved' = moved
  BY DEF clear, Answers
<1>2. Filed(Len(vec))'
  BY <1>1 DEF Filed
<1>3. Typed'
  <2>1. vec' \in Seq(Entries)
    BY <1>1
  <2>2. IsFiniteSet(DOMAIN map')
    BY <1>1, FS_EmptySet
  <2>3. moved \in [Keys -> Keys]
    BY DEF IInv, Typed
  <2>4. DOMAIN map' \subseteq Keys /\ \A k \in DOMAIN map' : map'[k] \in Int /\ map'[k] < Len(vec')
    BY <1>1
  <2>5. Len(vec') <= MaxEntries
    BY <1>1, BoundAssumption
  <2> QED BY <1>1, <2>1, <2>2, <2>3, <2>4, <2>5 DEF Typed
<1>4. SizesAgree'
  BY <1>1, FS_EmptySet DEF SizesAgree
<1> QED BY <1>2, <1>3, <1>4 DEF IInv, InStep
-----------------------------------------------------------------------------
(* eraseIf: the entries that stay, picked by their ranks.                  *)

LEMMA Least ==
    ASSUME NEW T \in SUBSET Nat, T # {}
    PROVE  \E x \in T : \A y \in T : x <= y
<1> DEFINE R == OpToRel(<, Nat)
<1>1. IsWellFoundedOn(R, Nat)
  BY NatLessThanWellFounded
<1>2. \A x, y \in Nat : x < y => <<x, y>> \in R
  BY DEF OpToRel
<1> HIDE DEF R
<1>3. PICK x \in T : \A y \in T : ~(<<y, x>> \in R)
  BY <1>1, WFMin
<1>4. ASSUME NEW y \in T
      PROVE  x <= y
  <2>1. x \in Nat /\ y \in Nat
    OBVIOUS
  <2>2. ~(y < x)
    BY <1>2, <1>3, <2>1
  <2> QED BY <2>1, <2>2
<1> QED BY <1>4

Rank(S, i) == Cardinality({j \in S : j <= i})

(* No two elements have the same rank, and none is left out.               *)
LEMMA Ranks ==
    ASSUME NEW S \in SUBSET Nat, IsFiniteSet(S)
    PROVE  /\ Cardinality(S) \in Nat
           /\ \A i \in S : Rank(S, i) \in 1 .. Cardinality(S)
           /\ \A i, j \in S : Rank(S, i) = Rank(S, j) => i = j
           /\ \A n \in 1 .. Cardinality(S) : \E i \in S : Rank(S, i) = n
<1> DEFINE Low(i) == {j \in S : j <= i}
           N == Cardinality(S)
<1>1. N \in Nat
  BY FS_CardinalityType
<1>2. ASSUME NEW i \in S
      PROVE  IsFiniteSet(Low(i)) /\ Cardinality(Low(i)) \in 1 .. N
  <2>1. Low(i) \in SUBSET S /\ i \in Low(i)
    OBVIOUS
  <2> HIDE DEF Low
  <2>2. IsFiniteSet(Low(i)) /\ Cardinality(Low(i)) <= N
    BY <2>1, FS_Subset
  <2>3. Cardinality(Low(i)) \in Nat
    BY <2>2, FS_CardinalityType
  <2>4. Cardinality(Low(i)) # 0
    BY <2>1, <2>2, FS_EmptySet
  <2> QED BY <1>1, <2>2, <2>3, <2>4
<1>3. ASSUME NEW i \in S, NEW j \in S, i < j
      PROVE  Cardinality(Low(i)) # Cardinality(Low(j))
  <2>1. Low(i) \in SUBSET Low(j) /\ j \in Low(j) /\ j \notin Low(i)
    <3>1. i \in Nat /\ j \in Nat /\ \A x \in S : x \in Nat
      OBVIOUS
    <3>2. \A x \in S : x <= i => x <= j
      BY <1>3, <3>1
    <3>3. j <= j /\ ~(j <= i)
      BY <1>3, <3>1
    <3> QED BY <3>2, <3>3
  <2> HIDE DEF Low
  <2>2. IsFiniteSet(Low(j))
    BY <1>2
  <2>3. Cardinality(Low(j)) = Cardinality(Low(i)) => Low(j) = Low(i)
    BY <2>1, <2>2, FS_Subset
  <2> QED BY <2>1, <2>3
<1>4. ASSUME NEW i \in S, NEW j \in S, Cardinality(Low(i)) = Cardinality(Low(j))
      PROVE  i = j
  <2>1. i \in Nat /\ j \in Nat /\ ~(i < j) /\ ~(j < i)
    BY <1>3, <1>4
  <2> QED BY <2>1
<1> DEFINE r == [i \in S |-> Cardinality(Low(i))]
<1>5. r \in Injection(S, 1 .. N)
  <2>1. r \in [S -> 1 .. N] /\ \A i, j \in S : r[i] = r[j] => i = j
    BY <1>2, <1>4
  <2> HIDE DEF r
  <2> QED BY <2>1 DEF Injection, IsInjective
<1>6. r \in Surjection(S, 1 .. N)
  <2>1. IsFiniteSet(1 .. N) /\ Cardinality(1 .. N) = N
    BY <1>1, FS_Interval
  <2> HIDE DEF r
  <2> QED BY <1>5, <2>1, FS_Injection DEF N
<1>7. \A n \in 1 .. N : \E i \in S : r[i] = n
  <2> HIDE DEF r, N
  <2> QED BY <1>6 DEF Surjection
<1> QED BY <1>1, <1>2, <1>4, <1>7 DEF Rank

LEMMA PickedEntries ==
    ASSUME vec \in Seq(Entries), NEW S \in SUBSET DOMAIN vec
    PROVE  /\ Cardinality(S) \in Nat /\ Cardinality(S) <= Len(vec)
           /\ Picked(S) \in Seq(Entries) /\ Len(Picked(S)) = Cardinality(S)
           /\ \A n \in 1 .. Cardinality(S) : \E i \in S : Picked(S)[n] = vec[i]
           /\ \A i \in S : \E n \in 1 .. Cardinality(S) : Picked(S)[n] = vec[i]
           /\ \A n \in 1 .. Cardinality(S), i \in S : Rank(S, i) = n => Picked(S)[n] = vec[i]
<1>1. Len(vec) \in Nat /\ DOMAIN vec = 1 .. Len(vec) /\ \A i \in DOMAIN vec : vec[i] \in Entries
  BY LenProperties, ElementOfSeq
<1>2. /\ IsFiniteSet(DOMAIN vec) /\ Cardinality(DOMAIN vec) = Len(vec)
  <2>1. IsFiniteSet(1 .. Len(vec)) /\ Cardinality(1 .. Len(vec)) = Len(vec)
    <3>1. Len(vec) \in Nat
      BY <1>1
    <3>2. IsFiniteSet(1 .. Len(vec)) /\ Cardinality(1 .. Len(vec)) = IF 1 > Len(vec) THEN 0 ELSE Len(vec) - 1 + 1
      BY <3>1, FS_Interval
    <3> QED BY <3>1, <3>2
  <2> QED BY <1>1, <2>1
<1>3. IsFiniteSet(S) /\ Cardinality(S) <= Len(vec)
  BY <1>2, FS_Subset
<1>4. S \in SUBSET Nat
  BY <1>1
<1> DEFINE N == Cardinality(S)
           place(n) == CHOOSE i \in S : Rank(S, i) = n
           P == Picked(S)
<1>5. P = [n \in 1 .. N |-> vec[place(n)]]
  BY DEF Picked, Rank
<1>6. /\ N \in Nat
      /\ \A i \in S : Rank(S, i) \in 1 .. N
      /\ \A i, j \in S : Rank(S, i) = Rank(S, j) => i = j
      /\ \A n \in 1 .. N : \E i \in S : Rank(S, i) = n
  BY <1>3, <1>4, Ranks
<1>7. \A n \in 1 .. N : place(n) \in S /\ Rank(S, place(n)) = n
  BY <1>6
<1> HIDE DEF place, P, N
<1>8. \A n \in 1 .. N : P[n] = vec[place(n)] /\ P[n] \in Entries
  BY <1>1, <1>5, <1>7
<1>9. P \in Seq(Entries) /\ Len(P) = N
  <2>1. P \in [1 .. N -> Entries]
    BY <1>5, <1>8
  <2> QED BY ONLY <1>6, <2>1, FunctionIsSeq
<1>10. \A n \in 1 .. N, i \in S : Rank(S, i) = n => P[n] = vec[i]
  BY <1>6, <1>7, <1>8
<1>11. \A i \in S : \E n \in 1 .. N : P[n] = vec[i]
  BY <1>6, <1>10
<1>12. \A n \in 1 .. N : \E i \in S : P[n] = vec[i]
  BY <1>7, <1>8
<1> QED BY <1>3, <1>6, <1>9, <1>10, <1>11, <1>12 DEF P, N

(* What comes before the first entry that goes is picked in place.         *)
LEMMA PickedPrefix ==
    ASSUME vec \in Seq(Entries), NEW n \in Nat, n <= Len(vec)
    PROVE  /\ Cardinality(1 .. n) = n /\ Len(Picked(1 .. n)) = n
           /\ \A i \in 1 .. n : Picked(1 .. n)[i] = vec[i]
<1>1. Len(vec) \in Nat /\ DOMAIN vec = 1 .. Len(vec)
  BY LenProperties
<1>2. Cardinality(1 .. n) = n
  BY FS_Interval
<1>3. 1 .. n \in SUBSET DOMAIN vec
  BY <1>1
<1>4. ASSUME NEW i \in 1 .. n
      PROVE  Rank(1 .. n, i) = i
  <2>1. {j \in 1 .. n : j <= i} = 1 .. i
    OBVIOUS
  <2>2. Cardinality(1 .. i) = i
    BY FS_Interval
  <2> QED BY <2>1, <2>2 DEF Rank
<1>5. /\ Len(Picked(1 .. n)) = Cardinality(1 .. n)
      /\ \A m \in 1 .. Cardinality(1 .. n), i \in 1 .. n :
            Rank(1 .. n, i) = m => Picked(1 .. n)[m] = vec[i]
  BY <1>3, PickedEntries
<1> QED BY <1>2, <1>4, <1>5
(* Nothing is displaced when the entries that go are the last ones.        *)
LEMMA StayingPrefix ==
    ASSUME vec \in Seq(Entries), NEW gone, ~Displaced(gone)
    PROVE  \E n \in Nat : n <= Len(vec) /\ Staying(gone) = 1 .. n
<1>1. Len(vec) \in Nat /\ DOMAIN vec = 1 .. Len(vec)
  BY LenProperties
<1> DEFINE T == {x \in 1 .. Len(vec) + 1 : x = Len(vec) + 1 \/ x \notin Staying(gone)}
<1>2. T \in SUBSET Nat /\ T # {}
  <2>1. Len(vec) + 1 \in T
    BY <1>1
  <2> QED BY <1>1, <2>1
<1>3. PICK q \in T : \A y \in T : q <= y
  <2> HIDE DEF T
  <2> QED BY <1>2, Least
<1>4. q \in 1 .. Len(vec) + 1 /\ q - 1 \in Nat /\ q - 1 <= Len(vec)
  BY <1>1, <1>3
<1>5. ASSUME NEW i \in 1 .. q - 1
      PROVE  i \in Staying(gone)
  <2>1. i \in 1 .. Len(vec) + 1 /\ ~(q <= i)
    BY <1>1, <1>4
  <2>2. i \notin T
    BY <1>3, <2>1
  <2> QED BY <2>1, <2>2
<1>6. ASSUME NEW i \in Staying(gone)
      PROVE  i \in 1 .. q - 1
  <2>1. i \in 1 .. Len(vec) /\ vec[i].key \notin gone
    BY <1>1 DEF Staying
  <2>2. CASE q = Len(vec) + 1
    BY <1>1, <2>1, <2>2
  <2>3. CASE q # Len(vec) + 1
    <3>1. q \in DOMAIN vec /\ q \notin Staying(gone)
      BY <1>1, <1>3, <1>4, <2>3
    <3>2. vec[q].key \in gone
      BY <3>1 DEF Staying
    <3>3. ~(q < i)
      BY <1>1, <2>1, <3>1, <3>2 DEF Displaced
    <3>4. q # i
      BY <3>1
    <3> QED BY <1>1, <1>4, <2>1, <3>3, <3>4
  <2> QED BY <2>2, <2>3
<1>7. Staying(gone) = 1 .. q - 1
  BY <1>5, <1>6
<1> QED BY <1>4, <1>7

(* The keys erase(first, last) reads after remove_if.                      *)
Reads(gone, i) == IF vec[i].key \in gone THEN vec[i].key ELSE moved[vec[i].key]

LEMMA EraseIfHalves ==
    ASSUME IInv, NEW gone, eraseIf(gone)
    PROVE  LET n == Cardinality(Staying(gone))
               removed == {Reads(gone, i) : i \in n + 1 .. Len(vec)}
           IN  /\ Filed(Len(vec)) /\ Len(vec) \in Nat /\ vec \in Seq(Entries)
               /\ DOMAIN vec = 1 .. Len(vec) /\ Staying(gone) \in SUBSET DOMAIN vec
               /\ n \in Nat /\ n <= Len(vec)
               /\ vec' = Picked(Staying(gone)) /\ vec' \in Seq(Entries) /\ Len(vec') = n
               /\ map' = [k \in DOMAIN map \ removed |->
                             IF map[k] >= n THEN map[k] - (Len(vec) - n) ELSE map[k]]
               /\ shuffled' = Displaced(gone) /\ moved' = moved /\ ~shuffled
               /\ Answers("eraseIf", IF n = Cardinality(DOMAIN map') THEN "returned"
                                                                 ELSE "condition_failed", Nothing)
<1> DEFINE n == Cardinality(Staying(gone))
           removed == {Reads(gone, i) : i \in n + 1 .. Len(vec)}
           S == Staying(gone)
           read == [i \in DOMAIN vec |-> IF vec[i].key \in gone THEN vec[i].key
                                                               ELSE moved[vec[i].key]]
           stay == Picked(S)
<1>1. /\ Filed(Len(vec)) /\ Len(vec) \in Nat /\ vec \in Seq(Entries)
      /\ DOMAIN vec = 1 .. Len(vec) /\ S \in SUBSET DOMAIN vec
  <2>1. Filed(Len(vec)) /\ Len(vec) \in Nat /\ vec \in Seq(Entries)
    BY AgreedIsFiled DEF eraseIf, IInv, Typed
  <2>2. DOMAIN vec = 1 .. Len(vec)
    BY <2>1, LenProperties
  <2> QED BY <2>1, <2>2 DEF Staying
<1>2. n \in Nat /\ n <= Len(vec) /\ stay \in Seq(Entries) /\ Len(stay) = n
  <2> HIDE DEF S
  <2>1. /\ Cardinality(S) \in Nat /\ Cardinality(S) <= Len(vec)
        /\ Picked(S) \in Seq(Entries) /\ Len(Picked(S)) = Cardinality(S)
    BY <1>1, PickedEntries
  <2> QED BY <2>1 DEF S
<1>3. EraseRest(stay, read) /\ shuffled' = Displaced(gone) /\ moved' = moved /\ ~shuffled
  BY DEF eraseIf
<1> DEFINE m == Len(vec) - n
           out == {read[i] : i \in n + 1 .. n + m}
<1>4. /\ map' = [k \in DOMAIN map \ out |-> IF map[k] >= n THEN map[k] - m ELSE map[k]]
      /\ vec' = stay
      /\ Answers("eraseIf", IF n = Cardinality(DOMAIN map') THEN "returned"
                                                         ELSE "condition_failed", Nothing)
  <2> HIDE DEF stay, read, n
  <2>1. Len(stay) = n
    BY <1>2
  <2> QED BY <1>3, <2>1 DEF EraseRest
<1>5. out = removed
  <2>1. n + m = Len(vec)
    BY <1>1, <1>2
  <2>2. \A i \in n + 1 .. Len(vec) : i \in DOMAIN vec
    BY <1>1, <1>2
  <2> HIDE DEF n, m
  <2> QED BY <2>1, <2>2 DEF Reads
<1> HIDE DEF out, removed, n, stay, S, read
<1>6. map' = [k \in DOMAIN map \ removed |-> IF map[k] >= n THEN map[k] - m ELSE map[k]]
  BY <1>4, <1>5
<1> QED BY <1>1, <1>2, <1>3, <1>4, <1>6 DEF removed, n, S, stay
(* Without a displaced entry it erases the last ones.                      *)
LEMMA EraseIfOfLast ==
    ASSUME IInv, NEW gone, eraseIf(gone), ~shuffled'
    PROVE  LET n == Cardinality(Staying(gone))
           IN  /\ n \in Nat /\ n <= Len(vec) /\ Len(vec) \in Nat /\ Filed(Len(vec))
               /\ Erase(n, Len(vec)) /\ IInv' /\ Filed(Len(vec))'
               /\ Answers("eraseIf", "returned", Nothing)
<1> DEFINE n == Cardinality(Staying(gone))
           removed == {Reads(gone, i) : i \in n + 1 .. Len(vec)}
           L == Len(vec)
<1>1. /\ Filed(L) /\ L \in Nat /\ vec \in Seq(Entries) /\ DOMAIN vec = 1 .. L
      /\ n \in Nat /\ n <= L
      /\ vec' = Picked(Staying(gone)) /\ vec' \in Seq(Entries) /\ Len(vec') = n
      /\ map' = [k \in DOMAIN map \ removed |->
                    IF map[k] >= n THEN map[k] - (L - n) ELSE map[k]]
      /\ shuffled' = Displaced(gone) /\ moved' = moved /\ ~shuffled
      /\ Answers("eraseIf", IF n = Cardinality(DOMAIN map') THEN "returned"
                                                         ELSE "condition_failed", Nothing)
  BY EraseIfHalves
<1>2. PICK p \in Nat : p <= L /\ Staying(gone) = 1 .. p
  BY <1>1, StayingPrefix
<1>3. p = n
  <2>1. Cardinality(1 .. p) = p
    BY <1>1, <1>2, PickedPrefix
  <2> QED BY <1>2, <2>1
<1>4. \A i \in 1 .. n : vec'[i] = vec[i]
  <2>1. \A i \in 1 .. p : Picked(1 .. p)[i] = vec[i]
    BY <1>1, <1>2, PickedPrefix
  <2> HIDE DEF n
  <2> QED BY <1>1, <1>2, <1>3, <2>1
<1>5. removed = {vec[i].key : i \in n + 1 .. L}
  <2>1. ASSUME NEW i \in n + 1 .. L
        PROVE  Reads(gone, i) = vec[i].key
    <3>1. i \in DOMAIN vec /\ i \notin Staying(gone)
      <4> HIDE DEF n, L
      <4> QED BY <1>1, <1>2, <1>3
    <3> QED BY <3>1 DEF Staying, Reads
  <2> QED BY <2>1
<1> HIDE DEF removed, n
<1>6. vec' = WithoutStretch(vec, n, L)
  <2> DEFINE c == WithoutStretch(vec, n, L)
  <2>1. /\ c \in Seq(Entries) /\ Len(c) = Len(vec) - (L - n)
        /\ \A i \in 1 .. n : c[i] = vec[i]
        /\ \A i \in n + 1 .. Len(vec) - (L - n) : c[i] = vec[i + (L - n)]
    <3>1. vec \in Seq(Entries) /\ n \in Nat /\ L \in Nat /\ n <= L /\ L <= Len(vec)
      BY <1>1
    <3> QED BY ONLY <3>1, CutEntries, Zenon
  <2>2. Len(c) = n
    BY <1>1, <2>1
  <2> HIDE DEF c
  <2>3. c = vec'
    BY <1>1, <1>4, <2>1, <2>2, SeqEqual
  <2> QED BY <2>3 DEF c
<1>7. Erase(n, L)
  <2>1. vec' = SubSeq(vec, 1, n) \o SubSeq(vec, L + 1, Len(vec))
    BY <1>6 DEF WithoutStretch
  <2>2. map' = [k \in DOMAIN map \ {vec[i].key : i \in n + 1 .. L} |->
                   IF map[k] >= n THEN map[k] - (L - n) ELSE map[k]]
    BY <1>1, <1>5
  <2> QED BY <2>1, <2>2 DEF Erase
<1>8. reply'.value = Nothing /\ UNCHANGED <<moved, shuffled>>
  <2>1. shuffled = FALSE /\ shuffled' = FALSE
    BY <1>1 DEF Displaced, IInv, Typed
  <2> QED BY <1>1, <2>1 DEF Answers
<1>9. IInv' /\ Filed(Len(vec))'
  BY <1>1, <1>7, <1>8, EraseKeeps
<1>10. Cardinality(DOMAIN map') = n
  <2>1. /\ \A k \in DOMAIN map' : map'[k] \in 0 .. n - 1 /\ vec'[map'[k] + 1].key = k
        /\ \A i \in 1 .. n : vec'[i].key \in DOMAIN map' /\ map'[vec'[i].key] = i - 1
    BY <1>1, <1>9 DEF Filed
  <2>2. n \in Nat
    BY <1>1
  <2> QED BY ONLY <2>1, <2>2, Counted
<1>11. Answers("eraseIf", "returned", Nothing)
  BY <1>1, <1>10
<1> QED BY <1>1, <1>7, <1>9, <1>11 DEF n

(* Once shuffled, a place is still within vec.                             *)
LEMMA EraseIfKeeps ==
    ASSUME IInv, NEW gone, eraseIf(gone)
    PROVE  IInv'
<1>1. CASE ~shuffled'
  BY <1>1, EraseIfOfLast
<1>2. CASE shuffled'
  <2> DEFINE n == Cardinality(Staying(gone))
             removed == {Reads(gone, i) : i \in n + 1 .. Len(vec)}
             L == Len(vec)
  <2>1. /\ Filed(L) /\ L \in Nat /\ n \in Nat /\ n <= L
        /\ vec' \in Seq(Entries) /\ Len(vec') = n
        /\ map' = [k \in DOMAIN map \ removed |->
                      IF map[k] >= n THEN map[k] - (L - n) ELSE map[k]]
        /\ shuffled' = Displaced(gone) /\ moved' = moved
        /\ Answers("eraseIf", IF n = Cardinality(DOMAIN map') THEN "returned"
                                                           ELSE "condition_failed", Nothing)
    BY EraseIfHalves
  <2> HIDE DEF n, removed, L
  <2>2. /\ L <= MaxEntries /\ IsFiniteSet(DOMAIN map) /\ DOMAIN map \subseteq Keys
        /\ moved \in [Keys -> Keys]
    BY DEF IInv, Typed, L
  <2>3. IsFiniteSet(DOMAIN map') /\ DOMAIN map' \subseteq Keys
    <3>1. DOMAIN map' \subseteq DOMAIN map
      BY <2>1
    <3> QED BY <2>2, <3>1, FS_Subset
  <2>4. \A k \in DOMAIN map' : map'[k] \in Int /\ map'[k] < Len(vec')
    <3>1. \A k \in DOMAIN map : map[k] \in Int /\ map[k] < L
      BY <2>1 DEF Filed
    <3> QED BY <2>1, <3>1
  <2>5. reply'.value = Nothing /\ shuffled' \in BOOLEAN
    BY <1>2, <2>1 DEF Answers, Displaced
  <2>6. Len(vec') <= MaxEntries
    BY <2>1, <2>2, BoundAssumption
  <2>7. Typed'
    BY <1>2, <2>1, <2>2, <2>3, <2>4, <2>5, <2>6 DEF Typed
  <2> QED BY <1>2, <2>7 DEF IInv
<1> QED BY <1>1, <1>2

-----------------------------------------------------------------------------
LEMMA Initially ==
    ASSUME Init
    PROVE  IInv
<1>1. vec = <<>> /\ map = <<>> /\ Len(vec) = 0 /\ DOMAIN map = {} /\ shuffled = FALSE
  BY DEF Init
<1>2. Filed(Len(vec))
  BY <1>1 DEF Filed
<1>3. IsFiniteSet(DOMAIN map)
  BY <1>1, FS_EmptySet
<1>4. moved \in [Keys -> Keys] /\ reply.value = Nothing
  BY DEF Init
<1>5. vec \in Seq(Entries) /\ Len(vec) <= MaxEntries
  BY <1>1, BoundAssumption
<1>6. DOMAIN map \subseteq Keys /\ \A k \in DOMAIN map : map[k] \in Int /\ map[k] < Len(vec)
  BY <1>1
<1>7. Typed
  BY <1>1, <1>3, <1>4, <1>5, <1>6 DEF Typed
<1> QED BY <1>2, <1>7 DEF IInv, InStep
LEMMA InsertKeeps ==
    ASSUME IInv, Followed, NEW k \in Keys, NEW v \in Values, insert(k, v)
    PROVE  IInv'
<1>1. CASE Known(k) /\ Answers("insert", "returned", Found(k).value) /\ Unchanged
  <2>1. Found(k).value \in Values
    BY <1>1, AgreedIsFiled, KnownEntry DEF insert, Filed, Known, Followed
  <2>2. reply'.value \in Values
    BY <1>1, <2>1 DEF Answers
  <2> QED BY <1>1, <2>2, SameHalves DEF insert, Followed, Unchanged
<1>2. CASE InsertNew("insert", k, v)
  BY <1>2, InsertNewKeeps DEF insert
<1> QED BY <1>1, <1>2 DEF insert

LEMMA SubscriptKeeps ==
    ASSUME IInv, Followed, NEW k \in Keys, subscript(k)
    PROVE  IInv'
<1>1. CASE Known(k) /\ Answers("[]", "returned", Found(k).value) /\ Unchanged
  <2>1. Found(k).value \in Values
    BY <1>1, AgreedIsFiled, KnownEntry DEF subscript, Filed, Known, Followed
  <2>2. reply'.value \in Values
    BY <1>1, <2>1 DEF Answers
  <2> QED BY <1>1, <2>2, SameHalves DEF subscript, Followed, Unchanged
<1>2. CASE InsertNew("[]", k, Default)
  BY <1>2, InsertNewKeeps, DefaultAssumption DEF subscript
<1> QED BY <1>1, <1>2 DEF subscript

LEMMA EraseRangeKeeps ==
    ASSUME IInv, Followed, NEW i \in 0 .. MaxEntries, NEW j \in 0 .. MaxEntries, erase_range(i, j)
    PROVE  IInv'
<1>1. Filed(Len(vec)) /\ Len(vec) \in Nat /\ SizesAgree /\ j <= Len(vec)
      /\ reply'.value = Nothing /\ UNCHANGED <<moved, shuffled>>
  BY AgreedIsFiled DEF erase_range, Followed, Answers
<1>2. i \in Nat /\ j \in Nat
  BY BoundAssumption
<1>3. CASE i > j
  BY <1>1, <1>3, SameHalves DEF erase_range, Unchanged
<1>4. CASE ~(i > j)
  <2>1. Erase(i, j) /\ i <= j
    BY <1>2, <1>4 DEF erase_range
  <2> QED BY <1>1, <1>2, <2>1, EraseKeeps
<1> QED BY <1>3, <1>4

LEMMA EraseKeyKeeps ==
    ASSUME IInv, Followed, NEW k \in Keys, erase(k)
    PROVE  IInv'
<1>1. Filed(Len(vec)) /\ Len(vec) \in Nat /\ SizesAgree
      /\ reply'.value = Nothing /\ UNCHANGED <<moved, shuffled>>
  BY AgreedIsFiled DEF erase, Followed, Answers
<1>2. CASE Known(k) /\ Erase(map[k], map[k] + 1)
  <2> DEFINE p == map[k]
  <2>1. p \in Nat /\ p + 1 \in Nat /\ p <= p + 1 /\ p + 1 <= Len(vec)
    BY <1>1, <1>2 DEF Filed, Known
  <2>2. Erase(p, p + 1)
    BY <1>2
  <2> HIDE DEF p
  <2> QED BY <1>1, <2>1, <2>2, EraseKeeps
<1>3. CASE ~Known(k) /\ Unchanged
  BY <1>1, <1>3, SameHalves DEF Unchanged
<1> QED BY <1>2, <1>3 DEF erase

LEMMA Steps ==
    ASSUME IInv, [Next]_vars
    PROVE  IInv'
<1>1. ASSUME Followed, NEW op, SizesDisagree(op)
      PROVE  IInv'
  BY <1>1, SizesDisagreeKeeps
<1>2. ASSUME Followed, NEW k \in Keys, NEW v \in Values, insert(k, v)
      PROVE  IInv'
  BY <1>2, InsertKeeps
<1>3. ASSUME Followed, NEW k \in Keys, subscript(k)
      PROVE  IInv'
  BY <1>3, SubscriptKeeps
<1>4. ASSUME Followed, NEW k \in Keys, NEW v \in Values, assign(k, v)
      PROVE  IInv'
  BY <1>4, AssignKeeps
<1>5. ASSUME Followed, NEW i \in 0 .. MaxEntries, NEW j \in 0 .. MaxEntries, erase_range(i, j)
      PROVE  IInv'
  BY <1>5, EraseRangeKeeps
<1>6. ASSUME Followed, NEW k \in Keys, erase(k)
      PROVE  IInv'
  BY <1>6, EraseKeyKeeps
<1>7. ASSUME NEW k \in Keys, find(k) \/ at(k)
      PROVE  IInv'
  BY <1>7, LookUpKeeps DEF find, at
<1>8. ASSUME NEW gone, eraseIf(gone)
      PROVE  IInv'
  BY <1>8, EraseIfKeeps
<1>9. CASE clear
  BY <1>9, ClearKeeps
<1>10. CASE UNCHANGED vars
  <2>1. UNCHANGED <<vec, map, moved, shuffled, reply>>
    BY <1>10 DEF vars
  <2>2. Typed' = Typed
    BY <2>1 DEF Typed
  <2>3. InStep' = InStep
    BY <2>1 DEF InStep, Filed, Alive
  <2> QED BY <2>1, <2>2, <2>3 DEF IInv
<1> QED BY <1>1, <1>2, <1>3, <1>4, <1>5, <1>6, <1>7, <1>8, <1>9, <1>10 DEF Next

(* The entries filed are all of them or, after an insertion that ran out   *)
(* of memory, all but the last; no place ever lies beyond the entries.     *)
THEOREM Invariance == Spec => []IInv
<1>1. Init => IInv
  BY Initially
<1>2. IInv /\ [Next]_vars => IInv'
  BY Steps
<1> QED BY <1>1, <1>2, PTL DEF Spec

LEMMA Agreement ==
    ASSUME IInv
    PROVE  HalvesAgree
<1>1. Len(vec) \in Nat
  BY LenProperties DEF IInv, Typed
<1>2. TypeOK
  BY DEF IInv, Typed, TypeOK, Entries
<1>3. ASSUME ~shuffled
      PROVE  PlacesAreExact /\ TornByOneInsert
  <2>1. CASE Filed(Len(vec))
    <3>1. Cardinality(DOMAIN map) = Len(vec)
      BY <1>1, <2>1, FiledSize
    <3> QED BY <1>1, <2>1, <3>1 DEF PlacesAreExact, TornByOneInsert, Filed, Found, Known, SizesAgree
  <2>2. CASE Len(vec) > 0 /\ Filed(Len(vec) - 1) /\ (Alive => reply.outcome = "bad_alloc")
    <3>1. Cardinality(DOMAIN map) = Len(vec) - 1 /\ Len(vec) - 1 \in Nat
      BY <1>1, <2>2, FiledSize
    <3>2. \A k \in DOMAIN map : map[k] \in 0 .. Len(vec) - 1 /\ Found(k).key = k
      BY <1>1, <2>2 DEF Filed, Found
    <3>3. \A n \in 1 .. Cardinality(DOMAIN map) : Known(vec[n].key) /\ map[vec[n].key] = n - 1
      BY <2>2, <3>1 DEF Filed, Known
    <3>4. Len(vec) - Cardinality(DOMAIN map) \in {0, 1}
      BY <1>1, <3>1
    <3> QED BY <2>2, <3>2, <3>3, <3>4 DEF PlacesAreExact, TornByOneInsert
  <2> QED BY <1>3, <2>1, <2>2 DEF IInv, InStep
<1> QED BY <1>2, <1>3 DEF HalvesAgree, PlacesAreExact, TornByOneInsert

(* For any keys and values, and through any sequence of insertions,        *)
(* erasures and assignments, the places filed are those of the entries,    *)
(* and the halves differ by no more than one interrupted insertion.        *)
THEOREM HalvesAgreed == Spec => []HalvesAgree
BY Invariance, Agreement, PTL
-----------------------------------------------------------------------------
(* The two halves together as an OrderedMap.                               *)

LEMMA TornOrNot ==
    ASSUME IInv'
    PROVE  /\ Filed(Len(vec))' => (~SizesAgree)' = FALSE
           /\ Len(vec') > 0 /\ Filed(Len(vec) - 1)' => (~SizesAgree)' = TRUE
<1>1. Len(vec') \in Nat
  BY LenProperties DEF IInv, Typed
<1>2. ASSUME NEW n \in Nat, Filed(n)'
      PROVE  Cardinality(DOMAIN map') = n
  <2>1. /\ \A k \in DOMAIN map' : map'[k] \in 0 .. n - 1 /\ vec'[map'[k] + 1].key = k
        /\ \A i \in 1 .. n : vec'[i].key \in DOMAIN map' /\ map'[vec'[i].key] = i - 1
    BY <1>2 DEF Filed
  <2> QED BY ONLY n \in Nat, <2>1, Counted
<1>3. ASSUME Filed(Len(vec))'
      PROVE  Cardinality(DOMAIN map') = Len(vec')
  BY <1>1, <1>2, <1>3
<1>4. ASSUME Len(vec') > 0, Filed(Len(vec) - 1)'
      PROVE  Cardinality(DOMAIN map') = Len(vec') - 1
  <2>1. Len(vec') - 1 \in Nat
    BY <1>1, <1>4
  <2> QED BY <1>2, <1>4, <2>1
<1> QED BY <1>1, <1>3, <1>4 DEF SizesAgree
(* A key has one entry, the one its place leads to.                        *)
LEMMA OneEntry ==
    ASSUME IInv, Filed(Len(vec)), NEW k
    PROVE  /\ Ordered!Has(k) <=> Known(k)
           /\ Known(k) => Ordered!ValueOf(k) = Found(k).value
<1>1. /\ vec \in Seq(Entries) /\ Len(vec) \in Nat /\ DOMAIN vec = 1 .. Len(vec)
  <2>1. vec \in Seq(Entries)
    BY DEF IInv, Typed
  <2> QED BY <2>1, LenProperties
<1>2. ASSUME NEW i \in DOMAIN vec, vec[i].key = k
      PROVE  Known(k) /\ vec[i] = Found(k)
  <2>1. k \in DOMAIN map /\ map[k] = i - 1
    BY <1>1, <1>2 DEF Filed
  <2>2. map[k] + 1 = i
    BY <1>1, <2>1
  <2> QED BY <2>1, <2>2 DEF Known, Found
<1>3. ASSUME Known(k)
      PROVE  map[k] + 1 \in DOMAIN vec /\ Found(k).key = k
  BY <1>1, <1>3 DEF Filed, Known, Found
<1>4. Ordered!Has(k) <=> Known(k)
  BY <1>2, <1>3 DEF Ordered!Has, Found
<1>5. ASSUME Known(k)
      PROVE  Ordered!ValueOf(k) = Found(k).value
  <2>1. Found(k) \in Range(vec)
    BY <1>3, <1>5 DEF Found, Range
  <2>2. \A e \in Range(vec) : e.key = k => e = Found(k)
    BY <1>2 DEF Range
  <2>3. (CHOOSE e \in Range(vec) : e.key = k) = Found(k)
    BY <1>3, <1>5, <2>1, <2>2
  <2> QED BY <2>3 DEF Ordered!ValueOf, Ordered!Range, Range
<1> QED BY <1>4, <1>5

LEMMA AnswersAlike ==
    ASSUME NEW op, NEW outcome, NEW value
    PROVE  Answers(op, outcome, value) <=> Ordered!Answers(op, outcome, value)
BY DEF Answers, Alive, Ordered!Answers, Ordered!Alive

LEMMA KeepAlike ==
    ASSUME Unchanged
    PROVE  Ordered!Keep
BY DEF Unchanged, Ordered!Keep, SizesAgree

LEMMA GetImplements ==
    ASSUME IInv, ~shuffled, SizesAgree, NEW k \in Keys, NEW op \in {"at", "[]", "insert", "find"},
           Known(k), Answers(op, "returned", Found(k).value), Unchanged
    PROVE  Ordered!Next
<1>1. Ordered!Has(k) /\ Ordered!ValueOf(k) = Found(k).value
  BY AgreedIsFiled, OneEntry
<1>2. Ordered!Get(op, k)
  BY <1>1, AnswersAlike, KeepAlike DEF Ordered!Get
<1> QED BY <1>2 DEF Ordered!Next

LEMMA MissingImplements ==
    ASSUME IInv, ~shuffled, SizesAgree, NEW k \in Keys, ~Known(k), Unchanged,
           \/ Answers("at", "out_of_range", Nothing)
           \/ Answers("find", "end", Nothing)
           \/ Answers("erase", "returned", Nothing)
    PROVE  Ordered!Next
<1>1. ~Ordered!Has(k)
  BY AgreedIsFiled, OneEntry
<1>2. Ordered!Missing(k)
  BY <1>1, AnswersAlike, KeepAlike DEF Ordered!Missing
<1> QED BY <1>2 DEF Ordered!Next

LEMMA LookUpImplements ==
    ASSUME IInv, ~shuffled', NEW k \in Keys, find(k) \/ at(k)
    PROVE  Ordered!Next
<1>1. SizesAgree /\ Unchanged /\ ~shuffled
  BY DEF find, at, LookUp
<1>2. Known(k) => ~(map[k] < 0)
  <2>1. Filed(Len(vec)) /\ Len(vec) \in Nat
    BY <1>1, AgreedIsFiled
  <2> QED BY <2>1 DEF Filed, Known
<1>3. CASE Known(k)
  <2>1. Answers("find", "returned", Found(k).value) \/ Answers("at", "returned", Found(k).value)
    BY <1>2, <1>3 DEF find, at, LookUp
  <2> QED BY <1>1, <1>3, <2>1, GetImplements
<1>4. CASE ~Known(k)
  <2>1. Answers("find", "end", Nothing) \/ Answers("at", "out_of_range", Nothing)
    BY <1>4 DEF find, at, LookUp
  <2> QED BY <1>1, <1>4, <2>1, MissingImplements
<1> QED BY <1>3, <1>4

LEMMA AddImplements ==
    ASSUME IInv, Followed, SizesAgree, NEW op, NEW k \in Keys, NEW v \in Values,
           InsertNew(op, k, v)
    PROVE  Ordered!Add(op, k, v)
<1>1. ~Ordered!Has(k) /\ Len(vec) < MaxEntries /\ Entry(k, v) = Ordered!Entry(k, v)
  BY AgreedIsFiled, OneEntry DEF Followed, InsertNew, Entry, Ordered!Entry
<1>2. /\ IInv'
      /\ reply'.outcome = "returned" => Filed(Len(vec))'
      /\ vec' # vec /\ reply'.outcome # "returned" => Filed(Len(vec) - 1)'
  BY InsertNewKeeps
<1>3. ASSUME vec' = Append(vec, Entry(k, v))
      PROVE  Len(vec') > 0 /\ vec' # vec
  <2>1. vec \in Seq(Entries) /\ Entry(k, v) \in Entries /\ Len(vec) \in Nat
    BY AgreedIsFiled DEF IInv, Typed, Followed, Entry, Entries
  <2>2. Len(vec') = Len(vec) + 1
    BY <1>3, <2>1, AppendProperties
  <2> QED BY <2>1, <2>2
<1>4. CASE vec' = Append(vec, Entry(k, v)) /\ Answers(op, "returned", v)
  <2>1. (~SizesAgree)' = FALSE
    BY <1>2, <1>4, TornOrNot DEF Answers
  <2> QED BY <1>1, <1>4, <2>1, AnswersAlike DEF Ordered!Add
<1>5. CASE vec' = Append(vec, Entry(k, v)) /\ Answers(op, "bad_alloc", Nothing)
  <2>1. (~SizesAgree)' = TRUE
    BY <1>2, <1>3, <1>5, TornOrNot DEF Answers
  <2> QED BY <1>1, <1>5, <2>1, AnswersAlike DEF Ordered!Add
<1>6. CASE Unchanged /\ Answers(op, "bad_alloc", Nothing)
  <2>1. UNCHANGED SizesAgree
    BY <1>6 DEF Unchanged, SizesAgree
  <2> QED BY <1>1, <1>6, <2>1, AnswersAlike DEF Ordered!Add, Ordered!Keep, Unchanged
<1> QED BY <1>4, <1>5, <1>6 DEF InsertNew, Unchanged

LEMMA CutImplements ==
    ASSUME IInv, ~shuffled, SizesAgree, NEW i \in Nat, NEW j \in Nat, i <= j, j <= Len(vec),
           Erase(i, j), UNCHANGED <<moved, shuffled>>,
           NEW op \in {"erase", "eraseIf"}, Answers(op, "returned", Nothing)
    PROVE  Ordered!Next
<1>1. Filed(Len(vec)) /\ Len(vec) \in Nat /\ Len(vec) <= MaxEntries
  BY AgreedIsFiled DEF IInv, Typed
<1>2. reply'.value = Nothing
  BY DEF Answers
<1>3. IInv' /\ Filed(Len(vec))'
  BY <1>1, <1>2, EraseKeeps
<1>4. (~SizesAgree)' = FALSE
  BY <1>3, TornOrNot
<1>5. i \in 0 .. MaxEntries /\ j \in 0 .. MaxEntries
  BY <1>1, BoundAssumption
<1>6. vec' = SubSeq(vec, 1, i) \o SubSeq(vec, j + 1, Len(vec))
  BY DEF Erase
<1>7. (~SizesAgree) = FALSE
  OBVIOUS
<1>8. Ordered!Cut(i, j)
  BY <1>4, <1>6, <1>7, AnswersAlike DEF Ordered!Cut
<1> QED BY <1>5, <1>8 DEF Ordered!Next

LEMMA EraseImplements ==
    ASSUME IInv, Followed,
           \/ \E i, j \in 0 .. MaxEntries : erase_range(i, j)
           \/ \E k \in Keys : erase(k)
    PROVE  Ordered!Next
<1>1. SizesAgree /\ ~shuffled /\ UNCHANGED <<moved, shuffled>>
  BY DEF erase_range, erase, Followed
<1>2. Filed(Len(vec)) /\ Len(vec) \in Nat
  BY <1>1, AgreedIsFiled
<1>3. ASSUME NEW i \in 0 .. MaxEntries, NEW j \in 0 .. MaxEntries, erase_range(i, j)
      PROVE  Ordered!Next
  <2>1. i \in Nat /\ j \in Nat /\ j <= Len(vec)
    BY <1>3, BoundAssumption DEF erase_range
  <2>2. CASE i > j
    <3>1. Answers("erase", "condition_failed", Nothing) /\ Unchanged
      BY <1>3, <2>2 DEF erase_range
    <3>2. Ordered!Refuse(i, j)
      BY <1>1, <2>2, <3>1, AnswersAlike, KeepAlike DEF Ordered!Refuse
    <3> QED BY <3>2 DEF Ordered!Next
  <2>3. CASE ~(i > j)
    <3>1. Erase(i, j) /\ Answers("erase", "returned", Nothing) /\ i <= j
      BY <1>3, <2>1, <2>3 DEF erase_range
    <3> QED BY <1>1, <2>1, <3>1, CutImplements
  <2> QED BY <2>2, <2>3
<1>4. ASSUME NEW k \in Keys, erase(k)
      PROVE  Ordered!Next
  <2>1. CASE Known(k) /\ Erase(map[k], map[k] + 1)
    <3> DEFINE p == map[k]
    <3>1. p \in Nat /\ p + 1 \in Nat /\ p <= p + 1 /\ p + 1 <= Len(vec)
      BY <1>2, <2>1 DEF Filed, Known
    <3>2. Erase(p, p + 1) /\ Answers("erase", "returned", Nothing)
      BY <1>4, <2>1 DEF erase
    <3> HIDE DEF p
    <3> QED BY <1>1, <3>1, <3>2, CutImplements
  <2>2. CASE ~Known(k) /\ Unchanged
    <3>1. Answers("erase", "returned", Nothing)
      BY <1>4 DEF erase
    <3> QED BY <1>1, <2>2, <3>1, MissingImplements
  <2> QED BY <1>4, <2>1, <2>2 DEF erase
<1> QED BY <1>3, <1>4

LEMMA EraseIfImplements ==
    ASSUME IInv, NEW gone, eraseIf(gone), ~shuffled'
    PROVE  Ordered!Next
<1> DEFINE n == Cardinality(Staying(gone))
<1>1. /\ n \in Nat /\ n <= Len(vec) /\ Len(vec) \in Nat /\ Erase(n, Len(vec))
      /\ Answers("eraseIf", "returned", Nothing)
  BY EraseIfOfLast
<1>2. SizesAgree /\ ~shuffled /\ moved' = moved /\ shuffled' = shuffled
  <2>1. shuffled' \in BOOLEAN /\ shuffled \in BOOLEAN
    BY DEF eraseIf, Displaced, IInv, Typed
  <2> QED BY <2>1 DEF eraseIf
<1> HIDE DEF n
<1>3. Len(vec) <= Len(vec)
  BY <1>1
<1> QED BY <1>1, <1>2, <1>3, CutImplements

LEMMA WriteImplements ==
    ASSUME IInv, Followed, NEW k \in Keys, NEW v \in Values,
           insert(k, v) \/ subscript(k) \/ assign(k, v)
    PROVE  Ordered!Next
<1>1. SizesAgree /\ ~shuffled
  BY DEF insert, subscript, assign, Followed
<1>2. CASE insert(k, v)
  <2>1. CASE Known(k) /\ Answers("insert", "returned", Found(k).value) /\ Unchanged
    BY <1>1, <2>1, GetImplements
  <2>2. CASE InsertNew("insert", k, v)
    <3>1. Ordered!Add("insert", k, v)
      BY <1>1, <2>2, AddImplements
    <3> QED BY <3>1 DEF Ordered!Next
  <2> QED BY <1>2, <2>1, <2>2 DEF insert
<1>3. CASE subscript(k)
  <2>1. CASE Known(k) /\ Answers("[]", "returned", Found(k).value) /\ Unchanged
    BY <1>1, <2>1, GetImplements
  <2>2. CASE InsertNew("[]", k, Default)
    <3>1. Ordered!Add("[]", k, Default)
      BY <1>1, <2>2, AddImplements, DefaultAssumption
    <3> QED BY <3>1 DEF Ordered!Next
  <2> QED BY <1>3, <2>1, <2>2 DEF subscript
<1>4. CASE assign(k, v)
  <2>1. /\ IInv' /\ Filed(Len(vec))'
        /\ map[k] + 1 \in DOMAIN vec /\ vec[map[k] + 1].key = k
    BY <1>4, AssignKeeps
  <2>2. (~SizesAgree)' = FALSE /\ (~SizesAgree) = FALSE
    BY <1>1, <2>1, TornOrNot
  <2>3. /\ vec' = [vec EXCEPT ![map[k] + 1].value = v]
        /\ Answers("[]=", "returned", v)
    BY <1>4 DEF assign
  <2>4. Ordered!Set(k, v)
    BY <2>1, <2>2, <2>3, AnswersAlike DEF Ordered!Set
  <2> QED BY <2>4 DEF Ordered!Next
<1> QED BY <1>2, <1>3, <1>4

LEMMA EachStepImplements ==
    ASSUME IInv, [Next]_vars
    PROVE  [shuffled' \/ Ordered!Next]_vars
<1> SUFFICES ASSUME Next, ~shuffled'
             PROVE  Ordered!Next
  OBVIOUS
<1>1. ASSUME Followed, NEW op \in {"at", "[]", "[]=", "insert", "find", "erase"}, SizesDisagree(op)
      PROVE  Ordered!Next
  <2>1. Ordered!StopOnTorn
    BY <1>1, AnswersAlike, KeepAlike DEF SizesDisagree, Ordered!StopOnTorn
  <2> QED BY <2>1 DEF Ordered!Next
<1>2. ASSUME Followed, NEW k \in Keys, NEW v \in Values, insert(k, v) \/ assign(k, v)
      PROVE  Ordered!Next
  BY <1>2, WriteImplements
<1>3. ASSUME Followed, NEW k \in Keys, subscript(k)
      PROVE  Ordered!Next
  BY <1>3, WriteImplements, DefaultAssumption
<1>4. ASSUME Followed, NEW i \in 0 .. MaxEntries, NEW j \in 0 .. MaxEntries, erase_range(i, j)
      PROVE  Ordered!Next
  BY <1>4, EraseImplements
<1>5. ASSUME Followed, NEW k \in Keys, erase(k)
      PROVE  Ordered!Next
  BY <1>5, EraseImplements
<1>6. ASSUME NEW k \in Keys, find(k) \/ at(k)
      PROVE  Ordered!Next
  BY <1>6, LookUpImplements
<1>7. ASSUME NEW gone, eraseIf(gone)
      PROVE  Ordered!Next
  BY <1>7, EraseIfImplements
<1>8. CASE clear
  <2>1. (~SizesAgree)' = FALSE
    BY <1>8, ClearKeeps
  <2>2. Ordered!Clear
    BY <1>8, <2>1, AnswersAlike DEF clear, Ordered!Clear
  <2> QED BY <2>2 DEF Ordered!Next
<1> QED BY <1>1, <1>2, <1>3, <1>4, <1>5, <1>6, <1>7, <1>8 DEF Next

LEMMA InitImplements ==
    ASSUME Init
    PROVE  Ordered!Init
<1>1. vec = <<>> /\ map = <<>> /\ Len(vec) = 0 /\ DOMAIN map = {}
  BY DEF Init
<1>2. Cardinality(DOMAIN map) = 0
  BY <1>1, FS_EmptySet
<1>3. (~SizesAgree) = FALSE
  BY <1>1, <1>2 DEF SizesAgree
<1> QED BY <1>1, <1>3 DEF Init, Ordered!Init

(* Whatever calls are made, and whichever of them run out of memory, the   *)
(* two halves together are a map in the order of insertion, as long as no  *)
(* eraseIf has moved an entry, and again from a clear() on.                *)
THEOREM OrderedMapImplemented == Spec => ImplementsOrderedMap
<1>1. Init => Ordered!Init
  BY InitImplements
<1>2. IInv /\ [Next]_vars => [shuffled' \/ Ordered!Next]_vars
  BY EachStepImplements
<1> QED BY <1>1, <1>2, Invariance, PTL DEF Spec, ImplementsOrderedMap
-----------------------------------------------------------------------------
(* What an eraseIf that displaces an entry does to the places.             *)

FirstKeys(n) == {vec[i].key : i \in 1 .. n}

LEMMA FirstKeysCount ==
    ASSUME Filed(Len(vec)), Len(vec) \in Nat, NEW n \in Nat, n <= Len(vec)
    PROVE  /\ IsFiniteSet(FirstKeys(n)) /\ Cardinality(FirstKeys(n)) = n
           /\ FirstKeys(n) \subseteq DOMAIN map
<1> DEFINE b == [i \in 1 .. n |-> vec[i].key]
           K == FirstKeys(n)
<1>1. \A i \in 1 .. n : vec[i].key \in DOMAIN map /\ map[vec[i].key] = i - 1
  BY DEF Filed
<1>2. /\ b \in [1 .. n -> K]
      /\ \A k \in K : \E i \in 1 .. n : b[i] = k
      /\ \A i \in 1 .. n : map[b[i]] = i - 1
  BY <1>1 DEF FirstKeys
<1> HIDE DEF b, K
<1>3. \A i, j \in 1 .. n : b[i] = b[j] => i = j
  <2> SUFFICES ASSUME NEW i \in 1 .. n, NEW j \in 1 .. n, b[i] = b[j]
               PROVE  i = j
    OBVIOUS
  <2>1. i - 1 = j - 1
    BY <1>2
  <2> QED BY <2>1
<1>4. b \in Injection(1 .. n, K) /\ b \in Surjection(1 .. n, K)
  BY <1>2, <1>3 DEF Injection, IsInjective, Surjection
<1>5. ExistsBijection(1 .. n, K)
  BY <1>4 DEF ExistsBijection, Bijection
<1>6. IsFiniteSet(K) /\ Cardinality(K) = n
  BY <1>5, FS_NatBijection, FS_CountingElements
<1> QED BY <1>1, <1>6 DEF FirstKeys, K

(* An entry that goes is among the first n, one that stays is behind them. *)
LEMMA DisplacedPlaces ==
    ASSUME vec \in Seq(Entries), NEW gone, Displaced(gone),
           NEW n, n = Cardinality(Staying(gone))
    PROVE  /\ \E i \in 1 .. n : i \notin Staying(gone)
           /\ \E j \in Staying(gone) : j > n
<1> DEFINE S == Staying(gone)
<1>1. Len(vec) \in Nat /\ DOMAIN vec = 1 .. Len(vec) /\ S \in SUBSET (1 .. Len(vec))
  BY LenProperties DEF Staying
<1>2. IsFiniteSet(S) /\ n \in Nat
  <2> HIDE DEF S
  <2>1. IsFiniteSet(1 .. Len(vec))
    BY <1>1, FS_Interval
  <2>2. IsFiniteSet(S)
    BY <1>1, <2>1, FS_Subset
  <2> QED BY <2>2, FS_CardinalityType DEF S
<1>3. PICK i, j \in DOMAIN vec : i < j /\ i \notin S /\ j \in S
  BY DEF Displaced, Staying
<1>4. S # 1 .. n
  <2> HIDE DEF S
  <2> QED BY <1>1, <1>2, <1>3
<1>5. IsFiniteSet(1 .. n) /\ Cardinality(1 .. n) = n /\ Cardinality(S) = n
  BY <1>2, FS_Interval
<1> HIDE DEF S
<1>6. ~(1 .. n \subseteq S)
  BY <1>2, <1>4, <1>5, FS_Subset
<1>7. ~(S \subseteq 1 .. n)
  BY <1>2, <1>4, <1>5, FS_Subset
<1>8. \E x \in 1 .. n : x \notin S
  BY <1>6
<1>9. \E y \in S : y > n
  BY <1>1, <1>2, <1>7
<1> QED BY <1>8, <1>9 DEF S
(* The entries left are those that stay, and places below n keep.          *)
LEMMA Remains ==
    ASSUME IInv, NEW gone, eraseIf(gone), NEW n, n = Cardinality(Staying(gone))
    PROVE  LET stayed == {vec'[i].key : i \in DOMAIN vec'}
           IN  /\ stayed = {vec[i].key : i \in Staying(gone)}
               /\ \A i \in 1 .. n : vec'[i].key \notin gone /\ vec'[i].key \in stayed
<1> DEFINE stayed == {vec'[i].key : i \in DOMAIN vec'}
           S == Staying(gone)
<1>1. /\ vec \in Seq(Entries) /\ S \in SUBSET DOMAIN vec
      /\ vec' = Picked(S) /\ vec' \in Seq(Entries) /\ Len(vec') = n
  BY EraseIfHalves
<1>2. \A i \in S : vec[i].key \notin gone
  BY DEF Staying
<1> HIDE DEF S
<1>3. DOMAIN vec' = 1 .. n
  BY <1>1, LenProperties
<1>4. /\ \A i \in 1 .. n : \E j \in S : vec'[i] = vec[j]
      /\ \A j \in S : \E i \in 1 .. n : vec'[i] = vec[j]
  BY <1>1, PickedEntries DEF S
<1>5. stayed = {vec[i].key : i \in S}
  BY <1>3, <1>4
<1>6. ASSUME NEW i \in 1 .. n
      PROVE  vec'[i].key \notin gone /\ vec'[i].key \in stayed
  BY <1>2, <1>3, <1>4
<1> QED BY <1>5, <1>6 DEF S

(* Where a moved key still reads as itself.                                *)
LEMMA MisfiledUnnoticed ==
    ASSUME IInv, NEW gone, eraseIf(gone), Displaced(gone), \A k \in Keys : moved[k] = k
    PROVE  LET stayed == {vec'[i].key : i \in DOMAIN vec'}
           IN  /\ Alive'
               /\ \E k \in DOMAIN map' : k \notin stayed /\ Found(k)'.key # k
               /\ \E k \in stayed : ~Known(k)'
<1> DEFINE n == Cardinality(Staying(gone))
           removed == {Reads(gone, i) : i \in n + 1 .. Len(vec)}
           stayed == {vec'[i].key : i \in DOMAIN vec'}
           L == Len(vec)
           S == Staying(gone)
<1>1. /\ Filed(L) /\ L \in Nat /\ vec \in Seq(Entries) /\ DOMAIN vec = 1 .. L
      /\ S \in SUBSET DOMAIN vec /\ n \in Nat /\ n <= L
      /\ map' = [k \in DOMAIN map \ removed |->
                    IF map[k] >= n THEN map[k] - (L - n) ELSE map[k]]
      /\ Answers("eraseIf", IF n = Cardinality(DOMAIN map') THEN "returned"
                                                         ELSE "condition_failed", Nothing)
  BY EraseIfHalves
<1>2. /\ stayed = {vec[i].key : i \in S}
      /\ \A i \in 1 .. n : vec'[i].key \notin gone /\ vec'[i].key \in stayed
  BY Remains
<1>3. /\ \E i \in 1 .. n : i \notin S
      /\ \E j \in S : j > n
  BY <1>1, DisplacedPlaces
<1>4. removed = {vec[i].key : i \in n + 1 .. L}
  <2>1. \A i \in n + 1 .. L : i \in 1 .. L
    BY <1>1
  <2>2. \A i \in 1 .. L : vec[i].key \in Keys
    <3>1. \A i \in 1 .. L : vec[i] \in Entries
      BY <1>1, ElementOfSeq
    <3> QED BY <3>1 DEF Entries
  <2>3. \A i \in n + 1 .. L : Reads(gone, i) = vec[i].key
    BY <2>1, <2>2 DEF Reads
  <2> QED BY <2>3
<1>5. \A i \in 1 .. L : vec[i].key \in DOMAIN map /\ map[vec[i].key] = i - 1
  BY <1>1 DEF Filed
<1>6. \A i, j \in 1 .. L : vec[i].key = vec[j].key => i = j
  <2> SUFFICES ASSUME NEW i \in 1 .. L, NEW j \in 1 .. L, vec[i].key = vec[j].key
               PROVE  i = j
    OBVIOUS
  <2>1. i - 1 = j - 1
    BY <1>5
  <2> QED BY <2>1
<1> HIDE DEF n, removed, stayed, L, S
<1>7. \A i \in 1 .. L : vec[i].key \in removed <=> i > n
  BY <1>1, <1>4, <1>6
<1>8. DOMAIN map' = FirstKeys(n)
  <2>1. DOMAIN map' = DOMAIN map \ removed
    BY <1>1
  <2>2. ASSUME NEW k \in DOMAIN map, k \notin removed
        PROVE  k \in FirstKeys(n)
    <3>1. map[k] + 1 \in 1 .. L /\ vec[map[k] + 1].key = k
      BY <1>1 DEF Filed, L
    <3>2. ~(map[k] + 1 > n)
      BY <1>7, <2>2, <3>1
    <3>3. map[k] + 1 \in 1 .. n
      BY <1>1, <3>1, <3>2
    <3> QED BY <3>1, <3>3 DEF FirstKeys
  <2>3. ASSUME NEW i \in 1 .. n
        PROVE  vec[i].key \in DOMAIN map /\ vec[i].key \notin removed
    <3>1. i \in 1 .. L /\ ~(i > n)
      BY <1>1
    <3> QED BY <1>5, <1>7, <3>1
  <2> QED BY <2>1, <2>2, <2>3 DEF FirstKeys
<1>9. Alive'
  <2>1. Cardinality(DOMAIN map') = n
    BY <1>1, <1>8, FirstKeysCount DEF L
  <2> QED BY <1>1, <2>1 DEF Answers, Alive
<1>10. \E k \in DOMAIN map' : k \notin stayed /\ Found(k)'.key # k
  <2>1. PICK i \in 1 .. n : i \notin S
    BY <1>3
  <2>2. i \in 1 .. L
    BY <1>1
  <2> PICK k : k = vec[i].key
    OBVIOUS
  <2>3. k \in DOMAIN map' /\ map'[k] = i - 1
    <3>1. k \in DOMAIN map \ removed /\ map[k] = i - 1 /\ ~(map[k] >= n)
      BY <1>1, <1>5, <1>7, <2>2
    <3> QED BY <1>1, <3>1
  <2>4. k \notin stayed
    <3>1. \A j \in S : j \in 1 .. L
      BY <1>1
    <3> QED BY <1>2, <1>6, <2>1, <2>2, <3>1
  <2>5. map'[k] + 1 = i
    BY <2>3
  <2>6. Found(k)' = vec'[i]
    BY <2>5 DEF Found
  <2>7. vec'[i].key \in stayed
    BY <1>2
  <2> QED BY <2>3, <2>4, <2>6, <2>7
<1>11. \E k \in stayed : ~Known(k)'
  <2>1. PICK j \in S : j > n
    BY <1>3
  <2>2. vec[j].key \in stayed /\ vec[j].key \in removed
    BY <1>1, <1>2, <1>7, <2>1
  <2> QED BY <1>1, <2>2 DEF Known
<1> QED BY <1>9, <1>10, <1>11 DEF stayed

(* Where a moved key reads as one that is not known.                       *)
LEMMA MisfiledNoticed ==
    ASSUME IInv, NEW gone, eraseIf(gone), Displaced(gone),
           \A k \in DOMAIN map : moved[k] \notin DOMAIN map
    PROVE  ~Alive'
<1> DEFINE n == Cardinality(Staying(gone))
           removed == {Reads(gone, i) : i \in n + 1 .. Len(vec)}
           L == Len(vec)
           S == Staying(gone)
<1>1. /\ Filed(L) /\ L \in Nat /\ vec \in Seq(Entries) /\ DOMAIN vec = 1 .. L
      /\ S \in SUBSET DOMAIN vec /\ n \in Nat /\ n <= L
      /\ DOMAIN map' = DOMAIN map \ removed
      /\ Answers("eraseIf", IF n = Cardinality(DOMAIN map') THEN "returned"
                                                         ELSE "condition_failed", Nothing)
  BY EraseIfHalves
<1>2. PICK j \in S : j > n
  BY <1>1, DisplacedPlaces
<1>3. \A i \in 1 .. L : vec[i].key \in DOMAIN map /\ map[vec[i].key] = i - 1
  BY <1>1 DEF Filed
<1>4. \A i, m \in 1 .. L : vec[i].key = vec[m].key => i = m
  <2> SUFFICES ASSUME NEW i \in 1 .. L, NEW m \in 1 .. L, vec[i].key = vec[m].key
               PROVE  i = m
    OBVIOUS
  <2>1. i - 1 = m - 1
    BY <1>3
  <2> QED BY <2>1
<1>5. \A k \in removed \cap DOMAIN map :
         \E i \in n + 1 .. L : i \in 1 .. L /\ k = vec[i].key /\ k \in gone
  BY <1>1, <1>3 DEF Reads
<1>6. vec[j].key \notin gone /\ j \in 1 .. L
  BY <1>1 DEF Staying
<1>7. vec[j].key \in DOMAIN map'
  <2> HIDE DEF removed, n, L, S
  <2> QED BY <1>1, <1>3, <1>5, <1>6
<1>8. FirstKeys(n) \subseteq DOMAIN map'
  <2> HIDE DEF removed, n, L, S
  <2> SUFFICES ASSUME NEW i \in 1 .. n
               PROVE  vec[i].key \in DOMAIN map'
    BY DEF FirstKeys
  <2>1. i \in 1 .. L /\ i \notin n + 1 .. L
    BY <1>1
  <2> QED BY <1>1, <1>3, <1>4, <1>5, <2>1
<1>9. vec[j].key \notin FirstKeys(n)
  <2> HIDE DEF removed, n, L, S
  <2>1. \A i \in 1 .. n : i \in 1 .. L /\ i # j
    BY <1>1, <1>2, <1>6
  <2> QED BY <1>4, <1>6, <2>1 DEF FirstKeys
<1>10. Cardinality(FirstKeys(n)) = n
  BY <1>1, FirstKeysCount
<1>11. IsFiniteSet(DOMAIN map')
  <2>1. IsFiniteSet(DOMAIN map) /\ DOMAIN map' \subseteq DOMAIN map
    BY <1>1 DEF IInv, Typed
  <2> QED BY <2>1, FS_Subset
<1>12. Cardinality(DOMAIN map') # n
  <2> HIDE DEF n
  <2> QED BY <1>7, <1>8, <1>9, <1>10, <1>11, FS_Subset
<1> QED BY <1>1, <1>12 DEF Answers, Alive
LEMMA EachStepMisfiles ==
    ASSUME IInv, [Next]_vars, shuffled', ~shuffled
    PROVE  \E gone : eraseIf(gone) /\ Displaced(gone)
<1>1. Next /\ ~Followed /\ ~clear /\ \A k : ~find(k) /\ ~at(k)
  BY DEF vars, Followed, clear, find, at, LookUp
<1> QED BY <1>1 DEF Next, eraseIf

(* Whatever the entries, an eraseIf of others than the last ones misfiles: *)
(* unnoticed where keys outlive a move, ending the process where a moved   *)
(* key reads as one the map does not hold.                                 *)
THEOREM EraseIfAlwaysMisfiles == Spec => EraseIfMisfiles
<1>1. ASSUME IInv, [Next]_vars, shuffled', ~shuffled
      PROVE  LET stayed == {vec'[i].key : i \in DOMAIN vec'}
             IN  /\ (\A k \in Keys : moved[k] = k)
                      => /\ Alive'
                         /\ \E k \in DOMAIN map' : k \notin stayed /\ Found(k)'.key # k
                         /\ \E k \in stayed : ~Known(k)'
                 /\ (\A k \in DOMAIN map : moved[k] \notin DOMAIN map) => ~Alive'
  <2>1. PICK gone : eraseIf(gone) /\ Displaced(gone)
    BY <1>1, EachStepMisfiles
  <2> QED BY <1>1, <2>1, MisfiledUnnoticed, MisfiledNoticed
<1>2. IInv /\ [Next]_vars =>
        [shuffled' /\ ~shuffled =>
          LET stayed == {vec'[i].key : i \in DOMAIN vec'}
          IN  /\ (\A k \in Keys : moved[k] = k)
                   => /\ Alive'
                      /\ \E k \in DOMAIN map' : k \notin stayed /\ Found(k)'.key # k
                      /\ \E k \in stayed : ~Known(k)'
              /\ (\A k \in DOMAIN map : moved[k] \notin DOMAIN map) => ~Alive']_vars
  BY <1>1
<1> QED BY <1>2, Invariance, PTL DEF Spec, EraseIfMisfiles
=============================================================================

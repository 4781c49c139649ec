-------------------------- MODULE TokenizerProofs --------------------------
(***************************************************************************)
(* Theorems about Tokenizer, for every text, every set of delimiters and   *)
(* any number of iterators.                                                *)
(***************************************************************************)
EXTENDS Tokenizer, TLAPS

IInv == TypeOK /\ HeldIsTaken

(* What next() returns lies before what is still to be read.               *)
LEMMA NextTakes ==
    ASSUME TypeOK, hasAnother, next
    PROVE  /\ token' \in Tokens
           /\ token'.to < lastPos'
           /\ lastPos' \in 0 .. Len(text) + 1
           /\ lastPos' > lastPos
<1>1. text \in Seq(Chars) /\ end \in 0 .. Len(text) /\ lastPos \in 0 .. end /\ Len(text) \in Nat
  BY DEF TypeOK, hasAnother
<1>2. CASE final_token
  BY <1>1, <1>2 DEF final_token, Part, Tokens
<1>3. CASE empty_token
  BY <1>1, <1>3 DEF empty_token, Found, Part, Tokens
<1>4. CASE next_token
  BY <1>1, <1>4 DEF next_token, Found, Part, Tokens
<1> QED BY <1>2, <1>3, <1>4 DEF next

(* The constructor.                                                        *)
LEMMA Initially == Init => IInv
<1> SUFFICES ASSUME Init PROVE IInv
  OBVIOUS
<1>1. text \in Seq(Chars) /\ Len(text) \in Nat
  <2>1. PICK m \in 0 .. MaxLength : text \in [1 .. m -> Chars]
    BY DEF Init, BoundedSeq, SeqOf
  <2> QED BY <2>1, LengthAssumption
<1>2. end \in 0 .. Len(text) /\ lastPos \in 0 .. Len(text) + 1
  BY <1>1 DEF Init
<1> QED BY <1>1, <1>2 DEF Init, IInv, TypeOK, HeldIsTaken, End

(* A step of an iterator, whatever was done with the others before it.     *)
LEMMA AdvanceKeeps ==
    ASSUME IInv, NEW i \in Iterators,
           NEW its \in [Iterators -> [stream : BOOLEAN, value : Tokens \cup {NoToken}]],
           \A j \in Iterators : its[j].value # NoToken => its[j].value.to < lastPos,
           advance(i, its)
    PROVE  IInv'
<1>1. CASE ~hasAnother
  <2>1. /\ iter' = [its EXCEPT ![i].stream = FALSE]
        /\ UNCHANGED <<text, end, lastPos, token, failed>>
    BY <1>1 DEF advance
  <2>2. \A j \in Iterators : iter'[j].value = its[j].value
    BY <2>1
  <2>3. TypeOK'
    BY <2>1 DEF IInv, TypeOK
  <2> QED BY <2>1, <2>2, <2>3 DEF IInv, HeldIsTaken
<1>2. CASE hasAnother
  <2>1. next /\ iter' = [its EXCEPT ![i].value = token'] /\ UNCHANGED <<text, end, failed>>
    BY <1>2 DEF advance
  <2>2. /\ token' \in Tokens /\ token'.to < lastPos'
        /\ lastPos' \in 0 .. Len(text) + 1 /\ lastPos' > lastPos
    BY <1>2, <2>1, NextTakes DEF IInv
  <2>3. TypeOK'
    BY <2>1, <2>2 DEF IInv, TypeOK
  <2>4. HeldIsTaken'
    <3> SUFFICES ASSUME NEW j \in Iterators, iter'[j].value # NoToken
                 PROVE  iter'[j].value.to < lastPos'
      BY DEF HeldIsTaken
    <3>1. CASE j = i
      BY <3>1, <2>1, <2>2
    <3>2. CASE j # i
      <4>1. iter'[j].value = its[j].value /\ its[j].value \in Tokens
        BY <3>2, <2>1
      <4> QED BY <4>1, <2>2 DEF Tokens, IInv, TypeOK
    <3> QED BY <3>1, <3>2
  <2> QED BY <2>3, <2>4 DEF IInv
<1> QED BY <1>1, <1>2

(* Assignments between iterators.                                          *)
LEMMA AssignmentsKeep ==
    ASSUME IInv, NEW i \in Iterators, NEW j \in Iterators,
           copy(i, j) \/ move_construct(i, j) \/ move_assign(i, j) \/ swap(i, j)
    PROVE  IInv'
<1> DEFINE Held == {iter[k].value : k \in Iterators} \cup {NoToken}
           Its == [Iterators -> [stream : BOOLEAN, value : Tokens \cup {NoToken}]]
           Good == iter' \in Its /\ \A k \in Iterators : iter'[k].value \in Held
<1>1. UNCHANGED <<text, end, lastPos, token, failed>>
  BY DEF copy, move_construct, move_assign, swap
<1>2. iter \in Its /\ End \in [stream : BOOLEAN, value : Tokens \cup {NoToken}]
  BY DEF IInv, TypeOK, End
<1>3. CASE copy(i, j)
  <2>1. Good
    BY <1>2, <1>3 DEF copy
  <2> QED BY <1>1, <2>1 DEF IInv, TypeOK, HeldIsTaken
<1>4. CASE move_construct(i, j)
  <2>1. iter' = [iter EXCEPT ![i] = iter[j], ![j] = End]
    BY <1>4 DEF move_construct
  <2>2. Good
    BY <1>2, <2>1 DEF End
  <2> QED BY <1>1, <2>2 DEF IInv, TypeOK, HeldIsTaken
<1>5. CASE move_assign(i, j)
  <2>1. Good
    BY <1>2, <1>5 DEF move_assign
  <2> QED BY <1>1, <2>1 DEF IInv, TypeOK, HeldIsTaken
<1>6. CASE swap(i, j)
  <2>1. Good
    BY <1>2, <1>6 DEF swap
  <2> QED BY <1>1, <2>1 DEF IInv, TypeOK, HeldIsTaken
<1> QED BY <1>3, <1>4, <1>5, <1>6

(* Every step keeps the invariant.                                         *)
LEMMA Steps == IInv /\ [Next]_vars => IInv'
<1> SUFFICES ASSUME IInv, [Next]_vars PROVE IInv'
  OBVIOUS
<1>1. CASE stream_next
  <2>1. CASE hasAnother
    <3>1. next /\ UNCHANGED <<text, end, iter, failed>>
      BY <1>1, <2>1 DEF stream_next
    <3>2. /\ token' \in Tokens /\ lastPos' \in 0 .. Len(text) + 1 /\ lastPos' > lastPos
      BY <2>1, <3>1, NextTakes DEF IInv
    <3>3. \A k \in Iterators : iter[k].value # NoToken => iter[k].value.to \in Nat
      BY DEF IInv, TypeOK, Tokens
    <3> QED BY <3>1, <3>2, <3>3 DEF IInv, TypeOK, HeldIsTaken
  <2>2. CASE ~hasAnother
    BY <1>1, <2>2 DEF stream_next, IInv, TypeOK, HeldIsTaken
  <2> QED BY <2>1, <2>2
<1>2. ASSUME NEW i \in Iterators, begin(i) PROVE IInv'
  <2>1. CASE hasAnother
    <3>1. /\ next /\ UNCHANGED <<text, end, failed>>
          /\ iter' = [iter EXCEPT ![i] = [stream |-> TRUE, value |-> token']]
      BY <1>2, <2>1 DEF begin
    <3>2. /\ token' \in Tokens /\ token'.to < lastPos'
          /\ lastPos' \in 0 .. Len(text) + 1 /\ lastPos' > lastPos
      BY <2>1, <3>1, NextTakes DEF IInv
    <3>3. \A k \in Iterators : iter[k].value # NoToken => iter[k].value.to \in Nat
      BY DEF IInv, TypeOK, Tokens
    <3>4. TypeOK'
      BY <3>1, <3>2 DEF IInv, TypeOK
    <3>5. HeldIsTaken'
      BY <3>1, <3>2, <3>3 DEF IInv, TypeOK, HeldIsTaken
    <3> QED BY <3>4, <3>5 DEF IInv
  <2>2. CASE ~hasAnother
    <3>1. iter' = [iter EXCEPT ![i] = End] /\ UNCHANGED <<text, end, lastPos, token, failed>>
      BY <1>2, <2>2 DEF begin
    <3>2. End \in [stream : BOOLEAN, value : Tokens \cup {NoToken}] /\ End.value = NoToken
      BY DEF End
    <3>3. TypeOK'
      BY <3>1, <3>2 DEF IInv, TypeOK
    <3>4. HeldIsTaken'
      BY <3>1, <3>2 DEF IInv, TypeOK, HeldIsTaken
    <3> QED BY <3>3, <3>4 DEF IInv
  <2> QED BY <2>1, <2>2
<1>3. ASSUME NEW i \in Iterators, increment(i) PROVE IInv'
  BY <1>3, AdvanceKeeps DEF increment, IInv, TypeOK, HeldIsTaken
<1>4. ASSUME NEW i \in Iterators, increment_end(i) PROVE IInv'
  BY <1>4 DEF increment_end, IInv, TypeOK, HeldIsTaken
<1>5. ASSUME NEW i \in Iterators, NEW j \in Iterators, post_increment(i, j) PROVE IInv'
  <2> DEFINE its == [iter EXCEPT ![j] = iter[i]]
  <2>1. /\ its \in [Iterators -> [stream : BOOLEAN, value : Tokens \cup {NoToken}]]
        /\ \A k \in Iterators : its[k].value # NoToken => its[k].value.to < lastPos
    BY DEF IInv, TypeOK, HeldIsTaken
  <2>2. advance(i, its)
    BY <1>5 DEF post_increment
  <2> HIDE DEF its
  <2> QED BY <2>1, <2>2, AdvanceKeeps
<1>6. CASE UNCHANGED vars
  BY <1>6 DEF vars, IInv, TypeOK, HeldIsTaken
<1> QED BY <1>1, <1>2, <1>3, <1>4, <1>5, <1>6, AssignmentsKeep DEF Next

(* The inductive invariant holds of every behaviour.                       *)
THEOREM Invariance == Spec => []IInv
<1> QED BY Initially, Steps, PTL DEF Spec

(* The positions stay in the text, and nothing an iterator holds is handed *)
(* out again, for any text and any number of consumers and copies          *)
(* (Tokenizer::next and ForwardIterator::operator++).                      *)
THEOREM TokensCorrect == Spec => []TokensAccountedFor
<1>1. IInv => TokensAccountedFor
  BY DEF IInv, TokensAccountedFor
<1> QED BY <1>1, Invariance, PTL

-----------------------------------------------------------------------------
(* The parts of the text.                                                  *)

(* m is the first cut behind i.                                            *)
FirstCut(s, i, j, m) ==
    /\ m \in i .. j
    /\ m = j \/ s[m + 1] \in Delims
    /\ \A p \in i .. m - 1 : s[p + 1] \notin Delims

(* Behind the first cut the same cuts and starts follow.                   *)
LEMMA CutsBehind ==
    ASSUME NEW s, NEW i \in Nat, NEW j \in Nat, NEW m \in Nat, FirstCut(s, i, j, m), m < j
    PROVE  /\ Cuts(s, i, j) = {m} \cup Cuts(s, m + 1, j)
           /\ Starts(s, i, j) = {i} \cup Starts(s, m + 1, j)
           /\ \A p \in Cuts(s, m + 1, j) : p \in Nat /\ p >= m + 1
           /\ \A p \in Starts(s, m + 1, j) : p \in Nat /\ p >= m + 1
<1>1. /\ i <= m /\ s[m + 1] \in Delims
      /\ \A p \in i .. m - 1 : s[p + 1] \notin Delims
  BY DEF FirstCut
<1>2. \A p \in Cuts(s, m + 1, j) : p \in Nat /\ p >= m + 1
  BY DEF Cuts
<1>3. \A p : p \in Cuts(s, i, j) <=> (p = m \/ p \in Cuts(s, m + 1, j))
  <2> SUFFICES ASSUME NEW p
               PROVE  p \in Cuts(s, i, j) <=> (p = m \/ p \in Cuts(s, m + 1, j))
    OBVIOUS
  <2>1. p \in i .. j - 1 <=> (p \in i .. m - 1 \/ p = m \/ p \in m + 1 .. j - 1)
    BY <1>1
  <2> QED BY <1>1, <2>1 DEF Cuts
<1>4. Cuts(s, i, j) = {m} \cup Cuts(s, m + 1, j)
  BY <1>3
<1>5. m \notin Cuts(s, m + 1, j) /\ j \in Cuts(s, m + 1, j) /\ m # j
  BY <1>2 DEF Cuts
<1>6. Cuts(s, i, j) \ {j} = {m} \cup (Cuts(s, m + 1, j) \ {j})
  BY <1>4, <1>5
<1>7. Starts(s, i, j) = {i} \cup Starts(s, m + 1, j)
  BY <1>6 DEF Starts
<1>8. \A p \in Starts(s, m + 1, j) : p \in Nat /\ p >= m + 1
  BY <1>2 DEF Starts
<1> QED BY <1>2, <1>4, <1>7, <1>8

(* The text is split into the part before its first cut and those behind.  *)
LEMMA SplitAtCut ==
    ASSUME NEW s, NEW i \in Nat, NEW j \in Nat, NEW m \in Nat, FirstCut(s, i, j, m)
    PROVE  /\ Part(i, m) \in Split(s, i, j)
           /\ \A w \in Split(s, i, j) : i <= w.from
           /\ m < j => Split(s, i, j) \ {Part(i, m)} = Split(s, m + 1, j)
           /\ m = j => Split(s, i, j) \ {Part(i, m)} = {}
<1>1. i <= m /\ m <= j
  BY DEF FirstCut
<1>2. CASE m = j
  <2>1. Cuts(s, i, j) = {j}
    BY <1>2 DEF FirstCut, Cuts
  <2>2. Starts(s, i, j) = {i}
    BY <2>1 DEF Starts
  <2>3. Split(s, i, j) = {Part(i, j)}
    <3>1. \A w : w \in [from : {i}, to : {j}] <=> w = Part(i, j)
      BY DEF Part
    <3>2. {j} \cap (i .. j - 1) = {}
      OBVIOUS
    <3>3. Part(i, j).from = i /\ Part(i, j).to = j
      BY DEF Part
    <3> QED BY <1>1, <1>2, <2>1, <2>2, <3>1, <3>2, <3>3 DEF Split
  <2> QED BY <1>2, <2>3 DEF Part
<1>3. CASE m < j
  <2> DEFINE C == Cuts(s, m + 1, j)
             S == Starts(s, m + 1, j)
  <2>1. /\ Cuts(s, i, j) = {m} \cup C
        /\ Starts(s, i, j) = {i} \cup S
        /\ \A p \in C : p \in Nat /\ p >= m + 1
        /\ \A p \in S : p \in Nat /\ p >= m + 1
    BY <1>3, CutsBehind
  <2>2. \A w : w \in Split(s, m + 1, j) <=>
               w \in [from : S, to : C] /\ w.from <= w.to /\ C \cap (w.from .. w.to - 1) = {}
    BY DEF Split
  <2> HIDE DEF C, S
  <2>3. \A w : w \in Split(s, i, j) <=>
               /\ w \in [from : {i} \cup S, to : {m} \cup C]
               /\ w.from <= w.to /\ ({m} \cup C) \cap (w.from .. w.to - 1) = {}
    BY <2>1 DEF Split
  <2>4. Part(i, m) \in Split(s, i, j)
    <3>1. Part(i, m) \in [from : {i} \cup S, to : {m} \cup C]
          /\ Part(i, m).from = i /\ Part(i, m).to = m
      BY DEF Part
    <3>2. ({m} \cup C) \cap (i .. m - 1) = {}
      BY <2>1
    <3> QED BY <1>1, <2>3, <3>1, <3>2
  <2>5. \A w \in Split(s, i, j) : i <= w.from
    BY <1>1, <2>1, <2>3
  <2>6. ASSUME NEW w \in Split(s, m + 1, j)
        PROVE  w \in Split(s, i, j) /\ w # Part(i, m)
    <3>1. w \in [from : S, to : C] /\ w.from \in S /\ w.to \in C
          /\ w.from <= w.to /\ C \cap (w.from .. w.to - 1) = {}
      BY <2>2
    <3>2. w \in [from : {i} \cup S, to : {m} \cup C]
      BY <3>1
    <3>3. m \notin w.from .. w.to - 1
      BY <2>1, <3>1
    <3>4. w.from # i
      BY <1>1, <2>1, <3>1
    <3> QED BY <2>3, <3>1, <3>2, <3>3, <3>4 DEF Part
  <2>7. ASSUME NEW w \in Split(s, i, j), w # Part(i, m)
        PROVE  w \in Split(s, m + 1, j)
    <3>1. /\ w \in [from : {i} \cup S, to : {m} \cup C]
          /\ w.from \in {i} \cup S /\ w.to \in {m} \cup C
          /\ w.from <= w.to /\ ({m} \cup C) \cap (w.from .. w.to - 1) = {}
      BY <2>3
    <3>2. CASE w.from = i
      <4>1. w.to = m \/ w.to >= m + 1
        BY <2>1, <3>1
      <4>2. w.to # m
        <5>1. w = [from |-> w.from, to |-> w.to]
          BY <3>1
        <5> QED BY <2>7, <3>2, <5>1 DEF Part
      <4>3. m \in w.from .. w.to - 1
        BY <1>1, <2>1, <3>1, <3>2, <4>1, <4>2
      <4> QED BY <3>1, <4>3
    <3>3. CASE w.from \in S
      <4>1. w.to \in C
        BY <2>1, <3>1, <3>3
      <4>2. w \in [from : S, to : C]
        BY <3>1, <3>3, <4>1
      <4> QED BY <2>2, <3>1, <4>2
    <3> QED BY <3>1, <3>2, <3>3
  <2>8. Split(s, i, j) \ {Part(i, m)} = Split(s, m + 1, j)
    BY <2>6, <2>7
  <2> QED BY <1>3, <2>4, <2>5, <2>8
<1> QED BY <1>1, <1>2, <1>3

(* next() takes the part before the first cut, and goes behind it.         *)
LEMMA NextCuts ==
    ASSUME TypeOK, hasAnother, next
    PROVE  /\ lastPos \in Nat /\ end \in Nat
           /\ \E m \in Nat : /\ FirstCut(text, lastPos, end, m)
                             /\ token' = Part(lastPos, m) /\ lastPos' = m + 1
<1>1. text \in Seq(Chars) /\ end \in Nat /\ lastPos \in 0 .. end
  BY DEF TypeOK, hasAnother
<1>2. CASE final_token
  <2>1. FirstCut(text, lastPos, end, end)
    BY <1>1, <1>2 DEF final_token, FirstCut, Delimiter
  <2> QED BY <1>1, <1>2, <2>1 DEF final_token
<1>3. CASE empty_token
  <2>1. FirstCut(text, lastPos, end, lastPos)
    BY <1>1, <1>3 DEF empty_token, Found, FirstCut, Delimiter
  <2> QED BY <1>1, <1>3, <2>1 DEF empty_token
<1>4. CASE next_token
  <2>1. PICK p \in lastPos + 1 .. end - 1 :
            Found(p) /\ token' = Part(lastPos, p) /\ lastPos' = p + 1
    BY <1>4 DEF next_token
  <2>2. FirstCut(text, lastPos, end, p)
    BY <1>1, <2>1 DEF Found, FirstCut, Delimiter
  <2>3. p \in Nat
    BY <1>1, <2>1
  <2> QED BY <1>1, <2>1, <2>2, <2>3
<1> QED BY <1>2, <1>3, <1>4 DEF next

(* So it delivers the first of the parts that remain.                      *)
LEMMA NextDelivers ==
    ASSUME TypeOK, hasAnother, next, UNCHANGED <<text, end>>
    PROVE  Stream!Deliver
<1> DEFINE rest == IF hasAnother THEN Split(text, lastPos, end) ELSE {}
<1>1. lastPos \in Nat /\ end \in Nat
  BY NextCuts
<1>2. PICK m \in Nat : /\ FirstCut(text, lastPos, end, m)
                       /\ token' = Part(lastPos, m) /\ lastPos' = m + 1
  BY NextCuts
<1>3. /\ Part(lastPos, m) \in Split(text, lastPos, end)
      /\ \A w \in Split(text, lastPos, end) : lastPos <= w.from
      /\ m < end => Split(text, lastPos, end) \ {Part(lastPos, m)} = Split(text, m + 1, end)
      /\ m = end => Split(text, lastPos, end) \ {Part(lastPos, m)} = {}
  BY <1>1, <1>2, SplitAtCut
<1>4. m <= end
  BY <1>1, <1>2 DEF FirstCut
<1>5. rest = Split(text, lastPos, end)
  OBVIOUS
<1>6. rest' = IF m + 1 <= end THEN Split(text, m + 1, end) ELSE {}
  BY <1>2 DEF hasAnother
<1>7. rest' = rest \ {token'}
  <2>1. CASE m < end
    BY <1>1, <1>2, <1>3, <1>5, <1>6, <2>1
  <2>2. CASE m = end
    BY <1>1, <1>2, <1>3, <1>5, <1>6, <2>2
  <2> QED BY <1>1, <1>4, <2>1, <2>2
<1>8. token' \in rest /\ \A part \in rest : token'.from <= part.from
  BY <1>2, <1>3, <1>5 DEF Part
<1> QED BY <1>7, <1>8 DEF Stream!Deliver

(* Steps that take no token leave the stream as it is.                     *)
LEMMA StreamKept ==
    UNCHANGED <<text, end, lastPos, token>> => UNCHANGED Stream!vars
<1> QED BY DEF Stream!vars, hasAnother, Split, Cuts, Starts

(* Every call delivers the next part, or none.                             *)
LEMMA StepDelivers ==
    ASSUME TypeOK, [Next]_vars
    PROVE  [Stream!Deliver]_(Stream!vars)
<1>1. ASSUME hasAnother, next, UNCHANGED <<text, end>> PROVE [Stream!Deliver]_(Stream!vars)
  BY <1>1, NextDelivers
<1>2. ASSUME UNCHANGED <<text, end, lastPos, token>> PROVE [Stream!Deliver]_(Stream!vars)
  BY <1>2, StreamKept
<1>3. CASE stream_next
  BY <1>1, <1>2, <1>3 DEF stream_next
<1>4. ASSUME NEW i \in Iterators, begin(i) PROVE [Stream!Deliver]_(Stream!vars)
  BY <1>1, <1>2, <1>4 DEF begin
<1>5. ASSUME NEW i \in Iterators, NEW its, advance(i, its) PROVE [Stream!Deliver]_(Stream!vars)
  BY <1>1, <1>2, <1>5 DEF advance
<1>6. ASSUME NEW i \in Iterators, increment(i) \/ increment_end(i)
      PROVE  [Stream!Deliver]_(Stream!vars)
  <2>1. CASE increment(i)
    BY <1>5, <2>1 DEF increment
  <2>2. CASE increment_end(i)
    BY <1>2, <2>2 DEF increment_end
  <2> QED BY <1>6, <2>1, <2>2
<1>7. ASSUME NEW i \in Iterators, NEW j \in Iterators,
             \/ post_increment(i, j) \/ copy(i, j) \/ move_construct(i, j)
             \/ move_assign(i, j) \/ swap(i, j)
      PROVE  [Stream!Deliver]_(Stream!vars)
  <2>1. CASE post_increment(i, j)
    <3>1. advance(i, [iter EXCEPT ![j] = iter[i]])
      BY <2>1 DEF post_increment
    <3> QED BY <1>5, <3>1
  <2>2. CASE copy(i, j) \/ move_construct(i, j) \/ move_assign(i, j) \/ swap(i, j)
    BY <1>2, <2>2 DEF copy, move_construct, move_assign, swap
  <2> QED BY <1>7, <2>1, <2>2
<1>8. CASE UNCHANGED vars
  BY <1>2, <1>8 DEF vars
<1> QED BY <1>3, <1>4, <1>6, <1>7, <1>8 DEF Next

(* All consumers together get the parts of the text from left to right,    *)
(* each once, however their calls interleave and whatever copies of the    *)
(* iterators are made (Tokenizer::next, ForwardIterator).                  *)
THEOREM StreamImplemented == Spec => ImplementsStream
<1>1. Init => Stream!Init
  <2> SUFFICES ASSUME Init PROVE Stream!Init
    OBVIOUS
  <2>1. /\ Len(text) \in Nat /\ end \in 0 .. Len(text) /\ lastPos \in 0 .. Len(text) + 1
        /\ lastPos # end /\ token = NoToken
    <3>1. Len(text) \in Nat
      BY Initially DEF IInv, TypeOK
    <3> QED BY <3>1 DEF Init
  <2>2. CASE hasAnother
    <3>1. lastPos \in 0 .. Len(text) /\ lastPos < end
      BY <2>1, <2>2 DEF hasAnother
    <3>2. Stream!Split(text, lastPos, end) = Split(text, lastPos, end)
      BY DEF Stream!Split, Stream!Starts, Stream!Cuts, Split, Starts, Cuts
    <3>3. (IF hasAnother THEN Split(text, lastPos, end) ELSE {}) = Stream!Split(text, lastPos, end)
      BY <2>2, <3>2
    <3> QED BY <2>1, <3>1, <3>3 DEF Stream!Init
  <2>3. CASE ~hasAnother
    BY <2>1, <2>3 DEF Stream!Init
  <2> QED BY <2>2, <2>3
<1>2. IInv /\ [Next]_vars => [Stream!Deliver]_(Stream!vars)
  BY StepDelivers DEF IInv
<1> QED BY <1>1, <1>2, Invariance, PTL DEF Spec, ImplementsStream, Stream!Spec
=============================================================================

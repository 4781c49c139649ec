------------------------ MODULE ProgramOptionsProofs ------------------------
(***************************************************************************)
(* Theorems about ProgramOptions, for every set of names, short forms and  *)
(* command lines: the table of options stays without conflicts, the types, *)
(* why an ignoring parse throws, and what the results of a parse are.      *)
(***************************************************************************)
EXTENDS ProgramOptions, FiniteSetTheorems, SequenceTheorems, WellFoundedInduction, TLAPS

Option == [name : Names, shortOption : Letters \cup {NoShort},
           hasArg : {"none", "required", "optional"}]

IInv == poptions \in Seq(Option) /\ OptionsAreDistinct

(* An option that passes verifyOption gets a short form of its own.        *)
LEMMA ResolvedIsOption ==
    ASSUME NEW options, NEW o \in Offered, verifyOption(options, o)
    PROVE  /\ Resolved(o) \in Option
           /\ Resolved(o).name = o.name
           /\ Resolved(o).shortOption = NoShort <=> o.shortOption = NoShort
<1>1. /\ o \in [name : Names \cup {BadName}, shortOption : Letters \cup {NoShort, AutoShort},
                hasArg : {"none", "required", "optional"}]
      /\ o.name # BadName
  BY OfferedAssumption DEF verifyOption
<1>2. o.name \in Names /\ FirstLetter[o.name] \in Letters
  BY <1>1, LetterAssumption
<1> QED BY <1>1, <1>2, LetterAssumption DEF Resolved, Option

(* No two options of s share a name or a short form.                       *)
Distinct(s) ==
    \A i, j \in DOMAIN s : i # j =>
        /\ s[i].name # s[j].name
        /\ s[i].shortOption # NoShort => s[i].shortOption # s[j].shortOption

LEMMA AppendKeepsDistinct ==
    ASSUME NEW s \in Seq(Option), Distinct(s), NEW o \in Offered, verifyOption(s, o)
    PROVE  /\ Append(s, Resolved(o)) \in Seq(Option)
           /\ Distinct(Append(s, Resolved(o)))
<1> DEFINE r == Resolved(o)
           t == Append(s, r)
<1>1. /\ r \in Option /\ r.name = o.name
      /\ r.shortOption = NoShort <=> o.shortOption = NoShort
  BY ResolvedIsOption
<1>2. \A i \in DOMAIN s : /\ s[i].name # r.name
                          /\ r.shortOption # NoShort => s[i].shortOption # r.shortOption
  BY <1>1 DEF verifyOption, Range
<1> HIDE DEF r
<1>3. t \in Seq(Option) /\ DOMAIN t = 1 .. Len(s) + 1 /\ DOMAIN s = 1 .. Len(s)
  BY <1>1
<1>4. \A i \in DOMAIN t : t[i] = IF i = Len(s) + 1 THEN r ELSE s[i]
  BY <1>1, <1>3
<1>5. Distinct(t)
  <2> SUFFICES ASSUME NEW i \in DOMAIN t, NEW j \in DOMAIN t, i # j
               PROVE  /\ t[i].name # t[j].name
                      /\ t[i].shortOption # NoShort => t[i].shortOption # t[j].shortOption
    BY DEF Distinct
  <2>1. CASE i = Len(s) + 1
    BY <2>1, <1>2, <1>3, <1>4
  <2>2. CASE j = Len(s) + 1
    BY <2>2, <1>2, <1>3, <1>4
  <2>3. CASE i # Len(s) + 1 /\ j # Len(s) + 1
    BY <2>3, <1>3, <1>4 DEF Distinct
  <2> QED BY <2>1, <2>2, <2>3
<1> QED BY <1>3, <1>5 DEF r

LEMMA Initially == Init => IInv
BY DEF Init, IInv, OptionsAreDistinct

(* Only add and add(first, last) touch the table.                          *)
LEMMA Steps == IInv /\ [Next]_vars => IInv'
<1> SUFFICES ASSUME IInv, [Next]_vars PROVE IInv'
  OBVIOUS
<1>1. poptions \in Seq(Option) /\ Distinct(poptions)
  BY DEF IInv, OptionsAreDistinct, Distinct
<1>2. CASE UNCHANGED poptions
  BY <1>2 DEF IInv, OptionsAreDistinct
<1>3. ASSUME NEW o \in Offered, add(o) PROVE IInv'
  <2>1. CASE verifyOption(poptions, o)
    <3>1. poptions' = Append(poptions, Resolved(o))
      BY <1>3, <2>1 DEF add
    <3>2. poptions' \in Seq(Option) /\ Distinct(poptions')
      BY <1>1, <2>1, <3>1, AppendKeepsDistinct
    <3> QED BY <3>2 DEF IInv, OptionsAreDistinct, Distinct
  <2>2. CASE ~verifyOption(poptions, o)
    BY <1>2, <1>3, <2>2 DEF add
  <2> QED BY <2>1, <2>2
<1>4. ASSUME NEW o \in Offered, NEW p \in Offered, add_range(o, p) PROVE IInv'
  <2> DEFINE one == Append(poptions, Resolved(o))
  <2>1. verifyOption(poptions, o) /\ Resolved(o) \in Option
    BY <1>4, ResolvedIsOption DEF add_range
  <2>2. one \in Seq(Option) /\ Distinct(one)
    BY <1>1, <2>1, AppendKeepsDistinct
  <2>3. CASE verifyOption(one, p)
    <3>1. Resolved(p) \in Option
      BY <2>3, ResolvedIsOption
    <3>2. poptions' = poptions \o <<Resolved(o), Resolved(p)>>
      BY <1>4, <2>3 DEF add_range
    <3>3. poptions' = Append(one, Resolved(p))
      BY <1>1, <2>1, <3>1, <3>2
    <3> HIDE DEF one
    <3>4. poptions' \in Seq(Option) /\ Distinct(poptions')
      BY <2>2, <2>3, <3>3, AppendKeepsDistinct
    <3> QED BY <3>4 DEF IInv, OptionsAreDistinct, Distinct
  <2>4. CASE ~verifyOption(one, p)
    <3>1. poptions' = one
      BY <1>4, <2>4 DEF add_range
    <3> QED BY <2>2, <3>1 DEF IInv, OptionsAreDistinct, Distinct
  <2> QED BY <2>3, <2>4
<1>5. CASE parse_nothing
  BY <1>2, <1>5 DEF parse_nothing
<1>6. ASSUME NEW words, NEW ignore, parse(words, ignore) PROVE IInv'
  BY <1>2, <1>6 DEF parse
<1>7. CASE turn
  BY <1>2, <1>7 DEF turn, Turn, UnknownOption, KnownOption, EndOfLoop, Return, Continue
<1>8. CASE UNCHANGED vars
  BY <1>2, <1>8 DEF vars
<1> QED BY <1>3, <1>4, <1>5, <1>6, <1>7, <1>8 DEF Next

(* No sequence of add calls, refused ones and batches cut short included,  *)
(* makes two options share a name or a short form (verifyOption).          *)
THEOREM OptionsCorrect == Spec => []OptionsAreDistinct
<1>1. IInv => OptionsAreDistinct
  BY DEF IInv
<1> QED BY <1>1, Initially, Steps, PTL DEF Spec

-----------------------------------------------------------------------------
(* What getopt returns.                                                    *)

EmptyAt(i) == i \in DOMAIN argv /\ argv[i].kind \in {"text", "long"} /\ argv[i].arg = "empty"

(* The argument an option comes with, if it needs one, before word j.      *)
ArgumentOf(o, arg, j) ==
    \/ arg = NoArg /\ o.hasArg # "required"
    \/ /\ arg \in [word : Nat, empty : BOOLEAN] /\ j > 1
       /\ arg.empty => EmptyAt(j - 1)

(* What is returned for word i, or for letters left when i is not a word.  *)
Returned(r, i) ==
    /\ r.ch \in {"option", "?", "end", "outside"}
    /\ r.optind \in Nat \ {0} /\ r.nextchar \in Seq(Letters)
    /\ r.nextchar # <<>> => r.optind = i /\ r.ch \in {"option", "?"}
    /\ r.ch = "option" =>
          /\ r.option \in Range(poptions) /\ ArgumentOf(r.option, r.optarg, r.optind)
          /\ i \in DOMAIN argv => r.optind <= Len(argv) + 1

(* The state a call finds.                                                 *)
Callable ==
    /\ poptions \in Seq(Option)
    /\ argv \in Seq(CommandWords)
    /\ optind \in Nat \ {0}
    /\ nextchar \in Seq(Letters)

(* A word, or the place where letters are left.                            *)
Reached(i) == i \in DOMAIN argv \/ (i = optind /\ nextchar # <<>>)

LEMMA LeastIn ==
    ASSUME NEW T \in SUBSET Nat, T # {}
    PROVE  \E m \in T : \A y \in T : m <= y
<1> DEFINE R == OpToRel(<, Nat)
<1>1. IsWellFoundedOn(R, Nat)
  BY NatLessThanWellFounded
<1>2. \A x, y \in Nat : x < y => <<x, y>> \in R
  BY DEF OpToRel
<1> HIDE DEF R
<1>3. PICK x \in T : \A y \in T : ~(<<y, x>> \in R)
  BY <1>1, WFMin
<1>4. \A y \in T : x <= y
  <2> SUFFICES ASSUME NEW y \in T PROVE x <= y
    OBVIOUS
  <2>1. x \in Nat /\ y \in Nat
    OBVIOUS
  <2>2. ~(y < x)
    BY <1>2, <1>3, <2>1
  <2> QED BY <2>1, <2>2
<1> QED BY <1>4

LEMMA LeastOf ==
    ASSUME NEW T \in SUBSET Nat, T # {}
    PROVE  Min(T) \in T /\ \A y \in T : Min(T) <= y
BY LeastIn DEF Min

LEMMA GivenArgument ==
    ASSUME NEW o, NEW word \in Nat, NEW empty \in BOOLEAN, NEW j, j > 1, empty => EmptyAt(j - 1)
    PROVE  ArgumentOf(o, [word |-> word, empty |-> empty], j)
BY DEF ArgumentOf

LEMMA WholeWordIsArgument ==
    ASSUME Callable, NEW o, NEW i \in DOMAIN argv
    PROVE  ArgumentOf(o, WholeWord(argv, i), i + 1)
<1>1. i \in Nat \ {0} /\ i + 1 > 1 /\ i + 1 - 1 = i
  BY DEF Callable
<1> DEFINE empty == argv[i].kind = "text" /\ argv[i].arg = "empty"
<1>2. empty \in BOOLEAN /\ (empty => EmptyAt(i + 1 - 1))
  BY <1>1 DEF EmptyAt
<1>3. WholeWord(argv, i) = [word |-> i, empty |-> empty]
  BY Zenon DEF WholeWord, Argument
<1> HIDE DEF empty
<1> QED BY <1>1, <1>2, <1>3, GivenArgument

LEMMA TakeLongReturns ==
    ASSUME Callable, NEW o \in Range(poptions), NEW i \in DOMAIN argv, NEW arg,
           arg = NoArg \/ (argv[i].kind = "long" /\ argv[i].arg = arg)
    PROVE  Returned(TakeLong(o, arg, argv, i), i)
<1>1. i \in Nat \ {0} /\ <<>> \in Seq(Letters) /\ Len(argv) \in Nat /\ i <= Len(argv)
  BY DEF Callable
<1>2. CASE arg # NoArg
  <2>1. CASE TakesArgument(o)
    <3> DEFINE a == Argument(i, arg = "empty")
    <3>1. TakeLong(o, arg, argv, i) = Got(o, a, i + 1, <<>>)
      BY <1>2, <2>1 DEF TakeLong
    <3>2. ArgumentOf(o, a, i + 1)
      <4>1. i + 1 > 1 /\ i + 1 - 1 = i
        BY <1>1
      <4> DEFINE empty == arg = "empty"
      <4>2. empty \in BOOLEAN /\ (empty => EmptyAt(i + 1 - 1))
        BY <1>2, <4>1 DEF EmptyAt
      <4>3. a = [word |-> i, empty |-> empty]
        BY DEF Argument
      <4> HIDE DEF a, empty
      <4> QED BY <1>1, <4>1, <4>2, <4>3, GivenArgument
    <3> HIDE DEF a
    <3> QED BY <1>1, <3>1, <3>2 DEF Returned, Got
  <2>2. CASE ~TakesArgument(o)
    <3>1. TakeLong(o, arg, argv, i) = Unknown(i + 1, <<>>)
      BY <1>2, <2>2 DEF TakeLong
    <3> QED BY <1>1, <3>1 DEF Returned, Unknown
  <2> QED BY <2>1, <2>2
<1>3. CASE arg = NoArg
  <2>1. CASE o.hasArg # "required"
    <3>1. TakeLong(o, arg, argv, i) = Got(o, NoArg, i + 1, <<>>)
      BY <1>3, <2>1 DEF TakeLong
    <3> QED BY <1>1, <2>1, <3>1 DEF Returned, Got, ArgumentOf
  <2>2. CASE o.hasArg = "required" /\ i = Len(argv)
    <3>1. TakeLong(o, arg, argv, i) = Unknown(i + 1, <<>>)
      BY <1>3, <2>2 DEF TakeLong
    <3> QED BY <1>1, <3>1 DEF Returned, Unknown
  <2>3. CASE o.hasArg = "required" /\ i # Len(argv)
    <3>1. TakeLong(o, arg, argv, i) = Got(o, WholeWord(argv, i + 1), i + 2, <<>>)
      BY <1>3, <2>3 DEF TakeLong
    <3>2. i + 1 \in DOMAIN argv
      BY <1>1, <2>3 DEF Callable
    <3>3. ArgumentOf(o, WholeWord(argv, i + 1), i + 1 + 1)
      BY <3>2, WholeWordIsArgument
    <3>4. i + 1 + 1 = i + 2 /\ i + 2 <= Len(argv) + 1
      BY <1>1, <2>3
    <3> QED BY <1>1, <3>1, <3>3, <3>4 DEF Returned, Got
  <2> QED BY <2>1, <2>2, <2>3
<1> QED BY <1>2, <1>3

LEMMA TakeLetterReturns ==
    ASSUME Callable, NEW letters \in Seq(Letters), letters # <<>>, NEW i \in Nat \ {0}
    PROVE  Returned(TakeLetter(poptions, letters, argv, i), i)
<1> DEFINE c == Head(letters)
           rest == Tail(letters)
           after == IF rest = <<>> THEN i + 1 ELSE i
           o == WithShort(poptions, c)
           r == TakeLetter(poptions, letters, argv, i)
<1>1. rest \in Seq(Letters) /\ after \in Nat \ {0} /\ <<>> \in Seq(Letters) /\ Len(argv) \in Nat
  BY DEF Callable
<1>2. r = IF c \notin Shorts(poptions) THEN Unknown(after, rest)
          ELSE IF ~TakesArgument(o) THEN Got(o, NoArg, after, rest)
          ELSE IF rest # <<>> THEN Got(o, Argument(i, FALSE), i + 1, <<>>)
          ELSE IF after = Len(argv) + 1 THEN Unknown(after, <<>>)
          ELSE IF after > Len(argv) THEN Outside
          ELSE Got(o, WholeWord(argv, after), after + 1, <<>>)
  BY DEF TakeLetter
<1>3. c \in Shorts(poptions) => o \in Range(poptions)
  BY DEF Shorts, WithShort
<1>4. after <= Len(argv) => ArgumentOf(o, WholeWord(argv, after), after + 1)
  <2>1. after <= Len(argv) => after \in DOMAIN argv
    BY <1>1 DEF Callable
  <2> HIDE DEF o, after
  <2> QED BY <2>1, WholeWordIsArgument
<1>5. ArgumentOf(o, Argument(i, FALSE), i + 1)
  BY DEF ArgumentOf, Argument
<1>6. ~TakesArgument(o) => ArgumentOf(o, NoArg, after)
  BY DEF ArgumentOf, TakesArgument
<1>11. rest # <<>> => after = i
  OBVIOUS
<1>12. i \in DOMAIN argv => i <= Len(argv) /\ after <= Len(argv) + 1 /\ i + 1 <= Len(argv) + 1
  BY DEF Callable
<1> SUFFICES Returned(r, i)
  OBVIOUS
<1> HIDE DEF c, rest, after, o, r
<1>7. CASE c \notin Shorts(poptions)
  BY <1>1, <1>2, <1>7, <1>11 DEF Returned, Unknown
<1>8. CASE c \in Shorts(poptions) /\ ~TakesArgument(o)
  <2>1. r = Got(o, NoArg, after, rest)
    BY <1>2, <1>8
  <2> QED BY <1>1, <1>3, <1>6, <1>8, <1>11, <1>12, <2>1 DEF Returned, Got
<1>9. CASE c \in Shorts(poptions) /\ TakesArgument(o) /\ rest # <<>>
  <2> DEFINE a == Argument(i, FALSE)
  <2>1. r = Got(o, a, i + 1, <<>>)
    BY <1>2, <1>9
  <2>2. ArgumentOf(o, a, i + 1)
    BY <1>5
  <2> HIDE DEF a
  <2> QED BY <1>1, <1>3, <1>9, <1>12, <2>1, <2>2 DEF Returned, Got
<1>10. CASE c \in Shorts(poptions) /\ TakesArgument(o) /\ rest = <<>>
  <2>1. CASE after = Len(argv) + 1
    BY <1>1, <1>2, <1>10, <2>1 DEF Returned, Unknown
  <2>2. CASE after # Len(argv) + 1 /\ after > Len(argv)
    BY <1>1, <1>2, <1>10, <2>2 DEF Returned, Outside
  <2>3. CASE after # Len(argv) + 1 /\ ~(after > Len(argv))
    <3>1. r = Got(o, WholeWord(argv, after), after + 1, <<>>)
      BY <1>2, <1>10, <2>3
    <3> QED BY <1>1, <1>3, <1>4, <1>10, <2>3, <3>1 DEF Returned, Got
  <2> QED BY <2>1, <2>2, <2>3
<1> QED BY <1>7, <1>8, <1>9, <1>10

(* Every word is of its kind and has what its kind has.                    *)
LEMMA WordKinds ==
    ASSUME NEW w \in CommandWords
    PROVE  /\ w.kind \in {"long", "cluster", "text", "dashes"}
           /\ w.kind = "cluster" => w.letters \in Seq(Letters) \ {<<>>}
           /\ w.kind = "long" => w.arg \in {NoArg, "empty", "full"}
BY DEF CommandWords, Dashes

LEMMA TakeClusterReturns ==
    ASSUME Callable, NEW letters \in Seq(Letters), letters # <<>>, NEW i \in DOMAIN argv
    PROVE  Returned(TakeCluster(poptions, letters, argv, i), i)
<1>1. i \in Nat \ {0} /\ <<>> \in Seq(Letters)
  BY DEF Callable
<1>2. CASE Head(letters) \in Shorts(poptions)
  BY <1>1, <1>2, TakeLetterReturns DEF TakeCluster
<1>3. CASE /\ Head(letters) \notin Shorts(poptions) /\ Len(letters) = 1
           /\ Cardinality(Abbreviated(poptions, letters[1])) = 1
  <2> DEFINE A == Abbreviated(poptions, letters[1])
             o == CHOOSE p \in A : TRUE
  <2>1. A # {}
    <3> HIDE DEF A
    <3>1. Cardinality(A) = 1
      BY <1>3 DEF A
    <3>2. Cardinality({}) = 0
      BY FS_EmptySet
    <3>3. A = {} => Cardinality(A) = Cardinality({})
      BY Zenon
    <3> QED BY <3>1, <3>2, <3>3
  <2>2. o \in A
    BY <2>1
  <2>3. o \in Range(poptions)
    BY <2>2 DEF Abbreviated
  <2>4. TakeCluster(poptions, letters, argv, i) = TakeLong(o, NoArg, argv, i)
    BY <1>3 DEF TakeCluster
  <2> HIDE DEF o
  <2> QED BY <2>3, <2>4, TakeLongReturns
<1>4. CASE /\ Head(letters) \notin Shorts(poptions)
           /\ ~(Len(letters) = 1 /\ Cardinality(Abbreviated(poptions, letters[1])) = 1)
  <2>1. TakeCluster(poptions, letters, argv, i) = Unknown(i + 1, <<>>)
    BY <1>4 DEF TakeCluster
  <2> QED BY <1>1, <2>1 DEF Returned, Unknown
<1> QED BY <1>2, <1>3, <1>4

LEMMA TakeWordReturns ==
    ASSUME Callable, NEW i \in DOMAIN argv, argv[i].kind # "text"
    PROVE  Returned(TakeWord(poptions, argv, i), i)
<1> DEFINE w == argv[i]
           known == {o \in Range(poptions) : w.kind = "long" /\ o.name = w.name}
<1>1. i \in Nat \ {0} /\ <<>> \in Seq(Letters) /\ w \in CommandWords
  BY DEF Callable
<1>2. w.kind \in {"long", "cluster", "dashes"}
  BY <1>1, WordKinds
<1>3. CASE w.kind = "dashes"
  <2>1. TakeWord(poptions, argv, i) = NoMore(i + 1)
    BY <1>3 DEF TakeWord
  <2> QED BY <1>1, <2>1 DEF Returned, NoMore
<1>4. CASE w.kind = "cluster"
  <2>1. TakeWord(poptions, argv, i) = TakeCluster(poptions, w.letters, argv, i)
    BY <1>4 DEF TakeWord
  <2>2. w.letters \in Seq(Letters) /\ w.letters # <<>>
    BY <1>1, <1>4, WordKinds
  <2> QED BY <2>1, <2>2, TakeClusterReturns
<1>5. CASE w.kind = "long" /\ known = {}
  <2>1. TakeWord(poptions, argv, i) = Unknown(i + 1, <<>>)
    BY <1>5 DEF TakeWord
  <2> QED BY <1>1, <2>1 DEF Returned, Unknown
<1>6. CASE w.kind = "long" /\ known # {}
  <2> DEFINE o == CHOOSE p \in known : TRUE
  <2>1. TakeWord(poptions, argv, i) = TakeLong(o, w.arg, argv, i)
    BY <1>6 DEF TakeWord
  <2>2. o \in Range(poptions)
    BY <1>6
  <2> HIDE DEF o
  <2> QED BY <1>6, <2>1, <2>2, TakeLongReturns
<1> QED BY <1>2, <1>3, <1>4, <1>5, <1>6

LEMMA GetoptReturns ==
    ASSUME Callable
    PROVE  LET r == getopt_long_only(poptions, argv, optind, nextchar)
           IN  \E i \in Nat : Returned(r, i) /\ (Reached(i) \/ r.ch \in {"end", "outside"})
<1> DEFINE next == {i \in optind .. Len(argv) : argv[i].kind # "text"}
           r == getopt_long_only(poptions, argv, optind, nextchar)
<1>1. /\ optind \in Nat \ {0} /\ Len(argv) \in Nat /\ DOMAIN argv = 1 .. Len(argv)
      /\ <<>> \in Seq(Letters) /\ nextchar \in Seq(Letters)
  BY DEF Callable
<1>2. r = IF nextchar # <<>> THEN TakeLetter(poptions, nextchar, argv, optind)
          ELSE IF optind > Len(argv) + 1 THEN Outside
          ELSE IF next = {} THEN NoMore(Len(argv) + 1)
          ELSE TakeWord(poptions, argv, Min(next))
  BY DEF getopt_long_only
<1> SUFFICES \E i \in Nat : Returned(r, i) /\ (Reached(i) \/ r.ch \in {"end", "outside"})
  OBVIOUS
<1> HIDE DEF r
<1>3. CASE nextchar # <<>>
  <2>1. Returned(r, optind)
    BY <1>1, <1>2, <1>3, TakeLetterReturns
  <2> QED BY <1>1, <1>3, <2>1 DEF Reached
<1>4. CASE nextchar = <<>> /\ optind > Len(argv) + 1
  <2>1. r = Outside
    BY <1>2, <1>4
  <2>2. Returned(r, 0) /\ r.ch = "outside"
    BY <1>1, <2>1 DEF Returned, Outside
  <2> QED BY <2>2
<1>5. CASE nextchar = <<>> /\ ~(optind > Len(argv) + 1) /\ next = {}
  <2>1. r = NoMore(Len(argv) + 1)
    BY <1>2, <1>5
  <2>2. Returned(r, 0) /\ r.ch = "end"
    BY <1>1, <2>1 DEF Returned, NoMore
  <2> QED BY <2>2
<1>6. CASE nextchar = <<>> /\ ~(optind > Len(argv) + 1) /\ next # {}
  <2>1. r = TakeWord(poptions, argv, Min(next))
    BY <1>2, <1>6
  <2>2. next \in SUBSET Nat
    BY <1>1
  <2> DEFINE m == Min(next)
  <2>3. m \in next
    <3> HIDE DEF next
    <3> QED BY <1>6, <2>2, LeastOf
  <2>4. m \in DOMAIN argv /\ argv[m].kind # "text"
    BY <1>1, <2>3
  <2> HIDE DEF m, next
  <2>5. Returned(r, m)
    BY <2>1, <2>4, TakeWordReturns DEF m
  <2> QED BY <1>1, <2>4, <2>5 DEF Reached
<1> QED BY <1>3, <1>4, <1>5, <1>6

-----------------------------------------------------------------------------
(* Types, and why an ignoring parse throws.                                *)

Values == Nat \cup {Empty, Default, OldText}

CallInv ==
    /\ Callable
    /\ DOMAIN results \subseteq NamesOf(Range(poptions))
    /\ \A n \in DOMAIN results : results[n] \in Values
    /\ pc \in {"idle", "parsing"}
    /\ reply \in {"returned", "invalid_argument", "undefined"}

LEMMA CallInitially == Init => CallInv
BY DEF Init, CallInv, Callable

(* Options that are added leave those that were there.                     *)
LEMMA AppendedRange ==
    ASSUME NEW s \in Seq(Option), NEW e \in Option
    PROVE  Append(s, e) \in Seq(Option) /\ NamesOf(Range(s)) \subseteq NamesOf(Range(Append(s, e)))
<1> DEFINE t == Append(s, e)
<1>1. t \in Seq(Option) /\ \A i \in DOMAIN s : i \in DOMAIN t /\ t[i] = s[i]
  OBVIOUS
<1> HIDE DEF t
<1>2. Range(s) \subseteq Range(t)
  BY <1>1 DEF Range
<1> QED BY <1>1, <1>2 DEF NamesOf, t

LEMMA AddedTyped ==
    ASSUME CallInv, poptions' \in Seq(Option),
           NamesOf(Range(poptions)) \subseteq NamesOf(Range(poptions')),
           reply' \in {"returned", "invalid_argument"},
           UNCHANGED <<results, programName, getopt, call, pc>>
    PROVE  CallInv'
BY DEF CallInv, Callable, getopt, call

LEMMA AddTyped ==
    ASSUME CallInv, NEW o \in Offered, add(o)
    PROVE  CallInv'
<1>1. poptions \in Seq(Option) /\ UNCHANGED <<results, programName, getopt, call, pc>>
  BY DEF CallInv, Callable, add
<1>2. CASE verifyOption(poptions, o)
  <2>1. poptions' = Append(poptions, Resolved(o)) /\ reply' = "returned" /\ Resolved(o) \in Option
    BY <1>2, ResolvedIsOption DEF add
  <2> QED BY <1>1, <2>1, AppendedRange, AddedTyped
<1>3. CASE ~verifyOption(poptions, o)
  <2>1. poptions' = poptions /\ reply' = "invalid_argument"
    BY <1>3 DEF add
  <2> QED BY <1>1, <2>1, AddedTyped
<1> QED BY <1>2, <1>3

LEMMA AddRangeTyped ==
    ASSUME CallInv, NEW o \in Offered, NEW p \in Offered, add_range(o, p)
    PROVE  CallInv'
<1> DEFINE one == Append(poptions, Resolved(o))
<1>1. poptions \in Seq(Option) /\ UNCHANGED <<results, programName, getopt, call, pc>>
  BY DEF CallInv, Callable, add_range
<1>2. Resolved(o) \in Option
  BY ResolvedIsOption DEF add_range
<1>3. one \in Seq(Option) /\ NamesOf(Range(poptions)) \subseteq NamesOf(Range(one))
  BY <1>1, <1>2, AppendedRange
<1>4. CASE verifyOption(one, p)
  <2>1. Resolved(p) \in Option
    BY <1>4, ResolvedIsOption
  <2>2. poptions' = poptions \o <<Resolved(o), Resolved(p)>> /\ reply' = "returned"
    BY <1>4 DEF add_range
  <2>3. poptions' = Append(one, Resolved(p))
    BY <1>1, <1>2, <2>1, <2>2
  <2> HIDE DEF one
  <2>4. poptions' \in Seq(Option) /\ NamesOf(Range(one)) \subseteq NamesOf(Range(poptions'))
    BY <1>3, <2>1, <2>3, AppendedRange
  <2> QED BY <1>1, <1>3, <2>2, <2>4, AddedTyped
<1>5. CASE ~verifyOption(one, p)
  <2>1. poptions' = one /\ reply' = "invalid_argument"
    BY <1>5 DEF add_range
  <2> HIDE DEF one
  <2> QED BY <1>1, <1>3, <2>1, AddedTyped
<1> QED BY <1>4, <1>5

LEMMA BoundedWords ==
    ASSUME NEW words \in BoundedSeq(Words, MaxWords)
    PROVE  words \in Seq(CommandWords)
<1>1. PICK m \in 0 .. MaxWords : words \in [1 .. m -> Words]
  BY DEF BoundedSeq, SeqOf
<1>2. words \in [1 .. m -> CommandWords] /\ m \in Nat
  BY <1>1, WordsAssumption
<1> QED BY <1>2

LEMMA ParseTyped ==
    ASSUME CallInv, NEW words \in BoundedSeq(Words, MaxWords), NEW ignore \in BOOLEAN,
           parse(words, ignore)
    PROVE  CallInv'
<1>1. words \in Seq(CommandWords)
  BY BoundedWords
<1>2. /\ results' = [n \in NamesOf(Optional) |-> Default] /\ optind' = 1 /\ argv' = words
      /\ nextchar' \in {<<>>, nextchar} /\ pc' = "parsing" /\ UNCHANGED <<poptions, reply>>
  BY DEF parse, initWithDefaultValues
<1>3. NamesOf(Optional) \subseteq NamesOf(Range(poptions))
  BY DEF NamesOf, Optional
<1>4. DOMAIN results' \subseteq NamesOf(Range(poptions)) /\ \A n \in DOMAIN results' : results'[n] \in Values
  BY <1>2, <1>3 DEF Values
<1>5. nextchar' \in Seq(Letters)
  <2>1. nextchar \in Seq(Letters) /\ <<>> \in Seq(Letters)
    BY DEF CallInv, Callable
  <2> QED BY <1>2, <2>1
<1>6. Callable'
  BY <1>1, <1>2, <1>5 DEF CallInv, Callable
<1> QED BY <1>2, <1>4, <1>6 DEF CallInv

(* What an option gets for a result.                                       *)
LEMMA StoredTyped ==
    ASSUME CallInv, NEW o \in Range(poptions), NEW arg, NEW j, ArgumentOf(o, arg, j), Store(o, arg)
    PROVE  /\ DOMAIN results' \subseteq NamesOf(Range(poptions))
           /\ \A n \in DOMAIN results' : results'[n] \in Values
<1>1. Result(o, arg) \in Values
  BY DEF Result, ArgumentOf, Values
<1>2. o.name \in NamesOf(Range(poptions))
  BY DEF NamesOf
<1> HIDE DEF Values
<1> QED BY <1>1, <1>2 DEF Store, CallInv

LEMMA TurnTyped ==
    ASSUME CallInv, NEW r, NEW i, Returned(r, i), Turn(r)
    PROVE  CallInv'
<1>1. /\ poptions' = poptions /\ optind' \in Nat \ {0} /\ nextchar' \in Seq(Letters)
      /\ argv' \in {argv, <<>>} /\ pc' \in {"idle", "parsing"}
      /\ reply' \in {"returned", "invalid_argument", "undefined"}
  BY DEF Turn, Returned, UnknownOption, KnownOption, EndOfLoop, Return, Continue, call, CallInv
<1>2. Callable'
  <2>1. argv' \in Seq(CommandWords)
    <3>1. argv \in Seq(CommandWords) /\ <<>> \in Seq(CommandWords)
      BY DEF CallInv, Callable
    <3> QED BY <1>1, <3>1
  <2> QED BY <1>1, <2>1 DEF CallInv, Callable
<1>3. DOMAIN results' \subseteq NamesOf(Range(poptions)) /\ \A n \in DOMAIN results' : results'[n] \in Values
  <2>1. CASE UNCHANGED results
    BY <2>1 DEF CallInv
  <2>2. CASE r.ch = "option" /\ Store(r.option, r.optarg)
    BY <2>2, StoredTyped DEF Returned
  <2>3. CASE r.ch = "option" /\ Touch(r.option.name)
    <3>1. r.option.name \in NamesOf(Range(poptions)) /\ Empty \in Values
      BY <2>3 DEF Returned, NamesOf, Values
    <3> HIDE DEF Values
    <3> QED BY <2>3, <3>1 DEF Touch, CallInv
  <2> QED BY <2>1, <2>2, <2>3 DEF Turn, UnknownOption, KnownOption, EndOfLoop
<1> QED BY <1>1, <1>2, <1>3 DEF CallInv

LEMMA CallSteps == CallInv /\ [Next]_vars => CallInv'
<1> SUFFICES ASSUME CallInv, [Next]_vars PROVE CallInv'
  OBVIOUS
<1>1. CASE parse_nothing
  BY <1>1 DEF parse_nothing, CallInv, Callable, getopt, call
<1>2. CASE turn
  <2>1. \E i \in Nat : Returned(getopt_long_only(poptions, argv, optind, nextchar), i)
    BY GetoptReturns DEF CallInv
  <2> QED BY <1>2, <2>1, TurnTyped DEF turn
<1>3. CASE UNCHANGED vars
  BY <1>3 DEF vars, CallInv, Callable, getopt, call
<1> QED BY <1>1, <1>2, <1>3, AddTyped, AddRangeTyped, ParseTyped DEF Next

(* Whatever is added and parsed, with or without an earlier parse that     *)
(* stopped midway, results are those of options in the table, and getopt   *)
(* finds its place in order (add, parse).                                  *)
THEOREM TypeCorrect == Spec => []TypeOK
<1>1. CallInv => TypeOK
  <2> SUFFICES ASSUME CallInv PROVE TypeOK
    OBVIOUS
  <2>1. \A o \in Range(poptions) : o \in Option
    BY DEF CallInv, Callable, Range
  <2>2. \A o \in Range(poptions) : o.name \in Names /\ o.shortOption # AutoShort
    BY <2>1, LetterAssumption DEF Option
  <2> QED BY <2>2 DEF CallInv, Callable, TypeOK, Values
<1> QED BY <1>1, CallInitially, CallSteps, PTL DEF Spec

(* Letters left are those of a word of this command line, or stale.        *)
PlaceInv == pc = "parsing" /\ ~stale /\ nextchar # <<>> => optind \in DOMAIN argv

LEMMA PlaceSteps ==
    ASSUME CallInv, PlaceInv, [Next]_vars
    PROVE  PlaceInv'
<1>1. CASE pc' = "idle"
  BY <1>1 DEF PlaceInv
<1>2. CASE UNCHANGED vars
  BY <1>2 DEF PlaceInv, vars, getopt, call
<1>3. ASSUME NEW words \in BoundedSeq(Words, MaxWords), NEW ignore \in BOOLEAN, parse(words, ignore)
      PROVE  PlaceInv'
  BY <1>3 DEF PlaceInv, parse
<1>4. CASE turn /\ pc' # "idle"
  <2> DEFINE r == getopt_long_only(poptions, argv, optind, nextchar)
  <2>1. PICK i \in Nat : Returned(r, i) /\ (Reached(i) \/ r.ch \in {"end", "outside"})
    BY GetoptReturns DEF CallInv
  <2>2. Turn(r)
    BY <1>4 DEF turn
  <2> HIDE DEF r
  <2>3. /\ argv' = argv /\ optind' = r.optind /\ nextchar' = r.nextchar /\ pc = "parsing"
        /\ stale' = (stale /\ nextchar' # <<>>)
    BY <1>4, <2>2 DEF Turn, UnknownOption, KnownOption, EndOfLoop, Return, Continue, call
  <2>4. ASSUME ~stale', nextchar' # <<>> PROVE optind' \in DOMAIN argv'
    <3>1. r.optind = i /\ r.ch \in {"option", "?"} /\ ~stale
      BY <2>1, <2>3, <2>4 DEF Returned
    <3> QED BY <2>1, <2>3, <3>1 DEF Reached, PlaceInv
  <2> QED BY <2>4 DEF PlaceInv
<1>5. ASSUME NEW o \in Offered, add(o) PROVE PlaceInv'
  BY <1>5 DEF add, PlaceInv
<1>6. ASSUME NEW o \in Offered, NEW p \in Offered, add_range(o, p) PROVE PlaceInv'
  BY <1>6 DEF add_range, PlaceInv
<1>7. CASE parse_nothing
  BY <1>7 DEF parse_nothing, PlaceInv
<1> QED BY <1>1, <1>2, <1>3, <1>4, <1>5, <1>6, <1>7 DEF Next

LEMMA PlaceInitially == Init => PlaceInv
BY DEF Init, PlaceInv

(* An unknown option does not end a parse that ignores it: only a required *)
(* argument that is an empty text does, or one that stale letters put      *)
(* beyond the command line (parse, getResultFromOption).                   *)
THEOREM IgnoringCorrect == Spec => IgnoringThrowsOnlyForEmpty
<1> DEFINE Throws == ignoreUnknownOptions /\ pc = "parsing" /\ reply' = "invalid_argument" /\ pc' = "idle"
           Excused ==
               \/ /\ optind' - 1 \in DOMAIN argv
                  /\ argv[optind' - 1].kind \in {"text", "long"} /\ argv[optind' - 1].arg = "empty"
               \/ stale /\ optind' > Len(argv) + 1
<1>1. CallInv /\ PlaceInv /\ [Next]_vars => [Throws => Excused]_vars
  <2> SUFFICES ASSUME CallInv, PlaceInv, Next, Throws PROVE Excused
    OBVIOUS
  <2>1. turn
    BY DEF Next, add, add_range, parse_nothing, parse
  <2> DEFINE r == getopt_long_only(poptions, argv, optind, nextchar)
  <2>2. PICK i \in Nat : Returned(r, i) /\ (Reached(i) \/ r.ch \in {"end", "outside"})
    BY GetoptReturns DEF CallInv
  <2>3. Turn(r)
    BY <2>1 DEF turn
  <2> HIDE DEF r
  <2>4. r.ch = "option" /\ Missing(r) /\ optind' = r.optind
    BY <2>3 DEF Turn, UnknownOption, KnownOption, EndOfLoop, Return, Continue
  <2>5. ArgumentOf(r.option, r.optarg, r.optind)
    BY <2>2, <2>4 DEF Returned
  <2>6. CASE r.optind > Len(argv) + 1
    <3>1. i \notin DOMAIN argv
      <4>1. Len(argv) \in Nat /\ r.optind \in Nat
        BY <2>2 DEF CallInv, Callable, Returned
      <4>2. i \in DOMAIN argv => r.optind <= Len(argv) + 1
        BY <2>2, <2>4 DEF Returned
      <4> QED BY <2>6, <4>1, <4>2
    <3>2. i = optind /\ nextchar # <<>>
      BY <2>2, <2>4, <3>1 DEF Reached
    <3> QED BY <2>4, <2>6, <3>1, <3>2 DEF PlaceInv
  <2>7. CASE ~(r.optind > Len(argv) + 1)
    <3>1. r.optarg # NoArg /\ r.optarg.empty
      BY <2>4, <2>5, <2>7, NoArgAssumption DEF Missing, ArgumentOf
    <3> QED BY <2>4, <2>5, <3>1 DEF ArgumentOf, EmptyAt
  <2> QED BY <2>6, <2>7
<1> QED BY <1>1, CallInitially, CallSteps, PlaceInitially, PlaceSteps, PTL DEF Spec, IgnoringThrowsOnlyForEmpty

-----------------------------------------------------------------------------
(* What a command line says: which words are arguments.                    *)

LEMMA GreatestOf ==
    ASSUME NEW T \in SUBSET Nat, T # {}, NEW n \in Nat, \A x \in T : x <= n
    PROVE  Max(T) \in T /\ \A y \in T : y <= Max(T)
<1> DEFINE D == {n - x : x \in T}
<1>1. D \in SUBSET Nat /\ D # {}
  <2>1. \A x \in T : n - x \in Nat
    OBVIOUS
  <2> QED BY <2>1
<1>2. \E d \in D : \A e \in D : d <= e
  <2> HIDE DEF D
  <2> QED BY <1>1, LeastIn
<1>3. PICK x \in T : \A e \in D : n - x <= e
  BY <1>2
<1>4. \A y \in T : x >= y
  <2> SUFFICES ASSUME NEW y \in T PROVE x >= y
    OBVIOUS
  <2>1. n - x <= n - y /\ x \in Nat /\ y \in Nat
    BY <1>3
  <2> QED BY <2>1
<1>5. \E m \in T : \A y \in T : m >= y
  BY <1>4
<1>6. Max(T) \in T /\ \A y \in T : Max(T) >= y
  BY <1>5 DEF Max
<1> QED BY <1>6

(* The recursion has a solution: a word is an argument if the words that   *)
(* take their next one, counted back from it, are odd in number.           *)
LEMMA OddRuns ==
    ASSUME NEW takers
    PROVE  \E f : f = [i \in Nat |-> i > 1 /\ ~f[i - 1] /\ (i - 1) \in takers]
<1> DEFINE Quiet(i) == {0} \cup {j \in 1 .. i - 1 : j \notin takers}
           last(i) == Max(Quiet(i))
           f == [i \in Nat |-> i > 1 /\ (i - 1 - last(i)) % 2 = 1]
<1>1. ASSUME NEW i \in Nat \ {0}
      PROVE  /\ last(i) \in Quiet(i) /\ last(i) \in 0 .. i - 1
             /\ \A y \in Quiet(i) : y <= last(i)
  <2>1. Quiet(i) \in SUBSET Nat /\ Quiet(i) # {} /\ \A x \in Quiet(i) : x <= i - 1
    OBVIOUS
  <2>2. i - 1 \in Nat
    OBVIOUS
  <2>3. last(i) \in Quiet(i) /\ \A y \in Quiet(i) : y <= last(i)
    <3> HIDE DEF Quiet
    <3> QED BY <2>1, <2>2, GreatestOf
  <2> HIDE DEF last
  <2>4. last(i) \in 0 .. i - 1
    BY <2>3
  <2> QED BY <2>3, <2>4
<1> HIDE DEF last
<1>2. ASSUME NEW i \in Nat, i > 1
      PROVE  f[i] = (~f[i - 1] /\ (i - 1) \in takers)
  <2>1. CASE i - 1 \notin takers
    <3>1. i - 1 \in Quiet(i) /\ last(i) \in 0 .. i - 1 /\ i - 1 <= last(i)
      BY <1>1, <1>2, <2>1
    <3>2. last(i) = i - 1
      BY <3>1
    <3> QED BY <2>1, <3>2
  <2>2. CASE i - 1 \in takers
    <3>1. Quiet(i) = Quiet(i - 1)
      BY <1>2, <2>2
    <3>2. last(i) = last(i - 1)
      BY <3>1 DEF last
    <3>3. last(i - 1) \in 0 .. i - 2
      BY <1>1, <1>2
    <3>4. CASE i = 2
      <4>1. (i - 1 - last(i)) % 2 = 1 /\ i > 1 /\ ~(i - 1 > 1)
        BY <3>2, <3>3, <3>4
      <4>2. /\ f[i] = (i > 1 /\ (i - 1 - last(i)) % 2 = 1)
            /\ f[i - 1] = (i - 1 > 1 /\ (i - 1 - 1 - last(i - 1)) % 2 = 1)
        BY <1>2
      <4> HIDE DEF f
      <4>3. f[i] /\ ~f[i - 1]
        BY <4>1, <4>2, Zenon
      <4> QED BY <2>2, <4>2, <4>3, Zenon
    <3>5. CASE i > 2
      <4> DEFINE l == last(i - 1)
      <4>1. l \in 0 .. i - 2 /\ l = last(i)
        BY <3>2, <3>3
      <4>2. f[i - 1] = ((i - 2 - l) % 2 = 1) /\ f[i] = ((i - 1 - l) % 2 = 1)
        BY <1>2, <3>2, <3>5
      <4> HIDE DEF l, f
      <4>3. (i - 1 - l) % 2 = 1 <=> ~((i - 2 - l) % 2 = 1)
        BY <1>2, <4>1
      <4> QED BY <2>2, <4>2, <4>3
    <3> QED BY <1>2, <3>4, <3>5
  <2> QED BY <2>1, <2>2
<1>3. f = [i \in Nat |-> i > 1 /\ ~f[i - 1] /\ (i - 1) \in takers]
  <2>1. \A i \in Nat : f[i] = (i > 1 /\ ~f[i - 1] /\ (i - 1) \in takers)
    BY <1>2
  <2> QED BY <2>1
<1> QED BY <1>3

LEMMA UsedStep ==
    ASSUME NEW options, NEW words, NEW i \in Nat \ {0}
    PROVE  /\ ~Used(options, words)[1]
           /\ Used(options, words)[i + 1] <=>
                 ~Used(options, words)[i] /\ TakesNext(options, words[i])
<1> DEFINE Solves(f) ==
             f = [j \in Nat |-> j > 1 /\ ~f[j - 1] /\ TakesNext(options, words[j - 1])]
           takers == {j \in Nat : TakesNext(options, words[j])}
<1>1. \E f : Solves(f)
  <2>1. PICK f : f = [j \in Nat |-> j > 1 /\ ~f[j - 1] /\ (j - 1) \in takers]
    <3> HIDE DEF takers
    <3> QED BY OddRuns
  <2>2. \A j \in Nat : (j > 1 /\ ~f[j - 1] /\ (j - 1) \in takers) =
                       (j > 1 /\ ~f[j - 1] /\ TakesNext(options, words[j - 1]))
    OBVIOUS
  <2>3. Solves(f)
    <3>1. \A j \in Nat : f[j] = (j > 1 /\ ~f[j - 1] /\ TakesNext(options, words[j - 1]))
      BY <2>1, <2>2
    <3>2. f = [j \in Nat |-> f[j]]
      BY <2>1
    <3> HIDE DEF takers
    <3> QED BY <3>1, <3>2
  <2> QED BY <2>3
<1>2. Used(options, words) = CHOOSE f : Solves(f)
  BY DEF Used
<1>3. Solves(Used(options, words))
  <2> HIDE DEF Solves
  <2> QED BY <1>1, <1>2
<1> DEFINE u == Used(options, words)
<1>4. \A j \in Nat : u[j] = (j > 1 /\ ~u[j - 1] /\ TakesNext(options, words[j - 1]))
  BY <1>3
<1> HIDE DEF u
<1>5. 1 \in Nat /\ ~(1 > 1) /\ i + 1 \in Nat /\ i + 1 > 1 /\ i + 1 - 1 = i
  OBVIOUS
<1>6. u[1] = (1 > 1 /\ ~u[1 - 1] /\ TakesNext(options, words[1 - 1]))
  BY <1>4, <1>5
<1>7. u[i + 1] = (i + 1 > 1 /\ ~u[i] /\ TakesNext(options, words[i]))
  BY <1>4, <1>5
<1>8. ~u[1]
  BY <1>5, <1>6, Zenon
<1>9. u[i + 1] <=> ~u[i] /\ TakesNext(options, words[i])
  BY <1>5, <1>7, Zenon
<1> QED BY <1>8, <1>9 DEF u

-----------------------------------------------------------------------------
(* The results while word n + 1 is read, of which S are the options read.  *)

Shows(options, words, n, S, res) ==
    LET all == Present(options, words, n) \cup S
    IN  /\ res = [m \in DOMAIN res |-> res[m]]
        /\ DOMAIN res = NamesOf(all)
        /\ \A o \in all :
              res[o.name] = IF o \in S THEN ValueIn(options, words, o, n + 1)
                            ELSE Value(options, words, o, n)

GivenBy(options, words, i) == {o \in Range(options) : Gives(options, words, o, i)}

LEMMA OneOfAName ==
    ASSUME NEW options, Distinct(options)
    PROVE  /\ \A o, p \in Range(options) : o.name = p.name => o = p
           /\ \A o, p \in Range(options) :
                 o.shortOption = p.shortOption /\ o.shortOption # NoShort => o = p
BY DEF Distinct, Range

LEMMA ShowsDescribed ==
    ASSUME NEW options, Distinct(options), NEW words, NEW n, NEW res, Shows(options, words, n, {}, res)
    PROVE  res = Described(options, words, n)
<1> DEFINE present == Present(options, words, n)
           Named(m) == CHOOSE o \in present : o.name = m
<1>1. /\ res = [m \in DOMAIN res |-> res[m]] /\ DOMAIN res = NamesOf(present)
      /\ \A o \in present : res[o.name] = Value(options, words, o, n)
  BY DEF Shows
<1>2. Described(options, words, n) = [m \in NamesOf(present) |-> Value(options, words, Named(m), n)]
  BY DEF Described
<1>3. \A m \in NamesOf(present) : Named(m) \in present /\ Named(m).name = m
  BY DEF NamesOf
<1> HIDE DEF present, Named
<1>4. \A m \in NamesOf(present) : res[m] = Value(options, words, Named(m), n)
  BY <1>1, <1>3
<1> QED BY <1>1, <1>2, <1>4

(* Before the first word.                                                  *)
LEMMA ShowsDefaults ==
    ASSUME NEW options, Distinct(options), NEW words \in Seq(CommandWords)
    PROVE  Shows(options, words, 0, {},
              [m \in NamesOf({o \in Range(options) : o.hasArg = "optional"}) |-> Default])
<1>1. \A o : Givers(options, words, o, 0) = {}
  BY DEF Givers
<1>2. Present(options, words, 0) = {o \in Range(options) : o.hasArg = "optional"}
  BY <1>1 DEF Present
<1>3. \A o : Value(options, words, o, 0) = Default
  BY <1>1 DEF Value
<1> DEFINE all == {o \in Range(options) : o.hasArg = "optional"}
           res == [m \in NamesOf(all) |-> Default]
<1>4. \A o \in all : o.name \in NamesOf(all)
  BY DEF NamesOf
<1> HIDE DEF all
<1>5. res = [m \in DOMAIN res |-> res[m]] /\ DOMAIN res = NamesOf(all)
      /\ \A o \in all : res[o.name] = Default
  BY <1>4
<1> HIDE DEF res
<1>6. Shows(options, words, 0, {}, res)
  BY <1>2, <1>3, <1>5 DEF Shows, all
<1> QED BY <1>6 DEF all, res

(* What one more word changes.                                             *)
LEMMA OneMoreWord ==
    ASSUME NEW options, NEW words \in Seq(CommandWords), NEW n \in Nat, n + 1 \in DOMAIN words
    PROVE  /\ Present(options, words, n + 1) =
                  Present(options, words, n) \cup GivenBy(options, words, n + 1)
           /\ \A o \in Range(options) :
                 Value(options, words, o, n + 1) =
                     IF o \in GivenBy(options, words, n + 1) THEN ValueIn(options, words, o, n + 1)
                     ELSE Value(options, words, o, n)
<1>1. ASSUME NEW o
      PROVE  Givers(options, words, o, n + 1) =
                 IF Gives(options, words, o, n + 1)
                 THEN Givers(options, words, o, n) \cup {n + 1} ELSE Givers(options, words, o, n)
  BY DEF Givers
<1>2. ASSUME NEW o, Gives(options, words, o, n + 1)
      PROVE  Max(Givers(options, words, o, n + 1)) = n + 1
  <2> DEFINE T == Givers(options, words, o, n + 1)
  <2>1. T \in SUBSET Nat /\ n + 1 \in T /\ \A x \in T : x <= n + 1
    BY <1>2 DEF Givers
  <2> HIDE DEF T
  <2>2. Max(T) \in T /\ \A y \in T : y <= Max(T)
    <3>1. T # {} /\ n + 1 \in Nat
      BY <2>1
    <3> QED BY <2>1, <3>1, GreatestOf
  <2>3. Max(T) = n + 1
    <3> DEFINE x == Max(T)
    <3>1. x \in Nat /\ x <= n + 1 /\ n + 1 <= x
      BY <2>1, <2>2
    <3> HIDE DEF x
    <3>2. x = n + 1
      BY <3>1
    <3> QED BY <3>2 DEF x
  <2> QED BY <2>3 DEF T
<1>3. ASSUME NEW o \in Range(options)
      PROVE  Value(options, words, o, n + 1) =
                 IF o \in GivenBy(options, words, n + 1) THEN ValueIn(options, words, o, n + 1)
                 ELSE Value(options, words, o, n)
  <2>1. CASE Gives(options, words, o, n + 1)
    <3>1. Givers(options, words, o, n + 1) # {}
      BY <1>1, <2>1
    <3> QED BY <1>2, <2>1, <3>1 DEF Value, GivenBy
  <2>2. CASE ~Gives(options, words, o, n + 1)
    <3>1. Givers(options, words, o, n + 1) = Givers(options, words, o, n)
      BY <1>1, <2>2
    <3>2. Value(options, words, o, n + 1) = Value(options, words, o, n)
      BY <3>1, Zenon DEF Value
    <3> QED BY <2>2, <3>2 DEF GivenBy
  <2> QED BY <2>1, <2>2
<1>4. Present(options, words, n + 1) = Present(options, words, n) \cup GivenBy(options, words, n + 1)
  BY <1>1 DEF Present, GivenBy
<1> QED BY <1>3, <1>4

LEMMA ShowsNext ==
    ASSUME NEW options, NEW words \in Seq(CommandWords), NEW n \in Nat, n + 1 \in DOMAIN words,
           NEW res, Shows(options, words, n, GivenBy(options, words, n + 1), res)
    PROVE  Shows(options, words, n + 1, {}, res)
<1> DEFINE all == Present(options, words, n) \cup GivenBy(options, words, n + 1)
<1>1. all = Present(options, words, n + 1)
  BY OneMoreWord
<1>2. \A o \in all : o \in Range(options)
  BY DEF Present, GivenBy
<1>3. /\ res = [m \in DOMAIN res |-> res[m]] /\ DOMAIN res = NamesOf(all)
      /\ \A o \in all :
            res[o.name] = IF o \in GivenBy(options, words, n + 1)
                          THEN ValueIn(options, words, o, n + 1) ELSE Value(options, words, o, n)
  BY DEF Shows
<1> HIDE DEF all
<1>4. \A o \in all : res[o.name] = Value(options, words, o, n + 1)
  BY <1>2, <1>3, OneMoreWord
<1> QED BY <1>1, <1>3, <1>4 DEF Shows

(* Words that give nothing.                                                *)
LEMMA ShowsSkip ==
    ASSUME NEW options, NEW words \in Seq(CommandWords), NEW n \in Nat, NEW m \in Nat, n <= m,
           \A i \in n + 1 .. m : GivenBy(options, words, i) = {},
           NEW res, Shows(options, words, n, {}, res)
    PROVE  Shows(options, words, m, {}, res)
<1>1. \A o \in Range(options) : Givers(options, words, o, m) = Givers(options, words, o, n)
  <2> SUFFICES ASSUME NEW o \in Range(options), NEW i \in DOMAIN words
               PROVE  i <= m /\ Gives(options, words, o, i) => i <= n
    BY DEF Givers
  <2>1. i \in Nat
    OBVIOUS
  <2>2. i \in n + 1 .. m => ~Gives(options, words, o, i)
    BY DEF GivenBy
  <2> QED BY <2>1, <2>2
<1>2. Present(options, words, m) = Present(options, words, n)
  BY <1>1 DEF Present
<1>3. \A o \in Present(options, words, n) : Value(options, words, o, m) = Value(options, words, o, n)
  BY <1>1 DEF Present, Value
<1> QED BY <1>2, <1>3 DEF Shows

(* One more option of the word is stored.                                  *)
LEMMA ShowsStored ==
    ASSUME NEW options, Distinct(options), NEW words, NEW n, NEW S \in SUBSET Range(options), NEW res,
           Shows(options, words, n, S, res), NEW o \in Range(options), NEW new,
           new = [m \in DOMAIN res \cup {o.name} |->
                    IF m = o.name THEN ValueIn(options, words, o, n + 1) ELSE res[m]]
    PROVE  Shows(options, words, n, S \cup {o}, new)
<1> DEFINE all == Present(options, words, n) \cup S
<1>1. \A p \in all : p \in Range(options)
  BY DEF Present
<1>2. /\ DOMAIN res = NamesOf(all)
      /\ \A p \in all :
            res[p.name] = IF p \in S THEN ValueIn(options, words, p, n + 1)
                          ELSE Value(options, words, p, n)
  BY DEF Shows
<1>3. Present(options, words, n) \cup (S \cup {o}) = all \cup {o}
  OBVIOUS
<1> HIDE DEF all
<1>4. DOMAIN new = NamesOf(all \cup {o}) /\ new = [m \in DOMAIN new |-> new[m]]
  BY <1>2 DEF NamesOf
<1>5. ASSUME NEW p \in all \cup {o}
      PROVE  new[p.name] = IF p \in S \cup {o} THEN ValueIn(options, words, p, n + 1)
                           ELSE Value(options, words, p, n)
  <2>1. CASE p = o
    BY <2>1
  <2>2. CASE p # o
    <3>1. p \in all /\ p.name # o.name
      BY <1>1, <2>2, OneOfAName
    <3>2. p.name \in DOMAIN res
      BY <1>2, <3>1 DEF NamesOf
    <3>3. new[p.name] = res[p.name]
      BY <3>1, <3>2
    <3> QED BY <1>2, <2>2, <3>1, <3>3
  <2> QED BY <2>1, <2>2
<1> QED BY <1>3, <1>4, <1>5 DEF Shows

-----------------------------------------------------------------------------
(* The place in the command line, and the results that go with it.         *)

(* The options of the first k letters of a cluster.                        *)
SoFar(options, w, k) ==
    {o \in Range(options) : \E j \in 1 .. k : o.shortOption = w.letters[j]}

(* Letters k + 1 and on of the cluster in word i are still to be read.     *)
InCluster(options, words, i, k, letters) ==
    /\ i \in DOMAIN words /\ words[i].kind = "cluster" /\ ~Used(options, words)[i]
    /\ k \in 0 .. Len(words[i].letters) - 1
    /\ letters = SubSeq(words[i].letters, k + 1, Len(words[i].letters))
    /\ words[i].letters[1] \in Shorts(options)
    /\ \A j \in 1 .. k : j \notin Stops(options, words[i].letters)

Reading(options, words, i, letters, res) ==
    /\ i \in 1 .. Len(words) + 1
    /\ \/ /\ letters = <<>>
          /\ i <= Len(words) => ~Used(options, words)[i]
          /\ Shows(options, words, i - 1, {}, res)
       \/ \E k \in Nat :
             /\ InCluster(options, words, i, k, letters)
             /\ Shows(options, words, i - 1, SoFar(options, words[i], k), res)

Told(o, arg) == IF o.hasArg = "none" \/ arg = NoArg \/ arg.empty THEN Empty ELSE arg.word

Stored(res, o, arg, new) ==
    new = [m \in DOMAIN res \cup {o.name} |-> IF m = o.name THEN Told(o, arg) ELSE res[m]]

(* What a command line that getopt reads to its end calls missing.         *)
NoText(o, arg) == o.hasArg = "required" /\ (arg = NoArg \/ arg.empty)

(* After a call that did not end the loop, with or without an option.      *)
After(options, words, r, res) ==
    /\ r.ch = "?" => Reading(options, words, r.optind, r.nextchar, res)
    /\ r.ch = "option" /\ ~NoText(r.option, r.optarg) =>
          \A new : Stored(res, r.option, r.optarg, new)
                      => Reading(options, words, r.optind, r.nextchar, new)

(* A word that does not take the next one is done, and so is one that did. *)
LEMMA WordDone ==
    ASSUME NEW options, NEW words \in Seq(CommandWords), NEW i \in DOMAIN words,
           ~TakesNext(options, words[i]) \/ i = Len(words),
           NEW res, Shows(options, words, i - 1, GivenBy(options, words, i), res)
    PROVE  Reading(options, words, i + 1, <<>>, res)
<1>1. i \in Nat \ {0} /\ i - 1 \in Nat /\ i - 1 + 1 = i /\ i + 1 - 1 = i
      /\ Len(words) \in Nat /\ i <= Len(words)
  OBVIOUS
<1>2. Shows(options, words, i, {}, res)
  <2> DEFINE n == i - 1
  <2>1. n \in Nat /\ n + 1 = i
    BY <1>1
  <2>2. Shows(options, words, n, GivenBy(options, words, n + 1), res) /\ n + 1 \in DOMAIN words
    BY <2>1
  <2> HIDE DEF n
  <2>3. Shows(options, words, n + 1, {}, res)
    BY <2>1, <2>2, ShowsNext
  <2> QED BY <2>1, <2>3
<1>3. i + 1 <= Len(words) => ~Used(options, words)[i + 1]
  <2>1. Used(options, words)[i + 1] => TakesNext(options, words[i])
    BY <1>1, UsedStep
  <2>2. i + 1 <= Len(words) => i # Len(words)
    BY <1>1
  <2> QED BY <2>1, <2>2
<1>4. i + 1 \in 1 .. Len(words) + 1
  BY <1>1
<1> QED BY <1>1, <1>2, <1>3, <1>4 DEF Reading

LEMMA WordTaken ==
    ASSUME NEW options, NEW words \in Seq(CommandWords), NEW i \in DOMAIN words, i < Len(words),
           ~Used(options, words)[i], TakesNext(options, words[i]),
           NEW res, Shows(options, words, i - 1, GivenBy(options, words, i), res)
    PROVE  Reading(options, words, i + 2, <<>>, res)
<1>1. i \in Nat \ {0} /\ i + 1 \in Nat \ {0} /\ i + 1 + 1 = i + 2 /\ i + 2 - 1 = i + 1
      /\ Len(words) \in Nat /\ i + 2 \in 1 .. Len(words) + 1
  OBVIOUS
<1>2. Shows(options, words, i, {}, res)
  <2> DEFINE n == i - 1
  <2>1. n \in Nat /\ n + 1 = i
    BY <1>1
  <2>2. Shows(options, words, n, GivenBy(options, words, n + 1), res) /\ n + 1 \in DOMAIN words
    BY <2>1
  <2> HIDE DEF n
  <2>3. Shows(options, words, n + 1, {}, res)
    BY <2>1, <2>2, ShowsNext
  <2> QED BY <2>1, <2>3
<1>3. Used(options, words)[i + 1]
  BY <1>1, UsedStep
<1>4. ~Used(options, words)[i + 2]
  BY <1>1, <1>3, UsedStep
<1>5. GivenBy(options, words, i + 1) = {}
  BY <1>3 DEF GivenBy, Gives
<1>6. Shows(options, words, i + 1, {}, res)
  <2>1. \A j \in i + 1 .. i + 1 : GivenBy(options, words, j) = {}
    BY <1>1, <1>5
  <2> QED BY <1>1, <1>2, <2>1, ShowsSkip
<1> QED BY <1>1, <1>4, <1>6 DEF Reading

(* A word that reads no option.                                            *)
LEMMA NothingRead ==
    ASSUME NEW options, NEW words \in Seq(CommandWords), NEW i \in DOMAIN words,
           ReadBy(options, words[i]) = {}, NEW res, Shows(options, words, i - 1, {}, res)
    PROVE  After(options, words, Unknown(i + 1, <<>>), res)
<1>1. GivenBy(options, words, i) = {} /\ ~TakesNext(options, words[i])
  BY DEF GivenBy, Gives, TakesNext
<1>2. Reading(options, words, i + 1, <<>>, res)
  BY <1>1, WordDone
<1> QED BY <1>2 DEF After, Unknown

LEMMA ArgumentIsRecord ==
    ASSUME NEW i \in Nat, NEW e
    PROVE  /\ e \in BOOLEAN => Argument(i, e) # NoArg
           /\ Argument(i, e).empty = e /\ Argument(i, e).word = i
BY NoArgAssumption DEF Argument

LEMMA EmptyWord ==
    ASSUME NEW words \in Seq(CommandWords), NEW i \in DOMAIN words
    PROVE  /\ WholeWord(words, i).empty <=> words[i] = Text("empty")
           /\ WholeWord(words, i).word = i /\ WholeWord(words, i) # NoArg
<1>1. words[i] \in CommandWords
  OBVIOUS
<1>2. words[i].kind = "text" /\ words[i].arg = "empty" <=> words[i] = Text("empty")
  BY <1>1 DEF CommandWords, Text, Dashes
<1> DEFINE e == words[i].kind = "text" /\ words[i].arg = "empty"
<1>3. e \in BOOLEAN /\ i \in Nat /\ WholeWord(words, i) = Argument(i, e)
  BY DEF WholeWord
<1> HIDE DEF e
<1>4. /\ WholeWord(words, i).empty <=> e
      /\ WholeWord(words, i).word = i /\ WholeWord(words, i) # NoArg
  BY <1>3, ArgumentIsRecord
<1> QED BY <1>2, <1>4 DEF e

(* Storing what the word gives the only option it still has to give.       *)
LEMMA StoreShows ==
    ASSUME NEW options, Distinct(options), NEW words, NEW i \in Nat, NEW S \in SUBSET Range(options),
           NEW res, Shows(options, words, i - 1, S, res), NEW o \in Range(options), NEW arg,
           Told(o, arg) = ValueIn(options, words, o, i),
           NEW new, Stored(res, o, arg, new)
    PROVE  Shows(options, words, i - 1, S \cup {o}, new)
<1> DEFINE n == i - 1
<1>1. n + 1 = i
  OBVIOUS
<1>2. new = [m \in DOMAIN res \cup {o.name} |->
               IF m = o.name THEN ValueIn(options, words, o, n + 1) ELSE res[m]]
  BY <1>1 DEF Stored
<1> HIDE DEF n
<1>3. Shows(options, words, n, S, res)
  BY DEF n
<1>4. Shows(options, words, n, S \cup {o}, new)
  BY <1>2, <1>3, ShowsStored
<1> QED BY <1>4 DEF n

(* A word that names its option: a long form, or an abbreviation.          *)
LEMMA NamedRead ==
    ASSUME NEW options, Distinct(options), NEW words \in Seq(CommandWords), NEW i \in DOMAIN words,
           ~Used(options, words)[i],
           NEW o \in Range(options), ReadBy(options, words[i]) = {o}, o \in NamedBy(options, words[i]),
           NEW arg, arg = IF words[i].kind = "long" THEN words[i].arg ELSE NoArg,
           NEW res, Shows(options, words, i - 1, {}, res)
    PROVE  After(options, words, TakeLong(o, arg, words, i), res)
<1> DEFINE r == TakeLong(o, arg, words, i)
           w == words[i]
           Given(a) == Told(o, a) = ValueIn(options, words, o, i)
<1>1. i \in Nat \ {0} /\ Len(words) \in Nat /\ i <= Len(words) /\ w \in CommandWords
  OBVIOUS
<1>2. w.kind \in {"long", "cluster", "text", "dashes"}
  BY <1>1, WordKinds
<1>3. /\ Needs(options, o, w) <=> o.hasArg = "required" /\ (w.kind = "long" => w.arg = NoArg)
      /\ TakesNext(options, w) <=> Needs(options, o, w)
  BY DEF Needs, TakesNext
<1>4. GivenBy(options, words, i) = IF Gives(options, words, o, i) THEN {o} ELSE {}
  BY DEF GivenBy, Gives
<1>5. Gives(options, words, o, i) <=>
         /\ Needs(options, o, w) => i < Len(words)
         /\ w.kind = "long" /\ w.arg # NoArg => TakesArgument(o)
  BY DEF Gives
<1>6. ASSUME NEW a, Given(a), NEW new, Stored(res, o, a, new)
      PROVE  Shows(options, words, i - 1, {o}, new)
  <2>1. Shows(options, words, i - 1, {} \cup {o}, new)
    <3> DEFINE S == {}
    <3>1. S \in SUBSET Range(options) /\ Shows(options, words, i - 1, S, res) /\ i \in Nat
      BY <1>1
    <3>2. Told(o, a) = ValueIn(options, words, o, i) /\ Stored(res, o, a, new)
      BY <1>6
    <3> HIDE DEF S
    <3>3. Shows(options, words, i - 1, S \cup {o}, new)
      BY <3>1, <3>2, StoreShows
    <3> QED BY <3>3 DEF S
  <2> QED BY <2>1
<1> SUFFICES After(options, words, r, res)
  OBVIOUS
<1> HIDE DEF r, Given
<1>7. CASE arg # NoArg
  <2>1. w.kind = "long" /\ arg = w.arg /\ ~Needs(options, o, w) /\ ~TakesNext(options, w)
    BY <1>3, <1>7
  <2>2. CASE TakesArgument(o)
    <3> DEFINE a == Argument(i, arg = "empty")
    <3>1. r = Got(o, a, i + 1, <<>>)
      BY <1>7, <2>2 DEF TakeLong, r
    <3>2. GivenBy(options, words, i) = {o}
      BY <1>4, <1>5, <2>1, <2>2
    <3>3. Given(a)
      <4>1. a # NoArg /\ (a.empty <=> arg = "empty") /\ a.word = i
        <5> DEFINE e == arg = "empty"
        <5>1. e \in BOOLEAN /\ a = Argument(i, e)
          OBVIOUS
        <5> HIDE DEF a, e
        <5>2. a # NoArg /\ (a.empty <=> e) /\ a.word = i
          BY <1>1, <5>1, ArgumentIsRecord
        <5> QED BY <5>2 DEF e
      <4>2. ValueIn(options, words, o, i) = IF arg = "empty" THEN Empty ELSE i
        BY <1>7, <2>1, <2>2 DEF ValueIn
      <4> HIDE DEF a
      <4>3. Told(o, a) = IF arg = "empty" THEN Empty ELSE i
        BY <2>2, <4>1 DEF Told, TakesArgument
      <4> QED BY <4>2, <4>3 DEF Given
    <3> HIDE DEF a
    <3>4. ASSUME NEW new, Stored(res, o, a, new) PROVE Reading(options, words, i + 1, <<>>, new)
      <4>1. Shows(options, words, i - 1, GivenBy(options, words, i), new)
        BY <1>6, <3>2, <3>3, <3>4
      <4> QED BY <2>1, <4>1, WordDone
    <3> QED BY <3>1, <3>4 DEF After, Got
  <2>3. CASE ~TakesArgument(o)
    <3>1. r = Unknown(i + 1, <<>>)
      BY <1>7, <2>3 DEF TakeLong, r
    <3>2. GivenBy(options, words, i) = {}
      BY <1>4, <1>5, <1>7, <2>1, <2>3
    <3>3. Reading(options, words, i + 1, <<>>, res)
      BY <2>1, <3>2, WordDone
    <3> QED BY <3>1, <3>3 DEF After, Unknown
  <2> QED BY <2>2, <2>3
<1>8. CASE arg = NoArg /\ o.hasArg # "required"
  <2>1. r = Got(o, NoArg, i + 1, <<>>)
    BY <1>8 DEF TakeLong, r
  <2>2. ~Needs(options, o, w) /\ ~TakesNext(options, w) /\ GivenBy(options, words, i) = {o}
    BY <1>3, <1>4, <1>5, <1>8
  <2>3. Given(NoArg)
    <3>1. ValueIn(options, words, o, i) = Empty
      BY <1>8, <2>2 DEF ValueIn
    <3> QED BY <3>1 DEF Given, Told
  <2>4. ASSUME NEW new, Stored(res, o, NoArg, new) PROVE Reading(options, words, i + 1, <<>>, new)
    <3>1. Shows(options, words, i - 1, GivenBy(options, words, i), new)
      BY <1>6, <2>2, <2>3, <2>4
    <3> QED BY <2>2, <3>1, WordDone
  <2> QED BY <2>1, <2>4 DEF After, Got
<1>9. CASE arg = NoArg /\ o.hasArg = "required" /\ i = Len(words)
  <2>1. r = Unknown(i + 1, <<>>)
    BY <1>9 DEF TakeLong, r
  <2>2. GivenBy(options, words, i) = {}
    BY <1>1, <1>3, <1>4, <1>5, <1>9
  <2>3. Reading(options, words, i + 1, <<>>, res)
    BY <1>9, <2>2, WordDone
  <2> QED BY <2>1, <2>3 DEF After, Unknown
<1>10. CASE arg = NoArg /\ o.hasArg = "required" /\ i # Len(words)
  <2> DEFINE a == WholeWord(words, i + 1)
  <2>1. r = Got(o, a, i + 2, <<>>)
    BY <1>10 DEF TakeLong, r
  <2>2. i < Len(words) /\ i + 1 \in DOMAIN words
    BY <1>1, <1>10
  <2>3. Needs(options, o, w) /\ TakesNext(options, w) /\ GivenBy(options, words, i) = {o}
    BY <1>3, <1>4, <1>5, <1>10, <2>2
  <2>4. Given(a)
    <3>1. ValueIn(options, words, o, i) = IF words[i + 1] = Text("empty") THEN Empty ELSE i + 1
      BY <2>3 DEF ValueIn
    <3>2. (a.empty <=> words[i + 1] = Text("empty")) /\ a.word = i + 1 /\ a # NoArg
      BY <2>2, EmptyWord
    <3> HIDE DEF a
    <3> QED BY <1>10, <3>1, <3>2 DEF Given, Told
  <2> HIDE DEF a
  <2>5. ASSUME NEW new, Stored(res, o, a, new) PROVE Reading(options, words, i + 2, <<>>, new)
    <3>1. Shows(options, words, i - 1, GivenBy(options, words, i), new)
      BY <1>6, <2>3, <2>4, <2>5
    <3> QED BY <2>2, <2>3, <3>1, WordTaken
  <2> QED BY <2>1, <2>5 DEF After, Got
<1> QED BY <1>7, <1>8, <1>9, <1>10

-----------------------------------------------------------------------------
(* Clusters, letter by letter.                                             *)

LEMMA HeadAndTail ==
    ASSUME NEW S, NEW L \in Seq(S), NEW k \in Nat, k < Len(L)
    PROVE  LET letters == SubSeq(L, k + 1, Len(L))
           IN  /\ letters # <<>> /\ Head(letters) = L[k + 1]
               /\ Tail(letters) = SubSeq(L, k + 1 + 1, Len(L))
               /\ Tail(letters) = <<>> <=> k + 1 = Len(L)
<1> DEFINE n == Len(L)
           letters == SubSeq(L, k + 1, n)
           rest == SubSeq(L, k + 1 + 1, n)
<1>1. n \in Nat /\ k < n
  OBVIOUS
<1>2. /\ letters \in Seq(S) /\ Len(letters) = n - k
      /\ \A j \in 1 .. n - k : letters[j] = L[k + j]
  <2> DEFINE from == k + 1
  <2>1. /\ from \in Int /\ n \in Int /\ from <= n /\ n - from + 1 = n - k
        /\ \A j \in from .. n : j \in 1 .. Len(L)
        /\ \A j \in 1 .. n - k : from + j - 1 = k + j
    BY <1>1
  <2> HIDE DEF from, n
  <2>2. \A j \in from .. n : L[j] \in S
    BY <2>1, ElementOfSeq
  <2>3. /\ SubSeq(L, from, n) \in Seq(S) /\ Len(SubSeq(L, from, n)) = n - k
        /\ \A j \in 1 .. n - k : SubSeq(L, from, n)[j] = L[k + j]
    BY <2>1, <2>2, SubSeqProperties
  <2> QED BY <2>3 DEF from
<1>3. /\ rest \in Seq(S) /\ Len(rest) = n - (k + 1)
      /\ \A j \in 1 .. n - (k + 1) : rest[j] = L[k + 1 + j]
  <2> DEFINE from == k + 1 + 1
  <2>1. /\ from \in Int /\ n \in Int /\ n - from + 1 = n - (k + 1)
        /\ (from <= n <=> n - (k + 1) # 0)
        /\ \A j \in from .. n : j \in 1 .. Len(L)
        /\ \A j \in 1 .. n - (k + 1) : from + j - 1 = k + 1 + j
    BY <1>1
  <2> HIDE DEF from, n
  <2>2. \A j \in from .. n : L[j] \in S
    BY <2>1, ElementOfSeq
  <2>3. /\ SubSeq(L, from, n) \in Seq(S)
        /\ Len(SubSeq(L, from, n)) = IF from <= n THEN n - from + 1 ELSE 0
        /\ \A j \in 1 .. n - from + 1 : SubSeq(L, from, n)[j] = L[from + j - 1]
    BY <2>1, <2>2, SubSeqProperties
  <2>4. Len(SubSeq(L, from, n)) = n - (k + 1)
    BY <2>1, <2>3
  <2> QED BY <2>1, <2>3, <2>4 DEF from
<1> HIDE DEF letters, rest, n
<1>4. letters # <<>> /\ Head(letters) = L[k + 1]
  BY <1>1, <1>2
<1>5. /\ Tail(letters) \in Seq(S) /\ Len(Tail(letters)) = n - (k + 1)
      /\ \A j \in 1 .. n - (k + 1) : Tail(letters)[j] = letters[j + 1]
  BY <1>1, <1>2, <1>4
<1>6. \A j \in 1 .. n - (k + 1) : letters[j + 1] = L[k + (j + 1)] /\ k + (j + 1) = k + 1 + j
  BY <1>1, <1>2
<1>7. Tail(letters) = rest
  <2> DEFINE tail == Tail(letters)
             m == n - (k + 1)
  <2>0. /\ \A j \in 1 .. m : tail[j] = letters[j + 1]
        /\ \A j \in 1 .. m : letters[j + 1] = L[k + (j + 1)]
        /\ \A j \in 1 .. m : k + (j + 1) = k + 1 + j
        /\ \A j \in 1 .. m : rest[j] = L[k + 1 + j]
        /\ Len(rest) = m
    BY <1>3, <1>5, <1>6
  <2> HIDE DEF tail, m
  <2>1. \A j \in 1 .. Len(rest) : tail[j] = rest[j]
    BY <2>0
  <2> QED BY <1>3, <1>5, <2>1, SeqEqual DEF tail
<1>8. rest = <<>> <=> k + 1 = n
  BY <1>1, <1>3
<1> QED BY <1>4, <1>7, <1>8 DEF letters, rest, n

LEMMA OneOfALetter ==
    ASSUME NEW options, Distinct(options), NEW c \in Shorts(options)
    PROVE  /\ WithShort(options, c) \in Range(options) /\ WithShort(options, c).shortOption = c
           /\ \A o \in Range(options) : o.shortOption = c => o = WithShort(options, c)
<1>1. c # NoShort /\ \E o \in Range(options) : o.shortOption = c
  BY DEF Shorts
<1>2. WithShort(options, c) \in Range(options) /\ WithShort(options, c).shortOption = c
  BY <1>1 DEF WithShort
<1> QED BY <1>1, <1>2, OneOfAName

(* One more letter of the cluster.                                         *)
LEMMA SoFarStep ==
    ASSUME NEW options, Distinct(options), NEW w, NEW k \in Nat, w.letters[k + 1] # NoShort
    PROVE  SoFar(options, w, k + 1) =
               IF w.letters[k + 1] \in Shorts(options)
               THEN SoFar(options, w, k) \cup {WithShort(options, w.letters[k + 1])}
               ELSE SoFar(options, w, k)
<1> DEFINE c == w.letters[k + 1]
<1>1. SoFar(options, w, k + 1) = SoFar(options, w, k) \cup {o \in Range(options) : o.shortOption = c}
  BY DEF SoFar
<1>2. CASE c \in Shorts(options)
  <2>1. {o \in Range(options) : o.shortOption = c} = {WithShort(options, c)}
    BY <1>2, OneOfALetter
  <2> QED BY <1>1, <1>2, <2>1
<1>3. CASE c \notin Shorts(options)
  <2>1. {o \in Range(options) : o.shortOption = c} = {}
    BY <1>3 DEF Shorts
  <2> QED BY <1>1, <1>3, <2>1
<1> QED BY <1>2, <1>3

(* Options before the first that takes an argument take none.              *)
LEMMA SoFarTakesNone ==
    ASSUME NEW options, Distinct(options), NEW w, w.letters \in Seq(Letters), NEW k \in Nat,
           k <= Len(w.letters), \A j \in 1 .. k : j \notin Stops(options, w.letters)
    PROVE  \A o \in SoFar(options, w, k) : ~TakesArgument(o)
<1> SUFFICES ASSUME NEW o \in Range(options), NEW j \in 1 .. k, o.shortOption = w.letters[j]
             PROVE  ~TakesArgument(o)
  BY DEF SoFar
<1> DEFINE c == w.letters[j]
<1>1. j \in DOMAIN w.letters /\ c \in Letters
  OBVIOUS
<1>2. c \in Shorts(options)
  BY <1>1, LetterAssumption DEF Shorts
<1>3. o = WithShort(options, c)
  BY <1>2, OneOfALetter
<1> QED BY <1>1, <1>2, <1>3 DEF Stops

(* What a cluster that starts with a known letter reads.                   *)
LEMMA ClusterReads ==
    ASSUME NEW options, NEW w, w.kind = "cluster", w.letters \in Seq(Letters),
           w.letters[1] \in Shorts(options), NEW k \in 1 .. Len(w.letters),
           \A j \in 1 .. k - 1 : j \notin Stops(options, w.letters),
           k \in Stops(options, w.letters) \/ k = Len(w.letters)
    PROVE  /\ NamedBy(options, w) = {} /\ ReadBy(options, w) = SoFar(options, w, k)
           /\ LettersRead(options, w.letters) = w.letters <=> k = Len(w.letters)
<1> DEFINE L == w.letters
           n == Len(L)
           read == LettersRead(options, L)
<1>1. n \in Nat /\ k \in Nat \ {0} /\ k <= n /\ DOMAIN L = 1 .. n
  OBVIOUS
<1>2. NamedBy(options, w) = {}
  BY DEF NamedBy
<1>3. DOMAIN read = 1 .. k /\ (read = L <=> k = n) /\ \A j \in 1 .. k : read[j] = L[j]
  <2>1. CASE k \in Stops(options, L)
    <3> DEFINE T == Stops(options, L)
    <3>1. T \in SUBSET Nat /\ T # {} /\ \A j \in T : k <= j
      <4>1. \A j \in T : j \in 1 .. n
        BY <1>1 DEF Stops
      <4>2. ASSUME NEW j \in T, j < k PROVE FALSE
        <5>1. j \in 1 .. k - 1
          BY <1>1, <4>1, <4>2
        <5> QED BY <4>2, <5>1
      <4> HIDE DEF T
      <4>3. \A j \in T : k <= j
        BY <1>1, <4>1, <4>2
      <4>4. T \in SUBSET Nat
        BY <1>1, <4>1
      <4>5. k \in T
        BY <2>1 DEF T
      <4> QED BY <4>3, <4>4, <4>5
    <3> HIDE DEF T
    <3>2. Min(T) \in T /\ \A y \in T : Min(T) <= y
      BY <3>1, LeastOf
    <3>3. Min(T) = k
      <4> DEFINE m == Min(T)
      <4>1. m \in Nat /\ k <= m /\ m <= k
        BY <2>1, <3>1, <3>2 DEF T
      <4> HIDE DEF m
      <4>2. m = k
        BY <1>1, <4>1
      <4> QED BY <4>2 DEF m
    <3>4. read = SubSeq(L, 1, k)
      BY <3>1, <3>3 DEF LettersRead, T
    <3>5. /\ SubSeq(L, 1, k) \in Seq(Letters) /\ Len(SubSeq(L, 1, k)) = k
          /\ DOMAIN SubSeq(L, 1, k) = 1 .. k
          /\ \A j \in 1 .. k : SubSeq(L, 1, k)[j] = L[j]
      <4> HIDE DEF L, n
      <4>1. L \in Seq(Letters) /\ Len(L) = n
        BY DEF L, n
      <4> QED BY <1>1, <4>1
    <3>6. k = n => SubSeq(L, 1, k) = L
      <4> HIDE DEF L, n
      <4>1. L \in Seq(Letters) /\ Len(L) = n
        BY DEF L, n
      <4> QED BY <1>1, <3>5, <4>1, SeqEqual
    <3> HIDE DEF read
    <3> QED BY <3>4, <3>5, <3>6
  <2>2. CASE k \notin Stops(options, L)
    <3>1. Stops(options, L) = {}
      <4>1. k = n
        BY <2>2
      <4>2. \A j \in 1 .. n : j \notin Stops(options, L)
        BY <1>1, <2>2, <4>1
      <4> QED BY <1>1, <4>2 DEF Stops
    <3>2. read = L /\ k = n
      BY <2>2, <3>1 DEF LettersRead
    <3> QED BY <1>1, <3>2
  <2> QED BY <2>1, <2>2
<1>4. Range(read) = {L[j] : j \in 1 .. k}
  <2> HIDE DEF read
  <2> QED BY <1>3 DEF Range
<1>5. ReadBy(options, w) = {o \in Range(options) : o.shortOption \in Range(read)}
  BY <1>2 DEF ReadBy
<1> HIDE DEF read
<1>6. ReadBy(options, w) = SoFar(options, w, k)
  BY <1>4, <1>5 DEF SoFar
<1> QED BY <1>2, <1>3, <1>6 DEF read

(* Its last letter alone may need the following word.                      *)
LEMMA ClusterGives ==
    ASSUME NEW options, Distinct(options), NEW words \in Seq(CommandWords), NEW i \in DOMAIN words,
           NEW w, w = words[i], ~Used(options, words)[i], w.kind = "cluster", w.letters \in Seq(Letters),
           w.letters[1] \in Shorts(options), NEW k \in 1 .. Len(w.letters),
           \A j \in 1 .. k - 1 : j \notin Stops(options, w.letters),
           k \in Stops(options, w.letters) \/ k = Len(w.letters),
           NEW last, last = (k = Len(w.letters) /\ k \in Stops(options, w.letters))
    PROVE  /\ \A o \in SoFar(options, w, k) :
                 IF last /\ o = WithShort(options, w.letters[k])
                 THEN Needs(options, o, w) ELSE ~Needs(options, o, w)
           /\ TakesNext(options, w) <=> last
           /\ GivenBy(options, words, i) =
                 IF last /\ i = Len(words) THEN SoFar(options, w, k - 1) ELSE SoFar(options, w, k)
<1> DEFINE L == w.letters
           n == Len(L)
           S == SoFar(options, w, k)
           o0 == WithShort(options, L[k])
<1>1. /\ n \in Nat /\ k \in Nat \ {0} /\ k <= n /\ DOMAIN L = 1 .. n /\ k - 1 \in Nat /\ k - 1 + 1 = k
      /\ L[k] \in Letters /\ L[k] # NoShort /\ k - 1 <= n
  <2>1. L \in Seq(Letters) /\ k \in 1 .. Len(L)
    OBVIOUS
  <2> HIDE DEF L
  <2>2. L[k] \in Letters /\ n \in Nat /\ DOMAIN L = 1 .. n
    BY <2>1
  <2>3. k \in Nat \ {0} /\ k <= n /\ k - 1 \in Nat /\ k - 1 + 1 = k /\ k - 1 <= n
    BY <2>1, <2>2
  <2> QED BY <2>2, <2>3, LetterAssumption
<1>2. /\ NamedBy(options, w) = {} /\ ReadBy(options, w) = S
      /\ LettersRead(options, L) = L <=> k = n
  BY ClusterReads
<1>3. \A o : Needs(options, o, w) <=> TakesArgument(o) /\ k = n /\ o.shortOption = L[n]
  BY <1>2 DEF Needs, Last
<1>4. \A o \in SoFar(options, w, k - 1) : ~TakesArgument(o)
  BY <1>1, SoFarTakesNone
<1>5. S = IF L[k] \in Shorts(options) THEN SoFar(options, w, k - 1) \cup {o0}
          ELSE SoFar(options, w, k - 1)
  <2> DEFINE h == k - 1
  <2>1. h \in Nat /\ h + 1 = k
    BY <1>1
  <2> HIDE DEF h
  <2>2. w.letters[h + 1] # NoShort
    BY <1>1, <2>1
  <2>3. SoFar(options, w, h + 1) =
           IF w.letters[h + 1] \in Shorts(options)
           THEN SoFar(options, w, h) \cup {WithShort(options, w.letters[h + 1])}
           ELSE SoFar(options, w, h)
    BY <2>1, <2>2, SoFarStep
  <2> QED BY <2>1, <2>3 DEF h
<1>6. L[k] \in Shorts(options) => o0 \in Range(options) /\ o0.shortOption = L[k]
  BY OneOfALetter
<1>7. k \in Stops(options, L) <=> L[k] \in Shorts(options) /\ TakesArgument(o0)
  BY <1>1 DEF Stops
<1>8. \A o \in S : o \in SoFar(options, w, k - 1) \/ (L[k] \in Shorts(options) /\ o = o0)
  BY <1>5
<1> HIDE DEF L, n, S, o0
<1>9. \A o \in S : Needs(options, o, w) <=> last /\ o = o0
  BY <1>3, <1>4, <1>6, <1>7, <1>8 DEF L, n
<1>10. TakesNext(options, w) <=> last
  <2>1. last => o0 \in S
    BY <1>5, <1>7 DEF L, n
  <2> QED BY <1>2, <1>9, <2>1 DEF TakesNext
<1>11. \A o : o \in GivenBy(options, words, i) <=> o \in S /\ (last /\ o = o0 => i < Len(words))
  <2>1. \A o \in S : o \in Range(options)
    BY DEF S, SoFar
  <2>2. \A o : Gives(options, words, o, i) <=> o \in S /\ (Needs(options, o, w) => i < Len(words))
    BY <1>2 DEF Gives
  <2> QED BY <1>9, <2>1, <2>2 DEF GivenBy
<1>12. GivenBy(options, words, i) =
          IF last /\ i = Len(words) THEN SoFar(options, w, k - 1) ELSE S
  <2>1. i < Len(words) <=> i # Len(words)
    OBVIOUS
  <2>2. last => o0 \notin SoFar(options, w, k - 1)
    BY <1>4, <1>7 DEF L, n
  <2>3. last => S = SoFar(options, w, k - 1) \cup {o0}
    BY <1>5, <1>7 DEF L, n
  <2> QED BY <1>11, <2>1, <2>2, <2>3
<1> QED BY <1>9, <1>10, <1>12 DEF S, o0, L

Free(options, letters, k) == \A j \in 1 .. k : j \notin Stops(options, letters)

(* A cluster of which the first k letters have been read.                  *)
LEMMA ClusterAt ==
    ASSUME NEW options, NEW words \in Seq(CommandWords), NEW i, NEW k \in Nat, NEW letters,
           InCluster(options, words, i, k, letters)
    PROVE  /\ i \in Nat \ {0} /\ i - 1 \in Nat /\ i <= Len(words) /\ i \in DOMAIN words
           /\ words[i].kind = "cluster" /\ ~Used(options, words)[i]
           /\ words[i].letters \in Seq(Letters) /\ words[i].letters[1] \in Shorts(options)
           /\ k \in Nat /\ k < Len(words[i].letters)
           /\ Free(options, words[i].letters, k)
<1>1. /\ i \in DOMAIN words /\ words[i].kind = "cluster" /\ ~Used(options, words)[i]
      /\ k \in 0 .. Len(words[i].letters) - 1
      /\ words[i].letters[1] \in Shorts(options) /\ Free(options, words[i].letters, k)
  BY DEF InCluster, Free
<1>2. i \in Nat \ {0} /\ i - 1 \in Nat /\ i <= Len(words) /\ words[i] \in CommandWords
  BY <1>1
<1>3. words[i].letters \in Seq(Letters)
  BY <1>1, <1>2, WordKinds
<1>4. k \in Nat /\ k < Len(words[i].letters)
  BY <1>1, <1>3
<1> QED BY <1>1, <1>2, <1>3, <1>4

Ended(letters) == Tail(letters) = <<>>

LEMMA ClusterRest ==
    ASSUME NEW options, NEW words \in Seq(CommandWords), NEW i, NEW k \in Nat, NEW letters,
           InCluster(options, words, i, k, letters)
    PROVE  /\ letters # <<>> /\ Head(letters) = words[i].letters[k + 1] /\ Head(letters) # NoShort
           /\ IF k + 1 = Len(words[i].letters) THEN Ended(letters) ELSE ~Ended(letters)
           /\ k + 1 < Len(words[i].letters) /\ k + 1 \notin Stops(options, words[i].letters) =>
                 InCluster(options, words, i, k + 1, Tail(letters))
<1> DEFINE L == words[i].letters
           n == Len(L)
<1>1. letters = SubSeq(L, k + 1, n)
  BY DEF InCluster
<1>2. /\ i \in DOMAIN words /\ words[i].kind = "cluster" /\ ~Used(options, words)[i]
      /\ L \in Seq(Letters) /\ L[1] \in Shorts(options)
      /\ k \in Nat /\ k < n /\ Free(options, L, k)
  BY ClusterAt
<1> HIDE DEF L
<1>3. n \in Nat /\ L[k + 1] \in Letters
  BY <1>2
<1>4. letters # <<>> /\ Head(letters) = L[k + 1]
  BY <1>1, <1>2, HeadAndTail
<1>5. Tail(letters) = SubSeq(L, k + 1 + 1, n)
  BY <1>1, <1>2, HeadAndTail
<1>6. Tail(letters) = <<>> <=> k + 1 = n
  BY <1>1, <1>2, HeadAndTail
<1>7. ASSUME k + 1 < n, k + 1 \notin Stops(options, L)
      PROVE  InCluster(options, words, i, k + 1, Tail(letters))
  <2>1. k + 1 \in 0 .. n - 1
    BY <1>2, <1>3, <1>7
  <2>2. \A j \in 1 .. k + 1 : j \notin Stops(options, L)
    <3>1. \A j \in 1 .. k + 1 : j \in 1 .. k \/ j = k + 1
      BY <1>2
    <3> QED BY <1>2, <1>7, <3>1 DEF Free
  <2> QED BY <1>2, <1>5, <2>1, <2>2 DEF InCluster, L
<1>8. L[k + 1] # NoShort
  BY <1>3, LetterAssumption
<1> QED BY <1>4, <1>6, <1>7, <1>8 DEF L, Ended

(* A letter that takes no argument leaves the rest of its word.            *)
LEMMA LetterDone ==
    ASSUME NEW options, Distinct(options), NEW words \in Seq(CommandWords), NEW i, NEW k \in Nat, NEW letters,
           InCluster(options, words, i, k, letters), k + 1 \notin Stops(options, words[i].letters),
           NEW new, Shows(options, words, i - 1, SoFar(options, words[i], k + 1), new)
    PROVE  Reading(options, words, IF Tail(letters) = <<>> THEN i + 1 ELSE i, Tail(letters), new)
<1> DEFINE w == words[i]
           n == Len(w.letters)
           rest == Tail(letters)
           h == k + 1
<1>1. /\ i \in Nat \ {0} /\ i <= Len(words) /\ i \in DOMAIN words
      /\ w.kind = "cluster" /\ ~Used(options, words)[i]
      /\ w.letters \in Seq(Letters) /\ w.letters[1] \in Shorts(options)
      /\ k \in Nat /\ k < n /\ Free(options, w.letters, k)
  BY ClusterAt
<1>2. rest = <<>> <=> h = n
  <2>1. IF h = n THEN Ended(letters) ELSE ~Ended(letters)
    BY <1>1, ClusterRest
  <2> QED BY <2>1 DEF Ended
<1>3. h \notin Stops(options, w.letters) /\ Shows(options, words, i - 1, SoFar(options, w, h), new)
  OBVIOUS
<1>4. h < n => InCluster(options, words, i, h, rest)
  BY ClusterRest
<1>5. h \in 1 .. n /\ h - 1 = k /\ n \in Nat /\ \A j \in 1 .. h - 1 : j \notin Stops(options, w.letters)
  BY <1>1 DEF Free
<1> SUFFICES Reading(options, words, IF rest = <<>> THEN i + 1 ELSE i, rest, new)
  OBVIOUS
<1> HIDE DEF rest, h
<1>6. CASE h = n
  <2> DEFINE last == h = n /\ h \in Stops(options, w.letters)
  <2>1. w = words[i] /\ h = Len(w.letters)
    BY <1>6
  <2>2. last = (h = Len(w.letters) /\ h \in Stops(options, w.letters))
    OBVIOUS
  <2> HIDE DEF last, w, n
  <2>3. /\ TakesNext(options, w) <=> last
        /\ GivenBy(options, words, i) =
              IF last /\ i = Len(words) THEN SoFar(options, w, h - 1) ELSE SoFar(options, w, h)
    BY <1>1, <1>5, <2>1, <2>2, ClusterGives DEF n
  <2>4. ~TakesNext(options, words[i]) /\ Shows(options, words, i - 1, GivenBy(options, words, i), new)
    BY <1>3, <2>1, <2>3 DEF last
  <2>5. Reading(options, words, i + 1, <<>>, new)
    BY <1>1, <2>4, WordDone
  <2> QED BY <1>2, <1>6, <2>5
<1>7. CASE h # n
  <2>1. h \in Nat /\ h < n /\ i \in 1 .. Len(words) + 1
    BY <1>1, <1>5, <1>7
  <2> QED BY <1>2, <1>3, <1>4, <1>7, <2>1 DEF Reading
<1> QED BY <1>6, <1>7

(* A call that takes the next letter of a cluster.                         *)
LEMMA LetterRead ==
    ASSUME NEW options, Distinct(options), NEW words \in Seq(CommandWords), NEW i, NEW k \in Nat, NEW letters,
           InCluster(options, words, i, k, letters),
           NEW res, Shows(options, words, i - 1, SoFar(options, words[i], k), res)
    PROVE  After(options, words, TakeLetter(options, letters, words, i), res)
<1> DEFINE w == words[i]
           n == Len(w.letters)
           h == k + 1
           c == w.letters[h]
           o == WithShort(options, c)
           rest == Tail(letters)
           after == IF rest = <<>> THEN i + 1 ELSE i
           r == TakeLetter(options, letters, words, i)
           S == SoFar(options, w, k)
           stop == h \in Stops(options, w.letters)
           last == h = n /\ h \in Stops(options, w.letters)
           Given(a) == Told(o, a) = ValueIn(options, words, o, i)
<1>1. /\ i \in Nat \ {0} /\ i - 1 \in Nat /\ i <= Len(words) /\ i \in DOMAIN words
      /\ w.kind = "cluster" /\ ~Used(options, words)[i]
      /\ w.letters \in Seq(Letters) /\ w.letters[1] \in Shorts(options)
      /\ k \in Nat /\ k < n /\ Free(options, w.letters, k)
  BY ClusterAt
<1>2. h \in 1 .. n /\ h - 1 = k /\ n \in Nat /\ h \in DOMAIN w.letters
      /\ \A j \in 1 .. h - 1 : j \notin Stops(options, w.letters)
  <2>1. n \in Nat /\ DOMAIN w.letters = 1 .. n
    <3> DEFINE L == w.letters
    <3>1. L \in Seq(Letters)
      BY <1>1
    <3> HIDE DEF L
    <3>2. Len(L) \in Nat /\ DOMAIN L = 1 .. Len(L)
      BY <3>1
    <3> QED BY <3>2 DEF L
  <2> QED BY <1>1, <2>1 DEF Free
<1>3. /\ Head(letters) = c /\ c # NoShort
      /\ IF h = n THEN Ended(letters) ELSE ~Ended(letters)
  <2>1. IF h = n THEN Ended(letters) ELSE ~Ended(letters)
    BY ClusterRest
  <2>2. Head(letters) = c /\ c # NoShort
    <3> DEFINE L == w.letters
    <3>1. L \in Seq(Letters) /\ k < Len(L) /\ letters = SubSeq(L, k + 1, Len(L))
      BY <1>1 DEF InCluster
    <3> HIDE DEF L
    <3>2. L[k + 1] \in Letters
      BY <3>1
    <3>3. Head(letters) = L[k + 1]
      BY <3>1, HeadAndTail
    <3> QED BY <3>2, <3>3, LetterAssumption DEF L
  <2> QED BY <2>1, <2>2
<1>4. r = IF c \notin Shorts(options) THEN Unknown(after, rest)
          ELSE IF ~TakesArgument(o) THEN Got(o, NoArg, after, rest)
          ELSE IF rest # <<>> THEN Got(o, Argument(i, FALSE), i + 1, <<>>)
          ELSE IF after = Len(words) + 1 THEN Unknown(after, <<>>)
          ELSE IF after > Len(words) THEN Outside
          ELSE Got(o, WholeWord(words, after), after + 1, <<>>)
  BY <1>3 DEF TakeLetter
<1>5. IF h = n THEN rest = <<>> /\ after = i + 1 ELSE rest # <<>> /\ after = i
  BY <1>3 DEF Ended
<1>6. stop <=> c \in Shorts(options) /\ TakesArgument(o)
  BY <1>2 DEF Stops
<1>7. c \in Shorts(options) => o \in Range(options)
  BY OneOfALetter
<1>8. NamedBy(options, w) = {}
  BY <1>1 DEF NamedBy
<1>9. SoFar(options, w, h) = IF c \in Shorts(options) THEN S \cup {o} ELSE S
  <2> HIDE DEF w, o
  <2> QED BY <1>1, <1>3, SoFarStep DEF o
<1>10. S \in SUBSET Range(options)
  BY DEF SoFar
<1>11. ~stop => \A new : Shows(options, words, i - 1, SoFar(options, w, h), new)
                           => Reading(options, words, after, rest, new)
  BY LetterDone
<1>12. ASSUME c \in Shorts(options), NEW a, Given(a), NEW new, Stored(res, o, a, new)
       PROVE  Shows(options, words, i - 1, SoFar(options, w, h), new)
  <2>1. /\ S \in SUBSET Range(options) /\ Shows(options, words, i - 1, S, res) /\ i \in Nat
        /\ o \in Range(options) /\ Stored(res, o, a, new)
        /\ Told(o, a) = ValueIn(options, words, o, i)
    BY <1>1, <1>7, <1>10, <1>12
  <2> HIDE DEF S, o
  <2>2. Shows(options, words, i - 1, S \cup {o}, new)
    BY <2>1, StoreShows
  <2> QED BY <1>9, <1>12, <2>2
<1>13. stop \/ h = n =>
          /\ \A p \in SoFar(options, w, h) : Needs(options, p, w) <=> last /\ p = o
          /\ TakesNext(options, w) <=> last
          /\ GivenBy(options, words, i) = IF last /\ i = Len(words) THEN S ELSE SoFar(options, w, h)
  <2>1. CASE stop \/ h = n
    <3>1. /\ w = words[i] /\ (h \in Stops(options, w.letters) \/ h = Len(w.letters))
          /\ last = (h = Len(w.letters) /\ h \in Stops(options, w.letters))
      BY <2>1
    <3> HIDE DEF w, h, n, last
    <3>3. \A p \in SoFar(options, w, h) :
                IF last /\ p = WithShort(options, w.letters[h])
                THEN Needs(options, p, w) ELSE ~Needs(options, p, w)
      BY <1>1, <1>2, <3>1, ClusterGives DEF n
    <3>2. /\ TakesNext(options, w) <=> last
          /\ GivenBy(options, words, i) =
                IF last /\ i = Len(words) THEN SoFar(options, w, h - 1) ELSE SoFar(options, w, h)
      BY <1>1, <1>2, <3>1, ClusterGives DEF n
    <3> QED BY <1>2, <3>2, <3>3
  <2> QED BY <2>1
<1> SUFFICES After(options, words, r, res)
  OBVIOUS
<1> HIDE DEF w, n, h, c, o, rest, after, r, S, stop, last, Given
<1>14. CASE c \notin Shorts(options)
  <2>1. r = Unknown(after, rest)
    BY <1>4, <1>14
  <2>2. Reading(options, words, after, rest, res)
    BY <1>6, <1>9, <1>11, <1>14 DEF S, w
  <2> QED BY <2>1, <2>2 DEF After, Unknown
<1>15. CASE c \in Shorts(options) /\ ~TakesArgument(o)
  <2>1. r = Got(o, NoArg, after, rest)
    BY <1>4, <1>15
  <2>2. Given(NoArg)
    <3>1. ValueIn(options, words, o, i) = Empty
      BY <1>8, <1>15 DEF ValueIn, Needs, w
    <3>2. Told(o, NoArg) = Empty
      BY DEF Told
    <3> QED BY <3>1, <3>2 DEF Given
  <2>3. ASSUME NEW new, Stored(res, o, NoArg, new) PROVE Reading(options, words, after, rest, new)
    BY <1>6, <1>11, <1>12, <1>15, <2>2, <2>3
  <2> QED BY <2>1, <2>3 DEF After, Got
<1>16. CASE c \in Shorts(options) /\ TakesArgument(o) /\ rest # <<>>
  <2> DEFINE a == Argument(i, FALSE)
  <2>1. r = Got(o, a, i + 1, <<>>)
    BY <1>4, <1>16
  <2>2. stop /\ ~last /\ o \in SoFar(options, w, h)
    BY <1>5, <1>6, <1>9, <1>16 DEF last
  <2>3. ~Needs(options, o, w) /\ ~TakesNext(options, w) /\ GivenBy(options, words, i) = SoFar(options, w, h)
    BY <1>13, <2>2
  <2>4. Given(a)
    <3>1. ValueIn(options, words, o, i) = i
      BY <1>1, <1>8, <1>16, <2>3 DEF ValueIn, w
    <3>2. a # NoArg /\ ~a.empty /\ a.word = i
      <4>1. a.word = i /\ a \in [word : Nat, empty : BOOLEAN]
        BY <1>1 DEF Argument
      <4>2. a # NoArg
        BY <4>1, NoArgAssumption
      <4>3. ~a.empty
        BY DEF Argument
      <4> QED BY <4>1, <4>2, <4>3
    <3> HIDE DEF a
    <3>3. Told(o, a) = i
      BY <1>16, <3>2 DEF Told, TakesArgument
    <3> QED BY <3>1, <3>3 DEF Given
  <2> HIDE DEF a
  <2>5. ASSUME NEW new, Stored(res, o, a, new) PROVE Reading(options, words, i + 1, <<>>, new)
    <3>1. Shows(options, words, i - 1, GivenBy(options, words, i), new)
      BY <1>12, <1>16, <2>3, <2>4, <2>5
    <3> QED BY <1>1, <2>3, <3>1, WordDone DEF w
  <2> QED BY <2>1, <2>5 DEF After, Got
<1>17. CASE c \in Shorts(options) /\ TakesArgument(o) /\ rest = <<>> /\ i = Len(words)
  <2>1. after = i + 1 /\ stop /\ last
    BY <1>5, <1>6, <1>17 DEF last, stop
  <2>2. r = Unknown(i + 1, <<>>)
    BY <1>4, <1>17, <2>1
  <2>3. GivenBy(options, words, i) = S
    BY <1>13, <1>17, <2>1
  <2>4. Reading(options, words, i + 1, <<>>, res)
    BY <1>1, <1>17, <2>3, WordDone DEF S, w
  <2> QED BY <2>2, <2>4 DEF After, Unknown
<1>18. CASE c \in Shorts(options) /\ TakesArgument(o) /\ rest = <<>> /\ i # Len(words)
  <2> DEFINE a == WholeWord(words, i + 1)
  <2>1. after = i + 1 /\ stop /\ last /\ o \in SoFar(options, w, h)
    BY <1>5, <1>6, <1>9, <1>18 DEF last, stop
  <2>2. i < Len(words) /\ i + 1 \in DOMAIN words /\ Len(words) \in Nat
    BY <1>1, <1>18
  <2>3. r = Got(o, a, i + 2, <<>>)
    <3>1. after # Len(words) + 1 /\ ~(after > Len(words)) /\ after + 1 = i + 2
      BY <1>1, <2>1, <2>2
    <3> QED BY <1>4, <1>18, <2>1, <3>1
  <2>4. Needs(options, o, w) /\ TakesNext(options, w) /\ GivenBy(options, words, i) = SoFar(options, w, h)
    BY <1>13, <1>18, <2>1
  <2>5. Given(a)
    <3>1. ValueIn(options, words, o, i) = IF words[i + 1] = Text("empty") THEN Empty ELSE i + 1
      BY <2>4 DEF ValueIn, w
    <3>2. (a.empty <=> words[i + 1] = Text("empty")) /\ a.word = i + 1 /\ a # NoArg
      BY <2>2, EmptyWord
    <3> HIDE DEF a
    <3> QED BY <1>18, <3>1, <3>2 DEF Given, Told, TakesArgument
  <2> HIDE DEF a
  <2>6. ASSUME NEW new, Stored(res, o, a, new) PROVE Reading(options, words, i + 2, <<>>, new)
    <3>1. Shows(options, words, i - 1, GivenBy(options, words, i), new)
      BY <1>12, <1>18, <2>4, <2>5, <2>6
    <3> QED BY <1>1, <2>2, <2>4, <3>1, WordTaken DEF w
  <2> QED BY <2>3, <2>6 DEF After, Got
<1> QED BY <1>14, <1>15, <1>16, <1>17, <1>18

-----------------------------------------------------------------------------
(* Whole words, and the call.                                              *)

LEMMA AbbreviatesOne ==
    ASSUME NEW options \in Seq(Option), NEW c
    PROVE  Cardinality(Abbreviated(options, c)) = 1 <=> \E o : Abbreviated(options, c) = {o}
<1> DEFINE A == Abbreviated(options, c)
<1>1. options \in Surjection(1 .. Len(options), Range(options))
  BY DEF Surjection, Range
<1>2. IsFiniteSet(1 .. Len(options))
  BY FS_Interval
<1>3. IsFiniteSet(Range(options))
  BY <1>1, <1>2, FS_Surjection
<1>4. A \in SUBSET Range(options)
  BY DEF Abbreviated
<1> HIDE DEF A
<1>5. IsFiniteSet(A)
  BY <1>3, <1>4, FS_Subset
<1>6. Cardinality(A) = 1 <=> \E o : A = {o}
  BY <1>5, FS_Singleton
<1> QED BY <1>6 DEF A

(* A cluster is read letter by letter if it starts with a short form.      *)
LEMMA ClusterRead ==
    ASSUME NEW options \in Seq(Option), Distinct(options), NEW words \in Seq(CommandWords),
           NEW i \in DOMAIN words, words[i].kind = "cluster", ~Used(options, words)[i],
           NEW res, Shows(options, words, i - 1, {}, res)
    PROVE  After(options, words, TakeCluster(options, words[i].letters, words, i), res)
<1> DEFINE w == words[i]
           L == w.letters
           r == TakeCluster(options, L, words, i)
<1>1. i \in Nat \ {0} /\ w \in CommandWords
  OBVIOUS
<1>2. L \in Seq(Letters) /\ L # <<>> /\ w.kind = "cluster"
  BY <1>1, WordKinds
<1>3. Head(L) = L[1] /\ Len(L) \in Nat \ {0}
  <2> HIDE DEF L
  <2> QED BY <1>2
<1>4. CASE L[1] \in Shorts(options)
  <2>1. r = TakeLetter(options, L, words, i)
    BY <1>3, <1>4 DEF TakeCluster
  <2>2. L = SubSeq(L, 0 + 1, Len(L))
    <3> HIDE DEF L
    <3> QED BY <1>2
  <2>3. InCluster(options, words, i, 0, L)
    <3>1. 0 \in 0 .. Len(L) - 1
      BY <1>3
    <3> QED BY <1>2, <1>4, <2>2, <3>1 DEF InCluster
  <2>4. SoFar(options, words[i], 0) = {}
    BY DEF SoFar
  <2>5. Shows(options, words, i - 1, SoFar(options, words[i], 0), res)
    BY <2>4
  <2> HIDE DEF L, r
  <2>6. After(options, words, TakeLetter(options, L, words, i), res)
    BY <2>3, <2>5, LetterRead
  <2> QED BY <2>1, <2>6 DEF r, L
<1>5. CASE L[1] \notin Shorts(options)
  <2> DEFINE A == Abbreviated(options, L[1])
  <2>1. ReadBy(options, w) = NamedBy(options, w)
    <3>1. LettersRead(options, L) = <<>>
      BY <1>5 DEF LettersRead
    <3>2. Range(<<>>) = {}
      BY DEF Range
    <3> QED BY <3>1, <3>2 DEF ReadBy
  <2>2. NamedBy(options, w) = {o \in Range(options) : Len(L) = 1 /\ A = {o}}
    BY <1>2, <1>5 DEF NamedBy
  <2>3. Cardinality(A) = 1 <=> \E o : A = {o}
    BY AbbreviatesOne
  <2>4. CASE Len(L) = 1 /\ Cardinality(A) = 1
    <3>1. PICK o : A = {o}
      BY <2>3, <2>4
    <3>2. o \in Range(options)
      BY <3>1 DEF Abbreviated
    <3>3. r = TakeLong(o, NoArg, words, i)
      <4>1. r = TakeLong(CHOOSE p \in A : TRUE, NoArg, words, i)
        BY <1>3, <1>5, <2>4 DEF TakeCluster
      <4>2. (CHOOSE p \in A : TRUE) = o
        <5> HIDE DEF A
        <5> QED BY <3>1
      <4> QED BY <4>1, <4>2
    <3>4. NamedBy(options, w) = {o}
      BY <2>2, <2>4, <3>1, <3>2
    <3>5. /\ ReadBy(options, words[i]) = {o} /\ o \in NamedBy(options, words[i])
          /\ NoArg = IF words[i].kind = "long" THEN words[i].arg ELSE NoArg
      BY <1>2, <2>1, <3>4
    <3> HIDE DEF r
    <3>6. After(options, words, TakeLong(o, NoArg, words, i), res)
      BY <3>2, <3>5, NamedRead
    <3> QED BY <3>3, <3>6 DEF r
  <2>5. CASE ~(Len(L) = 1 /\ Cardinality(A) = 1)
    <3>1. r = Unknown(i + 1, <<>>)
      BY <1>3, <1>5, <2>5 DEF TakeCluster
    <3>2. ReadBy(options, words[i]) = {}
      <4> HIDE DEF A
      <4> QED BY <2>1, <2>2, <2>3, <2>5
    <3> HIDE DEF r
    <3>3. After(options, words, Unknown(i + 1, <<>>), res)
      BY <3>2, NothingRead
    <3> QED BY <3>1, <3>3 DEF r
  <2> QED BY <2>4, <2>5
<1> QED BY <1>4, <1>5

LEMMA WordRead ==
    ASSUME NEW options \in Seq(Option), Distinct(options), NEW words \in Seq(CommandWords),
           NEW i \in DOMAIN words, words[i].kind # "text", ~Used(options, words)[i],
           NEW res, Shows(options, words, i - 1, {}, res)
    PROVE  After(options, words, TakeWord(options, words, i), res)
<1> DEFINE w == words[i]
           known == {o \in Range(options) : w.kind = "long" /\ o.name = w.name}
           r == TakeWord(options, words, i)
<1>1. w \in CommandWords
  OBVIOUS
<1>2. w.kind \in {"long", "cluster", "dashes"}
  BY <1>1, WordKinds
<1> SUFFICES After(options, words, r, res)
  OBVIOUS
<1>3. CASE w.kind = "dashes"
  <2>1. r = NoMore(i + 1)
    BY <1>3 DEF TakeWord
  <2> QED BY <2>1 DEF After, NoMore
<1>4. CASE w.kind = "cluster"
  <2>1. r = TakeCluster(options, w.letters, words, i)
    BY <1>4 DEF TakeWord
  <2>2. After(options, words, TakeCluster(options, words[i].letters, words, i), res)
    BY <1>4, ClusterRead
  <2> HIDE DEF r
  <2> QED BY <2>1, <2>2
<1>5. CASE w.kind = "long"
  <2>1. ReadBy(options, w) = NamedBy(options, w)
    BY <1>5 DEF ReadBy
  <2>2. NamedBy(options, w) = known
    BY <1>5 DEF NamedBy
  <2>3. CASE known = {}
    <3>1. r = Unknown(i + 1, <<>>)
      BY <1>5, <2>3 DEF TakeWord
    <3>2. ReadBy(options, words[i]) = {}
      BY <2>1, <2>2, <2>3
    <3> HIDE DEF r
    <3>3. After(options, words, Unknown(i + 1, <<>>), res)
      BY <3>2, NothingRead
    <3> QED BY <3>1, <3>3
  <2>4. CASE known # {}
    <3>1. PICK o : o \in known
      BY <2>4
    <3>2. known = {o} /\ o \in Range(options)
      BY <3>1, OneOfAName
    <3>3. r = TakeLong(o, w.arg, words, i)
      <4>1. r = TakeLong(CHOOSE p \in known : TRUE, w.arg, words, i)
        BY <1>5, <2>4 DEF TakeWord
      <4>2. (CHOOSE p \in known : TRUE) = o
        <5> HIDE DEF known
        <5> QED BY <3>2
      <4> QED BY <4>1, <4>2
    <3> DEFINE arg == w.arg
    <3>4. /\ ReadBy(options, words[i]) = {o} /\ o \in NamedBy(options, words[i])
          /\ arg = IF words[i].kind = "long" THEN words[i].arg ELSE NoArg
      BY <1>5, <2>1, <2>2, <3>2
    <3>5. r = TakeLong(o, arg, words, i)
      BY <3>3
    <3> HIDE DEF r, arg
    <3>6. After(options, words, TakeLong(o, arg, words, i), res)
      BY <3>2, <3>4, NamedRead
    <3> QED BY <3>5, <3>6
  <2> QED BY <2>3, <2>4
<1> QED BY <1>2, <1>3, <1>4, <1>5

(* Other texts are skipped: they read nothing and take no argument.        *)
LEMMA CallRead ==
    ASSUME NEW options \in Seq(Option), Distinct(options), NEW words \in Seq(CommandWords),
           NEW i, NEW letters, NEW res, Reading(options, words, i, letters, res)
    PROVE  After(options, words, getopt_long_only(options, words, i, letters), res)
<1> DEFINE next == {j \in i .. Len(words) : words[j].kind # "text"}
           r == getopt_long_only(options, words, i, letters)
<1>1. i \in 1 .. Len(words) + 1 /\ i \in Nat \ {0} /\ Len(words) \in Nat /\ DOMAIN words = 1 .. Len(words)
  BY DEF Reading
<1>2. r = IF letters # <<>> THEN TakeLetter(options, letters, words, i)
          ELSE IF i > Len(words) + 1 THEN Outside
          ELSE IF next = {} THEN NoMore(Len(words) + 1)
          ELSE TakeWord(options, words, Min(next))
  BY DEF getopt_long_only
<1> SUFFICES After(options, words, r, res)
  OBVIOUS
<1> HIDE DEF r
<1>3. CASE letters # <<>>
  <2>1. PICK k \in Nat : /\ InCluster(options, words, i, k, letters)
                         /\ Shows(options, words, i - 1, SoFar(options, words[i], k), res)
    BY <1>3 DEF Reading
  <2>2. After(options, words, TakeLetter(options, letters, words, i), res)
    BY <2>1, LetterRead
  <2> QED BY <1>2, <1>3, <2>2
<1>4. CASE letters = <<>>
  <2>1. (i <= Len(words) => ~Used(options, words)[i]) /\ Shows(options, words, i - 1, {}, res)
    <3>1. ~\E k \in Nat : InCluster(options, words, i, k, letters)
      BY <1>4, ClusterRest
    <3> QED BY <3>1 DEF Reading
  <2>2. CASE next = {}
    <3>1. r = NoMore(Len(words) + 1)
      BY <1>1, <1>2, <1>4, <2>2
    <3> QED BY <3>1 DEF After, NoMore
  <2>3. CASE next # {}
    <3> DEFINE m == Min(next)
    <3>1. r = TakeWord(options, words, m)
      BY <1>1, <1>2, <1>4, <2>3
    <3>2. next \in SUBSET Nat
      BY <1>1
    <3>3. m \in next /\ \A j \in next : m <= j
      <4> HIDE DEF next
      <4> QED BY <2>3, <3>2, LeastOf
    <3>4. m \in Nat /\ i <= m /\ m <= Len(words) /\ m \in DOMAIN words /\ words[m].kind # "text"
      BY <1>1, <3>3
    <3>5. \A j \in i .. m - 1 : words[j].kind = "text"
      <4> SUFFICES ASSUME NEW j \in i .. m - 1, words[j].kind # "text" PROVE FALSE
        OBVIOUS
      <4>1. j \in next /\ ~(m <= j)
        BY <1>1, <3>4
      <4> QED BY <3>3, <4>1
    <3> HIDE DEF m
    <3>6. \A j \in i .. m - 1 : ReadBy(options, words[j]) = {}
      BY <3>5 DEF ReadBy, NamedBy
    <3>7. \A j \in i .. m - 1 : GivenBy(options, words, j) = {} /\ ~TakesNext(options, words[j])
      BY <3>6 DEF GivenBy, Gives, TakesNext
    <3>8. Shows(options, words, m - 1, {}, res)
      <4> DEFINE from == i - 1
                 to == m - 1
      <4>1. from \in Nat /\ to \in Nat /\ from <= to /\ from + 1 = i
        BY <1>1, <3>4
      <4>2. \A j \in from + 1 .. to : GivenBy(options, words, j) = {}
        BY <3>7, <4>1
      <4>3. Shows(options, words, from, {}, res)
        BY <2>1
      <4> HIDE DEF from, to
      <4>4. Shows(options, words, to, {}, res)
        BY <4>1, <4>2, <4>3, ShowsSkip
      <4> QED BY <4>4 DEF to
    <3>9. ~Used(options, words)[m]
      <4>1. CASE m = i
        BY <2>1, <3>4, <4>1
      <4>2. CASE m # i
        <5> DEFINE p == m - 1
        <5>1. p \in Nat \ {0} /\ p + 1 = m /\ p \in i .. m - 1
          BY <1>1, <3>4, <4>2
        <5> HIDE DEF p
        <5>2. ~TakesNext(options, words[p])
          BY <3>7, <5>1
        <5>3. ~Used(options, words)[p + 1]
          BY <5>1, <5>2, UsedStep
        <5> QED BY <5>1, <5>3
      <4> QED BY <4>1, <4>2
    <3>10. After(options, words, TakeWord(options, words, m), res)
      BY <3>4, <3>8, <3>9, WordRead
    <3> QED BY <3>1, <3>10
  <2> QED BY <2>2, <2>3
<1> QED BY <1>3, <1>4

-----------------------------------------------------------------------------
(* The results of a parse.                                                 *)

ParseInv ==
    pc = "parsing" /\ ~resumed =>
        stale = FALSE /\ Reading(poptions, argv, optind, nextchar, results)

LEMMA ParseInitially == Init => ParseInv
BY DEF Init, ParseInv

LEMMA ParseStarts ==
    ASSUME CallInv, Distinct(poptions), NEW words \in Seq(CommandWords), NEW ignore,
           parse(words, ignore), ~resumed'
    PROVE  ParseInv'
<1>1. nextchar' = <<>> /\ stale' = FALSE /\ optind' = 1 /\ argv' = words /\ poptions' = poptions
  BY Zenon DEF parse
<1>2. results' = [m \in NamesOf({o \in Range(poptions) : o.hasArg = "optional"}) |-> Default]
  BY DEF parse, initWithDefaultValues, Optional
<1>3. Shows(poptions, words, 0, {}, results')
  BY <1>2, ShowsDefaults
<1>4. ~Used(poptions, words)[1]
  BY UsedStep
<1>5. Reading(poptions, words, 1, <<>>, results')
  <2>1. 1 \in 1 .. Len(words) + 1 /\ 1 - 1 = 0
    OBVIOUS
  <2> QED BY <1>3, <1>4, <2>1 DEF Reading
<1> QED BY <1>1, <1>5 DEF ParseInv

LEMMA ParseTurns ==
    ASSUME CallInv, Distinct(poptions), ParseInv, turn, ~resumed
    PROVE  ParseInv'
<1> DEFINE r == getopt_long_only(poptions, argv, optind, nextchar)
<1>1. Turn(r) /\ poptions \in Seq(Option) /\ argv \in Seq(CommandWords)
  BY DEF turn, CallInv, Callable
<1>2. pc = "parsing" /\ stale = FALSE /\ Reading(poptions, argv, optind, nextchar, results)
  BY <1>1 DEF Turn, ParseInv
<1> DEFINE i == optind
           letters == nextchar
           res == results
<1>3. After(poptions, argv, r, results)
  <2>1. Reading(poptions, argv, i, letters, res)
    BY <1>2
  <2> HIDE DEF i, letters, res
  <2>2. After(poptions, argv, getopt_long_only(poptions, argv, i, letters), res)
    BY <1>1, <2>1, CallRead
  <2> QED BY <2>2 DEF i, letters, res
<1> HIDE DEF r
<1>4. optind' = r.optind /\ nextchar' = r.nextchar /\ stale' = FALSE
  <2>1. stale' = (stale /\ nextchar' # <<>>) /\ optind' = r.optind /\ nextchar' = r.nextchar
    BY <1>1 DEF Turn
  <2> QED BY <1>2, <2>1
<1>5. CASE pc' # "parsing"
  BY <1>5 DEF ParseInv
<1>6. CASE pc' = "parsing"
  <2>1. poptions' = poptions /\ argv' = argv
    BY <1>1, <1>6 DEF Turn, UnknownOption, KnownOption, EndOfLoop, Return, Continue, call
  <2>2. CASE r.ch = "?" /\ results' = results
    BY <1>3, <1>4, <2>1, <2>2 DEF After, ParseInv
  <2>3. CASE /\ r.ch = "option" /\ ~NoText(r.option, r.optarg)
             /\ Store(r.option, r.optarg)
    <3>1. Stored(results, r.option, r.optarg, results')
      <4>1. Result(r.option, r.optarg) = Told(r.option, r.optarg)
        BY <1>2 DEF Result, Told
      <4> QED BY <2>3, <4>1 DEF Store, Stored
    <3>2. Reading(poptions, argv, r.optind, r.nextchar, results')
      BY <1>3, <2>3, <3>1 DEF After
    <3> QED BY <1>4, <2>1, <3>2 DEF ParseInv
  <2>4. \/ r.ch = "?" /\ results' = results
        \/ /\ r.ch = "option" /\ ~NoText(r.option, r.optarg)
           /\ Store(r.option, r.optarg)
    BY <1>1, <1>6 DEF Turn, UnknownOption, KnownOption, EndOfLoop, Return, Missing, NoText
  <2> QED BY <2>2, <2>3, <2>4
<1> QED BY <1>5, <1>6

LEMMA ParseSteps ==
    ASSUME CallInv, IInv, ParseInv, [Next]_vars
    PROVE  ParseInv'
<1>1. Distinct(poptions)
  BY DEF IInv, OptionsAreDistinct, Distinct
<1>2. CASE pc' = "idle"
  BY <1>2 DEF ParseInv
<1>3. CASE UNCHANGED vars
  BY <1>3 DEF ParseInv, vars, getopt, call
<1>4. ASSUME NEW o \in Offered, add(o) PROVE ParseInv'
  BY <1>2, <1>4 DEF add
<1>5. ASSUME NEW o \in Offered, NEW p \in Offered, add_range(o, p) PROVE ParseInv'
  BY <1>2, <1>5 DEF add_range
<1>6. CASE parse_nothing
  BY <1>2, <1>6 DEF parse_nothing
<1>7. ASSUME NEW words \in BoundedSeq(Words, MaxWords), NEW ignore \in BOOLEAN, parse(words, ignore)
      PROVE  ParseInv'
  <2>1. words \in Seq(CommandWords)
    BY BoundedWords
  <2>2. CASE resumed'
    BY <2>2 DEF ParseInv
  <2> QED BY <1>1, <1>7, <2>1, <2>2, ParseStarts
<1>8. CASE turn
  <2>1. CASE ~resumed
    BY <1>1, <1>8, <2>1, ParseTurns
  <2>2. CASE resumed /\ pc' # "idle"
    <3>1. resumed' = resumed
      BY <1>8, <2>2 DEF turn, Turn, UnknownOption, KnownOption, EndOfLoop, Return, Continue, call
    <3> QED BY <2>2, <3>1 DEF ParseInv
  <2> QED BY <1>2, <2>1, <2>2
<1> QED BY <1>3, <1>4, <1>5, <1>6, <1>7, <1>8 DEF Next

ReadInv == CallInv /\ IInv /\ ParseInv

LEMMA ReadDescribed == ReadInv => ResultsFollowUnlessResumed
<1> SUFFICES ASSUME ReadInv, pc = "parsing", ~resumed, nextchar = <<>>
             PROVE  results = Described(poptions, argv, optind - 1)
  BY DEF ResultsFollowUnlessResumed, ResultsFollowCommandLine
<1>1. Distinct(poptions) /\ argv \in Seq(CommandWords)
  BY DEF ReadInv, IInv, OptionsAreDistinct, Distinct, CallInv, Callable
<1>2. Reading(poptions, argv, optind, nextchar, results)
  BY DEF ReadInv, ParseInv
<1>3. ~\E k \in Nat : InCluster(poptions, argv, optind, k, nextchar)
  BY <1>1, ClusterRest
<1>4. Shows(poptions, argv, optind - 1, {}, results)
  BY <1>2, <1>3 DEF Reading
<1> QED BY <1>1, <1>4, ShowsDescribed

(* At every word parse() comes to, the results are exactly those that the  *)
(* words read so far give: getopt_long_only's cursor, the letters it still *)
(* holds and the results stored so far tell the same story, whatever was   *)
(* parsed, added or refused before, unless this parse was left letters.    *)
THEOREM ResultsCorrect == Spec => []ResultsFollowUnlessResumed
<1>1. Init => ReadInv
  BY CallInitially, Initially, ParseInitially DEF ReadInv
<1>2. ReadInv /\ [Next]_vars => ReadInv'
  BY CallSteps, Steps, ParseSteps DEF ReadInv
<1> QED BY <1>1, <1>2, ReadDescribed, PTL DEF Spec

(* With optreset no parse is left letters (parse).                         *)
THEOREM OptresetSuffices == HasOptreset /\ Spec => []ResultsFollowCommandLine
<1> SUFFICES ASSUME HasOptreset PROVE Spec => []ResultsFollowCommandLine
  OBVIOUS
<1>1. Init => ~resumed
  BY DEF Init
<1>2. ~resumed /\ [Next]_vars => ~resumed'
  <2> SUFFICES ASSUME ~resumed, [Next]_vars PROVE ~resumed'
    OBVIOUS
  <2>1. ASSUME NEW words, NEW ignore, parse(words, ignore) PROVE ~resumed'
    BY <2>1, Zenon DEF parse
  <2>2. CASE turn
    BY <2>2 DEF turn, Turn, UnknownOption, KnownOption, EndOfLoop, Return, Continue, call
  <2>3. CASE UNCHANGED call
    BY <2>3 DEF call
  <2> QED BY <2>1, <2>2, <2>3 DEF Next, vars, add, add_range, parse_nothing
<1>3. ~resumed /\ ResultsFollowUnlessResumed => ResultsFollowCommandLine
  BY DEF ResultsFollowUnlessResumed
<1> QED BY <1>1, <1>2, <1>3, ResultsCorrect, PTL DEF Spec

(* A word that parse() throws at takes back nothing of what the words      *)
(* before it gave, in whichever order the program looks the result up and  *)
(* finds its argument missing (parse, getResultFromOption).                *)
THEOREM ThrowCorrect == Spec => ThrowKeepsWhatWasRead
<1> DEFINE Throws == /\ pc = "parsing" /\ ~resumed /\ nextchar = <<>>
                     /\ pc' = "idle" /\ reply' = "invalid_argument"
           read == Described(poptions, argv, optind - 1)
           Kept == \/ results' = read
                   \/ \E o \in Range(poptions) :
                         /\ o.hasArg = "required" /\ o.name \notin DOMAIN read
                         /\ results' = [n \in DOMAIN read \cup {o.name} |->
                                           IF n = o.name THEN Empty ELSE read[n]]
<1>1. Init => ReadInv
  BY CallInitially, Initially, ParseInitially DEF ReadInv
<1>2. ReadInv /\ [Next]_vars => ReadInv'
  BY CallSteps, Steps, ParseSteps DEF ReadInv
<1>3. ReadInv /\ [Next]_vars => [Throws => Kept]_vars
  <2> SUFFICES ASSUME ReadInv, Next, Throws PROVE Kept
    OBVIOUS
  <2>1. results = read
    BY ReadDescribed DEF ResultsFollowUnlessResumed, ResultsFollowCommandLine
  <2>2. read = [m \in DOMAIN read |-> read[m]]
    BY DEF Described
  <2>3. turn
    BY DEF Next, add, add_range, parse_nothing, parse
  <2> DEFINE r == getopt_long_only(poptions, argv, optind, nextchar)
  <2>4. PICK i \in Nat : Returned(r, i)
    BY GetoptReturns DEF ReadInv, CallInv
  <2>5. Turn(r)
    BY <2>3 DEF turn
  <2> HIDE DEF r, read
  <2>6. CASE UNCHANGED results
    BY <2>1, <2>6
  <2>7. CASE r.ch = "option" /\ Missing(r) /\ Touch(r.option.name)
    <3> DEFINE n == r.option.name
    <3>1. r.option \in Range(poptions) /\ r.option.hasArg = "required"
      BY <2>4, <2>7 DEF Returned, Missing
    <3>2. results' = [m \in DOMAIN read \cup {n} |-> IF m \in DOMAIN read THEN read[m] ELSE Empty]
      BY <2>1, <2>7 DEF Touch
    <3>3. CASE n \in DOMAIN read
      <4>1. DOMAIN read \cup {n} = DOMAIN read
        BY <3>3
      <4>2. results' = [m \in DOMAIN read |-> read[m]]
        BY <3>2, <4>1
      <4> QED BY <2>2, <4>2
    <3>4. CASE n \notin DOMAIN read
      <4>1. results' = [m \in DOMAIN read \cup {n} |-> IF m = n THEN Empty ELSE read[m]]
        BY <3>2, <3>4
      <4> QED BY <3>1, <3>4, <4>1
    <3> QED BY <3>3, <3>4
  <2>8. UNCHANGED results \/ (r.ch = "option" /\ Missing(r) /\ Touch(r.option.name))
    BY <2>5 DEF Turn, UnknownOption, KnownOption, EndOfLoop, Return, Continue
  <2> QED BY <2>6, <2>7, <2>8
<1> QED BY <1>1, <1>2, <1>3, PTL DEF Spec, ThrowKeepsWhatWasRead

(* The results of a command line of no words.                              *)
NowhereInv == IInv /\ CallInv /\ NoArgumentFromNowhere

LEMMA NowhereStarts ==
    ASSUME NowhereInv, NEW words \in BoundedSeq(Words, MaxWords), NEW ignore \in BOOLEAN,
           parse(words, ignore)
    PROVE  NoArgumentFromNowhere'
<1>1. DOMAIN results' = NamesOf(Optional) /\ poptions' = poptions
  BY DEF parse, initWithDefaultValues
<1>2. ASSUME NEW o \in Range(poptions), o.hasArg = "required" PROVE o.name \notin NamesOf(Optional)
  <2>1. Distinct(poptions)
    BY DEF NowhereInv, IInv, OptionsAreDistinct, Distinct
  <2>2. \A p \in Range(poptions) : o.name = p.name => o = p
    BY <2>1, OneOfAName
  <2> QED BY <1>2, <2>2 DEF NamesOf, Optional
<1> QED BY <1>1, <1>2 DEF NoArgumentFromNowhere

LEMMA NowhereTurns ==
    ASSUME NowhereInv, turn, pc' = "parsing"
    PROVE  NoArgumentFromNowhere'
<1> DEFINE r == getopt_long_only(poptions, argv, optind, nextchar)
<1>1. PICK i \in Nat : Returned(r, i)
  BY GetoptReturns DEF NowhereInv, CallInv
<1>2. Turn(r)
  BY DEF turn
<1> HIDE DEF r
<1>3. poptions' = poptions /\ argv' = argv /\ pc = "parsing"
  BY <1>2 DEF Turn, UnknownOption, KnownOption, EndOfLoop, Return, Continue, call
<1>4. CASE UNCHANGED results
  BY <1>3, <1>4 DEF NowhereInv, NoArgumentFromNowhere
<1>5. CASE r.ch = "option" /\ ~Missing(r) /\ Store(r.option, r.optarg)
  <2> SUFFICES ASSUME argv = <<>>, NEW o \in Range(poptions), o.hasArg = "required"
               PROVE  o.name \notin DOMAIN results'
    BY <1>3 DEF NoArgumentFromNowhere
  <2>1. DOMAIN results' = DOMAIN results \cup {r.option.name}
    BY <1>5 DEF Store
  <2>2. o.name \notin DOMAIN results
    BY <1>3 DEF NowhereInv, NoArgumentFromNowhere
  <2>3. r.option \in Range(poptions) /\ ArgumentOf(r.option, r.optarg, r.optind) /\ r.optind \in Nat
    BY <1>1, <1>5 DEF Returned
  <2>4. r.option.hasArg # "required"
    <3> SUFFICES ASSUME r.option.hasArg = "required" PROVE FALSE
      OBVIOUS
    <3>1. r.optind > 1
      BY <2>3 DEF ArgumentOf
    <3>2. ~(r.optind > Len(argv) + 1) /\ Len(argv) = 0
      BY <1>5 DEF Missing
    <3> QED BY <2>3, <3>1, <3>2
  <2>5. Distinct(poptions)
    BY DEF NowhereInv, IInv, OptionsAreDistinct, Distinct
  <2>6. o.name # r.option.name
    <3>1. o.name = r.option.name => o = r.option
      BY <2>3, <2>5, OneOfAName
    <3> QED BY <2>4, <3>1
  <2> QED BY <2>1, <2>2, <2>6
<1> QED BY <1>2, <1>4, <1>5 DEF Turn, UnknownOption, KnownOption, EndOfLoop, Return

(* Text from beyond the command line, which getopt offers for letters it   *)
(* kept, never becomes a required argument (getResultFromOption).          *)
THEOREM NowhereCorrect == Spec => []NoArgumentFromNowhere
<1>1. Init => NowhereInv
  BY CallInitially, Initially DEF NowhereInv, Init, NoArgumentFromNowhere
<1>2. NowhereInv /\ [Next]_vars => NowhereInv'
  <2> SUFFICES ASSUME NowhereInv, [Next]_vars PROVE NoArgumentFromNowhere'
    BY CallSteps, Steps DEF NowhereInv
  <2>1. CASE pc' = "idle"
    BY <2>1 DEF NoArgumentFromNowhere
  <2>2. CASE UNCHANGED vars
    BY <2>2 DEF NowhereInv, NoArgumentFromNowhere, vars, call
  <2>3. CASE turn
    <3>1. pc' \in {"idle", "parsing"}
      BY CallSteps DEF NowhereInv, CallInv
    <3> QED BY <2>1, <2>3, <3>1, NowhereTurns
  <2>4. ASSUME NEW o \in Offered, add(o) PROVE pc' = "idle"
    BY <2>4 DEF add
  <2>5. ASSUME NEW o \in Offered, NEW p \in Offered, add_range(o, p) PROVE pc' = "idle"
    BY <2>5 DEF add_range
  <2>6. CASE parse_nothing
    BY <2>1, <2>6 DEF parse_nothing
  <2> QED BY <2>1, <2>2, <2>3, <2>4, <2>5, <2>6, NowhereStarts DEF Next
<1>3. NowhereInv => NoArgumentFromNowhere
  BY DEF NowhereInv
<1> QED BY <1>1, <1>2, <1>3, PTL DEF Spec
=============================================================================

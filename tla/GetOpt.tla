------------------------------- MODULE GetOpt -------------------------------
(***************************************************************************)
(* The C library's getopt_long_only, as ProgramOptions::parse uses it: not *)
(* code of this repository.  It keeps its place in global variables:       *)
(* `optind', the next word, and `nextchar', the letters of a cluster such  *)
(* as -abc that it has not returned yet.                                   *)
(*                                                                         *)
(* A word of the command line is an option in its long form, with or       *)
(* without an argument after "=", a cluster of letters, the word "--", or  *)
(* any other text.  Texts are skipped when they are not arguments.         *)
(***************************************************************************)
EXTENDS Naturals, SequencesExt

CONSTANTS
    NoShort,       (* noShortOption                                        *)
    FirstLetter,   (* the first character of each name                     *)
    NoArg          (* optarg = nullptr                                     *)

Long(n, arg) == [kind |-> "long", name |-> n, arg |-> arg]
Cluster(letters) == [kind |-> "cluster", letters |-> letters]
Text(arg) == [kind |-> "text", arg |-> arg]
Dashes == [kind |-> "dashes"]

TakesArgument(o) == o.hasArg # "none"

(* The option with this short form: the table has at most one.             *)
Shorts(options) == {o.shortOption : o \in Range(options)} \ {NoShort}
WithShort(options, c) == CHOOSE o \in Range(options) : o.shortOption = c

(* The options a single unknown letter may abbreviate.                     *)
Abbreviated(options, c) == {o \in Range(options) : FirstLetter[o.name] = c}

Argument(i, empty) == [word |-> i, empty |-> empty]
ASSUME NoArgAssumption == NoArg \notin [word : Nat, empty : BOOLEAN] \cup {"empty", "full"}
WholeWord(argv, i) == Argument(i, argv[i].kind = "text" /\ argv[i].arg = "empty")

(* What a call returns, and where it leaves the two globals.               *)
Got(o, arg, i, letters) ==
    [ch |-> "option", option |-> o, optarg |-> arg, optind |-> i, nextchar |-> letters]
Unknown(i, letters) == [ch |-> "?", optind |-> i, nextchar |-> letters]
NoMore(i) == [ch |-> "end", optind |-> i, nextchar |-> <<>>]
Outside == [ch |-> "outside", optind |-> 1, nextchar |-> <<>>]

(* The option of a long form in word i; arg is what follows "=".           *)
TakeLong(o, arg, argv, i) ==
    IF arg # NoArg
    THEN IF TakesArgument(o) THEN Got(o, Argument(i, arg = "empty"), i + 1, <<>>)
         ELSE Unknown(i + 1, <<>>)
    ELSE IF o.hasArg # "required" THEN Got(o, NoArg, i + 1, <<>>)
    ELSE IF i = Len(argv) THEN Unknown(i + 1, <<>>)
    ELSE Got(o, WholeWord(argv, i + 1), i + 2, <<>>)

(* The next letter of a cluster in word i.  Its option string lists both   *)
(* kinds of argument as required.                                          *)
TakeLetter(options, letters, argv, i) ==
    LET c == Head(letters)
        rest == Tail(letters)
        after == IF rest = <<>> THEN i + 1 ELSE i
        o == WithShort(options, c)
    IN  IF c \notin Shorts(options) THEN Unknown(after, rest)
        ELSE IF ~TakesArgument(o) THEN Got(o, NoArg, after, rest)
        ELSE IF rest # <<>> THEN Got(o, Argument(i, FALSE), i + 1, <<>>)
        ELSE IF after = Len(argv) + 1 THEN Unknown(after, <<>>)
        ELSE IF after > Len(argv) THEN Outside
        ELSE Got(o, WholeWord(argv, after), after + 1, <<>>)

(* A cluster is tried as a long form unless it is one known letter.        *)
TakeCluster(options, letters, argv, i) ==
    IF Head(letters) \in Shorts(options) THEN TakeLetter(options, letters, argv, i)
    ELSE IF Len(letters) = 1 /\ Cardinality(Abbreviated(options, letters[1])) = 1
    THEN TakeLong(CHOOSE o \in Abbreviated(options, letters[1]) : TRUE, NoArg, argv, i)
    ELSE Unknown(i + 1, <<>>)

TakeWord(options, argv, i) ==
    LET w == argv[i]
        known == {o \in Range(options) : w.kind = "long" /\ o.name = w.name}
    IN  CASE w.kind = "dashes" -> NoMore(i + 1)
          [] w.kind = "cluster" -> TakeCluster(options, w.letters, argv, i)
          [] w.kind = "long" /\ known = {} -> Unknown(i + 1, <<>>)
          [] OTHER -> TakeLong(CHOOSE o \in known : TRUE, w.arg, argv, i)

(* One call.  A position beyond the end is taken for one inside.           *)
getopt_long_only(options, argv, optind, nextchar) ==
    LET next == {i \in optind .. Len(argv) : argv[i].kind # "text"}
    IN  IF nextchar # <<>> THEN TakeLetter(options, nextchar, argv, optind)
        ELSE IF optind > Len(argv) + 1 THEN Outside
        ELSE IF next = {} THEN NoMore(Len(argv) + 1)
        ELSE TakeWord(options, argv, Min(next))
=============================================================================

--------------------------- MODULE ProgramOptions ---------------------------
(***************************************************************************)
(* One kss::util::po::ProgramOptions (Sources/programoptions.cpp): the     *)
(* table of options, and the results of the command line parsed last.      *)
(* parse() is a loop around getopt_long_only, one step for each call, and  *)
(* what it stored before it throws stays.  Where C++ leaves open in which  *)
(* order two things happen, either may be first.                           *)
(*                                                                         *)
(* A result is named by the word of the command line it was read from.     *)
(***************************************************************************)
EXTENDS GetOpt

CONSTANTS
    Names, BadName,    (* names, and one isValidArgumentName refuses       *)
    Letters,           (* the characters that can be short forms           *)
    AutoShort,         (* autoShortOption                                  *)
    Offered,           (* the options a program may add                    *)
    Words, MaxWords,   (* the words of command lines, and their number     *)
    Default,           (* the defaultValue of an option                    *)
    Empty,             (* ""                                               *)
    OldText,           (* text of an earlier command line                  *)
    HasOptreset        (* HAS_OPTRESET: optreset = 1 before each parse     *)

ASSUME OptresetAssumption == HasOptreset \in BOOLEAN
ASSUME OfferedAssumption ==
    Offered \subseteq [name : Names \cup {BadName},
                      shortOption : Letters \cup {NoShort, AutoShort},
                      hasArg : {"none", "required", "optional"}]
ASSUME LetterAssumption ==
    /\ FirstLetter \in [Names -> Letters]
    /\ BadName \notin Names
    /\ NoShort \notin Letters /\ AutoShort \notin Letters \cup {NoShort}
(* A long form may name no option, a cluster has a letter.                 *)
CommandWords ==
    [kind : {"long"}, name : Names \cup {BadName}, arg : {NoArg, "empty", "full"}]
    \cup [kind : {"cluster"}, letters : Seq(Letters) \ {<<>>}]
    \cup [kind : {"text"}, arg : {"empty", "full"}]
    \cup {Dashes}
ASSUME WordsAssumption == Words \subseteq CommandWords /\ MaxWords \in Nat

VARIABLES
    poptions, results, programName,   (* Impl                              *)
    optind, nextchar,                 (* getopt's globals                  *)
    stale,                            (* nextchar is of an earlier argv    *)
    resumed,                          (* it was when this parse began      *)
    argv, ignoreUnknownOptions,       (* the arguments of parse            *)
    pc,                               (* "idle", or in parse's loop        *)
    reply                             (* how the last call ended           *)

getopt == <<optind, nextchar, stale>>
call == <<argv, ignoreUnknownOptions, resumed>>
vars == <<poptions, results, programName, getopt, call, pc, reply>>

Init ==
    /\ poptions = <<>> /\ results = <<>> /\ programName = Empty
    /\ optind = 1 /\ nextchar = <<>> /\ stale = FALSE
    /\ argv = <<>> /\ ignoreUnknownOptions = FALSE /\ resumed = FALSE
    /\ pc = "idle"
    /\ reply = "returned"

-----------------------------------------------------------------------------
(* The table of options.                                                   *)

Resolved(o) ==
    [o EXCEPT !.shortOption = IF @ = AutoShort THEN FirstLetter[o.name] ELSE @]

(* Seeded fault: the automatic short form is not compared.                 *)
verifyOption_unresolved(options, o) ==
    /\ o.name # BadName
    /\ \A p \in Range(options) :
          /\ p.name # o.name
          /\ o.shortOption # NoShort => p.shortOption # o.shortOption

verifyOption(options, o) ==
    /\ o.name # BadName
    /\ \A p \in Range(options) :
          /\ p.name # o.name
          /\ o.shortOption # NoShort => p.shortOption # Resolved(o).shortOption

add(o) ==
    /\ pc = "idle"
    /\ IF verifyOption(poptions, o)
       THEN poptions' = Append(poptions, Resolved(o)) /\ reply' = "returned"
       ELSE reply' = "invalid_argument" /\ UNCHANGED poptions
    /\ UNCHANGED <<results, programName, getopt, call, pc>>

(* add(first, last): two options, of which the second may be refused.      *)
add_range(o, p) ==
    /\ pc = "idle" /\ verifyOption(poptions, o)
    /\ IF verifyOption(Append(poptions, Resolved(o)), p)
       THEN poptions' = poptions \o <<Resolved(o), Resolved(p)>> /\ reply' = "returned"
       ELSE poptions' = Append(poptions, Resolved(o)) /\ reply' = "invalid_argument"
    /\ UNCHANGED <<results, programName, getopt, call, pc>>

-----------------------------------------------------------------------------
(* parse().                                                                *)

NamesOf(options) == {o.name : o \in options}
Optional == {o \in Range(poptions) : o.hasArg = "optional"}

(* Seeded fault: the results are not cleared.                              *)
initWithOldValues ==
    results' = [n \in DOMAIN results \cup NamesOf(Optional) |->
                   IF n \in DOMAIN results THEN results[n] ELSE Default]

initWithDefaultValues == results' = [n \in NamesOf(Optional) |-> Default]

(* argc = 0                                                                *)
parse_nothing ==
    /\ pc = "idle"
    /\ reply' = "invalid_argument"
    /\ UNCHANGED <<poptions, results, programName, getopt, call, pc>>

parse(words, ignore) ==
    /\ pc = "idle"
    /\ initWithDefaultValues
    /\ programName' = "argv[0]"
    /\ optind' = 1
    /\ nextchar' = IF HasOptreset THEN <<>> ELSE nextchar
    /\ stale' = (nextchar' # <<>>) /\ resumed' = stale'
    /\ argv' = words /\ ignoreUnknownOptions' = ignore
    /\ pc' = "parsing"
    /\ UNCHANGED <<poptions, reply>>

Return(outcome) ==
    /\ pc' = "idle"
    /\ reply' = outcome
    /\ argv' = <<>> /\ ignoreUnknownOptions' = FALSE /\ resumed' = FALSE
    /\ UNCHANGED <<poptions, programName>>

Continue == UNCHANGED <<poptions, programName, call, pc, reply>>

(* getResultFromOption.                                                    *)
Result(o, optarg) ==
    IF o.hasArg = "none" \/ optarg = NoArg \/ optarg.empty THEN Empty
    ELSE IF stale /\ nextchar # <<>> /\ optarg.word = optind THEN OldText
    ELSE optarg.word

(* Seeded fault: an argument from beyond the command line is taken.        *)
MissingOrEmpty(r) == r.option.hasArg = "required" /\ (r.optarg = NoArg \/ r.optarg.empty)

(* A required argument must be there, on this command line, and not empty. *)
Missing(r) ==
    /\ r.option.hasArg = "required"
    /\ r.optind > Len(argv) + 1 \/ r.optarg = NoArg \/ r.optarg.empty

Store(o, optarg) ==
    results' = [n \in DOMAIN results \cup {o.name} |->
                   IF n = o.name THEN Result(o, optarg) ELSE results[n]]

(* Seeded fault: unknown options are never ignored.                        *)
UnknownThrows(r) ==
    /\ r.ch = "?"
    /\ UNCHANGED results
    /\ Return("invalid_argument")

UnknownOption(r) ==
    /\ r.ch = "?"
    /\ UNCHANGED results
    /\ IF ignoreUnknownOptions THEN Continue ELSE Return("invalid_argument")

(* Seeded fault: the result is emptied before its argument is looked at.   *)
KnownOption_emptied(r) ==
    /\ r.ch = "option"
    /\ IF Missing(r)
       THEN /\ results' = [n \in DOMAIN results \cup {r.option.name} |->
                              IF n = r.option.name THEN Empty ELSE results[n]]
            /\ Return("invalid_argument")
       ELSE Store(r.option, r.optarg) /\ Continue

(* results[name] may make an empty entry before the argument is looked at. *)
Touch(n) == results' = [m \in DOMAIN results \cup {n} |->
                           IF m \in DOMAIN results THEN results[m] ELSE Empty]

KnownOption(r) ==
    /\ r.ch = "option"
    /\ IF Missing(r)
       THEN Return("invalid_argument") /\ (UNCHANGED results \/ Touch(r.option.name))
       ELSE Store(r.option, r.optarg) /\ Continue

(* getopt returned -1, or read an argv that is not there.                  *)
EndOfLoop(r) ==
    /\ r.ch \in {"end", "outside"}
    /\ UNCHANGED results
    /\ Return(IF r.ch = "end" THEN "returned" ELSE "undefined")

(* One turn of the while loop.                                             *)
Turn(r) ==
    /\ pc = "parsing"
    /\ optind' = r.optind /\ nextchar' = r.nextchar
    /\ stale' = (stale /\ nextchar' # <<>>)
    /\ UnknownOption(r) \/ KnownOption(r) \/ EndOfLoop(r)

turn == Turn(getopt_long_only(poptions, argv, optind, nextchar))

Alive == reply # "undefined"

Next ==
    /\ Alive
    /\ \/ \E o \in Offered : add(o)
       \/ \E o, p \in Offered : add_range(o, p)
       \/ parse_nothing
       \/ \E words \in BoundedSeq(Words, MaxWords), ignore \in BOOLEAN : parse(words, ignore)
       \/ turn

Spec == Init /\ [][Next]_vars

-----------------------------------------------------------------------------
(* What a command line says to a table of options, word by word.  An       *)
(* option that takes an argument needs one in its short form, also when    *)
(* the argument is optional: so the option string says it.                 *)

(* The options a cluster gives: up to the first that takes an argument.    *)
Stops(options, letters) ==
    {i \in DOMAIN letters :
        letters[i] \in Shorts(options) /\ TakesArgument(WithShort(options, letters[i]))}
LettersRead(options, letters) ==
    IF letters[1] \notin Shorts(options) THEN <<>>
    ELSE IF Stops(options, letters) = {} THEN letters
    ELSE SubSeq(letters, 1, Min(Stops(options, letters)))

(* The option that a long form or an abbreviation names.                   *)
NamedBy(options, w) ==
    {o \in Range(options) :
        \/ w.kind = "long" /\ o.name = w.name
        \/ /\ w.kind = "cluster" /\ Len(w.letters) = 1
           /\ w.letters[1] \notin Shorts(options)
           /\ Abbreviated(options, w.letters[1]) = {o}}

ReadBy(options, w) ==
    NamedBy(options, w) \cup
    {o \in Range(options) :
        w.kind = "cluster" /\ o.shortOption \in Range(LettersRead(options, w.letters))}

(* Whether o, read from w, has its argument in the following word.         *)
Needs(options, o, w) ==
    IF o \in NamedBy(options, w)
    THEN o.hasArg = "required" /\ (w.kind = "long" => w.arg = NoArg)
    ELSE /\ TakesArgument(o)
         /\ LettersRead(options, w.letters) = w.letters
         /\ o.shortOption = Last(w.letters)

TakesNext(options, w) == \E o \in ReadBy(options, w) : Needs(options, o, w)

(* Words that are arguments of the word before them.                       *)
Used(options, words) ==
    LET used[i \in Nat] == i > 1 /\ ~used[i - 1] /\ TakesNext(options, words[i - 1])
    IN  used

(* Word i gives o the argument it should have.                             *)
Gives(options, words, o, i) ==
    /\ ~Used(options, words)[i] /\ o \in ReadBy(options, words[i])
    /\ Needs(options, o, words[i]) => i < Len(words)
    /\ words[i].kind = "long" /\ words[i].arg # NoArg => TakesArgument(o)
Givers(options, words, o, n) == {i \in DOMAIN words : i <= n /\ Gives(options, words, o, i)}

ValueIn(options, words, o, i) ==
    IF Needs(options, o, words[i]) THEN IF words[i + 1] = Text("empty") THEN Empty ELSE i + 1
    ELSE IF ~TakesArgument(o) THEN Empty
    ELSE IF words[i].kind = "long" THEN IF words[i].arg \in {NoArg, "empty"} THEN Empty ELSE i
    ELSE IF o \in NamedBy(options, words[i]) THEN Empty ELSE i

(* The results of the first n words: what is given last counts, and what   *)
(* is not given has its default when its argument is optional.             *)
Present(options, words, n) ==
    {o \in Range(options) : o.hasArg = "optional" \/ Givers(options, words, o, n) # {}}
Value(options, words, o, n) ==
    LET givers == Givers(options, words, o, n)
    IN  IF givers = {} THEN Default ELSE ValueIn(options, words, o, Max(givers))
Described(options, words, n) ==
    LET present == Present(options, words, n)
    IN  [m \in NamesOf(present) |->
            Value(options, words, CHOOSE o \in present : o.name = m, n)]

-----------------------------------------------------------------------------
(* Properties.                                                             *)

(* The tables, the results and the place in the command line have their    *)
(* types.                                                                  *)
TypeOK ==
    /\ \A o \in Range(poptions) : o.name \in Names /\ o.shortOption # AutoShort
    /\ DOMAIN results \subseteq NamesOf(Range(poptions))
    /\ \A n \in DOMAIN results : results[n] \in Nat \cup {Empty, Default, OldText}
    /\ optind \in Nat \ {0}
    /\ pc \in {"idle", "parsing"}
    /\ reply \in {"returned", "invalid_argument", "undefined"}

(* Whatever was added one by one, in batches, or between two parses, no    *)
(* two options share a name or a short form: a letter on the command line  *)
(* means one option.                                                       *)
OptionsAreDistinct ==
    \A i, j \in DOMAIN poptions : i # j =>
        /\ poptions[i].name # poptions[j].name
        /\ poptions[i].shortOption # NoShort =>
               poptions[i].shortOption # poptions[j].shortOption

(* At every word parse() has come to, and so when it returns, the results  *)
(* are those of the words read so far and of nothing else: no earlier      *)
(* parse, added option or ignored word shows in them.  Without optreset    *)
(* that is not so.                                                         *)
ResultsFollowCommandLine ==
    pc = "parsing" /\ nextchar = <<>> =>
        results = Described(poptions, argv, optind - 1)

(* It is, with optreset or without, in every parse that began when getopt  *)
(* held no letters, whatever parses before it left to one another.         *)
ResultsFollowUnlessResumed == ~resumed => ResultsFollowCommandLine

(* Such a parse that throws at a word keeps the results of the words       *)
(* before it, values given earlier to the option it throws for included;   *)
(* all that it may leave besides is an empty result of that option, which  *)
(* hasOption() then reports.                                               *)
ThrowKeepsWhatWasRead ==
    [][(pc = "parsing" /\ ~resumed /\ nextchar = <<>> /\ pc' = "idle" /\ reply' = "invalid_argument") =>
        LET read == Described(poptions, argv, optind - 1)
        IN  \/ results' = read
            \/ \E o \in Range(poptions) :
                  /\ o.hasArg = "required" /\ o.name \notin DOMAIN read
                  /\ results' = [n \in DOMAIN read \cup {o.name} |->
                                    IF n = o.name THEN Empty ELSE read[n]]]_vars

(* With ignoreUnknownOptions a parse throws only at a required argument    *)
(* that is an empty text; or, where getopt still holds letters of another  *)
(* command line, at one that is not on this command line.                  *)
IgnoringThrowsOnlyForEmpty ==
    [][ignoreUnknownOptions /\ pc = "parsing" /\ reply' = "invalid_argument" /\ pc' = "idle"
         => \/ /\ optind' - 1 \in DOMAIN argv
               /\ argv[optind' - 1].kind \in {"text", "long"} /\ argv[optind' - 1].arg = "empty"
            \/ stale /\ optind' > Len(argv) + 1]_vars

(* A command line of no words gives no option an argument it requires,     *)
(* whatever letters of an earlier one getopt still holds.                  *)
NoArgumentFromNowhere ==
    pc = "parsing" /\ argv = <<>> =>
        \A o \in Range(poptions) : o.hasArg = "required" => o.name \notin DOMAIN results
=============================================================================

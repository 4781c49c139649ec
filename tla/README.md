# TLA+ models of kssutil

kssutil is a C++ library of small utilities. This directory holds TLA+ modules
that model the parts of it with state worth checking, TLC configurations that
check them on small instances, and theorems about them proved with TLAPS for
every value of the constants.

Throughout, `kss::contract` (another library) is modelled by what it does: a
failed `preconditions`, `postconditions` or `conditions` terminates the process,
a failed `parameters` throws `std::invalid_argument`. Termination is an outcome
of a call, never a disabled action, so a condition the code itself cannot meet
shows up as a reachable outcome.

Line numbers below refer to `src/Sources/`.

## Inventory

| Component | State | Operations | What is hard | What makes it correct |
|---|---|---|---|---|
| `CircularArray` (circular_array.hpp) | storage, `_capacity`, `_first`, `_last`, `_size` | push/pop at both ends, `[]`, `at`, `resize`, `reserve`, `assign`, `clear`, copy, move, swap | two wrapping indices, the full array (`_first == _last` as when empty), storage that changes hands, exceptions midway | behaves as a bounded deque; constructed slots are exactly the elements; each object owns its storage |
| `SequentialMap` (sequentialmap.hpp) | `_vec` of entries, `_map` from key to place | `insert`, `[]`, `at`, `find`, `erase`, `clear`, `swap`, and `eraseIf` (containerutil.hpp) through its iterators | places must follow every erasure; an insert in two halves; iterators that let an algorithm move entries under the index | the halves agree; a map in order of insertion |
| Random access iterators (iterator.hpp) | an array and an unsigned position | `begin`, `end`, `+=`, `-=`, `-`, `<`, dereferencing | positions outlive what they pointed at; wrapping arithmetic | a place is named, the arithmetic is exact |
| Time zone switching (timeutil.cpp) | `TZ`, the C library's zone, `tzEnvMutex` | `tmToTime`, `timeToTm` | threads share the environment; local conversions take no lock; exceptions between set and restore | a named zone is used, `TZ` is restored, the mutex is released |
| `Tokenizer` and `ForwardIterator` (tokenizer.cpp, iterator.hpp) | `_lastPos`, `_end`; `_cont`, `_value` of each iterator | `next`, `begin`, `++`, copy, move, swap | iterators share one position; empty tokens; the end | parts in order, each once; loops end |
| `ProgramOptions` (programoptions.cpp) | table, results, program name; getopt's globals | `add`, `parse`, queries | batches and parses that fail midway; process-wide getopt state | no ambiguous options; results are those of the command line |
| `ArgumentVector` (argumentvector.cpp) | strings and pointers into them | `add`, `argv`, copy, move | pointers that go stale, allocations that throw between the two vectors, an `argv()` the program keeps | pointers match strings; a held `argv` goes only with its owner |
| `SubString` (substring.hpp) | position, length, cached copy, a reference to the caller's string | construction, assignment, `c_str`, comparison | the string changes under it; the copy is kept by pointer and the class copied by default | reads and writes stay inside the string; each copy is freed once |
| `daemonize` (daemonize.cpp) | three processes: place in the code, session, descriptors, streams, ids | a sequence of system calls | two forks, each process with a copy of the buffers; calls that fail in any of them; the order of the id changes | one process is left, a detached daemon with both ids or an exception |
| ISO 8601 and durations (timeutil.*) | none | parse, format, checked casts | the sign of an offset, limits, rounding, times before the epoch | exact casts, round trips, no silent overflow |
| `convert`, `stringutil` | none | conversions, search, trim | limits of the types, suffixes that end one another | the number written, or an exception |
| `Attributes`, `UUID`, RAII, error, rtti, formatting, operators, version | little or none | wrappers | nothing a model would reach | – |

The components hardly call one another: `CircularArray` uses
`RandomAccessIterator` and `memory::destroy`, `Tokenizer` is read through
`ForwardIterator`, `ProgramOptions` uses `convert` and `getopt_long_only`. They
interact with what is outside: the environment, getopt's globals, the allocator,
the caller's strings. PROJECT.json lists every component with its status and
every hazard with its line.

## Modules

| Module | Models |
|---|---|
| `BoundedDeque` | abstract: a sequence with room for `capacity` elements, and exactly when a call may end the process |
| `CircularArray` | every member function of one array on its slots |
| `CircularArrayObjects` | several arrays and the storage they own: construction, copy, move, swap, assignment, destruction, with exceptions |
| `ArrayIterators` | an iterator held while those arrays are used; its arithmetic |
| `OrderedMap` | abstract: a map in order of insertion, which an interrupted insert may leave torn |
| `SequentialMap` | every operation on one map, on both halves, and `eraseIf` |
| `TimeZoneEnv` | `tmToTime`/`timeToTm` step by step, in any number of threads |
| `TextParts`, `TokenStream` | reference definition of a split; abstract: its parts handed out from left to right |
| `Tokenizer` | `next()` and the iterators |
| `GetOpt` | external: `getopt_long_only` as `parse` uses it |
| `ProgramOptions` | `add`, batches, and the loop of `parse` |
| `Durations` | units, counts of limited width, `checkedDurationCast` |
| `Iso8601` | `parseIso8601`, `toIso8601` and time points through them |
| `NumberText` | `convert` of integers and durations |
| `Conversions` | the three above as calls with their replies |
| `SubString` | views of one string, the C strings they keep, and the program that changes the string |
| `Daemonize` | `daemonize` in the three processes it makes |
| `ArgumentVector` | several vectors, and a program that keeps and writes through an `argv()` |
| `*Proofs` | theorems and proofs, for `TimeProofs` of `TimeZoneEnv` and `Conversions`, for `ProcessProofs` of `Daemonize` and `ArgumentVector`, for `ArrayIteratorsProofs` of `CircularArrayObjects` too |
| `MC*` | constants for TLC |

### How state and actions correspond to the code

**CircularArray.** The variables are the fields; `array` is the storage, a
function from slots to values with `Raw` for a slot in which nothing is
constructed. An action is a whole member function with the conditions it
evaluates: `check_room_for_one_more` is the throwing half of the pushes,
`CalledOnEmpty` the preconditions, `Fails` a postcondition that does not hold.
`LegalPosition` is the postcondition of `[]` and `at` (lines 370-375), which
every walk over the elements also meets (`Iterable`). `leaked` is the only
ghost: storage given up while an element in it was not destroyed. `Filled` and
`Moved` are what loops of pushes leave behind. The ranges given to
`assign(first, last)` need at most one growth step. The constructor of an
element may throw: the `*_throws` actions are the calls interrupted at any of
their elements, with what they leave. A `push_front` that throws in its slot
has counted the element already (`half_done`); behind it only the first use of
that element is followed (`unconstructed`). `ResizeUpOwn` and the `AssignOwn*`
actions are calls whose argument is inside the array.

**CircularArrayObjects.** Slots are abstracted to the sequence of elements in a
piece of storage (`CircularArray` shows that this is what they are); what is
kept are the fields that decide ownership. Exceptions are disjuncts of their
own: the allocation inside copy assignment, an element copy inside the copy
constructor or copy assignment. An operation on a null array with room is
`undefined`.

**ArrayIterators.** `it` is the pair `_container`, `_pos`; a position has
`2 * Half` values, so that arithmetic wraps as `size_t` does. `ItNext` is a step
of `CircularArrayObjects` that leaves the iterator alone, or a step of the
iterator. The three iterator classes have the same members; a const one is used
without `write`.

**SequentialMap.** `insert` is the append followed by the insertion in the
index; either half may throw. The constructor, the hint and the range
versions of insert are insert after insert. `eraseIf` is `remove_if` on the
vector followed by `erase` of what it left behind: the keys read there are those
of entries that were moved from (`Staying` and `Picked` are what `remove_if`
leaves in front), and `moved` says how such a key reads, the same
(numbers) or as another (strings). `shuffled` is a ghost: behind an `eraseIf`
that moved an entry only `find`, `at` and `clear` are followed.

**TimeZoneEnv.** One action for each library call between lock and unlock, so
that any other thread may act between any two. The `Finally` object is the
`restore` and `retzset` steps, taken after success and failure alike. The
environment and the C library are external: `timelocal` reads `TZ` anew,
`localtime_r` only if nothing did before, and `setenv` may (`inPlace`) overwrite
the string `getenv` returned.

**Tokenizer.** A token is the interval of places it covers, so that equal words
at different places differ. `next` has the three branches of the code;
`advance` is `operator++`. Iterators are variables of the program that start as
end iterators; `begin(i)` is `it = t.begin()`.

**ProgramOptions.** `parse` initialises and then takes one `turn` for each call
of `getopt_long_only`, so that the results at a throw are those stored so far.
The library is built as C++14, which does not fix whether `results[po->name]` is
evaluated before `getResultFromOption` throws (line 338): `KnownOption` may leave
an empty entry behind (`Touch`) or none.
A result is named by the word it was read from. `GetOpt` keeps getopt's
rules: texts are skipped, one letter may abbreviate a long name, a cluster is
read letter by letter with a place in it (`nextchar`) that survives the call.
`stale` and `resumed` are ghosts: the letters getopt holds, or those it held when
`parse` began, are of another command line (with `HasOptreset` they never are).
Left out: longer abbreviations, clusters whose letters begin a name, and `?` or
`:` as a short form.

**Conversions.** The functions are pure; the machine calls one with its
arguments and keeps the reply until it returns, so that a property relates a
call to its reply. Data are scaled, not the code: `Thousand` and `Sixty` are
the ratios of the units, `Bits` the width of a count, `Mantissa` the digits of
a long double (the assumption `Bits <= Mantissa` is that of x86), `MaxHourOffset`
the 24 of line 222. A `struct tm` is the number of seconds `timegm` makes of it,
which leaves the calendar to the C library. A text is what its parts say:
how many fields it has and which second they name, its fraction as groups of
digits of base `Thousand` (three decimal digits each), its zone. Rounding is done in integers:
`FloatingPoint` keeps the leading digits, halves to even, with `Exponents` the
bound on the powers of two. A zone of a lone sign after a fraction meets an
assertion (timeutil.cpp:217): in a build with assertions the call is `aborted`,
in one without the sign is taken for `Z`, and both are modelled. `undefined` is the outcome where the
code adds past the limit of a count or prints a buffer it did not fill. Whether
`%Y` pads the years before 1000 is up to the C library, which is taken to. The constants' assumptions say what the code relies on: a
clock of four-digit years, shifted by the largest offset, is a count of seconds
(`ClockAssumption`), a group of digits is below its base (`TextsAssumption`), `Exponents`
reaches every scaled value (`ExponentsAssumption`), and the marks for missing parts of a
text are none of the parts. `PowersAssumption` says no more than that powers of two double, which
the provers do not know.

**SubString.** `view` maps the views in scope to their three fields; positions
and sizes are unsigned with `Width` bits, so that the subtraction at line 67
wraps as in the code. `heap` holds the C strings that are allocated; `shared` is
the only ghost, the C strings a copied view took along. Copying is what the
compiler generates: the class declares a copy assignment and a destructor but no
copy constructor. Reading goes through `Readable`: a string can be read up to
its terminating character. Reading further, using a C string that was freed and
reading a null pointer are outcomes of their own, after which nothing follows. `edit` is the program giving its string another value.

**Daemonize.** `at` is the system call a process makes next, `proc` what a fork
copies: session, directory, descriptors, streams, ids and whether the buffer of
stdout holds output. Each call is an action; those that can fail for reasons outside
the program have the failure as another (`Refused`, the second disjuncts of
`freopen_*`), and a process that failed is `threw`. `limit` is the answer of
`sysconf`, cut to an int as in line 77. `written` counts how often the output
the caller had buffered was written. The process calls are external and do what POSIX
says: `setsid` is refused to a group leader, `exit` and `freopen` flush, a
session leader without a terminal gets the one it opens, and only root may
take ids it has not.

**ArgumentVector.** `pointers` holds for each pointer the text it reads, or
`Dangling`; `room` is the capacity of the vector of pointers, which decides
whether `rebuild` moves it. Any allocation may throw: in `rebuild`, between two
strings of `add`, between two strings of a copy assignment. `held` is the object
whose pointers the program keeps from `argv()` and writes through (`change`).
`cause` is a ghost: the call that threw and left the object without a rebuild.

## What the runs check

| Run | Instance | Shows |
|---|---|---|
| `circular_array` | capacities 0-4, two values | counters in step with the storage (`RingIndices`), the constructed slots exactly the elements whatever throws (`SlotsAreExact`), refusals and losses only in full arrays and interrupted copies, refinement of `BoundedDeque` |
| `array_objects` | two objects, three buffers, capacity 2, one iterator with two-bit positions | unique ownership, no storage forgotten except by a throwing copy constructor, copies independent, what the iterator names after each call |
| `array_move_assign` | two objects, three buffers, no iterator | violated: a move assignment returns |
| `time_zone_env` | two threads, two zones | named zones, restoration, bounded disturbance, release of the mutex (with deadlock checking) |
| `sequential_map` | four keys, two values | the halves agree up to one interrupted insert, what `eraseIf` misfiles, refinement of `OrderedMap` |
| `tokenizer` | texts up to 4 characters, any range, two iterators | refinement of `TokenStream`, no part shared, loops end |
| `program_options` | three names (two share a first letter), six offered options, 10 words, up to 3 on a line, without optreset | distinct options, results follow the words read unless a parse resumes letters of another, what those can give, what ignoring covers, what a throw keeps |
| `program_options_linux` | same | violated: results follow the words read, in every parse |
| `substring` | two views, two characters, strings up to 3 | C strings owned and freed with the size they had, views inside unless the string shrank, writes read back and leave other views alone, what undefined behaviour takes |
| `conversions` | counts of 7 bits in all pairs of units; texts with every part on both sides of its limit | casts exact to the last count, written times read back, offsets subtracted except +00:mm, overflow thrown except through a fraction, numbers and durations as written |
| `daemonize` | root, a user with a group of its own and one in root's group; any two descriptors; limits on both sides of the largest int | only the grandchild returns, detached; both ids or none, except for root and another group; buffered output is written once by each process that leaves it; one process remains |
| `argument_vector` | two objects of up to three strings, two texts | pointers are the strings except after an interrupted copy assignment; a held `argv` goes only with its object |

Bounds. Four slots are enough for both ends to wrap with elements on either
side of the seam, for a full array in every rotation, and for one growth. Two
objects and three buffers give each object storage and one piece for a temporary or a
leak. Four keys put entries before, inside and after an erased range of two.
Four characters hold leading, trailing and doubled delimiters. Strings of
three have a place before, inside and behind a view for the other one. Three words hold
an option, its argument and a word that could be mistaken for either; two
parses in a row happen because `parse` returns to the same state space. Values
are symmetric where they are only compared. With 7 bits, and 3 and 2 for 1000
and 60, every unit reaches both limits of every other; 13 exponents hold the
largest count of hours in nanoseconds and the smallest fraction of an hour.
Two bits of position put an iterator on every element of an array of two,
at its end, and past both ends of the numbers. Three strings let an interrupted
assignment leave some new, some old, with the vector of pointers larger and
smaller than needed. Two descriptors lie on both sides of the limit or on one.

Deadlock checking is off where the program may stop: a failed condition ends
the process, and a tokenizer's or a parser's process has nothing it must do
next. It is on for the threads of `TimeZoneEnv` and for `Conversions`.

### Fairness

`TimeZoneEnv` assumes weak fairness of each thread's steps inside a call (the
scheduler runs a runnable thread) and nothing about who gets the mutex: the
property is that a holder lets go, not that a waiter is served. `Tokenizer`
assumes weak fairness of `increment`: a loop over an iterator takes its next
step. `Daemonize` assumes weak fairness of each process: the scheduler runs a
process that has a call to make, and every call returns. Other actions have no
fairness.

### Disagreements between the code and its documentation

1. Move assignment frees the storage it has just taken and then fails its own
   postconditions (circular_array.hpp:229; run `array_move_assign`).
2. On Linux `parse` does not reset getopt's place in a cluster
   (programoptions.cpp:324; run `program_options_linux`).

Also met, with no run of their own; the property named states what the code does:

- *Arrays.* `[]` and `at` refuse an index in range of a full array whose first
  element is not in slot 0 (circular_array.hpp:374; `RefusedOnlyWhenFullAndRotated`).
  `clear()` and `teardown()` destroy nothing in a full array
  (circular_array.hpp:585; `LossOnlyWhenFull`), and `reserve`, `resize` and `assign`
  inherit it. `shrink_to_fit` of an array that holds nothing and has room, and
  `assign` of no elements to one without room, end the process through the
  postcondition of `assign` (`BoundedDeque!StopOnNoPlaces`). `push_front` counts an element before it is
  constructed (circular_array.hpp:543; `SlotsAreExact` names the exception).
  `assign` of a range of the own elements ends the process, and `assign(n, a[i])`
  and `resize(n, a[i])` read what they have destroyed or freed (`BoundedDeque`
  allows them to).
- *Iterators.* The postfix `--` of the const and copy versions constructs an
  iterator from a position (iterator.hpp:364, 480), for which there is no
  constructor. `ForwardIterator::operator++` documents a `runtime_error` for the
  end iterator where a precondition terminates.
- *SequentialMap.* The exceptions `erase` documents for bad iterators are
  unreachable behind its preconditions. `eraseIf` leaves keys that find the
  entries of others (`EraseIfMisfiles`). `get_allocator` has no return statement.
- *Time zones.* A conversion in the local zone can be made in the zone another
  thread has set for its own conversion (timeutil.cpp:350;
  `LocalDisturbedOnlyByHolder`).
- *ProgramOptions.* The option string marks the short form of an option whose
  argument is optional as one that requires it (programoptions.cpp:219), so `-c`
  ends the parse, or takes the word behind it, where `--count` does neither;
  programoptions.hpp:36 and the brackets of `usage()` (programoptions.cpp:376) say
  that it may be left out. The properties take the option string at its word
  (`Needs`). `usage()` is documented to be empty until a parse succeeds and
  is not after one that throws; `hasOption` is true for an option that only has a
  default, and, depending on the compiler, for one whose required argument was
  missing when parse threw (line 338; `ThrowKeepsWhatWasRead`).
- *ArgumentVector.* A copy assignment that runs out of memory leaves pointers
  that dangle (`ArgvIsCurrent`). `argv()` has no null pointer at its end, which the
  `execv` of argumentvector.hpp:30 asks for.
- *daemonize.* `setuid` comes before `setgid`, so root can become a user only of
  root's own group (`IdsChangeTogether`), where daemonize.hpp:42 recommends it to
  hand a process over. daemonize.hpp:37 speaks of a returned error code where
  the function throws. Output not flushed before the call is written by each
  process (`BufferedOutputIsCopied`).
- *Conversions.* The minutes of a zone +00:mm are added where those of every
  other zone ahead of UTC are subtracted (timeutil.cpp:246; `OffsetIsSubtracted`),
  and those of a zone text of seven characters or more are ignored (line 235).
  convert.hpp:75 gives `convert("1m")` as one minute, which is refused since only
  `min` is known. A time point before the epoch is written without its fraction
  (timeutil.hpp:283). For a year after 9999 the buffer that is printed was never
  filled (timeutil.cpp:301). `fromIso8601String` checks the whole seconds for
  overflow but not the sum with the fraction (timeutil.hpp:214).
- *SubString.* Assigning a view copies as many characters as the target had, not
  the source (substring.hpp:119). A copy of a view that keeps a C string frees it
  a second time. An assignment after `c_str()` fails a precondition (line 250).
  `c_str()` of a view out of range is null where line 157 documents an empty
  string. A position at or behind the end ends the process in a postcondition
  (line 71), while `npos` gives a view of one character more than the string has.
  Assigning a null pointer is documented to throw `invalid_argument` (line 125)
  and is not checked. The `operator<` of a pointer and a view (line 355) calls
  `size()` on the pointer, so it cannot be used and is not modelled.

## What is proved

| Theorem | Statement |
|---|---|
| `CircularArrayProofs!TypeCorrect` | `[]TypeOK` |
| `CircularArrayProofs!RingCorrect` | `[](RingIndices /\ ElementsAreConstructed)` |
| `CircularArrayProofs!SlotsCorrect` | `[]SlotsAreExact` |
| `CircularArrayProofs!RefusalsCorrect` | `[]RefusedOnlyWhenFullAndRotated` |
| `CircularArrayProofs!LossesExplained` | `LossOnlyWhenFull` |
| `CircularArrayProofs!DequeImplemented` | `ImplementsDeque` |
| `ArrayIteratorsProofs!StorageOwned`, `CopiesIndependent` | `[]StorageHasOneOwner`, `CopiesAreIndependent` |
| `ArrayIteratorsProofs!OnlyAssignmentUndermines` | `OnlyInterruptedAssignmentUndermines` |
| `ArrayIteratorsProofs!IteratorsNamePlaces`, `ArithmeticCorrect` | `IteratorNamesPlace`, `ArithmeticIsExact` |
| `SequentialMapProofs!HalvesAgreed` | `[]HalvesAgree` |
| `SequentialMapProofs!OrderedMapImplemented` | `ImplementsOrderedMap` |
| `SequentialMapProofs!EraseIfAlwaysMisfiles` | `EraseIfMisfiles` |
| `TimeProofs!NamedZoneCorrect` | `[]NamedZoneIsUsed` |
| `TimeProofs!ZoneRestoredCorrect` | `[]ZoneHandedBack` |
| `TimeProofs!DisturbanceCorrect` | `LocalDisturbedOnlyByHolder` |
| `TimeProofs!OffsetSubtracted` | `ConvSpec => []OffsetIsSubtracted` |
| `TimeProofs!CastExact`, `WrittenRead` | `ConvSpec => []CastIsExact`, `ConvSpec => []WrittenIsRead` |
| `TimeProofs!InstantRead`, `ConvertedCorrectly` | `ConvSpec => []InstantIsRead`, `ConvSpec => []ConvertedAsWritten` |
| `TokenizerProofs!TokensCorrect`, `StreamImplemented` | `[]TokensAccountedFor`, `ImplementsStream` |
| `ProgramOptionsProofs!OptionsCorrect`, `TypeCorrect` | `[]OptionsAreDistinct`, `[]TypeOK` |
| `ProgramOptionsProofs!ResultsCorrect`, `ThrowCorrect` | `[]ResultsFollowUnlessResumed`, `ThrowKeepsWhatWasRead` |
| `ProgramOptionsProofs!OptresetSuffices` | `HasOptreset /\ Spec => []ResultsFollowCommandLine` |
| `ProgramOptionsProofs!IgnoringCorrect`, `NowhereCorrect` | `IgnoringThrowsOnlyForEmpty`, `[]NoArgumentFromNowhere` |
| `SubStringProofs!TypeCorrect`, `CStringsCorrect` | `[]TypeOK`, `[]CStringsAccountedFor` |
| `SubStringProofs!UndefinedCorrect`, `InsideCorrect`, `WritesCorrect` | `UndefinedOnlyOutside`, `InsideUnlessShortened`, `WritesThrough` |
| `ProcessProofs!DetachedCorrect`, `IdsCorrect`, `OutputCorrect` | `[]DaemonIsDetached`, `[]IdsChangeTogether`, `[]BufferedOutputIsCopied` |
| `ProcessProofs!ArgvCorrect`, `HeldArgvCorrect` | `ArgSpec => []ArgvIsCurrent`, `ArgSpec => HeldArgvIsFreedByItsOwner` |

Each module's theorem `Invariance` (or the lemmas `Initially` and `Steps`)
establishes an inductive invariant `IInv`, from the constants' assumptions
alone.

- *CircularArray.* Neither typing nor `ElementsAreConstructed` is inductive
  alone: `pop_back` destroys the slot before `_last`, which is an element's slot
  only if `_last = Position(_size)`. The invariant therefore joins the counters
  (`RingIndices`) with the constructed slots. The lemma `PositionsInStorage`
  says that no two elements share a slot, `RoomAtLast` that a push finds a free
  one; there is one lemma for each operation.
  `SlotsCorrect` adds that nothing else is constructed (`Owned`): every call
  either keeps the constructed slots those of the elements or sets `leaked`,
  which is never reset (`LeakedStep`). `LossesExplained` uses both: what a call
  forgets of the storage (`LosesElements`) is empty unless the array is full
  (`NothingElseToLose`). `DequeImplemented` maps the slots, read from `_first`
  on, to the deque's sequence: for each group of calls a lemma says what the
  contents become (`ContentsAfter`, `MovedContents`, `FilledContents`,
  `ResizedInPlace`), and `CallRefines` that the call is the deque's. Behind a
  half-done `push_front` the sequence starts with the unconstructed slot.
- *Daemonize.* A process is at a place it can be (`Places`), `Detached` says what
  each call behind it has done, and `Identified` which ids it has at that place;
  all three are needed because a fork hands them to another process
  (`ForkKeeps`). One lemma for each call, and `StepOfOne` for the others.
  `Buffered` adds whose buffer still holds the caller's output, and that the
  process about to be forked is not there yet, so that none is counted twice.
- *ArgumentVector.* `Sound` says what an object can be, given the call that threw
  last on it: never more pointers than strings, each of them the string's or
  dangling. The lengths are what makes it inductive: a second range that throws
  only adds strings, and a copy assignment that throws half-way changes none.
  The object whose argv is held exists, so that what is written through it is read
  back by both vectors (`ChangeKeeps`).
- *CircularArrayObjects and ArrayIterators.* The invariant says whose each piece
  of storage is and that its owner counts what is in it; the objects that lost
  their storage to an interrupted assignment are its one exception, and what that
  assignment leaves is what `OnlyAssignmentUndermines` states. Copies are
  independent because a call writes only the storage of the objects it is made
  on (a frame lemma for each call). `IteratorsNamePlaces` takes the same frame for
  the iterator's array and adds, call by call, where its position lands. The
  arithmetic is not an invariant: the sums and differences for all positions and
  differences, for any `Half`, the least difference included.
- *SequentialMap.* `Filed(n)` says that the first n entries have their places
  filed and no other key is known; the invariant is `Filed` of all entries, or of
  all but the last behind an interrupted insertion (`InStep`). It gives the number
  of keys (`Counted`), so that the precondition of every call, which compares two
  sizes, is a statement about places (`AgreedIsFiled`). An erasure moves the
  places behind it with the entries (`EraseKeeps`). The map being filed is also
  what makes it an `OrderedMap`: a key has one entry (`OneEntry`). For `eraseIf`
  the entries that stay are numbered by their ranks (`Ranks`): if none is
  displaced the call is an erasure of the last ones (`EraseIfOfLast`); if one is,
  an entry that goes is among the first places and one that stays is behind
  them (`DisplacedPlaces`), which is what misfiles both.
- *TimeZoneEnv.* The invariant ties the holder of the mutex to the threads'
  positions (exactly the holder is between lock and unlock) and says for each
  position what is in `TZ`, in effect and in `oldtz`. That is what the safety
  properties, which speak only of some positions, need between them.
- *Tokenizer.* That what is held was taken is inductive with the typing of the positions,
  because `next` returns a part that ends before the new position (`NextTakes`).
  For the stream, the first cut behind the position divides the split of the rest
  of the text into the part before it and the split behind it (`SplitAtCut`); that is
  the part `next` takes and the position it goes on from (`NextCuts`).
- *ProgramOptions.* The table stays distinct since `verifyOption` compares the
  resolved short form of a new option with the resolved ones stored. What a call of
  getopt can return (`Returned`, one lemma for each kind of word) gives the types,
  and that an argument which is empty was the word before the place getopt went on
  to (`ArgumentOf`), which is what a parse that ignores unknown options can still
  throw for. That the place is on the command line unless the letters are stale is
  `PlaceInv`; where they are, an option that comes with an argument leaves the place
  behind word 1, and so beyond a command line of none (`NowhereTurns`).
  For the results the invariant `Reading` says where getopt is: in front of a
  word that is not an argument, with the results of the words before it
  (`Shows`), or in a cluster behind its first k letters, with the options
  of those letters added. Which words are arguments is a recursion over the words;
  it has a solution because a word is an argument exactly if the words that
  want their next one, counted back from it, are odd in number (`OddRuns`,
  `UsedStep`). `CallRead` is the step: what one call stores, and where it leaves
  getopt, is `Reading` again (`NamedRead` for a name, `LetterRead` for a letter).
  `ThrowCorrect` takes the same invariant to the turn that throws.
  `Reading` holds from the start of a parse that was left no letters; `resumed`
  remembers whether it was. With optreset it never is (`OptresetSuffices`);
  without, the run `program_options_linux` finds the results in disagreement.
- *SubString.* `CStringsAccountedFor` is inductive with the typing of the fields
  (`Typed`): a view that is written keeps no C string, so no size changes under
  one (`ReplaceKeeps`), and what `c_str()` copies has the view's size
  (`DataRead`). `UndefinedCorrect` then goes through the calls: an own C string
  is allocated, and a view inside the string is readable in its whole length
  (`InsideIsReadable`). The other three rest on `Room`, that positions and
  lengths in a string stay below `npos`, so that the constructor's unsigned
  room is an ordinary difference inside the string, and on `ReplacedText`, what
  the string is position by position behind a write. A write moves only what is
  behind its view (`ReplacedInside`); the view reads back what was written
  (`ReadsBack`, and `DataOfInside` for another view's text), and so do the views
  before it, and those behind it if the size is the same (`OthersRead`).
- *Conversions.* The invariant `CallAnswered` says that a reply is what the function
  called gives (one step for each kind of call); the rest is about the functions.
  `ShiftUndoesOffset` is the arithmetic of `timeZoneShift` for every length of an
  hour and a minute. That a cast is exact (`CastIs`) although it is decided and
  computed in a long double rests on two facts. Rounding does not pass a number
  that a long double represents (`RoundedKeepsSide`), which the limits of the target
  and the whole quotients are (`LimitsAre`, `WholeIsKept`): so nothing beyond a
  limit comes back to it, and what is in range is not cut to less. From
  below, rounding could still reach the next whole count; it does not, because
  the distance to it is at least one count of the smaller unit and the rounding
  error of a number of so few digits is less (`RoundedCast`). Both need that one of two
  periods divides the other (`PeriodsDivide`) and as many digits as a count has
  bits (`MantissaAssumption`; the mutant with two fewer fails). The round trip
  through a text is division by the period of a second (`PartsOfCount`) and the
  reading of the fraction as printed (`FractionIs`); the instant read is bounded by
  what the year 9999 and the largest offset leave (`ParsedIs`).

Every safety and action property, and every refinement, that a passing run checks
has a theorem; the type invariants of `ProgramOptions` and `SubString` are proved
and no run repeats them. Only model-checked are the liveness properties `MutexReleased`,
`LoopsEnd` and `OneRemains`: liveness under fairness and `ENABLED` are out of TLAPS'
reach. So are the theorems of the library about induction that take an operator;
least elements of sets of numbers can be had from well-foundedness
(`SequentialMapProofs!Least`). No module declares a `RECURSIVE` operator.

## Not modelled

`swap` and copies of `SequentialMap`, which exchange or copy both halves, and
what a map shuffled by `eraseIf` does beyond `find`, `at` and `clear`; the
second use of an element that a throwing `push_front` counted; the exchange of two array
iterators and the reverse iterators; of the conversions, localized text,
floating point numbers, clocks finer than a nanosecond. A `setenv` that fails
(its result is not looked at, so the conversion would be made in another zone);
memory that runs out while options are added or a view is written (in
`basic_string::replace` the string stays as it was, substring.hpp:258); the descriptor that `syslog()`
opens in the daemon (daemonize.cpp:91); an argument vector that is move assigned
to itself (argumentvector.hpp:58); the pointers inside an `argv` the program
holds across an `add` that threw, of which only the buffer is followed. The stateless
components at the end of the inventory are left out because a model would only
restate a standard library call.

## Plan

Extensions: the floating point and localized conversions, two maps that are
swapped, each with the theorems of its safety properties.

---------------------------- MODULE TimeProofs ----------------------------
(***************************************************************************)
(* Theorems about TimeZoneEnv for any number of threads and zones, and     *)
(* about Conversions for every text and every value of the constants.      *)
(***************************************************************************)
EXTENDS TimeZoneEnv, Conversions, NaturalsInduction, WellFoundedInduction, TLAPS

-----------------------------------------------------------------------------
(* The time zone of the process.                                           *)

(* The holder of tzEnvMutex is the one thread between Lock and Unlock.     *)
HolderInside == \A t \in Threads : pc[t] \in Steps <=> tzEnvMutex = t

(* What the holder has achieved at each step towards using its zone.       *)
ZoneInstalled ==
    \A t \in Threads :
        /\ pc[t] \in {"local", "lock", "getenv", "setenv", "tzset", "convert"} => used[t] = Failed
        /\ pc[t] \in {"tzset", "convert", "restore"} => env = tzone[t]
        /\ pc[t] = "convert" => zone = tzone[t]

(* TZ and the zone in effect outside the steps that changed them.          *)
ZoneKept ==
    OldtzSurvives =>
        /\ \A t \in Threads :
              /\ pc[t] \in {"getenv", "setenv", "retzset", "unlock"} => env = machine
              /\ pc[t] \in {"getenv", "setenv", "unlock"} => zone \in {machine, Unread}
              /\ pc[t] \in {"setenv", "tzset", "convert", "restore", "retzset"} => oldtz[t] = machine
        /\ tzEnvMutex = Free => env = machine /\ zone \in {machine, Unread}

IInv == TypeOK /\ HolderInside /\ ZoneInstalled /\ NamedZoneIsUsed /\ ZoneKept

LEMMA Initially == Init => IInv
<1> SUFFICES ASSUME Init PROVE IInv
  OBVIOUS
<1>1. TypeOK
  BY DEF Init, TypeOK, Settings, Calls
<1>2. HolderInside /\ ZoneInstalled /\ NamedZoneIsUsed /\ ZoneKept
  BY ValuesAssumption DEF Init, HolderInside, ZoneInstalled, NamedZoneIsUsed, ZoneKept, Steps
<1> QED BY <1>1, <1>2 DEF IInv

(* A conversion without a zone, and the one of the holder.                 *)
LEMMA ConversionTypes ==
    ASSUME TypeOK, NEW t \in Threads, Converts(t)
    PROVE  /\ zone' \in Settings
           /\ used' \in [Threads -> Settings \cup {Failed}]
           /\ \A u \in Threads \ {t} : used'[u] = used[u]
           /\ used'[t] \in {used[t], zone'}
           /\ UNCHANGED <<env, inPlace, machine, tzEnvMutex, call, tzone, oldtz>>
BY DEF TypeOK, Converts, Effective

LEMMA TypeStep == ASSUME TypeOK, [Next]_vars PROVE TypeOK'
<1>1. ASSUME NEW t \in Threads, NEW f \in Calls, NEW z \in Settings, Enter(t, f, z) PROVE TypeOK'
  BY <1>1 DEF TypeOK, Enter, Goto, library
<1>2. ASSUME NEW t \in Threads, ConvertLocal(t) PROVE TypeOK'
  BY <1>2, ConversionTypes DEF TypeOK, ConvertLocal, Goto
<1>3. ASSUME NEW t \in Threads, Convert(t) PROVE TypeOK'
  BY <1>3, ConversionTypes DEF TypeOK, Convert, Goto, Steps
<1>4. ASSUME NEW t \in Threads, Lock(t) \/ Unlock(t) PROVE TypeOK'
  BY <1>4 DEF TypeOK, Lock, Unlock, Goto, Steps, library
<1>5. ASSUME NEW t \in Threads, GetEnv(t) \/ SetEnv(t) PROVE TypeOK'
  BY <1>5 DEF TypeOK, GetEnv, SetEnv, Goto, Steps, library
<1>6. ASSUME NEW t \in Threads, TzSet(t) \/ Restore(t) \/ ReTzSet(t) PROVE TypeOK'
  BY <1>6 DEF TypeOK, TzSet, Restore, ReTzSet, Goto, Steps
<1>7. CASE UNCHANGED vars
  BY <1>7 DEF TypeOK, vars
<1> QED BY <1>1, <1>2, <1>3, <1>4, <1>5, <1>6, <1>7 DEF Next

(* The library's variables after a conversion outside the mutex: what it   *)
(* leaves is what the holder, or the machine, put there.                   *)
LEMMA LocalConversionKeeps ==
    ASSUME IInv, NEW t \in Threads, ConvertLocal(t)
    PROVE  HolderInside' /\ ZoneInstalled' /\ NamedZoneIsUsed' /\ ZoneKept'
<1>1. /\ zone' \in {env, zone} /\ (zone = Unread => zone' = env)
      /\ UNCHANGED <<env, inPlace, machine, tzEnvMutex, tzone, oldtz>>
      /\ \A u \in Threads \ {t} : used'[u] = used[u] /\ pc'[u] = pc[u]
      /\ pc[t] = "local" /\ pc'[t] = "idle"
  BY DEF IInv, TypeOK, ConvertLocal, Goto, Converts, Effective
<1>2. HolderInside'
  BY <1>1 DEF IInv, HolderInside, Steps
<1>3. ZoneInstalled' /\ NamedZoneIsUsed'
  BY <1>1 DEF IInv, ZoneInstalled, NamedZoneIsUsed
<1>4. ZoneKept'
  BY <1>1 DEF IInv, ZoneKept, OldtzSurvives
<1> QED BY <1>2, <1>3, <1>4

(* One step of the holder of the mutex, all other threads standing still.  *)
LEMMA HolderStepKeeps ==
    ASSUME IInv, NEW t \in Threads, Inside(t)
    PROVE  HolderInside' /\ ZoneInstalled' /\ NamedZoneIsUsed' /\ ZoneKept'
<1>1. /\ pc[t] \in Steps
      /\ tzEnvMutex = t
      /\ \A u \in Threads \ {t} : pc[u] \notin Steps
  BY ValuesAssumption DEF IInv, HolderInside, Inside, GetEnv, SetEnv, TzSet, Convert, Restore, ReTzSet, Unlock, Goto, Steps
<1>2. /\ \A u \in Threads \ {t} : pc'[u] = pc[u] /\ used'[u] = used[u]
      /\ UNCHANGED <<machine, inPlace, tzone>>
  BY DEF IInv, TypeOK, Inside, GetEnv, SetEnv, TzSet, Convert, Converts, Restore, ReTzSet, Unlock, Goto, library
<1>3. HolderInside'
  BY <1>1, <1>2, ValuesAssumption DEF IInv, TypeOK, HolderInside, Inside, GetEnv, SetEnv, TzSet,
     Convert, Converts, Restore, ReTzSet, Unlock, Goto, library, Steps
<1>4. ZoneInstalled' /\ NamedZoneIsUsed'
  <2>1. \A u \in Threads \ {t} : pc'[u] \notin Steps
    BY <1>1, <1>2
  <2>2. \A u \in Threads \ {t} : pc'[u] \in {"local", "lock"} => used'[u] = Failed
    BY <1>2 DEF IInv, ZoneInstalled
  <2>3. /\ pc'[t] \notin {"local", "lock"}
        /\ pc'[t] \in {"getenv", "setenv", "tzset", "convert"} => used'[t] = Failed
        /\ pc'[t] \in {"tzset", "convert", "restore"} => env' = tzone[t]
        /\ pc'[t] = "convert" => zone' = tzone[t]
        /\ pc'[t] \in {"restore", "retzset", "unlock"} => used'[t] \in {tzone[t], Failed}
    BY <1>1 DEF IInv, TypeOK, ZoneInstalled, NamedZoneIsUsed, Inside, GetEnv, SetEnv, TzSet, Convert,
       Converts, Effective, Restore, ReTzSet, Unlock, Goto, library
  <2> QED BY <2>1, <2>2, <2>3, <1>2 DEF ZoneInstalled, NamedZoneIsUsed, Steps
<1>5. ZoneKept'
  <2> SUFFICES ASSUME OldtzSurvives' PROVE ZoneKept'
    BY DEF ZoneKept
  <2>1. OldtzSurvives /\ ~(inPlace /\ machine # Unset)
    BY <1>2 DEF OldtzSurvives
  <2>2. \A u \in Threads \ {t} : pc'[u] \notin Steps
    BY <1>1, <1>2
  <2>3. /\ pc'[t] \in {"getenv", "setenv", "retzset", "unlock"} => env' = machine
        /\ pc'[t] \in {"getenv", "setenv", "unlock"} => zone' \in {machine, Unread}
        /\ pc'[t] \in {"setenv", "tzset", "convert", "restore", "retzset"} => oldtz'[t] = machine
        /\ tzEnvMutex' = Free => env' = machine /\ zone' \in {machine, Unread}
    BY <1>1, <2>1, ValuesAssumption DEF IInv, TypeOK, ZoneKept, Inside, GetEnv, SetEnv, TzSet,
       Convert, Converts, Effective, Restore, ReTzSet, Unlock, Goto, library
  <2> QED BY <2>2, <2>3, <1>2 DEF ZoneKept, Steps
<1> QED BY <1>3, <1>4, <1>5

(* Entering a call or taking the mutex leaves the C library alone.         *)
LEMMA EnterKeeps ==
    ASSUME IInv, NEW t \in Threads, NEW f \in Calls, NEW z \in Settings, Enter(t, f, z)
    PROVE  HolderInside' /\ ZoneInstalled' /\ NamedZoneIsUsed' /\ ZoneKept'
<1>1. /\ pc'[t] \in {"local", "lock"} /\ used'[t] = Failed /\ pc[t] = "idle"
      /\ \A u \in Threads \ {t} : pc'[u] = pc[u] /\ used'[u] = used[u] /\ tzone'[u] = tzone[u]
      /\ UNCHANGED <<env, zone, inPlace, machine, tzEnvMutex, oldtz>>
  BY DEF IInv, TypeOK, Enter, Goto, library
<1>2. HolderInside'
  BY <1>1 DEF IInv, HolderInside, Steps
<1>3. ZoneInstalled' /\ NamedZoneIsUsed'
  BY <1>1 DEF IInv, ZoneInstalled, NamedZoneIsUsed
<1>4. ZoneKept'
  BY <1>1 DEF IInv, ZoneKept, OldtzSurvives
<1> QED BY <1>2, <1>3, <1>4

LEMMA LockKeeps ==
    ASSUME IInv, NEW t \in Threads, Lock(t)
    PROVE  HolderInside' /\ ZoneInstalled' /\ NamedZoneIsUsed' /\ ZoneKept'
<1>1. /\ pc'[t] = "getenv" /\ pc[t] = "lock"
      /\ \A u \in Threads \ {t} : pc'[u] = pc[u]
      /\ tzEnvMutex = Free /\ tzEnvMutex' = t
      /\ UNCHANGED <<env, zone, inPlace, machine, tzone, oldtz, used>>
  BY DEF IInv, TypeOK, Lock, Goto, library
<1>2. HolderInside'
  BY <1>1, ValuesAssumption DEF IInv, HolderInside, Steps
<1>3. ZoneInstalled' /\ NamedZoneIsUsed'
  BY <1>1 DEF IInv, ZoneInstalled, NamedZoneIsUsed
<1>4. ZoneKept'
  BY <1>1, ValuesAssumption DEF IInv, ZoneKept, OldtzSurvives
<1> QED BY <1>2, <1>3, <1>4

LEMMA InductiveStep == ASSUME IInv, [Next]_vars PROVE IInv'
<1>1. TypeOK'
  BY TypeStep DEF IInv
<1>2. HolderInside' /\ ZoneInstalled' /\ NamedZoneIsUsed' /\ ZoneKept'
  <2>1. ASSUME NEW t \in Threads, NEW f \in Calls, NEW z \in Settings, Enter(t, f, z)
        PROVE HolderInside' /\ ZoneInstalled' /\ NamedZoneIsUsed' /\ ZoneKept'
    BY <2>1, EnterKeeps
  <2>2. ASSUME NEW t \in Threads, Lock(t)
        PROVE HolderInside' /\ ZoneInstalled' /\ NamedZoneIsUsed' /\ ZoneKept'
    BY <2>2, LockKeeps
  <2>3. ASSUME NEW t \in Threads, ConvertLocal(t)
        PROVE HolderInside' /\ ZoneInstalled' /\ NamedZoneIsUsed' /\ ZoneKept'
    BY <2>3, LocalConversionKeeps
  <2>4. ASSUME NEW t \in Threads, Inside(t)
        PROVE HolderInside' /\ ZoneInstalled' /\ NamedZoneIsUsed' /\ ZoneKept'
    BY <2>4, HolderStepKeeps
  <2>5. CASE UNCHANGED vars
    BY <2>5 DEF IInv, vars, HolderInside, ZoneInstalled, NamedZoneIsUsed, ZoneKept, OldtzSurvives
  <2> QED BY <2>1, <2>2, <2>3, <2>4, <2>5 DEF Next, Inside
<1> QED BY <1>1, <1>2 DEF IInv

-----------------------------------------------------------------------------
(* The invariant, for any number of threads.                               *)
THEOREM Invariance == Spec => []IInv
BY Initially, InductiveStep, PTL DEF Spec

(* A conversion in a named zone is made in that zone, whatever any number  *)
(* of other threads convert meanwhile.                                     *)
THEOREM NamedZoneCorrect == Spec => []NamedZoneIsUsed
<1>1. IInv => NamedZoneIsUsed
  BY DEF IInv
<1> QED BY Invariance, <1>1, PTL

(* Whenever the mutex is free, TZ and the zone in effect are the machine's,*)
(* if getenv's string survives.                                            *)
THEOREM ZoneRestoredCorrect == Spec => []ZoneHandedBack
<1>1. IInv => ZoneHandedBack
  BY DEF IInv, ZoneKept, ZoneRestored, ZoneHandedBack
<1> QED BY Invariance, <1>1, PTL

(* A local conversion is disturbed only while another thread holds the     *)
(* mutex.                                                                  *)
THEOREM DisturbanceCorrect == Spec => LocalDisturbedOnlyByHolder
<1> DEFINE Step ==
      \A t \in Threads :
         OldtzSurvives /\ pc[t] = "local" /\ used'[t] \notin {machine, Failed}
             => tzEnvMutex \in Threads \ {t}
<1>1. IInv /\ [Next]_vars => [Step]_vars
  <2> SUFFICES ASSUME IInv, [Next]_vars, NEW t \in Threads, OldtzSurvives, pc[t] = "local",
                      used'[t] \notin {machine, Failed}
               PROVE  tzEnvMutex \in Threads \ {t}
    OBVIOUS
  <2>1. tzEnvMutex # t
    BY DEF IInv, HolderInside, Steps
  <2>2. used[t] = Failed
    BY DEF IInv, ZoneInstalled
  <2>3. ConvertLocal(t)
    BY <2>2 DEF IInv, TypeOK, Next, vars, Enter, Converts, ConvertLocal, Lock, GetEnv, SetEnv,
       TzSet, Convert, Restore, ReTzSet, Unlock, Goto
  <2>4. used'[t] = Effective(call[t])
    BY <2>2, <2>3 DEF IInv, TypeOK, ConvertLocal, Converts
  <2>5. ASSUME tzEnvMutex = Free PROVE FALSE
    BY <2>4, <2>5 DEF IInv, ZoneKept, Effective
  <2> QED BY <2>1, <2>5 DEF IInv, TypeOK
<1> QED BY Invariance, <1>1, PTL DEF Spec, LocalDisturbedOnlyByHolder

-----------------------------------------------------------------------------
(* Casts between durations.                                                *)

(* A set of numbers has a least one.                                       *)
LEMMA Least ==
    ASSUME NEW T \in SUBSET Nat, T # {}
    PROVE  \E x \in T : \A y \in T : x <= y
<1> DEFINE R == OpToRel(<, Nat)
<1>1. IsWellFoundedOn(R, Nat)
  BY NatLessThanWellFounded
<1>2. \A x, y \in Nat : x < y => <<x, y>> \in R
  BY DEF OpToRel
<1> HIDE DEF R
<1>3. PICK x \in T : \A y \in T : ~(<<y, x>> \in R)
  BY <1>1, WFMin
<1>4. ASSUME NEW y \in T
      PROVE  x <= y
  <2>1. x \in Nat /\ y \in Nat
    OBVIOUS
  <2>2. ~(y < x)
    BY <1>2, <1>3, <2>1
  <2> QED BY <2>1, <2>2
<1> QED BY <1>4

LEMMA Times ==
    ASSUME NEW a \in Nat, NEW b \in Nat, NEW c \in Nat, a <= b
    PROVE  a * c <= b * c /\ c * a <= c * b /\ a * c \in Nat /\ b * c \in Nat
<1> QED OBVIOUS

LEMMA LessTimes ==
    ASSUME NEW a \in Nat, NEW b \in Nat, NEW c \in Nat, a * c < b * c
    PROVE  a < b
<1> QED OBVIOUS

LEMMA AtMostTimes ==
    ASSUME NEW a \in Nat, NEW b \in Nat, NEW c \in Nat \ {0}, a * c <= b * c
    PROVE  a <= b
<1> QED OBVIOUS

(* Division.                                                               *)
LEMMA Quotient ==
    ASSUME NEW m \in Nat, NEW d \in Nat \ {0}
    PROVE  /\ m \div d \in Nat /\ m % d \in Nat /\ m % d < d
           /\ m = (m \div d) * d + (m % d)
<1>1. m \div d \in Int
  OBVIOUS
<1>2. m % d \in 0 .. d - 1
  OBVIOUS
<1>3. m = d * (m \div d) + (m % d)
  OBVIOUS
<1>4. m \div d >= 0
  OBVIOUS
<1> QED BY <1>1, <1>2, <1>3, <1>4

LEMMA QuotientIs ==
    ASSUME NEW m \in Nat, NEW d \in Nat \ {0}, NEW q \in Nat, q * d <= m, m < (q + 1) * d
    PROVE  m \div d = q
<1> QED OBVIOUS

LEMMA PowerPositive == \A k \in 0 .. 2 * Exponents + 1 : 2 ^ k \in Nat \ {0}
<1> DEFINE T == {k \in 0 .. 2 * Exponents + 1 : 2 ^ k \notin Nat \ {0}}
<1>1. T \subseteq Nat /\ Exponents \in Nat
  BY ExponentsAssumption
<1>2. ASSUME T # {} PROVE FALSE
  <2>1. PICK k \in T : \A y \in T : k <= y
    BY <1>1, <1>2, Least
  <2>2. CASE k = 0
    BY <2>1, <2>2, PowersAssumption
  <2>3. CASE k # 0
    <3>1. k - 1 \in 0 .. 2 * Exponents /\ k - 1 \notin T
      BY <1>1, <2>1, <2>3
    <3>2. 2 ^ (k - 1) \in Nat \ {0} /\ 2 ^ ((k - 1) + 1) = 2 * 2 ^ (k - 1)
      BY <1>1, <3>1, PowersAssumption
    <3>3. (k - 1) + 1 = k
      BY <1>1, <2>1
    <3>4. 2 ^ k \in Nat \ {0}
      BY <3>2, <3>3
    <3> QED BY <2>1, <3>4
  <2> QED BY <2>2, <2>3
<1> QED BY <1>2

LEMMA PowerSum ==
    ASSUME NEW a \in Nat, NEW b \in Nat, a + b <= 2 * Exponents + 1
    PROVE  2 ^ (a + b) = 2 ^ a * 2 ^ b
<1> DEFINE T == {k \in 0 .. b : 2 ^ (a + k) # 2 ^ a * 2 ^ k}
<1>1. T \subseteq Nat /\ Exponents \in Nat
  BY ExponentsAssumption
<1>2. ASSUME T # {} PROVE FALSE
  <2>1. PICK k \in T : \A y \in T : k <= y
    BY <1>1, <1>2, Least
  <2>2. 2 ^ a \in Nat /\ 2 ^ 0 = 1 /\ a + 0 = a
    BY <1>1, PowerPositive, PowersAssumption
  <2>3. CASE k = 0
    BY <2>1, <2>2, <2>3
  <2>4. CASE k # 0
    <3> DEFINE j == k - 1
    <3>1. j \in 0 .. 2 * Exponents /\ j \in 0 .. b /\ j \notin T /\ a + j \in 0 .. 2 * Exponents
      BY <1>1, <2>1, <2>4
    <3>2. 2 ^ (a + j) = 2 ^ a * 2 ^ j
      BY <3>1
    <3>3. 2 ^ (j + 1) = 2 * 2 ^ j /\ 2 ^ ((a + j) + 1) = 2 * 2 ^ (a + j) /\ 2 ^ j \in Nat
      BY <3>1, PowersAssumption
    <3>4. j + 1 = k /\ (a + j) + 1 = a + k
      BY <1>1, <2>1
    <3> HIDE DEF j
    <3>5. 2 ^ (a + k) = 2 * (2 ^ a * 2 ^ j) /\ 2 ^ k = 2 * 2 ^ j
      BY <3>2, <3>3, <3>4
    <3>6. 2 ^ (a + k) = 2 ^ a * 2 ^ k
      BY <2>2, <3>3, <3>5
    <3> QED BY <2>1, <3>6
  <2> QED BY <2>3, <2>4
<1>3. b \notin T
  BY <1>2
<1> QED BY <1>3

(* Rounding to whole numbers is off by a half at most, and passes none.    *)
LEMMA ToEvenIsNear ==
    ASSUME NEW m \in Nat, NEW d \in Nat \ {0}
    PROVE  /\ ToEven(m, d) \in Nat
           /\ 2 * (ToEven(m, d) * d) <= 2 * m + d
<1> DEFINE q == m \div d
           r == m % d
           t == ToEven(m, d)
<1>1. q \in Nat /\ r \in Nat /\ r < d /\ m = q * d + r
  BY Quotient
<1>2. t = q \/ (t = q + 1 /\ 2 * r >= d)
  BY <1>1 DEF ToEven
<1> HIDE DEF q, r, t
<1>3. CASE t = q
  BY <1>1, <1>3 DEF t
<1>4. CASE t = q + 1 /\ 2 * r >= d
  <2>1. t * d = q * d + d
    BY <1>1, <1>4
  <2> QED BY <1>1, <1>4, <2>1 DEF t
<1> QED BY <1>2, <1>3, <1>4

LEMMA ToEvenKeepsSide ==
    ASSUME NEW m \in Nat, NEW d \in Nat \ {0}, NEW k \in Nat
    PROVE  /\ k * d <= m => k <= ToEven(m, d)
           /\ m <= k * d => ToEven(m, d) <= k
<1> DEFINE q == m \div d
           r == m % d
           t == ToEven(m, d)
<1>1. q \in Nat /\ r \in Nat /\ r < d /\ m = q * d + r
  BY Quotient
<1>2. t = q \/ (t = q + 1 /\ 2 * r >= d)
  BY <1>1 DEF ToEven
<1> HIDE DEF q, r, t
<1>3. ASSUME k * d <= m PROVE k <= t
  <2>1. (q + 1) * d = q * d + d
    BY <1>1
  <2>2. k * d < (q + 1) * d
    BY <1>1, <1>3, <2>1
  <2>3. k < q + 1
    BY <1>1, <2>2, LessTimes
  <2> QED BY <1>1, <1>2, <2>3
<1>4. ASSUME m <= k * d PROVE t <= k
  <2>1. q * d <= k * d
    BY <1>1, <1>4
  <2>2. q <= k
    BY <1>1, <2>1, AtMostTimes
  <2>3. CASE r = 0
    BY <1>1, <1>2, <2>2, <2>3
  <2>4. CASE r > 0
    <3>1. q * d < k * d
      BY <1>1, <1>4, <2>4
    <3>2. q < k
      BY <1>1, <3>1, LessTimes
    <3> QED BY <1>1, <1>2, <3>2
  <2> QED BY <1>1, <2>3, <2>4
<1> QED BY <1>3, <1>4 DEF t

(* The scale that a floating point number counts in.                       *)
Scale == 2 ^ Exponents

LEMMA ScaleIs ==
    /\ Scale \in Nat \ {0} /\ Mantissa \in Nat \ {0, 1} /\ Bits \in Nat \ {0, 1}
    /\ Bits <= Mantissa /\ Mantissa <= Exponents /\ Exponents \in Nat
    /\ 2 ^ (2 * Exponents + 1) = 2 * (Scale * Scale)
<1>1. /\ Mantissa \in Nat \ {0, 1} /\ Bits \in Nat \ {0, 1}
      /\ Bits <= Mantissa /\ Mantissa <= Exponents /\ Exponents \in Nat
  BY MantissaAssumption, BitsAssumption, ExponentsAssumption
<1>2. Scale \in Nat \ {0}
  BY <1>1, PowerPositive DEF Scale
<1>3. 2 ^ (Exponents + Exponents) = Scale * Scale
  BY <1>1, PowerSum DEF Scale
<1>4. Exponents + Exponents = 2 * Exponents /\ 2 * Exponents \in 0 .. 2 * Exponents
  BY <1>1
<1>5. 2 ^ (2 * Exponents + 1) = 2 * 2 ^ (2 * Exponents)
  BY <1>4, PowersAssumption
<1>6. 2 ^ (2 * Exponents) = Scale * Scale
  BY <1>3, <1>4
<1> QED BY <1>1, <1>2, <1>5, <1>6

(* Exponent e leaves as many significant bits as there are.                *)
Normalized(m, d, e) == d * 2 ^ (Mantissa - 1 + e) <= m /\ m < d * 2 ^ (Mantissa + e)
Rounded(m, d, e) == ToEven(m, d * 2 ^ e) * 2 ^ e

LEMMA LongDoubleIs ==
    ASSUME NEW n \in Int, n # 0, NEW d \in Nat \ {0}, NEW m \in Nat,
           m = Magnitude(n) * Scale,
           d * 2 ^ (Mantissa - 1) <= m, m < d * 2 ^ (2 * Exponents + 1)
    PROVE  \E e \in 0 .. 2 * Exponents + 1 - Mantissa :
              /\ Normalized(m, d, e)
              /\ LongDouble(n, d) = WithSign(n, Rounded(m, d, e))
<1> DEFINE K == 2 * Exponents + 1 - Mantissa
           T == {e \in 0 .. K : m < d * 2 ^ (Mantissa + e)}
           P(e) == d * 2 ^ (Mantissa - 1 + e) <= m /\ m < d * 2 ^ (Mantissa + e)
           x == CHOOSE e \in 0 .. K : P(e)
<1>1. K \in Nat /\ Mantissa + K = 2 * Exponents + 1 /\ Mantissa \in Nat \ {0, 1}
  BY ScaleIs
<1>2. K \in T /\ T \subseteq Nat
  BY <1>1
<1>3. PICK e \in T : \A y \in T : e <= y
  BY <1>2, Least
<1>4. P(e)
  <2>1. CASE e = 0
    BY <1>1, <1>3, <2>1
  <2>2. CASE e # 0
    <3> DEFINE j == e - 1
    <3>1. j \in 0 .. K /\ ~(e <= j) /\ Mantissa + j = Mantissa - 1 + e
      BY <1>1, <1>3, <2>2
    <3>2. j \notin T
      BY <1>3, <3>1
    <3>3. ~(m < d * 2 ^ (Mantissa + j))
      BY <3>1, <3>2
    <3>4. d * 2 ^ (Mantissa - 1 + e) \in Nat
      <4>1. Mantissa - 1 + e \in 0 .. 2 * Exponents + 1
        BY <1>1, <1>3
      <4>2. 2 ^ (Mantissa - 1 + e) \in Nat
        BY <4>1, PowerPositive
      <4> HIDE DEF j, K, T
      <4> QED BY <4>2
    <3> QED BY <1>3, <3>1, <3>3, <3>4
  <2> QED BY <2>1, <2>2
<1>5. e \in 0 .. K
  BY <1>3
<1>6. x \in 0 .. K /\ P(x)
  BY <1>4, <1>5
<1>7. LongDouble(n, d) = WithSign(n, ToEven(m, d * 2 ^ x) * 2 ^ x)
  BY DEF LongDouble, FloatingPoint, Scale
<1> QED BY <1>6, <1>7 DEF Normalized, Rounded

(* Rounding passes no whole number that has as many bits.                  *)
LEMMA RoundedKeepsSide ==
    ASSUME NEW w \in Nat, NEW d \in Nat \ {0}, NEW e \in 0 .. 2 * Exponents + 1 - Mantissa,
           Normalized(w * Scale, d, e), NEW k \in 0 .. 2 ^ Mantissa - 1
    PROVE  /\ Rounded(w * Scale, d, e) \in Nat
           /\ k * d <= w => k * Scale <= Rounded(w * Scale, d, e)
           /\ w <= k * d => Rounded(w * Scale, d, e) <= k * Scale
<1> DEFINE X == Scale
           E == 2 ^ e
           H == 2 ^ (Mantissa - 1)
           m == w * X
           t == ToEven(m, d * E)
<1>1. /\ X \in Nat \ {0} /\ Mantissa \in Nat \ {0, 1} /\ Exponents \in Nat
      /\ Mantissa <= Exponents /\ e \in Nat /\ e <= 2 * Exponents + 1 - Mantissa
  BY ScaleIs
<1>2. E \in Nat \ {0} /\ H \in Nat \ {0} /\ 2 ^ Mantissa = 2 * H
  <2>1. e \in 0 .. 2 * Exponents + 1 /\ Mantissa - 1 \in 0 .. 2 * Exponents
    BY <1>1
  <2>2. (Mantissa - 1) + 1 = Mantissa
    BY <1>1
  <2>3. 2 ^ e \in Nat \ {0} /\ 2 ^ (Mantissa - 1) \in Nat \ {0}
    BY <2>1, <1>1, PowerPositive
  <2>4. 2 ^ ((Mantissa - 1) + 1) = 2 * 2 ^ (Mantissa - 1)
    BY <2>1, PowersAssumption
  <2> QED BY <2>2, <2>3, <2>4
<1>3. d * (H * E) <= m
  <2>1. 2 ^ (Mantissa - 1 + e) = H * E
    BY <1>1, PowerSum
  <2> QED BY <2>1 DEF Normalized
<1>4. k \in Nat /\ k < 2 * H
  BY <1>2
<1>5. e <= Exponents => \E c \in Nat : X = c * E
  <2> SUFFICES ASSUME e <= Exponents PROVE \E c \in Nat : X = c * E
    OBVIOUS
  <2>1. e + (Exponents - e) = Exponents /\ Exponents - e \in Nat /\ Exponents - e <= 2 * Exponents + 1
    BY <1>1
  <2>2. 2 ^ (e + (Exponents - e)) = 2 ^ e * 2 ^ (Exponents - e)
    BY <1>1, <2>1, PowerSum
  <2>3. 2 ^ (Exponents - e) \in Nat
    BY <1>1, <2>1, PowerPositive
  <2>4. X = 2 ^ (Exponents - e) * E
    BY <1>2, <2>1, <2>2, <2>3 DEF Scale
  <2> QED BY <2>3, <2>4
<1>6. e > Exponents => \E c \in Nat \ {0} : E = (2 * c) * X
  <2> SUFFICES ASSUME e > Exponents PROVE \E c \in Nat \ {0} : E = (2 * c) * X
    OBVIOUS
  <2> DEFINE i == e - Exponents - 1
  <2>1. i \in 0 .. 2 * Exponents /\ Exponents + (i + 1) = e
    BY <1>1
  <2>2. i + 1 \in Nat /\ Exponents + (i + 1) <= 2 * Exponents + 1
    BY <1>1, <2>1
  <2>3. 2 ^ (Exponents + (i + 1)) = X * 2 ^ (i + 1)
    BY <1>1, <2>2, PowerSum DEF Scale
  <2>4. 2 ^ (i + 1) = 2 * 2 ^ i /\ 2 ^ i \in Nat \ {0}
    BY <1>1, <2>1, PowersAssumption, PowerPositive
  <2> HIDE DEF i
  <2>5. E = X * (2 * 2 ^ i)
    BY <2>1, <2>3, <2>4
  <2>6. E = (2 * 2 ^ i) * X
    BY <1>1, <2>4, <2>5
  <2> QED BY <2>4, <2>6
<1>7. m \in Nat /\ d * E \in Nat \ {0} /\ t \in Nat /\ t * E \in Nat
  <2>1. m \in Nat /\ d * E \in Nat \ {0}
    BY <1>1, <1>2
  <2> HIDE DEF m, E, X
  <2>2. t \in Nat
    BY <2>1, ToEvenIsNear
  <2> HIDE DEF t
  <2> QED BY <1>2, <2>1, <2>2
<1> HIDE DEF X, E, H
<1>8. ASSUME k * d <= w PROVE k * X <= t * E
  <2>1. (k * d) * X <= m
    BY <1>1, <1>4, <1>8, Times
  <2>2. CASE e <= Exponents
    <3>1. PICK c \in Nat : X = c * E
      BY <1>5, <2>2
    <3>2. (k * c) * (d * E) = (k * d) * X /\ k * c \in Nat
      BY <1>2, <1>4, <3>1
    <3> HIDE DEF m
    <3>3. k * c <= t
      BY <1>7, <2>1, <3>2, ToEvenKeepsSide
    <3> HIDE DEF t
    <3>4. (k * c) * E <= t * E
      BY <1>2, <1>7, <3>2, <3>3, Times
    <3>5. (k * c) * E = k * X
      BY <1>2, <1>4, <3>1
    <3> QED BY <3>4, <3>5
  <2>3. CASE e > Exponents
    <3>1. PICK c \in Nat \ {0} : E = (2 * c) * X
      BY <1>6, <2>3
    <3>2. H * (d * E) <= m
      BY <1>2, <1>3
    <3>3. H <= t
      <4> HIDE DEF m
      <4> QED BY <1>2, <1>7, <3>2, ToEvenKeepsSide
    <3> HIDE DEF t, m
    <3>4. H * E <= t * E
      BY <1>2, <1>7, <3>3, Times
    <3>5. H * E = (2 * H * c) * X
      BY <1>1, <1>2, <3>1
    <3>6. k <= 2 * H * c /\ 2 * H * c \in Nat
      BY <1>2, <1>4
    <3>7. k * X <= (2 * H * c) * X
      BY <1>1, <1>4, <3>6, Times
    <3>8. k * X \in Nat /\ H * E \in Nat
      BY <1>1, <1>2, <1>4
    <3> QED BY <1>7, <3>4, <3>5, <3>7, <3>8
  <2> QED BY <1>1, <2>2, <2>3
<1>9. ASSUME w <= k * d PROVE t * E <= k * X
  <2>0. k * d \in Nat
    BY <1>4
  <2>1. m <= (k * d) * X
    BY <1>1, <2>0, <1>9, Times
  <2>2. CASE e <= Exponents
    <3>1. PICK c \in Nat : X = c * E
      BY <1>5, <2>2
    <3>2. (k * c) * (d * E) = (k * d) * X /\ k * c \in Nat
      BY <1>2, <1>4, <3>1
    <3> HIDE DEF m
    <3>3. t <= k * c
      BY <1>7, <2>1, <3>2, ToEvenKeepsSide
    <3> HIDE DEF t
    <3>4. t * E <= (k * c) * E
      BY <1>2, <1>7, <3>2, <3>3, Times
    <3>5. (k * c) * E = k * X
      BY <1>2, <1>4, <3>1
    <3> QED BY <3>4, <3>5
  <2>3. CASE e > Exponents
    <3>1. PICK c \in Nat \ {0} : E = (2 * c) * X
      BY <1>6, <2>3
    <3> HIDE DEF m
    <3>2. d * (H * E) <= (k * d) * X
      <4>1. d * (H * E) \in Nat /\ (k * d) * X \in Nat
        BY <1>1, <1>2, <2>0
      <4> QED BY <1>3, <1>7, <2>1, <4>1
    <3>3. d * (H * E) = (H * 2 * c) * (d * X) /\ (k * d) * X = k * (d * X)
      BY <1>1, <1>2, <1>4, <3>1
    <3>4. H * 2 * c \in Nat /\ d * X \in Nat \ {0} /\ H * 2 * c >= 2 * H
      BY <1>1, <1>2
    <3>5. H * 2 * c <= k
      BY <1>4, <3>2, <3>3, <3>4, AtMostTimes
    <3> QED BY <1>2, <1>4, <3>4, <3>5
  <2> QED BY <1>1, <2>2, <2>3
<1> QED BY <1>7, <1>8, <1>9 DEF Rounded, E, X

Divides(x, y) == \E k \in Nat \ {0} : y = k * x

LEMMA DividesTransitive ==
    ASSUME NEW x \in Nat, NEW y \in Nat, NEW z \in Nat, Divides(x, y), Divides(y, z)
    PROVE  Divides(x, z)
<1>1. PICK i \in Nat \ {0} : y = i * x
  BY DEF Divides
<1>2. PICK j \in Nat \ {0} : z = j * y
  BY DEF Divides
<1>3. z = (j * i) * x /\ j * i \in Nat \ {0}
  BY <1>1, <1>2
<1> QED BY <1>3 DEF Divides

(* Every unit is a multiple of the smaller ones.                           *)
LEMMA PeriodsDivide ==
    ASSUME NEW from \in Units, NEW to \in Units
    PROVE  /\ Period[from] \in Nat \ {0}
           /\ Divides(Period[from], Period[to]) \/ Divides(Period[to], Period[from])
<1> DEFINE a == Thousand
           b == Sixty
           m == a * a
           s == a * a * a
           p == b * a * a * a
           h == b * b * a * a * a
<1>1. a \in Nat \ {0} /\ b \in Nat \ {0}
  BY ThousandAssumption, SixtyAssumption
<1>2. /\ Period["ns"] = 1 /\ Period["us"] = a /\ Period["ms"] = m
      /\ Period["s"] = s /\ Period["min"] = p /\ Period["h"] = h
  BY DEF Period, Units
<1>3. m \in Nat \ {0} /\ m = a * a
  BY <1>1
<1> HIDE DEF m
<1>4. s \in Nat \ {0} /\ s = a * m
  BY <1>1, <1>3
<1> HIDE DEF s
<1>5. p \in Nat \ {0} /\ p = b * s
  BY <1>1, <1>4 DEF s
<1> HIDE DEF p
<1>6. h \in Nat \ {0} /\ h = b * p
  BY <1>1, <1>5 DEF p
<1> HIDE DEF h
<1>7. \A x, y, z \in Nat : Divides(x, y) /\ Divides(y, z) => Divides(x, z)
  BY DividesTransitive
<1>8. /\ Divides(1, a) /\ Divides(a, m) /\ Divides(m, s) /\ Divides(s, p) /\ Divides(p, h)
      /\ \A x \in Nat : Divides(x, x)
  <2>1. /\ a = a * 1 /\ \A x \in Nat : x = 1 * x
    BY <1>1
  <2>2. Divides(1, a) /\ Divides(a, m) /\ Divides(m, s)
    BY <1>1, <1>3, <1>4, <2>1 DEF Divides
  <2>3. Divides(s, p) /\ Divides(p, h)
    BY <1>1, <1>5, <1>6 DEF Divides
  <2>4. \A x \in Nat : Divides(x, x)
    BY <2>1 DEF Divides
  <2> QED BY <2>2, <2>3, <2>4
<1>9. /\ Divides(1, m) /\ Divides(1, s) /\ Divides(1, p) /\ Divides(1, h)
      /\ Divides(a, s) /\ Divides(a, p) /\ Divides(a, h)
      /\ Divides(m, p) /\ Divides(m, h) /\ Divides(s, h)
  BY <1>1, <1>3, <1>4, <1>5, <1>6, <1>7, <1>8
<1>10. from \in {"ns", "us", "ms", "s", "min", "h"} /\ to \in {"ns", "us", "ms", "s", "min", "h"}
  BY DEF Units
<1>11. Period[from] \in Nat \ {0}
  BY <1>1, <1>2, <1>3, <1>4, <1>5, <1>6, <1>10
<1>12. Divides(Period[from], Period[to]) \/ Divides(Period[to], Period[from])
  BY <1>1, <1>2, <1>3, <1>4, <1>5, <1>6, <1>8, <1>9, <1>10
<1> QED BY <1>11, <1>12

LEMMA PeriodsAre ==
    /\ Period["ns"] = 1
    /\ Period["us"] = Thousand
    /\ Period["ms"] = Thousand * Thousand
    /\ Period["s"] = Thousand * Thousand * Thousand
    /\ Period["min"] = Sixty * Period["s"]
    /\ Period["h"] = Sixty * Period["min"]
<1> DEFINE s == Thousand * Thousand * Thousand
<1>1. /\ Period["ns"] = 1 /\ Period["us"] = Thousand /\ Period["ms"] = Thousand * Thousand
      /\ Period["s"] = s
      /\ Period["min"] = Sixty * Thousand * Thousand * Thousand
      /\ Period["h"] = Sixty * Sixty * Thousand * Thousand * Thousand
  BY DEF Period, Units
<1>2. Thousand \in Nat /\ Sixty \in Nat
  BY ThousandAssumption, SixtyAssumption
<1>3. /\ Sixty * Thousand * Thousand * Thousand = Sixty * s
      /\ Sixty * Sixty * Thousand * Thousand * Thousand = Sixty * (Sixty * s)
  BY <1>2
<1> HIDE DEF s
<1> QED BY <1>1, <1>3 DEF s

LEMMA PeriodsBounded == \A u \in Units : Period[u] \in Nat \ {0} /\ Period[u] <= Period["h"]
<1> SUFFICES ASSUME NEW u \in Units PROVE Period[u] \in Nat \ {0} /\ Period[u] <= Period["h"]
  OBVIOUS
<1>1. /\ Thousand \in Nat \ {0} /\ Sixty \in Nat \ {0}
      /\ \A v \in Units : Period[v] \in Nat \ {0}
  BY ThousandAssumption, SixtyAssumption, PeriodsDivide
<1> DEFINE P(v) == Period[v]
<1>2. P("us") <= P("ms") /\ P("ms") <= P("s") /\ P("ns") <= P("us")
  BY <1>1, PeriodsAre
<1>3. P("s") <= P("min") /\ P("min") <= P("h")
  BY <1>1, PeriodsAre DEF Units
<1>4. \A v \in Units : P(v) \in Nat \ {0}
  BY <1>1
<1> HIDE DEF P
<1>5. P(u) <= P("h")
  BY <1>2, <1>3, <1>4 DEF Units
<1> QED BY <1>4, <1>5 DEF P

(* The counts, and the numbers that a long double holds.                   *)
Half == 2 ^ (Bits - 1)

LEMMA CountsAre ==
    /\ Half \in Nat \ {0, 1} /\ MinCount = -Half /\ MaxCount = Half - 1
    /\ 2 ^ (Mantissa - 1) \in Nat /\ Half <= 2 ^ (Mantissa - 1)
    /\ 2 ^ Mantissa = 2 * 2 ^ (Mantissa - 1)
    /\ Half + 1 \in 0 .. 2 ^ Mantissa - 1 /\ Half * Period["h"] <= Scale
<1> DEFINE H == 2 ^ (Mantissa - 1)
<1>1. Mantissa \in Nat \ {0, 1} /\ Bits \in Nat \ {0, 1} /\ Bits <= Mantissa
      /\ Mantissa <= Exponents /\ Exponents \in Nat /\ Scale \in Nat \ {0}
  BY ScaleIs
<1>2. Half \in Nat \ {0} /\ H \in Nat \ {0} /\ 2 ^ (Mantissa - Bits) \in Nat \ {0}
  BY <1>1, PowerPositive DEF Half
<1>3. H = Half * 2 ^ (Mantissa - Bits)
  <2>1. (Bits - 1) + (Mantissa - Bits) = Mantissa - 1 /\ Bits - 1 \in Nat /\ Mantissa - Bits \in Nat
        /\ (Bits - 1) + (Mantissa - Bits) <= 2 * Exponents + 1
    BY <1>1
  <2>2. 2 ^ ((Bits - 1) + (Mantissa - Bits)) = 2 ^ (Bits - 1) * 2 ^ (Mantissa - Bits)
    BY <2>1, PowerSum
  <2> QED BY <2>1, <2>2 DEF Half
<1>4. Half <= H
  <2> DEFINE c == 2 ^ (Mantissa - Bits)
  <2> HIDE DEF H, c
  <2>1. H = Half * c /\ c \in Nat \ {0}
    BY <1>2, <1>3 DEF c
  <2> QED BY <1>2, <2>1
<1>5. Half # 1
  <2>1. Bits - 2 \in 0 .. 2 * Exponents /\ (Bits - 2) + 1 = Bits - 1
    BY <1>1
  <2>2. 2 ^ (Bits - 2) \in Nat /\ 2 ^ ((Bits - 2) + 1) = 2 * 2 ^ (Bits - 2)
    BY <2>1, PowersAssumption
  <2> QED BY <2>1, <2>2 DEF Half
<1>6. 2 ^ Mantissa = 2 * H
  <2>1. Mantissa - 1 \in 0 .. 2 * Exponents /\ (Mantissa - 1) + 1 = Mantissa
    BY <1>1
  <2>2. 2 ^ ((Mantissa - 1) + 1) = 2 * 2 ^ (Mantissa - 1)
    BY <2>1, PowersAssumption
  <2> QED BY <2>1, <2>2
<1>7. Half * Period["h"] <= Scale
  <2>1. Period["h"] \in Nat /\ Period["h"] * H <= Scale
    BY PeriodsBounded, ExponentsAssumption DEF Units, Scale
  <2> HIDE DEF H
  <2>2. Half * Period["h"] <= H * Period["h"] /\ H * Period["h"] = Period["h"] * H
        /\ Half * Period["h"] \in Nat /\ H * Period["h"] \in Nat
    BY <1>2, <1>4, <2>1, Times
  <2> QED BY <1>1, <2>1, <2>2
<1>8. MinCount = -Half /\ MaxCount = Half - 1
  BY DEF MinCount, MaxCount, Half
<1>9. Half + 1 \in 0 .. 2 * H - 1
  <2> HIDE DEF H
  <2> QED BY <1>2, <1>4, <1>5
<1> QED BY <1>2, <1>4, <1>5, <1>6, <1>7, <1>8, <1>9

(* A count v of a unit p, w in all, that is rounded to a number of units   *)
(* d: it is on the same side of the limits, and its whole part stays.      *)
LEMMA RoundedCast ==
    ASSUME NEW v \in 1 .. Half, NEW p \in Nat \ {0}, NEW d \in Nat \ {0},
           Divides(p, d) \/ Divides(d, p),
           NEW w \in Nat, w = v * p,
           NEW e \in 0 .. 2 * Exponents + 1 - Mantissa, Normalized(w * Scale, d, e),
           NEW S, S = Rounded(w * Scale, d, e)
    PROVE  /\ S \in Nat
           /\ \A k \in {Half - 1, Half} : IF w <= k * d THEN S <= k * Scale ELSE S > k * Scale
           /\ w <= Half * d => S \div Scale = w \div d
<1> DEFINE X == Scale
           E == 2 ^ e
           H == 2 ^ (Mantissa - 1)
           t == ToEven(w * X, d * E)
<1>1. /\ X \in Nat \ {0} /\ Mantissa \in Nat \ {0, 1} /\ Exponents \in Nat
      /\ e \in Nat /\ e <= 2 * Exponents + 1 - Mantissa /\ Mantissa <= Exponents
  BY ScaleIs
<1>2. /\ Half \in Nat \ {0, 1} /\ H \in Nat /\ Half <= H /\ Half + 1 \in 0 .. 2 ^ Mantissa - 1
  BY CountsAre
<1>0. 2 ^ Mantissa \in Nat
  BY <1>1, PowerPositive
<1>3. S \in Nat /\ \A k \in 0 .. 2 ^ Mantissa - 1 :
          /\ k * d <= w => k * X <= S
          /\ w <= k * d => S <= k * X
  <2>1. ASSUME NEW k \in 0 .. 2 ^ Mantissa - 1
        PROVE  /\ Rounded(w * Scale, d, e) \in Nat
               /\ k * d <= w => k * Scale <= Rounded(w * Scale, d, e)
               /\ w <= k * d => Rounded(w * Scale, d, e) <= k * Scale
    BY RoundedKeepsSide
  <2>2. Half + 1 \in 0 .. 2 ^ Mantissa - 1
    BY <1>2
  <2> QED BY <2>1, <2>2
<1>4. E \in Nat \ {0} /\ H \in Nat \ {0}
  <2>1. e \in 0 .. 2 * Exponents + 1 /\ Mantissa - 1 \in 0 .. 2 * Exponents + 1
    BY <1>1
  <2> QED BY <2>1, PowerPositive
<1>5. d * (H * E) <= w * X
  <2>1. 2 ^ (Mantissa - 1 + e) = H * E
    BY <1>1, PowerSum
  <2> QED BY <2>1 DEF Normalized
<1>6. 2 * (S * d) <= 2 * (w * X) + d * E
  <2>1. w * X \in Nat /\ d * E \in Nat \ {0}
    BY <1>1, <1>4
  <2>2. t \in Nat /\ 2 * (t * (d * E)) <= 2 * (w * X) + d * E
    <3> HIDE DEF E, X
    <3> QED BY <2>1, ToEvenIsNear
  <2>3. S = t * E
    BY DEF Rounded
  <2> HIDE DEF t, E, X
  <2>4. t * (d * E) = S * d
    BY <1>4, <2>2, <2>3
  <2> QED BY <2>2, <2>4
<1>7. \A k \in {Half - 1, Half, Half + 1} : k \in Nat /\ k \in 0 .. 2 ^ Mantissa - 1
  BY <1>0, <1>2
<1> HIDE DEF X, E, H, t
<1>8. ASSUME NEW k \in {Half - 1, Half}
      PROVE  IF w <= k * d THEN S <= k * X ELSE S > k * X
  <2>1. CASE w <= k * d
    BY <1>3, <1>7, <2>1
  <2>2. CASE w > k * d
    <3>1. (k + 1) * d <= w
      <4>1. CASE Divides(d, p)
        <5>1. PICK j \in Nat \ {0} : p = j * d
          BY <4>1 DEF Divides
        <5>2. w = (v * j) * d /\ v * j \in Nat
          BY <5>1
        <5>3. k < v * j
          BY <1>7, <2>2, <5>2, LessTimes
        <5>4. k + 1 <= v * j /\ k + 1 \in Nat
          BY <1>7, <5>2, <5>3
        <5> QED BY <5>2, <5>4, Times
      <4>2. CASE Divides(p, d)
        <5>1. PICK j \in Nat \ {0} : d = j * p
          BY <4>2 DEF Divides
        <5>2. k * d = (k * j) * p /\ k * j \in Nat
          BY <1>7, <5>1
        <5>3. k * j < v
          BY <2>2, <5>2, LessTimes
        <5>4. j = 1
          <6>1. CASE j >= 2
            <7>1. k * j >= k * 2 /\ k >= Half - 1 /\ k \in Nat
              BY <1>2, <1>7, <6>1, Times
            <7>2. k * 2 < Half
              BY <1>2, <5>2, <5>3, <7>1
            <7> QED BY <1>2, <7>1, <7>2
          <6> QED BY <6>1
        <5>5. d = p /\ k + 1 <= v /\ k + 1 \in Nat
          BY <1>7, <5>1, <5>3, <5>4
        <5> QED BY <5>5, Times
      <4> QED BY <4>1, <4>2
    <3>2. k + 1 \in 0 .. 2 ^ Mantissa - 1
      BY <1>2, <1>7
    <3>3. (k + 1) * X <= S
      BY <1>3, <3>1, <3>2
    <3>4. (k + 1) * X = k * X + X /\ k * X \in Nat
      BY <1>1, <1>7
    <3> QED BY <1>1, <1>3, <3>3, <3>4, <2>2
  <2>3. k * d \in Nat
    BY <1>7
  <2> QED BY <2>1, <2>2, <2>3
<1>9. ASSUME w <= Half * d PROVE S \div X = w \div d
  <2> DEFINE q == w \div d
             r == w % d
  <2>1. q \in Nat /\ r \in Nat /\ r < d /\ w = q * d + r
    BY Quotient
  <2> HIDE DEF q, r
  <2>2. q <= Half
    <3>1. q * d <= Half * d
      <4>1. q * d \in Nat /\ Half * d \in Nat
        BY <1>2, <2>1
      <4> QED BY <1>9, <2>1, <4>1
    <3> QED BY <1>2, <2>1, <3>1, AtMostTimes
  <2>3. q \in 0 .. 2 ^ Mantissa - 1
    BY <1>0, <1>2, <2>1, <2>2
  <2>4. q * d <= w /\ q * X <= S
    BY <1>3, <2>1, <2>3
  <2>5. S < (q + 1) * X
    <3>1. (q + 1) * X = q * X + X /\ q * X \in Nat
      BY <1>1, <2>1
    <3>2. CASE r = 0
      <4>1. S <= q * X
        BY <1>3, <2>1, <2>3, <3>2
      <4> QED BY <1>1, <1>3, <3>1, <4>1
    <3>3. CASE r > 0
      <4>1. w + p <= (q + 1) * d
        <5>1. CASE Divides(d, p)
          <6>1. PICK j \in Nat \ {0} : p = j * d
            BY <5>1 DEF Divides
          <6>2. w = (v * j) * d /\ v * j \in Nat
            BY <6>1
          <6>3. w < (v * j + 1) * d /\ (v * j) * d <= w
            BY <6>2
          <6>4. q = v * j
            BY <6>2, <6>3, QuotientIs DEF q
          <6> QED BY <2>1, <3>3, <6>2, <6>4
        <5>2. CASE Divides(p, d)
          <6>1. PICK j \in Nat \ {0} : d = j * p
            BY <5>2 DEF Divides
          <6>2. (q + 1) * d = ((q + 1) * j) * p /\ (q + 1) * j \in Nat
            BY <2>1, <6>1
          <6>3. w < (q + 1) * d
            BY <2>1
          <6>4. v < (q + 1) * j
            BY <6>2, <6>3, LessTimes
          <6>5. (v + 1) * p <= ((q + 1) * j) * p
            BY <6>2, <6>4, Times
          <6>6. (v + 1) * p = w + p
            OBVIOUS
          <6> QED BY <6>2, <6>5, <6>6
        <5> QED BY <5>1, <5>2
      <4>2. d * E <= p * X
        <5>1. w * X = v * (p * X) /\ d * (H * E) = H * (d * E)
          BY <1>1, <1>4
        <5>2. v * (p * X) <= H * (p * X) /\ p * X \in Nat /\ v * (p * X) \in Nat /\ H * (p * X) \in Nat
          BY <1>1, <1>2, Times
        <5>3. H * (d * E) <= H * (p * X) /\ d * E \in Nat /\ H * (d * E) \in Nat
          BY <1>4, <1>5, <5>1, <5>2
        <5>4. (d * E) * H <= (p * X) * H
          BY <1>4, <5>2, <5>3
        <5> QED BY <1>4, <5>2, <5>3, <5>4, AtMostTimes
      <4>3. w * X + p * X <= ((q + 1) * d) * X
        <5>1. w + p \in Nat /\ (q + 1) * d \in Nat
          BY <2>1
        <5>2. (w + p) * X <= ((q + 1) * d) * X
          BY <1>1, <4>1, <5>1, Times
        <5>3. (w + p) * X = w * X + p * X
          BY <1>1
        <5> QED BY <5>2, <5>3
      <4>4. w * X \in Nat /\ p * X \in Nat \ {0} /\ d * E \in Nat /\ S * d \in Nat
            /\ ((q + 1) * d) * X \in Nat
        BY <1>1, <1>3, <1>4, <2>1
      <4>5. S * d < ((q + 1) * d) * X
        BY <1>6, <4>2, <4>3, <4>4
      <4>6. ((q + 1) * d) * X = ((q + 1) * X) * d /\ (q + 1) * X \in Nat
        BY <1>1, <2>1
      <4> QED BY <1>3, <4>5, <4>6, LessTimes
    <3> QED BY <2>1, <3>2, <3>3
  <2>6. S \div X = q
    BY <1>1, <1>3, <2>1, <2>4, <2>5, QuotientIs
  <2> QED BY <2>6 DEF q
<1> QED BY <1>3, <1>8, <1>9 DEF X

(* The limits of a count are long doubles.                                 *)
LEMMA WholeIsKept ==
    ASSUME NEW w \in 1 .. Half, NEW n \in {w, -w}
    PROVE  LongDouble(n, 1) = WithSign(n, w * Scale)
<1> DEFINE m == w * Scale
           H == 2 ^ (Mantissa - 1)
<1>1. /\ Scale \in Nat \ {0} /\ Half \in Nat \ {0, 1} /\ H \in Nat /\ Half <= H
      /\ 2 ^ (2 * Exponents + 1) = 2 * (Scale * Scale)
      /\ Half * Period["h"] <= Scale /\ Period["h"] * H <= Scale
      /\ Half + 1 \in 0 .. 2 ^ Mantissa - 1
      /\ Mantissa \in Nat \ {0, 1} /\ Exponents \in Nat /\ Mantissa <= Exponents
  BY ScaleIs, CountsAre, ExponentsAssumption DEF Scale
<1>2. Period["h"] \in Nat \ {0}
  BY PeriodsBounded DEF Units
<1>3. n \in Int /\ n # 0 /\ 1 \in Nat \ {0} /\ m \in Nat /\ m = Magnitude(n) * Scale
  BY <1>1 DEF Magnitude
<1> HIDE DEF H
<1>4. H <= Scale /\ w <= Scale
  <2> DEFINE h == Period["h"]
  <2>1. h \in Nat \ {0} /\ h * H <= Scale /\ Half * h <= Scale
    BY <1>1, <1>2
  <2> HIDE DEF h
  <2>2. 1 * H <= h * H /\ Half * 1 <= Half * h
    BY <1>1, <2>1, Times
  <2> QED BY <1>1, <2>1, <2>2
<1>5. 1 * H <= m
  BY <1>1, <1>4
<1>6. m < 1 * (2 * (Scale * Scale))
  <2>1. m <= Scale * Scale /\ Scale * Scale \in Nat \ {0}
    BY <1>1, <1>4
  <2> QED BY <1>3, <2>1
<1>7. 1 * 2 ^ (Mantissa - 1) <= m /\ m < 1 * 2 ^ (2 * Exponents + 1)
  BY <1>1, <1>5, <1>6 DEF H
<1> HIDE DEF m
<1>8. PICK e \in 0 .. 2 * Exponents + 1 - Mantissa :
        Normalized(m, 1, e) /\ LongDouble(n, 1) = WithSign(n, Rounded(m, 1, e))
  BY <1>3, <1>7, LongDoubleIs
<1>9. w \in Nat /\ w \in 0 .. 2 ^ Mantissa - 1
  <2>1. 2 ^ Mantissa \in Nat
    BY <1>1, PowerPositive
  <2> QED BY <1>1, <2>1
<1>10. /\ Rounded(w * Scale, 1, e) \in Nat
       /\ w * 1 <= w => w * Scale <= Rounded(w * Scale, 1, e)
       /\ w <= w * 1 => Rounded(w * Scale, 1, e) <= w * Scale
  <2>1. Normalized(w * Scale, 1, e) /\ 1 \in Nat \ {0}
    BY <1>8 DEF m
  <2> QED BY <1>9, <2>1, RoundedKeepsSide
<1>11. Rounded(w * Scale, 1, e) = w * Scale
  BY <1>1, <1>9, <1>10
<1> QED BY <1>8, <1>11 DEF m

LEMMA LimitsAre ==
    /\ LongDouble(MinCount, 1) = -(Half * Scale)
    /\ LongDouble(MaxCount, 1) = (Half - 1) * Scale
<1>1. /\ Half \in Nat \ {0, 1} /\ MinCount = -Half /\ MaxCount = Half - 1 /\ Scale \in Nat
  BY CountsAre, ScaleIs
<1>2. LongDouble(-Half, 1) = WithSign(-Half, Half * Scale)
  <2>1. Half \in 1 .. Half
    BY <1>1
  <2> QED BY <2>1, WholeIsKept
<1>3. LongDouble(Half - 1, 1) = WithSign(Half - 1, (Half - 1) * Scale)
  <2>1. Half - 1 \in 1 .. Half
    BY <1>1
  <2> QED BY <2>1, WholeIsKept
<1> QED BY <1>1, <1>2, <1>3 DEF WithSign

(* checkedDurationCast gives the truncated value of every duration that    *)
(* fits its target, and throws for every other (timeutil.hpp).             *)
LEMMA CastIs ==
    ASSUME NEW n \in Counts, NEW from \in Units, NEW to \in Units
    PROVE  checkedDurationCast(n, from, to) = Exact(n, from, to)
<1> DEFINE p == Period[from]
           d == Period[to]
           h == Period["h"]
           H == 2 ^ (Mantissa - 1)
           s == LongDouble(n * p, d)
<1>1. /\ Scale \in Nat \ {0} /\ Half \in Nat \ {0, 1} /\ H \in Nat /\ Half <= H
      /\ 2 ^ (2 * Exponents + 1) = 2 * (Scale * Scale)
      /\ Half * h <= Scale /\ h * H <= Scale
      /\ MinCount = -Half /\ MaxCount = Half - 1
  BY ScaleIs, CountsAre, ExponentsAssumption DEF Scale
<1>2. p \in Nat \ {0} /\ d \in Nat \ {0} /\ h \in Nat \ {0} /\ p <= h /\ d <= h
      /\ (Divides(p, d) \/ Divides(d, p))
  BY PeriodsBounded, PeriodsDivide DEF Units
<1>3. n \in Int /\ -Half <= n /\ n <= Half - 1
  BY <1>1 DEF Counts
<1>4. /\ checkedDurationCast(n, from, to) =
           IF s < -(Half * Scale) \/ s > (Half - 1) * Scale THEN Thrown("overflow_error")
           ELSE Returned(Truncated(s, Scale))
      /\ Exact(n, from, to) =
           IF -Half * d <= n * p /\ n * p <= (Half - 1) * d
           THEN Returned(Truncated(n * p, d)) ELSE Thrown("overflow_error")
  <2>1. checkedDurationCast(n, from, to) =
           IF s < LongDouble(MinCount, 1) \/ s > LongDouble(MaxCount, 1)
           THEN Thrown("overflow_error") ELSE Returned(Truncated(s, Scale))
    BY DEF checkedDurationCast, Scale
  <2>2. Exact(n, from, to) =
           IF MinCount * d <= n * p /\ n * p <= MaxCount * d
           THEN Returned(Truncated(n * p, d)) ELSE Thrown("overflow_error")
    BY DEF Exact, Fits, duration_cast
  <2> HIDE DEF p, d, h, s
  <2>3. MinCount * d = -Half * d /\ MaxCount * d = (Half - 1) * d
    BY <1>1, <1>2
  <2> QED BY <2>1, <2>2, <2>3, LimitsAre
<1> HIDE DEF p, d, h, s
<1>5. CASE n = 0
  <2>1. n * p = 0
    BY <1>2, <1>5
  <2>2. s = 0
    BY <2>1 DEF s, LongDouble, FloatingPoint
  <2>3. Truncated(0, Scale) = 0 /\ Truncated(0, d) = 0
    <3>1. 0 * Scale <= 0 /\ 0 < (0 + 1) * Scale /\ 0 * d <= 0 /\ 0 < (0 + 1) * d
      BY <1>1, <1>2
    <3>2. 0 \div Scale = 0 /\ 0 \div d = 0
      BY <1>1, <1>2, <3>1, QuotientIs
    <3> QED BY <3>2 DEF Truncated, WithSign, Magnitude
  <2>4. ~(0 < -(Half * Scale)) /\ ~(0 > (Half - 1) * Scale)
        /\ -Half * d <= 0 /\ 0 <= (Half - 1) * d
    <3>1. Half * Scale \in Nat /\ (Half - 1) * Scale \in Nat /\ Half * d \in Nat /\ (Half - 1) * d \in Nat
      BY <1>1, <1>2
    <3>2. -Half * d = -(Half * d)
      BY <1>1, <1>2
    <3> QED BY <3>1, <3>2
  <2> QED BY <1>4, <2>1, <2>2, <2>3, <2>4
<1>6. CASE n # 0
  <2> DEFINE v == Magnitude(n)
             w == v * p
             m == w * Scale
  <2>1. v \in 1 .. Half /\ v \in Nat \ {0} /\ n = WithSign(n, v) /\ (n > 0 => v <= Half - 1)
    BY <1>1, <1>3, <1>6 DEF Magnitude, WithSign
  <2> HIDE DEF v
  <2>2. w \in Nat \ {0} /\ n * p \in Int /\ n * p = WithSign(n, w) /\ n * p # 0 /\ Magnitude(n * p) = w
        /\ (n > 0 <=> n * p > 0)
    <3>1. w \in Nat \ {0}
      BY <1>2, <2>1
    <3>2. CASE n > 0
      <4>1. n = v /\ n * p = w
        BY <2>1, <3>2 DEF WithSign
      <4> DEFINE np == n * p
      <4>2. np = w
        BY <4>1
      <4> HIDE DEF w, np
      <4>3. np \in Int /\ np = WithSign(n, w) /\ np # 0 /\ Magnitude(np) = w /\ np > 0
        BY <1>3, <3>1, <3>2, <4>2 DEF WithSign, Magnitude
      <4> QED BY <3>1, <3>2, <4>3 DEF np
    <3>3. CASE n < 0
      <4>1. n = -v
        BY <2>1, <3>3 DEF WithSign
      <4>2. n * p = -w
        BY <1>2, <2>1, <4>1
      <4> DEFINE np == n * p
      <4>3. np = -w
        BY <4>2
      <4> HIDE DEF w, np
      <4>4. np \in Int /\ np = WithSign(n, w) /\ np # 0 /\ Magnitude(np) = w /\ np < 0
        BY <3>1, <3>3, <4>3 DEF WithSign, Magnitude
      <4> QED BY <3>1, <3>3, <4>4, <1>3 DEF np
    <3> QED BY <1>3, <1>6, <3>2, <3>3
  <2>3. d * H <= m
    <3>1. d * H <= h * H
      BY <1>1, <1>2, Times
    <3>2. 1 * Scale <= w * Scale
      <4> HIDE DEF w
      <4> QED BY <1>1, <2>2, Times
    <3>3. d * H \in Nat /\ h * H \in Nat /\ m \in Nat
      <4> HIDE DEF w
      <4> QED BY <1>1, <1>2, <2>2
    <3> HIDE DEF m
    <3> QED BY <1>1, <3>1, <3>2, <3>3 DEF m
  <2>4. m < d * (2 * (Scale * Scale))
    <3>1. v * p <= Half * h
      <4>1. v * p <= v * h /\ v * h <= Half * h /\ v * p \in Nat /\ v * h \in Nat /\ Half * h \in Nat
        BY <1>1, <1>2, <2>1, Times
      <4> QED BY <4>1
    <3>2. w <= Scale
      <4>1. Half * h \in Nat
        BY <1>1, <1>2
      <4>2. w \in Nat /\ w <= Half * h
        BY <2>2, <3>1
      <4> HIDE DEF w
      <4> QED BY <1>1, <4>1, <4>2
    <3> HIDE DEF w
    <3>3. m <= Scale * Scale /\ m \in Nat
      BY <1>1, <2>2, <3>2, Times
    <3>4. Scale * Scale \in Nat \ {0}
      BY <1>1
    <3> DEFINE X == Scale * Scale
    <3> HIDE DEF X, m
    <3>5. X \in Nat \ {0} /\ m <= X /\ m \in Nat
      BY <3>3, <3>4 DEF X
    <3>6. 1 * (2 * X) <= d * (2 * X)
      BY <1>2, <3>5, Times
    <3>7. m < d * (2 * X)
      BY <1>2, <3>5, <3>6
    <3> QED BY <3>7 DEF X
  <2> HIDE DEF w
  <2>5. m \in Nat /\ m = Magnitude(n * p) * Scale
    BY <1>1, <2>2
  <2> HIDE DEF m
  <2>6. d * 2 ^ (Mantissa - 1) <= m /\ m < d * 2 ^ (2 * Exponents + 1)
    BY <1>1, <2>3, <2>4
  <2>7. PICK e \in 0 .. 2 * Exponents + 1 - Mantissa :
          Normalized(m, d, e) /\ LongDouble(n * p, d) = WithSign(n * p, Rounded(m, d, e))
    <3> DEFINE np == n * p
    <3> HIDE DEF np
    <3>1. np \in Int /\ np # 0 /\ m = Magnitude(np) * Scale
      BY <2>2, <2>5 DEF np
    <3>2. \E e \in 0 .. 2 * Exponents + 1 - Mantissa :
             Normalized(m, d, e) /\ LongDouble(np, d) = WithSign(np, Rounded(m, d, e))
      BY <1>2, <2>5, <2>6, <3>1, LongDoubleIs
    <3> QED BY <3>2 DEF np
  <2> DEFINE S == Rounded(w * Scale, d, e)
  <2>8. /\ S \in Nat
        /\ \A k \in {Half - 1, Half} : IF w <= k * d THEN S <= k * Scale ELSE S > k * Scale
        /\ w <= Half * d => S \div Scale = w \div d
    <3>1. w \in Nat /\ w = v * p /\ Normalized(w * Scale, d, e)
      BY <2>2, <2>7 DEF w, m
    <3> QED BY <1>2, <2>1, <3>1, RoundedCast
  <2>9. s = WithSign(n * p, S)
    BY <2>7 DEF s, m
  <2> HIDE DEF S
  <2>10. w \div d \in Nat /\ Half * Scale \in Nat /\ (Half - 1) * Scale \in Nat
         /\ Half * d \in Nat /\ (Half - 1) * d \in Nat /\ -Half * d = -(Half * d)
         /\ (Half - 1) * d <= Half * d
    BY <1>1, <1>2, <2>2, Quotient
  <2>11. CASE n > 0
    <3>1. n * p = w /\ s = S
      BY <2>2, <2>9, <2>11 DEF WithSign
    <3>2. ~(S < -(Half * Scale)) /\ -Half * d <= w
      BY <2>2, <2>8, <2>10
    <3>3. Truncated(S, Scale) = S \div Scale /\ Truncated(w, d) = w \div d
      BY <2>2, <2>8 DEF Truncated, WithSign, Magnitude
    <3>4. CASE w <= (Half - 1) * d
      <4>1. S <= (Half - 1) * Scale /\ w <= Half * d
        BY <2>2, <2>8, <2>10, <3>4
      <4> QED BY <1>4, <2>8, <2>10, <3>1, <3>2, <3>3, <3>4, <4>1
    <3>5. CASE ~(w <= (Half - 1) * d)
      <4>1. S > (Half - 1) * Scale
        BY <2>8, <3>5
      <4> QED BY <1>4, <3>1, <3>5, <4>1
    <3> QED BY <3>4, <3>5
  <2>12. CASE n < 0
    <3>1. n * p = -w /\ s = -S
      BY <2>2, <2>9, <2>12 DEF WithSign
    <3>2. ~(-S > (Half - 1) * Scale) /\ -w <= (Half - 1) * d
      BY <2>2, <2>8, <2>10
    <3>3. Truncated(-S, Scale) = -(S \div Scale) /\ Truncated(-w, d) = -(w \div d)
      <4>1. CASE S = 0
        <5>1. S \div Scale = 0
          <6>1. 0 * Scale <= S /\ S < (0 + 1) * Scale
            BY <1>1, <4>1
          <6> QED BY <1>1, <2>8, <6>1, QuotientIs
        <5> QED BY <2>2, <4>1, <5>1 DEF Truncated, WithSign, Magnitude
      <4>2. CASE S # 0
        BY <2>2, <2>8, <4>2 DEF Truncated, WithSign, Magnitude
      <4> QED BY <4>1, <4>2
    <3>4. CASE w <= Half * d
      <4>1. S <= Half * Scale
        BY <2>8, <3>4
      <4>2. ~(-S < -(Half * Scale)) /\ -Half * d <= -w
        BY <2>2, <2>8, <2>10, <3>4, <4>1
      <4> QED BY <1>4, <2>8, <3>1, <3>2, <3>3, <3>4, <4>2
    <3>5. CASE ~(w <= Half * d)
      <4>1. S > Half * Scale
        BY <2>8, <3>5
      <4>2. -S < -(Half * Scale) /\ ~(-Half * d <= -w)
        BY <2>2, <2>8, <2>10, <3>5, <4>1
      <4> QED BY <1>4, <3>1, <4>2
    <3> QED BY <3>4, <3>5
  <2> QED BY <1>3, <1>6, <2>11, <2>12
<1> QED BY <1>5, <1>6

-----------------------------------------------------------------------------
(* Reading a time.                                                         *)

(* The shift added to the clock undoes the offset of the zone, unless the  *)
(* zone is +00:mm.                                                         *)
LEMMA ShiftUndoesOffset ==
    ASSUME NEW z \in ZoneTexts \cup {NoZone, Zulu}
    PROVE  /\ Offset(z) \in Int
           /\ timeZoneShift(z) = IF ZeroHoursAhead(z) THEN Offset(z) ELSE -Offset(z)
<1>1. CASE z \in {NoZone, Zulu} \/ z.form = "sign"
  BY <1>1 DEF Offset, timeZoneShift, ZeroHoursAhead
<1>2. CASE ~(z \in {NoZone, Zulu} \/ z.form = "sign")
  <2> DEFINE hours == z.hours * (Sixty * Sixty)
             minutes == MinuteOffset(z) * Sixty
  <2>1. z.hours \in Nat /\ z.sign \in {"+", "-"}
    BY <1>2 DEF ZoneTexts
  <2>2. MinuteOffset(z) \in Int /\ Sixty \in Nat \ {0, 1} /\ Sixty * Sixty \in Nat
    BY <1>2, SixtyAssumption DEF ZoneTexts, MinuteOffset
  <2>3. hours \in Int /\ minutes \in Int /\ (z.hours = 0 => hours = 0)
    BY <2>1, <2>2
  <2>4. Magnitude(HourOffset(z)) = z.hours
    BY <2>1 DEF Magnitude, HourOffset
  <2>5. HourOffset(z) > 0 <=> z.sign = "+" /\ z.hours # 0
    BY <2>1 DEF HourOffset
  <2>6. Offset(z) = IF z.sign = "-" THEN -(hours + minutes) ELSE hours + minutes
    BY <1>2 DEF Offset, WithSign
  <2>7. timeZoneShift(z) = IF HourOffset(z) > 0 THEN -(hours + minutes) ELSE hours + minutes
    BY <1>2, <2>4 DEF timeZoneShift
  <2>8. ZeroHoursAhead(z) <=> z.sign = "+" /\ z.hours = 0
    BY <1>2 DEF ZeroHoursAhead
  <2> HIDE DEF hours, minutes
  <2> QED BY <2>1, <2>3, <2>5, <2>6, <2>7, <2>8
<1> QED BY <1>1, <1>2


LEMMA TruncatedIs ==
    ASSUME NEW n \in Int, NEW d \in Nat \ {0}
    PROVE  /\ Truncated(n, d) \in Int
           /\ n >= 0 => Truncated(n, d) = n \div d
           /\ n <= 0 => Truncated(n, d) = -((-n) \div d)
           /\ \A k \in Nat : n <= k * d => Truncated(n, d) <= k
           /\ \A k \in Nat : -(k * d) <= n => -k <= Truncated(n, d)
<1> DEFINE m == Magnitude(n)
           q == m \div d
           r == m % d
<1>1. m \in Nat /\ (n >= 0 => m = n) /\ (n <= 0 => m = -n)
  BY DEF Magnitude
<1> HIDE DEF m
<1>2. q \in Nat /\ r \in Nat /\ r < d /\ m = q * d + r
  BY <1>1, Quotient
<1>3. Truncated(n, d) = IF n < 0 THEN -q ELSE q
  BY DEF Truncated, WithSign, m
<1>4. n = 0 => q = 0
  <2> SUFFICES ASSUME n = 0 PROVE q = 0
    OBVIOUS
  <2>1. 0 * d <= m /\ m < (0 + 1) * d
    BY <1>1
  <2> QED BY <1>1, <2>1, QuotientIs
<1>5. (n >= 0 => q = n \div d) /\ (n <= 0 => q = (-n) \div d)
  BY <1>1
<1> HIDE DEF q, r
<1>6. \A k \in Nat : m <= k * d => q <= k
  <2> SUFFICES ASSUME NEW k \in Nat, m <= k * d PROVE q <= k
    OBVIOUS
  <2>1. q * d <= k * d
    <3>1. q * d \in Nat /\ k * d \in Nat
      BY <1>2
    <3> QED BY <1>1, <1>2, <3>1
  <2> QED BY <1>2, <2>1, AtMostTimes
<1> DEFINE t == Truncated(n, d)
<1>7. t = (IF n < 0 THEN -q ELSE q) /\ t \in Int
  BY <1>2, <1>3
<1> HIDE DEF t
<1>8. ASSUME NEW k \in Nat, n <= k * d PROVE t <= k
  <2>1. CASE n < 0
    BY <1>2, <1>7, <2>1
  <2>2. CASE n >= 0
    BY <1>1, <1>2, <1>6, <1>7, <1>8, <2>2
  <2> QED BY <2>1, <2>2
<1>9. ASSUME NEW k \in Nat, -(k * d) <= n PROVE -k <= t
  <2>1. k * d \in Nat
    OBVIOUS
  <2>2. CASE n < 0
    <3>1. m <= k * d
      BY <1>1, <1>9, <2>1, <2>2
    <3> QED BY <1>2, <1>6, <1>7, <2>2, <3>1
  <2>3. CASE n >= 0
    BY <1>2, <1>7, <2>3
  <2> QED BY <2>2, <2>3
<1>10. (n >= 0 => t = n \div d) /\ (n <= 0 => t = -((-n) \div d))
  BY <1>2, <1>4, <1>5, <1>7
<1> QED BY <1>7, <1>8, <1>9, <1>10 DEF t

LEMMA ExactIs ==
    ASSUME NEW n \in Int, NEW from \in Units, NEW to \in Units
    PROVE  /\ Fits(n, from, to) =>
                 /\ Exact(n, from, to) = Returned(Truncated(n * Period[from], Period[to]))
                 /\ Truncated(n * Period[from], Period[to]) \in Counts
           /\ ~Fits(n, from, to) => Exact(n, from, to) = Thrown("overflow_error")
<1>1. /\ Period[from] \in Nat \ {0} /\ Period[to] \in Nat \ {0}
      /\ Half \in Nat \ {0, 1} /\ MinCount = -Half /\ MaxCount = Half - 1
  BY PeriodsBounded, CountsAre
<1>2. ASSUME Fits(n, from, to)
      PROVE  Truncated(n * Period[from], Period[to]) \in Counts
  <2> DEFINE m == n * Period[from]
             d == Period[to]
  <2>1. m \in Int /\ d \in Nat \ {0}
    BY <1>1
  <2>2. -Half * d <= m /\ m <= (Half - 1) * d
    BY <1>1, <1>2 DEF Fits
  <2> HIDE DEF m, d
  <2>3. -(Half * d) <= m
    BY <1>1, <2>1, <2>2
  <2>4. /\ Truncated(m, d) \in Int
        /\ \A k \in Nat : m <= k * d => Truncated(m, d) <= k
        /\ \A k \in Nat : -(k * d) <= m => -k <= Truncated(m, d)
    BY <2>1, TruncatedIs
  <2>5. Half - 1 \in Nat /\ Half \in Nat
    BY <1>1
  <2>6. Truncated(m, d) <= Half - 1
    BY <2>2, <2>4, <2>5
  <2>7. -Half <= Truncated(m, d)
    BY <2>3, <2>4, <2>5
  <2> QED BY <1>1, <2>4, <2>6, <2>7 DEF Counts, m, d
<1> QED BY <1>2 DEF Exact, duration_cast

LEMMA RepliesHold ==
    /\ \A v \in Values : Returned(v) \in Replies /\ Returned(v).outcome = "returned"
                         /\ Returned(v).value = v
    /\ \A e \in {"overflow_error", "system_error", "invalid_argument", "EINVAL", "ERANGE"} :
          Thrown(e) \in Replies /\ Thrown(e).outcome = "thrown"
    /\ Undefined \in Replies /\ Undefined.outcome = "undefined"
    /\ \A v : Returned(v).outcome = "returned" /\ Returned(v).value = v
    /\ \A e : Thrown(e).outcome = "thrown"
<1> QED BY DEF Returned, Thrown, Undefined, Replies, Values

LEMMA CastTyped ==
    ASSUME NEW n \in Counts, NEW from \in Units, NEW to \in Units
    PROVE  LET r == checkedDurationCast(n, from, to)
           IN  /\ r \in Replies /\ r.outcome \in {"returned", "thrown"}
               /\ r.outcome = "returned" => r.value \in Counts
<1>1. n \in Int /\ Counts \subseteq Int /\ Int \subseteq Values
  <2>1. MinCount \in Int /\ MaxCount \in Int
    BY CountsAre
  <2> QED BY <2>1 DEF Counts, Values
<1>2. checkedDurationCast(n, from, to) = Exact(n, from, to)
  BY CastIs
<1>3. CASE Fits(n, from, to)
  <2> DEFINE v == Truncated(n * Period[from], Period[to])
  <2>1. Exact(n, from, to) = Returned(v) /\ v \in Counts
    BY <1>1, <1>3, ExactIs
  <2> HIDE DEF v
  <2> QED BY <1>1, <1>2, <2>1, RepliesHold
<1>4. CASE ~Fits(n, from, to)
  <2>1. Exact(n, from, to) = Thrown("overflow_error")
    BY <1>1, <1>4, ExactIs
  <2> QED BY <1>2, <2>1, RepliesHold
<1> QED BY <1>3, <1>4

-----------------------------------------------------------------------------
(* The fraction of a second.                                               *)

LEMMA SecondIs == Second \in Nat \ {0} /\ Second = Thousand * Thousand * Thousand
                  /\ Thousand \in Nat \ {0, 1}
<1> QED BY PeriodsBounded, PeriodsAre, ThousandAssumption DEF Units, Second

LEMMA PowersAre ==
    /\ Power[1] = Thousand /\ Power[2] = Thousand * Thousand /\ Power[3] = Second
    /\ Power[4] = Second * Thousand
    /\ \A g \in 1 .. 4 : Power[g] \in Nat \ {0}
<1>1. /\ Power[1] = Thousand /\ Power[2] = Thousand * Thousand /\ Power[3] = Second
      /\ Power[4] = Second * Thousand
  BY DEF Power
<1> QED BY <1>1, SecondIs

(* A fraction is less than a second, and is rounded to at most one.        *)
LEMMA NanosecondsAre ==
    ASSUME NEW f \in {NoFraction} \cup {g \in Digits : g.number < Power[g.groups]}
    PROVE  parseNanoseconds(f) \in 0 .. Second
<1>1. CASE f = NoFraction
  BY <1>1, SecondIs DEF parseNanoseconds
<1>2. CASE f # NoFraction
  <2> DEFINE p == Power[f.groups]
             m == 2 * f.number * Second + p
             q == m \div (2 * p)
  <2>1. f.number \in Nat /\ p \in Nat \ {0} /\ f.number < p /\ Second \in Nat \ {0}
    BY <1>2, PowersAre, SecondIs DEF Digits
  <2>2. parseNanoseconds(f) = q
    BY <1>2 DEF parseNanoseconds
  <2> HIDE DEF p
  <2>3. m \in Nat /\ 2 * p \in Nat \ {0}
    BY <2>1
  <2>4. m < (Second + 1) * (2 * p)
    <3>1. f.number * Second <= p * Second /\ f.number * Second \in Nat /\ p * Second \in Nat
      BY <2>1, Times
    <3>2. m = 2 * (f.number * Second) + p /\ (Second + 1) * (2 * p) = 2 * (p * Second) + 2 * p
      BY <2>1
    <3> QED BY <2>1, <3>1, <3>2
  <2> HIDE DEF m
  <2>5. q \in Nat /\ q * (2 * p) <= m
    BY <2>3, Quotient
  <2> HIDE DEF q
  <2>6. q < Second + 1
    <3>1. q * (2 * p) < (Second + 1) * (2 * p)
      <4>1. q * (2 * p) \in Nat /\ (Second + 1) * (2 * p) \in Nat
        BY <2>1, <2>5
      <4> QED BY <2>3, <2>4, <2>5, <4>1
    <3> QED BY <2>1, <2>3, <2>5, <3>1, LessTimes
  <2> QED BY <2>1, <2>2, <2>5, <2>6
<1> QED BY <1>1, <1>2

-----------------------------------------------------------------------------
(* Texts as times.                                                         *)

(* The shift of a zone is less than an hour more than the largest offset.  *)
LEMMA ShiftBounded ==
    ASSUME NEW z \in ZoneTexts \cup {NoZone, Zulu}, ZoneReadable(z)
    PROVE  LET most == (MaxHourOffset + 1) * (Sixty * Sixty)
           IN  most \in Nat /\ timeZoneShift(z) \in -most .. most
<1> DEFINE hour == Sixty * Sixty
           most == (MaxHourOffset + 1) * hour
<1>1. Sixty \in Nat \ {0, 1} /\ MaxHourOffset \in Nat /\ hour \in Nat /\ most \in Nat
  BY SixtyAssumption, OffsetAssumption
<1>2. CASE z \in {NoZone, Zulu} \/ z.form = "sign"
  BY <1>1, <1>2 DEF timeZoneShift
<1>3. CASE ~(z \in {NoZone, Zulu} \/ z.form = "sign")
  <2> DEFINE h == Magnitude(HourOffset(z))
             m == MinuteOffset(z)
  <2>1. h \in Nat /\ h <= MaxHourOffset /\ m \in 0 .. Sixty - 1
    BY <1>3 DEF ZoneReadable, Magnitude, HourOffset, ZoneTexts
  <2>2. timeZoneShift(z) = IF HourOffset(z) > 0 THEN -(h * hour + m * Sixty)
                           ELSE h * hour + m * Sixty
    BY <1>3 DEF timeZoneShift
  <2> HIDE DEF h, m
  <2>3. h * hour <= MaxHourOffset * hour /\ h * hour \in Nat /\ MaxHourOffset * hour \in Nat
    BY <1>1, <2>1, Times
  <2>4. m * Sixty <= hour /\ m * Sixty \in Nat
    BY <1>1, <2>1, Times
  <2>5. most = MaxHourOffset * hour + hour
    BY <1>1
  <2> HIDE DEF hour, most
  <2>6. h * hour + m * Sixty \in 0 .. most
    BY <1>1, <2>3, <2>4, <2>5
  <2>7. timeZoneShift(z) \in -most .. most
    BY <1>1, <2>2, <2>6
  <2> QED BY <1>1, <2>7 DEF most, hour
<1> QED BY <1>2, <1>3

(* What is read lies within the limits of a count of seconds.              *)
LEMMA ParsedIs ==
    ASSUME NEW text \in Texts
    PROVE  /\ Parsed(text) \in Replies
           /\ Parsed(text).outcome \in {"returned", "thrown"}
           /\ Parsed(text).outcome = "returned" =>
                 /\ text # EmptyText /\ text.clock \in Int
                 /\ text.zone \in ZoneTexts \cup {NoZone, Zulu}
                 /\ Parsed(text) = Returned([tm |-> text.clock + timeZoneShift(text.zone),
                                             ns |-> parseNanoseconds(text.fraction)])
                 /\ text.clock + timeZoneShift(text.zone) \in Counts
                 /\ parseNanoseconds(text.fraction) \in 0 .. Second
<1>1. CASE text = EmptyText
  BY <1>1, RepliesHold DEF Parsed
<1>2. CASE /\ text # EmptyText
           /\ ~MainPortionReadable(text) \/ text.fraction = Unreadable \/ ~ZoneReadable(text.zone)
  BY <1>2, RepliesHold DEF Parsed, Invalid
<1>3. CASE /\ text # EmptyText /\ text.fraction # Unreadable /\ ZoneReadable(text.zone)
           /\ MainPortionReadable(text)
  <2> DEFINE shift == timeZoneShift(text.zone)
             nanos == parseNanoseconds(text.fraction)
             most == (MaxHourOffset + 1) * (Sixty * Sixty)
  <2>1. /\ text.clock \in -LastClock .. LastClock
        /\ text.zone \in ZoneTexts \cup {NoZone, Zulu}
        /\ text.fraction \in {NoFraction} \cup {g \in Digits : g.number < Power[g.groups]}
    BY <1>3, TextsAssumption DEF ZoneReadable
  <2>2. most \in Nat /\ shift \in -most .. most
    BY <1>3, <2>1, ShiftBounded
  <2>3. nanos \in 0 .. Second /\ nanos \in Int
    BY <2>1, NanosecondsAre, SecondIs
  <2>4. LastClock \in Nat /\ LastClock + most <= MaxCount
    BY ClockAssumption
  <2>5. MaxCount \in Int /\ MinCount \in Int /\ MinCount < -MaxCount
    BY CountsAre
  <2>6. Parsed(text) = Returned([tm |-> text.clock + shift, ns |-> nanos])
    BY <1>3 DEF Parsed
  <2> HIDE DEF shift, nanos, most
  <2>7. text.clock + shift \in Counts /\ text.clock \in Int /\ text.clock + shift \in Int
    BY <2>1, <2>2, <2>4, <2>5 DEF Counts
  <2>8. [tm |-> text.clock + shift, ns |-> nanos] \in Values
    BY <2>3, <2>7 DEF Values
  <2> QED BY <1>3, <2>1, <2>3, <2>6, <2>7, <2>8, RepliesHold DEF shift, nanos
<1> QED BY <1>1, <1>2, <1>3

(* Nanoseconds in a unit, towards zero.                                    *)
LEMMA NanosecondsIn ==
    ASSUME NEW ns \in Nat, NEW unit \in Units
    PROVE  /\ duration_cast(ns, "ns", unit) = ns \div Period[unit]
           /\ duration_cast(ns, "ns", unit) \in Nat
<1>1. Period[unit] \in Nat \ {0} /\ Period["ns"] = 1
  BY PeriodsAre, PeriodsBounded
<1>2. duration_cast(ns, "ns", unit) = Truncated(ns, Period[unit])
  BY <1>1 DEF duration_cast
<1> DEFINE p == Period[unit]
<1>3. Truncated(ns, p) = ns \div p
  <2>1. p \in Nat \ {0} /\ ns \in Int /\ ns >= 0
    BY <1>1
  <2> HIDE DEF p
  <2> QED BY <2>1, TruncatedIs
<1> QED BY <1>1, <1>2, <1>3, Quotient

(* A tm and its fraction as a time point.                                  *)
LEMMA TimePointIs ==
    ASSUME NEW tm \in Counts, NEW ns \in Nat, NEW unit \in Units
    PROVE  /\ ~Fits(tm, "s", unit) => TimePoint(tm, ns, unit) = Thrown("overflow_error")
           /\ Fits(tm, "s", unit) =>
                 LET v == Truncated(tm * Second, Period[unit])
                     d == ns \div Period[unit]
                 IN  /\ v \in Counts /\ d \in Nat
                     /\ v + d > MaxCount => TimePoint(tm, ns, unit) = Undefined
                     /\ ~(v + d > MaxCount) =>
                           TimePoint(tm, ns, unit) = Returned(v + d) /\ v + d \in Counts
<1>1. tm \in Int /\ "s" \in Units /\ MinCount \in Int /\ MaxCount \in Int
  BY CountsAre DEF Counts, Units
<1>2. checkedDurationCast(tm, "s", unit) = Exact(tm, "s", unit)
  BY <1>1, CastIs
<1>3. duration_cast(ns, "ns", unit) = ns \div Period[unit] /\ ns \div Period[unit] \in Nat
  BY NanosecondsIn
<1>4. ASSUME ~Fits(tm, "s", unit) PROVE TimePoint(tm, ns, unit) = Thrown("overflow_error")
  <2>1. Exact(tm, "s", unit) = Thrown("overflow_error")
    BY <1>1, <1>4, ExactIs
  <2> QED BY <1>2, <2>1 DEF TimePoint, Thrown
<1> DEFINE v == Truncated(tm * Second, Period[unit])
           d == ns \div Period[unit]
<1>5. ASSUME Fits(tm, "s", unit)
      PROVE  /\ v \in Counts
             /\ v + d > MaxCount => TimePoint(tm, ns, unit) = Undefined
             /\ ~(v + d > MaxCount) => TimePoint(tm, ns, unit) = Returned(v + d) /\ v + d \in Counts
  <2>1. checkedDurationCast(tm, "s", unit) = Returned(v) /\ v \in Counts
    BY <1>1, <1>2, <1>5, ExactIs DEF Second
  <2>2. d \in Nat /\ d = duration_cast(ns, "ns", unit)
    BY <1>3
  <2> HIDE DEF v, d
  <2>3. Returned(v).outcome # "thrown" /\ Returned(v).value = v
    BY DEF Returned
  <2>4. TimePoint(tm, ns, unit) = IF v + d > MaxCount THEN Undefined ELSE Returned(v + d)
    BY <2>1, <2>2, <2>3 DEF TimePoint
  <2>5. ~(v + d > MaxCount) => v + d \in Counts
    BY <1>1, <2>1, <2>2 DEF Counts
  <2> QED BY <2>1, <2>4, <2>5
<1> QED BY <1>3, <1>4, <1>5

LEMMA ReadIs ==
    ASSUME NEW text \in Texts, NEW unit \in Units
    PROVE  LET r == fromIso8601String(text, unit)
           IN  r \in Replies /\ (r.outcome = "returned" => r.value \in Counts)
<1> DEFINE r == fromIso8601String(text, unit)
<1>1. CASE Parsed(text).outcome = "thrown"
  BY <1>1, ParsedIs DEF fromIso8601String
<1>2. CASE Parsed(text).outcome = "returned"
  <2>1. PICK tm \in Counts, ns \in 0 .. Second : Parsed(text) = Returned([tm |-> tm, ns |-> ns])
    BY <1>2, ParsedIs
  <2>2. ns \in Nat
    BY <2>1, SecondIs
  <2>3. r = TimePoint(tm, ns, unit)
    BY <2>1 DEF fromIso8601String, Returned
  <2> HIDE DEF r
  <2> DEFINE v == Truncated(tm * Second, Period[unit])
             d == ns \div Period[unit]
  <2>4. r \in {Thrown("overflow_error"), Undefined} \/ (r = Returned(v + d) /\ v + d \in Counts)
    BY <2>2, <2>3, TimePointIs
  <2> HIDE DEF v, d
  <2>5. Counts \subseteq Values
    BY CountsAre DEF Counts, Values
  <2>6. CASE r \in {Thrown("overflow_error"), Undefined}
    <3>1. r \in Replies /\ r.outcome # "returned"
      BY <2>6, RepliesHold
    <3> QED BY <3>1 DEF r
  <2>7. CASE r = Returned(v + d) /\ v + d \in Counts
    <3>1. r \in Replies /\ r.value \in Counts
      BY <2>5, <2>7, RepliesHold
    <3> QED BY <3>1 DEF r
  <2> QED BY <2>4, <2>6, <2>7
<1> QED BY <1>1, <1>2, ParsedIs

(* What is written: the whole seconds and, after the epoch, the rest.      *)
Rest(n, unit) ==
    LET rest == n * Period[unit] - Truncated(n * Period[unit], Second) * Second
    IN  IF rest > 0 THEN rest ELSE 0
TextWritten(n, unit) ==
    [fields |-> 6, clock |-> Truncated(n * Period[unit], Second),
     fraction |-> Fraction(Rest(n, unit)), zone |-> Zulu]

LEMMA FractionIs ==
    ASSUME NEW ns \in Nat
    PROVE  /\ Fraction(ns) \in Digits \cup {NoFraction}
           /\ parseNanoseconds(Fraction(ns)) = ns
<1>1. Second \in Nat \ {0} /\ Thousand \in Nat \ {0, 1} /\ Thousand * Thousand \in Nat \ {0}
  BY SecondIs
<1>2. ASSUME NEW g \in 1 .. 4, NEW number \in Nat, NEW p \in Nat \ {0}, p = Power[g],
             NEW scale \in Nat \ {0}, scale * p = Second, number * scale = ns
      PROVE  parseNanoseconds([groups |-> g, number |-> number]) = ns
  <2> DEFINE m == 2 * number * Second + p
  <2>1. [groups |-> g, number |-> number] # NoFraction
    BY MarksAssumption DEF Digits
  <2>2. parseNanoseconds([groups |-> g, number |-> number]) = m \div (2 * p)
    BY <1>2, <2>1 DEF parseNanoseconds
  <2>3. number * Second = ns * p
    <3>1. number * (scale * p) = (number * scale) * p
      OBVIOUS
    <3> QED BY <1>2, <3>1
  <2>4. ns * p \in Nat /\ m = 2 * (ns * p) + p
    BY <1>1, <2>3
  <2>5. ns * (2 * p) <= m /\ m < (ns + 1) * (2 * p) /\ m \in Nat /\ 2 * p \in Nat \ {0}
    BY <2>4
  <2> HIDE DEF m
  <2> QED BY <2>2, <2>5, QuotientIs
<1>3. CASE ns = 0
  BY <1>3 DEF Fraction, parseNanoseconds
<1>4. CASE ns # 0 /\ ns % (Thousand * Thousand) = 0
  <2> DEFINE t == Thousand * Thousand
             number == ns \div t
  <2>1. t \in Nat \ {0} /\ t * Thousand = Second /\ Thousand \in Nat \ {0} /\ Thousand = Power[1]
    BY <1>1, SecondIs, PowersAre
  <2>2. Fraction(ns) = [groups |-> 1, number |-> number] /\ ns % t = 0
    BY <1>4 DEF Fraction
  <2> HIDE DEF t
  <2>3. number \in Nat /\ ns = number * t
    <3>1. number \in Nat /\ ns = number * t + (ns % t)
      BY <2>1, Quotient
    <3> QED BY <2>1, <2>2, <3>1
  <2> HIDE DEF number
  <2>4. parseNanoseconds([groups |-> 1, number |-> number]) = ns
    BY <1>2, <2>1, <2>3
  <2> QED BY <2>2, <2>3, <2>4 DEF Digits
<1>5. CASE ns # 0 /\ ns % (Thousand * Thousand) # 0 /\ ns % Thousand = 0
  <2> DEFINE number == ns \div Thousand
             p == Thousand * Thousand
  <2>1. p \in Nat \ {0} /\ Thousand * p = Second /\ p = Power[2]
    BY <1>1, SecondIs, PowersAre
  <2>2. Fraction(ns) = [groups |-> 2, number |-> number]
    BY <1>5 DEF Fraction
  <2>3. number \in Nat /\ ns = number * Thousand
    <3>1. number \in Nat /\ ns = number * Thousand + (ns % Thousand)
      BY <1>1, Quotient
    <3> QED BY <1>1, <1>5, <3>1
  <2> HIDE DEF number, p
  <2>4. parseNanoseconds([groups |-> 2, number |-> number]) = ns
    BY <1>1, <1>2, <2>1, <2>3
  <2> QED BY <2>2, <2>3, <2>4 DEF Digits
<1>6. CASE ns # 0 /\ ns % (Thousand * Thousand) # 0 /\ ns % Thousand # 0
  <2>1. Fraction(ns) = [groups |-> 3, number |-> ns]
    BY <1>6 DEF Fraction
  <2>2. Second = Power[3] /\ 1 * Second = Second /\ ns * 1 = ns
    BY <1>1, PowersAre
  <2>3. parseNanoseconds([groups |-> 3, number |-> ns]) = ns
    BY <1>1, <1>2, <2>2
  <2> QED BY <2>1, <2>3 DEF Digits
<1> QED BY <1>3, <1>4, <1>5, <1>6

LEMMA WriteIs ==
    ASSUME NEW n \in Counts, NEW unit \in Units
    PROVE  LET r == toIso8601String(n, unit)
               secs == Truncated(n * Period[unit], Second)
           IN  /\ r \in Replies
               /\ Rest(n, unit) \in Nat
               /\ r.outcome = "returned" =>
                     secs \in Counts /\ Fits(n, unit, "s") /\ r = Returned(TextWritten(n, unit))
<1> DEFINE r == toIso8601String(n, unit)
           secs == Truncated(n * Period[unit], Second)
           rest == n * Period[unit] - secs * Second
<1>1. n \in Int /\ "s" \in Units /\ Counts \subseteq Int /\ Period[unit] \in Nat
      /\ Second \in Nat \ {0} /\ n * Period[unit] \in Int
  BY CountsAre, PeriodsBounded, SecondIs DEF Counts, Units
<1>2. checkedDurationCast(n, unit, "s") = Exact(n, unit, "s")
  BY <1>1, CastIs
<1>3. secs \in Int
  BY <1>1, TruncatedIs
<1>4. Rest(n, unit) = (IF rest > 0 THEN rest ELSE 0) /\ Rest(n, unit) \in Nat
  <2> HIDE DEF secs
  <2>1. rest \in Int
    BY <1>1, <1>3
  <2> QED BY <2>1 DEF Rest, secs
<1>5. CASE ~Fits(n, unit, "s")
  <2>1. Exact(n, unit, "s") = Thrown("overflow_error")
    BY <1>1, <1>5, ExactIs
  <2>2. r = Thrown("overflow_error")
    BY <1>2, <2>1 DEF toIso8601String, Thrown
  <2> HIDE DEF r
  <2>3. r \in Replies /\ r.outcome # "returned"
    BY <2>2, RepliesHold
  <2> QED BY <1>4, <2>3 DEF r
<1>6. CASE Fits(n, unit, "s")
  <2>1. Exact(n, unit, "s") = Returned(secs) /\ secs \in Counts
    BY <1>1, <1>6, ExactIs DEF Second
  <2>2. Returned(secs).outcome # "thrown" /\ Returned(secs).value = secs
    BY DEF Returned
  <2>3. r = toIso8601(secs, Rest(n, unit))
    BY <1>2, <1>4, <2>1, <2>2 DEF toIso8601String
  <2>4. r = IF secs > LastClock THEN Undefined ELSE Returned(TextWritten(n, unit))
    BY <2>3 DEF toIso8601, TextWritten
  <2>5. TextWritten(n, unit) \in Values
    <3>1. Fraction(Rest(n, unit)) \in Digits \cup {NoFraction}
      BY <1>4, FractionIs
    <3>2. Truncated(n * Period[unit], Second) \in Int
      BY <1>3
    <3> HIDE DEF secs
    <3> QED BY <3>1, <3>2 DEF TextWritten, Values
  <2> HIDE DEF r, secs
  <2>6. r \in Replies
    BY <2>4, <2>5, RepliesHold
  <2>7. r.outcome = "returned" => r = Returned(TextWritten(n, unit))
    BY <2>4, RepliesHold
  <2> QED BY <1>4, <1>6, <2>1, <2>6, <2>7 DEF r, secs
<1> QED BY <1>5, <1>6

-----------------------------------------------------------------------------
(* Texts as numbers and durations.                                         *)

LEMMA PowersGrow ==
    ASSUME NEW a \in Nat, NEW b \in Nat, a <= b, b <= Exponents
    PROVE  2 ^ a \in Nat \ {0} /\ 2 ^ b \in Nat \ {0} /\ 2 ^ a <= 2 ^ b
<1> DEFINE k == b - a
<1>1. Exponents \in Nat /\ k \in Nat /\ a + k = b
  BY ExponentsAssumption
<1> HIDE DEF k
<1>2. /\ a \in 0 .. 2 * Exponents + 1 /\ b \in 0 .. 2 * Exponents + 1
      /\ k \in 0 .. 2 * Exponents + 1 /\ a + k <= 2 * Exponents + 1
  BY <1>1
<1>3. 2 ^ a \in Nat \ {0} /\ 2 ^ k \in Nat \ {0} /\ 2 ^ (a + k) \in Nat \ {0}
  BY <1>1, <1>2, PowerPositive
<1>4. 2 ^ (a + k) = 2 ^ a * 2 ^ k
  BY <1>1, <1>2, PowerSum
<1> DEFINE x == 2 ^ a
           y == 2 ^ k
           z == 2 ^ (a + k)
<1>5. x \in Nat /\ y \in Nat \ {0} /\ z = x * y
  BY <1>3, <1>4
<1>6. x <= z
  <2> HIDE DEF x, y, z
  <2> QED BY <1>5
<1> QED BY <1>1, <1>3, <1>6

LEMMA RangesAre ==
    /\ DOMAIN Ranges = {"int", "long", "unsigned", "unsigned long"}
    /\ Ranges["long"] = Counts
    /\ Ranges["int"] \subseteq Ranges["long"]
    /\ Ranges["unsigned"] \subseteq Ranges["unsigned long"]
    /\ \A type \in DOMAIN Ranges : Ranges[type] \subseteq Int
<1>1. Bits \in Nat /\ IntBits \in Nat /\ Exponents \in Nat /\ 1 <= IntBits
      /\ IntBits <= Bits /\ Bits <= Exponents
  BY BitsAssumption, IntBitsAssumption, MantissaAssumption, ExponentsAssumption
<1>2. 2 ^ IntBits \in Nat /\ 2 ^ Bits \in Nat /\ 2 ^ IntBits <= 2 ^ Bits
  BY <1>1, PowersGrow
<1>3. 2 ^ (IntBits - 1) \in Nat /\ 2 ^ (Bits - 1) \in Nat /\ 2 ^ (IntBits - 1) <= 2 ^ (Bits - 1)
  <2>1. IntBits - 1 \in Nat /\ Bits - 1 \in Nat /\ IntBits - 1 <= Bits - 1 /\ Bits - 1 <= Exponents
    BY <1>1
  <2> QED BY <2>1, PowersGrow
<1>4. DOMAIN Ranges = {"int", "long", "unsigned", "unsigned long"}
  BY DEF Ranges
<1>5. /\ Ranges["int"] = -(2 ^ (IntBits - 1)) .. 2 ^ (IntBits - 1) - 1
      /\ Ranges["long"] = Counts
      /\ Ranges["unsigned"] = 0 .. 2 ^ IntBits - 1
      /\ Ranges["unsigned long"] = 0 .. 2 ^ Bits - 1
  BY DEF Ranges
<1> DEFINE a == 2 ^ (IntBits - 1)
           b == 2 ^ (Bits - 1)
           c == 2 ^ IntBits
           d == 2 ^ Bits
<1>6. Counts = -b .. b - 1
  BY DEF Counts, MinCount, MaxCount
<1>7. a \in Nat /\ b \in Nat /\ c \in Nat /\ d \in Nat /\ a <= b /\ c <= d
  BY <1>2, <1>3
<1>8. /\ Ranges["int"] = -a .. a - 1 /\ Ranges["long"] = -b .. b - 1
      /\ Ranges["unsigned"] = 0 .. c - 1 /\ Ranges["unsigned long"] = 0 .. d - 1
  BY <1>5, <1>6
<1> HIDE DEF a, b, c, d
<1>9. /\ Ranges["int"] \subseteq Ranges["long"]
      /\ Ranges["unsigned"] \subseteq Ranges["unsigned long"]
  <2>1. -a .. a - 1 \subseteq -b .. b - 1 /\ 0 .. c - 1 \subseteq 0 .. d - 1
    BY <1>7
  <2> QED BY <1>8, <2>1
<1>10. \A type \in DOMAIN Ranges : Ranges[type] \subseteq Int
  <2>1. -b .. b - 1 \subseteq Int /\ 0 .. d - 1 \subseteq Int
    BY <1>7
  <2> QED BY <1>4, <1>8, <1>9, <2>1
<1> QED BY <1>4, <1>5, <1>9, <1>10

(* The number is returned if the type can hold it.                         *)
LEMMA NumberIsRead ==
    ASSUME NEW text, NEW type \in DOMAIN Ranges
    PROVE  LET r == doConvert(text, type)
           IN  /\ \/ r = Returned(Number(text)) /\ Number(text) \in Ranges[type]
                  \/ r \in {Thrown("invalid_argument"), Thrown("EINVAL"), Thrown("ERANGE")}
               /\ text # EmptyText /\ text.number # NoNumber =>
                     r = IF Number(text) \in Ranges[type] THEN Returned(Number(text))
                         ELSE Thrown("ERANGE")
BY DEF doConvert

LEMMA IntegerIs ==
    ASSUME NEW text, NEW type \in DOMAIN Ranges
    PROVE  LET r == convert_integer(text, type)
               n == Number(text)
           IN  /\ r \in Replies
               /\ text # EmptyText /\ text.number # NoNumber =>
                     IF n \in Ranges[type] /\ (type \in {"int", "long"} \/ ~text.minus)
                     THEN r = Returned(n) ELSE r.outcome = "thrown"
<1> DEFINE n == Number(text)
           Read(r, t) == \/ r = Returned(n) /\ n \in Ranges[t]
                         \/ r \in {Thrown("invalid_argument"), Thrown("EINVAL"), Thrown("ERANGE")}
           Fine == text # EmptyText /\ text.number # NoNumber
           long == doConvert(text, "long")
           ulong == doConvert(text, "unsigned long")
<1>1. "long" \in DOMAIN Ranges /\ "unsigned long" \in DOMAIN Ranges
  BY RangesAre
<1>2. /\ Read(long, "long")
      /\ Fine => long = IF n \in Ranges["long"] THEN Returned(n) ELSE Thrown("ERANGE")
  BY <1>1, NumberIsRead
<1>3. /\ Read(ulong, "unsigned long")
      /\ Fine => ulong = IF n \in Ranges["unsigned long"] THEN Returned(n) ELSE Thrown("ERANGE")
  BY <1>1, NumberIsRead
<1>4. \A t \in DOMAIN Ranges : n \in Ranges[t] => n \in Values
  BY RangesAre DEF Values
<1>5. CASE type \in {"long", "int"}
  <2>1. convert_integer(text, "long") = long /\ convert_integer(text, "int") = Narrowed(long, "int")
    BY DEF convert_integer
  <2> HIDE DEF n, long
  <2>2. \A e : Thrown(e).outcome = "thrown" /\ Narrowed(Thrown(e), "int") = Thrown(e)
    BY DEF Thrown, Narrowed
  <2>3. Narrowed(Returned(n), "int") = IF n \in Ranges["int"] THEN Returned(n) ELSE Thrown("ERANGE")
    BY DEF Returned, Narrowed
  <2>4. long \in Replies /\ Narrowed(long, "int") \in Replies
    <3>1. CASE long = Returned(n) /\ n \in Ranges["long"]
      <4>1. Returned(n) \in Replies /\ Thrown("ERANGE") \in Replies
        BY <1>1, <1>4, <3>1, RepliesHold
      <4> QED BY <2>3, <3>1, <4>1
    <3>2. CASE long \in {Thrown("invalid_argument"), Thrown("EINVAL"), Thrown("ERANGE")}
      <4>1. long \in Replies
        BY <3>2, RepliesHold
      <4>2. Narrowed(long, "int") = long
        BY <2>2, <3>2
      <4> QED BY <4>1, <4>2
    <3> QED BY <1>2, <3>1, <3>2
  <2>5. Fine => IF n \in Ranges["long"] THEN long = Returned(n) ELSE long.outcome = "thrown"
    BY <1>2, <2>2
  <2>6. Fine => IF n \in Ranges["int"] THEN Narrowed(long, "int") = Returned(n)
                ELSE Narrowed(long, "int").outcome = "thrown"
    BY <1>2, <2>2, <2>3, RangesAre
  <2> QED BY <1>5, <2>1, <2>4, <2>5, <2>6 DEF n
<1>6. CASE type \in {"unsigned long", "unsigned"}
  <2> DEFINE r == doConvertUnsigned(text, "unsigned long")
  <2>1. /\ convert_integer(text, "unsigned long") = r
        /\ convert_integer(text, "unsigned") = Narrowed(r, "unsigned")
    BY DEF convert_integer
  <2>2. r = IF text # EmptyText /\ text.minus THEN Thrown("EINVAL") ELSE ulong
    BY DEF doConvertUnsigned
  <2> HIDE DEF n, ulong, r
  <2>3. \A e : Thrown(e).outcome = "thrown" /\ Narrowed(Thrown(e), "unsigned") = Thrown(e)
    BY DEF Thrown, Narrowed
  <2>4. Narrowed(Returned(n), "unsigned") =
            IF n \in Ranges["unsigned"] THEN Returned(n) ELSE Thrown("ERANGE")
    BY DEF Returned, Narrowed
  <2>5. r \in Replies /\ Narrowed(r, "unsigned") \in Replies
    <3>1. Read(r, "unsigned long")
      BY <1>3, <2>2
    <3>2. CASE r = Returned(n) /\ n \in Ranges["unsigned long"]
      <4>1. Returned(n) \in Replies /\ Thrown("ERANGE") \in Replies
        BY <1>1, <1>4, <3>2, RepliesHold
      <4> QED BY <2>4, <3>2, <4>1
    <3>3. CASE r \in {Thrown("invalid_argument"), Thrown("EINVAL"), Thrown("ERANGE")}
      <4>1. r \in Replies
        BY <3>3, RepliesHold
      <4>2. Narrowed(r, "unsigned") = r
        BY <2>3, <3>3
      <4> QED BY <4>1, <4>2
    <3> QED BY <3>1, <3>2, <3>3
  <2>6. ASSUME Fine, n \in Ranges["unsigned long"], ~text.minus PROVE r = Returned(n)
    BY <1>3, <2>2, <2>6
  <2>7. ASSUME Fine, ~(n \in Ranges["unsigned long"] /\ ~text.minus)
        PROVE  \E e : r = Thrown(e)
    BY <1>3, <2>2, <2>7
  <2>8. CASE type = "unsigned long"
    BY <2>1, <2>3, <2>5, <2>6, <2>7, <2>8 DEF n
  <2>9. CASE type = "unsigned"
    <3>1. ASSUME Fine, n \in Ranges["unsigned"], ~text.minus
          PROVE  Narrowed(r, "unsigned") = Returned(n)
      BY <2>4, <2>6, <3>1, RangesAre
    <3>2. ASSUME Fine, ~(n \in Ranges["unsigned"] /\ ~text.minus)
          PROVE  Narrowed(r, "unsigned").outcome = "thrown"
      BY <2>3, <2>4, <2>6, <2>7, <3>2
    <3> QED BY <2>1, <2>5, <2>9, <3>1, <3>2 DEF n
  <2> QED BY <1>6, <2>8, <2>9
<1> QED BY <1>5, <1>6, RangesAre

(* The first suffix that fits is the unit the text ends with.              *)
LEMMA SuffixIs ==
    ASSUME NEW text, Matches(text) # {}
    PROVE  LET suffix == Suffixes[Min(Matches(text))]
           IN  suffix \in Units /\ (text.ending \in Units => suffix = text.ending)
<1> DEFINE matches == Matches(text)
           first == Min(matches)
<1>1. matches \subseteq 1 .. 6 /\ DOMAIN Suffixes = 1 .. 6
  BY DEF Matches, Suffixes
<1>2. PICK x \in matches : \A y \in matches : x <= y
  <2>1. matches \in SUBSET Nat
    BY <1>1
  <2> HIDE DEF matches
  <2>2. matches # {}
    BY DEF matches
  <2> QED BY <2>1, <2>2, Least
<1>3. first \in matches /\ \A y \in matches : first <= y
  <2> HIDE DEF matches
  <2> QED BY <1>2 DEF Min
<1>4. /\ Suffixes[1] = "ns" /\ Suffixes[2] = "us" /\ Suffixes[3] = "ms"
      /\ Suffixes[4] = "s" /\ Suffixes[5] = "min" /\ Suffixes[6] = "h"
  BY DEF Suffixes
<1>5. \A i \in 1 .. 6 : i \in matches <=>
          text.ending = Suffixes[i] \/ (Suffixes[i] = "s" /\ text.ending \in {"ns", "us", "ms"})
  BY <1>1 DEF Matches, endsWith
<1> HIDE DEF matches, first
<1>6. first \in {1, 2, 3, 4, 5, 6}
  BY <1>1, <1>3
<1>7. Suffixes[first] \in Units
  BY <1>4, <1>6 DEF Units
<1>8. ASSUME text.ending \in Units PROVE Suffixes[first] = text.ending
  <2>1. text.ending \in {"ns", "us", "ms"} => \E i \in {1, 2, 3} : i \in matches /\ first <= i
    BY <1>3, <1>4, <1>5
  <2>2. text.ending \in {"ns", "us", "ms"} => first # 4
    BY <1>6, <2>1
  <2>3. text.ending = Suffixes[first] \/ (first = 4 /\ text.ending \in {"ns", "us", "ms"})
    BY <1>3, <1>4, <1>5, <1>6
  <2> QED BY <2>2, <2>3
<1> QED BY <1>7, <1>8 DEF first, matches

LEMMA DurationIs ==
    ASSUME NEW text, NEW unit \in Units
    PROVE  LET r == convert_duration(text, unit)
               n == Number(text)
           IN  /\ r \in Replies /\ (r.outcome = "returned" => r.value \in Counts)
               /\ text # EmptyText /\ text.number # NoNumber /\ text.ending \in Units =>
                     IF n \in Counts THEN r = Exact(n, text.ending, unit)
                     ELSE r.outcome = "thrown"
<1> DEFINE r == convert_duration(text, unit)
           n == Number(text)
           count == doConvert(text, "long")
           suffix == Suffixes[Min(Matches(text))]
           Fine == text # EmptyText /\ text.number # NoNumber
<1>1. /\ \/ count = Returned(n) /\ n \in Counts
         \/ count \in {Thrown("invalid_argument"), Thrown("EINVAL"), Thrown("ERANGE")}
      /\ Fine => count = IF n \in Counts THEN Returned(n) ELSE Thrown("ERANGE")
  BY NumberIsRead, RangesAre
<1>2. CASE text = EmptyText
  <2>1. r = Thrown("invalid_argument")
    BY <1>2 DEF convert_duration
  <2> HIDE DEF r
  <2>2. r \in Replies /\ r.outcome # "returned"
    BY <2>1, RepliesHold
  <2> QED BY <1>2, <2>2 DEF r
<1>3. CASE text # EmptyText /\ Matches(text) = {}
  <2>1. r = Thrown("EINVAL")
    BY <1>3 DEF convert_duration
  <2>2. text.ending \notin Units
    <3>1. \A i \in 1 .. 6 : text.ending # Suffixes[i]
      BY <1>3 DEF Matches, endsWith, Suffixes
    <3>2. Units = {Suffixes[1], Suffixes[2], Suffixes[3], Suffixes[4], Suffixes[5], Suffixes[6]}
      BY DEF Units, Suffixes
    <3> QED BY <3>1, <3>2
  <2> HIDE DEF r
  <2>3. r \in Replies /\ r.outcome # "returned"
    BY <2>1, RepliesHold
  <2> QED BY <2>2, <2>3 DEF r
<1>4. CASE text # EmptyText /\ Matches(text) # {}
  <2>1. r = IF count.outcome = "thrown" THEN count
            ELSE checkedDurationCast(count.value, suffix, unit)
    BY <1>4 DEF convert_duration
  <2>2. suffix \in Units /\ (text.ending \in Units => suffix = text.ending)
    BY <1>4, SuffixIs
  <2> HIDE DEF r, n, count, suffix
  <2>3. CASE count = Returned(n) /\ n \in Counts
    <3>1. r = checkedDurationCast(n, suffix, unit)
      BY <2>1, <2>3, RepliesHold
    <3>2. r = Exact(n, suffix, unit)
      BY <2>2, <2>3, <3>1, CastIs
    <3>3. r \in Replies /\ (r.outcome = "returned" => r.value \in Counts)
      BY <2>2, <2>3, <3>1, CastTyped
    <3> QED BY <2>2, <2>3, <3>2, <3>3 DEF r, n
  <2>4. CASE count \in {Thrown("invalid_argument"), Thrown("EINVAL"), Thrown("ERANGE")}
    <3>1. count \in Replies /\ count.outcome = "thrown"
      BY <2>4, RepliesHold
    <3>2. r = count /\ (r.outcome = "thrown") /\ r.outcome # "returned"
      BY <2>1, <3>1
    <3>3. Fine => n \notin Counts
      <4>1. count # Returned(n)
        BY <3>1, RepliesHold
      <4> QED BY <1>1, <4>1
    <3> QED BY <3>1, <3>2, <3>3 DEF r, n
  <2> QED BY <1>1, <2>3, <2>4
<1> QED BY <1>2, <1>3, <1>4

-----------------------------------------------------------------------------
(* Calls and replies.                                                      *)

(* A call is answered with the conversion it asks for, or by an assertion. *)
CallAnswered ==
    /\ asked = Ready <=> reply = Ready
    /\ asked # Ready =>
          /\ asked \in Requests /\ reply \in Replies
          /\ asked.op = "cast" => reply = checkedDurationCast(asked.count, asked.from, asked.to)
          /\ asked.op = "write" => reply = toIso8601String(asked.count, asked.unit)
          /\ asked.op = "parse" =>
                reply.outcome = "aborted" \/ reply = Parsed(asked.text)
          /\ asked.op = "read" =>
                reply.outcome = "aborted" \/ reply = fromIso8601String(asked.text, asked.unit)
          /\ asked.op = "integer" => reply = convert_integer(asked.text, asked.type)
          /\ asked.op = "duration" => reply = convert_duration(asked.text, asked.unit)

LEMMA CallStep == ASSUME CallAnswered, [ConvNext]_convvars PROVE CallAnswered'
<1>1. CASE UNCHANGED convvars
  BY <1>1 DEF convvars, CallAnswered
<1>2. CASE Return
  BY <1>2 DEF Return, CallAnswered
<1>3. \A c \in Requests, r \in Replies : c # Ready /\ r # Ready
  BY ReadyAssumption
<1>4. ASSUME NEW n \in Counts, NEW from \in Units, NEW to \in Units, cast(n, from, to)
      PROVE  CallAnswered'
  <2>1. asked' = [op |-> "cast", count |-> n, from |-> from, to |-> to] /\ asked' \in Requests
    BY <1>4 DEF cast, Call, Requests
  <2>2. reply' = checkedDurationCast(n, from, to) /\ reply' \in Replies
    BY <1>4, CastTyped DEF cast, Call
  <2> QED BY <1>3, <2>1, <2>2 DEF CallAnswered
<1>5. ASSUME NEW n \in Counts, NEW unit \in Units, write(n, unit) PROVE CallAnswered'
  <2>1. asked' = [op |-> "write", count |-> n, unit |-> unit] /\ asked' \in Requests
    BY <1>5 DEF write, Call, Requests
  <2>2. reply' = toIso8601String(n, unit) /\ reply' \in Replies
    BY <1>5, WriteIs DEF write, Call
  <2> QED BY <1>3, <2>1, <2>2 DEF CallAnswered
<1>6. [outcome |-> "aborted", value |-> 0] \in Replies
  BY DEF Replies, Values
<1>7. ASSUME NEW text \in Texts, parse(text) \/ parse_asserts(text) PROVE CallAnswered'
  <2>1. asked' = [op |-> "parse", text |-> text] /\ asked' \in Requests
    BY <1>7 DEF parse, parse_asserts, asserts, Call, Requests
  <2>2. reply' = Parsed(text) \/ reply' = [outcome |-> "aborted", value |-> 0]
    BY <1>7 DEF parse, parse_asserts, asserts, Call
  <2>3. reply' \in Replies /\ (reply' = Parsed(text) \/ reply'.outcome = "aborted")
    <3>1. Parsed(text) \in Replies
      BY ParsedIs
    <3> QED BY <1>6, <2>2, <3>1
  <2> QED BY <1>3, <2>1, <2>3 DEF CallAnswered
<1>8. ASSUME NEW text \in Texts, NEW unit \in Units, read(text, unit) \/ read_asserts(text, unit)
      PROVE  CallAnswered'
  <2>1. asked' = [op |-> "read", text |-> text, unit |-> unit] /\ asked' \in Requests
    BY <1>8 DEF read, read_asserts, asserts, Call, Requests
  <2>2. reply' = fromIso8601String(text, unit) \/ reply' = [outcome |-> "aborted", value |-> 0]
    BY <1>8 DEF read, read_asserts, asserts, Call
  <2>3. /\ reply' \in Replies
        /\ reply' = fromIso8601String(text, unit) \/ reply'.outcome = "aborted"
    BY <1>6, <2>2, ReadIs
  <2> QED BY <1>3, <2>1, <2>3 DEF CallAnswered
<1>9. ASSUME NEW text \in NumberTexts, NEW type \in DOMAIN Ranges, read_integer(text, type)
      PROVE  CallAnswered'
  <2>1. asked' = [op |-> "integer", text |-> text, type |-> type] /\ asked' \in Requests
    BY <1>9 DEF read_integer, Call, Requests
  <2>2. reply' = convert_integer(text, type) /\ reply' \in Replies
    BY <1>9, IntegerIs DEF read_integer, Call
  <2> QED BY <1>3, <2>1, <2>2 DEF CallAnswered
<1>10. ASSUME NEW text \in NumberTexts, NEW unit \in Units, read_duration(text, unit)
       PROVE  CallAnswered'
  <2>1. asked' = [op |-> "duration", text |-> text, unit |-> unit] /\ asked' \in Requests
    BY <1>10 DEF read_duration, Call, Requests
  <2>2. reply' = convert_duration(text, unit) /\ reply' \in Replies
    BY <1>10, DurationIs DEF read_duration, Call
  <2> QED BY <1>3, <2>1, <2>2 DEF CallAnswered
<1> QED BY <1>1, <1>2, <1>4, <1>5, <1>7, <1>8, <1>9, <1>10 DEF ConvNext, Ask

LEMMA AlwaysAnswered == ConvSpec => []CallAnswered
<1>1. ConvInit => CallAnswered
  BY DEF ConvInit, CallAnswered
<1> QED BY <1>1, CallStep, PTL DEF ConvSpec

LEMMA AnsweredImplyOffset == CallAnswered => OffsetIsSubtracted
<1> SUFFICES ASSUME CallAnswered, Called("parse"), Answered("returned")
             PROVE  reply.value.tm =
                        IF ZeroHoursAhead(asked.text.zone)
                        THEN asked.text.clock + Offset(asked.text.zone)
                        ELSE asked.text.clock - Offset(asked.text.zone)
  BY DEF OffsetIsSubtracted
<1> DEFINE text == asked.text
<1>1. text \in Texts
  BY DEF CallAnswered, Called, Requests
<1>2. reply = Parsed(text) /\ reply.outcome = "returned"
  BY DEF CallAnswered, Called, Answered
<1> HIDE DEF text
<1>3. /\ text.clock \in Int /\ text.zone \in ZoneTexts \cup {NoZone, Zulu}
      /\ reply = Returned([tm |-> text.clock + timeZoneShift(text.zone),
                           ns |-> parseNanoseconds(text.fraction)])
  BY <1>1, <1>2, ParsedIs
<1>4. reply.value.tm = text.clock + timeZoneShift(text.zone)
  BY <1>3 DEF Returned
<1>5. reply.value.tm = IF ZeroHoursAhead(text.zone) THEN text.clock + Offset(text.zone)
                       ELSE text.clock - Offset(text.zone)
  BY <1>3, <1>4, ShiftUndoesOffset
<1> QED BY <1>5 DEF text

LEMMA AnsweredImplyExact == CallAnswered => CastIsExact
<1> SUFFICES ASSUME CallAnswered PROVE CastIsExact
  OBVIOUS
<1>1. CASE asked = Ready
  BY <1>1 DEF CallAnswered, CastIsExact, RepliesTyped, Called
<1>2. ASSUME asked # Ready
      PROVE  /\ reply.outcome \in {"returned", "thrown", "undefined", "aborted"}
             /\ asked.op \in {"cast", "read", "duration"} /\ Answered("returned")
                   => reply.value \in Counts
  <2>1. reply.outcome \in {"returned", "thrown", "undefined", "aborted"} /\ asked \in Requests
    BY <1>2 DEF CallAnswered, Replies
  <2>2. ASSUME asked.op = "cast", reply.outcome = "returned" PROVE reply.value \in Counts
    <3>1. asked.count \in Counts /\ asked.from \in Units /\ asked.to \in Units
      BY <2>1, <2>2 DEF Requests
    <3> QED BY <1>2, <2>2, <3>1, CastTyped DEF CallAnswered
  <2>3. ASSUME asked.op = "read", reply.outcome = "returned" PROVE reply.value \in Counts
    <3>1. asked.text \in Texts /\ asked.unit \in Units
      BY <2>1, <2>3 DEF Requests
    <3> QED BY <1>2, <2>3, <3>1, ReadIs DEF CallAnswered
  <2>4. ASSUME asked.op = "duration", reply.outcome = "returned" PROVE reply.value \in Counts
    <3>1. asked.unit \in Units
      BY <2>1, <2>4 DEF Requests
    <3> QED BY <1>2, <2>4, <3>1, DurationIs DEF CallAnswered
  <2> QED BY <2>1, <2>2, <2>3, <2>4 DEF Answered
<1>3. RepliesTyped
  BY <1>2 DEF CallAnswered, RepliesTyped
<1>4. ASSUME Called("cast") PROVE reply = Exact(asked.count, asked.from, asked.to)
  <2>1. asked.count \in Counts /\ asked.from \in Units /\ asked.to \in Units
    BY <1>4 DEF CallAnswered, Called, Requests
  <2> QED BY <1>4, <2>1, CastIs DEF CallAnswered, Called
<1> QED BY <1>3, <1>4 DEF CastIsExact

LEMMA AnsweredImplyConverted == CallAnswered => ConvertedAsWritten
<1> SUFFICES ASSUME CallAnswered PROVE ConvertedAsWritten
  OBVIOUS
<1> DEFINE n == Number(asked.text)
<1>1. ASSUME Called("integer"), asked.text # EmptyText, asked.text.number # NoNumber
      PROVE  IF n \in Ranges[asked.type] /\ (asked.type \in {"int", "long"} \/ ~asked.text.minus)
             THEN reply = Returned(n) ELSE reply.outcome = "thrown"
  <2>1. asked.type \in DOMAIN Ranges /\ reply = convert_integer(asked.text, asked.type)
    BY <1>1 DEF CallAnswered, Called, Requests
  <2> QED BY <1>1, <2>1, IntegerIs
<1>2. ASSUME Called("duration"), asked.text # EmptyText, asked.text.number # NoNumber,
             asked.text.ending \in Units
      PROVE  IF n \in Counts THEN reply = Exact(n, asked.text.ending, asked.unit)
             ELSE reply.outcome = "thrown"
  <2>1. asked.unit \in Units /\ reply = convert_duration(asked.text, asked.unit)
    BY <1>2 DEF CallAnswered, Called, Requests
  <2> QED BY <1>2, <2>1, DurationIs
<1> QED BY <1>1, <1>2 DEF ConvertedAsWritten, Answered

-----------------------------------------------------------------------------
(* From a time point to a text and back.                                   *)

LEMMA OrderTimes ==
    ASSUME NEW a \in Int, NEW b \in Int, NEW c \in Nat, a <= b
    PROVE  a * c <= b * c /\ a * c \in Int /\ b * c \in Int
OBVIOUS

LEMMA WholeQuotient ==
    ASSUME NEW x \in Int, NEW d \in Nat \ {0}
    PROVE  Truncated(x * d, d) = x
<1>1. CASE x >= 0
  <2>1. x \in Nat /\ x * d \in Nat /\ x * d >= 0 /\ x * d \in Int
    BY <1>1
  <2>2. x * d <= x * d /\ x * d < (x + 1) * d
    BY <2>1
  <2>3. (x * d) \div d = x
    <3> DEFINE m == x * d
    <3>1. m \in Nat /\ x * d <= m /\ m < (x + 1) * d
      BY <2>1, <2>2
    <3> HIDE DEF m
    <3>2. m \div d = x
      BY <2>1, <3>1, QuotientIs
    <3> QED BY <3>2 DEF m
  <2> QED BY <2>1, <2>3, TruncatedIs
<1>2. CASE x < 0
  <2> DEFINE y == -x
             m == y * d
  <2>1. y \in Nat \ {0} /\ m \in Nat \ {0} /\ x * d = -m
    BY <1>2
  <2>2. y * d <= m /\ m < (y + 1) * d
    BY <2>1
  <2> HIDE DEF m
  <2>3. m \div d = y
    <3> HIDE DEF y
    <3> QED BY <2>1, <2>2, QuotientIs
  <2>4. -m \in Int /\ -m < 0 /\ -(-m) = m
    BY <2>1
  <2>5. Truncated(-m, d) = -(m \div d)
    BY <2>4 DEF Truncated, WithSign, Magnitude
  <2> QED BY <1>2, <2>1, <2>3, <2>5
<1> QED BY <1>1, <1>2

(* A second is a multiple of a unit, or a unit is one of two or more.      *)
LEMMA UnitOfSecond ==
    ASSUME NEW unit \in Units
    PROVE  /\ Period[unit] \in Nat \ {0}
           /\ \/ \E k \in Nat \ {0} : Second = k * Period[unit]
              \/ \E k \in Nat \ {0, 1} : Period[unit] = k * Second
<1> DEFINE p == Period[unit]
<1>1. p \in Nat \ {0} /\ Second \in Nat \ {0} /\ "s" \in Units
  BY PeriodsBounded, SecondIs DEF Units
<1>2. Divides(p, Second) \/ Divides(Second, p)
  BY <1>1, PeriodsDivide DEF Second
<1> HIDE DEF p
<1>3. (\E k \in Nat : Second = k * p) \/ (\E k \in Nat : p = k * Second)
  BY <1>2 DEF Divides
<1>4. ASSUME NEW k \in Nat, Second = k * p PROVE \E j \in Nat \ {0} : Second = j * p
  <2>1. k # 0
    BY <1>1, <1>4
  <2> QED BY <1>4, <2>1
<1>5. ASSUME NEW k \in Nat, p = k * Second
      PROVE  (\E j \in Nat \ {0} : Second = j * p) \/ (\E j \in Nat \ {0, 1} : p = j * Second)
  <2>1. CASE k = 1
    <3>1. Second = 1 * p
      BY <1>1, <1>5, <2>1
    <3> QED BY <3>1
  <2>2. CASE k # 1
    <3>1. k # 0
      BY <1>1, <1>5
    <3> QED BY <1>5, <2>2, <3>1
  <2> QED BY <2>1, <2>2
<1>6. \/ \E j \in Nat \ {0} : Second = j * p
      \/ \E j \in Nat \ {0, 1} : p = j * Second
  BY <1>3, <1>4, <1>5
<1> QED BY <1>1, <1>6 DEF p

(* A text that is written is read as what it says.                         *)
LEMMA WrittenIsParsed ==
    ASSUME NEW n \in Counts, NEW unit \in Units
    PROVE  fromIso8601String(TextWritten(n, unit), unit) =
               TimePoint(Truncated(n * Period[unit], Second), Rest(n, unit), unit)
<1> DEFINE text == TextWritten(n, unit)
           secs == Truncated(n * Period[unit], Second)
           ns == Rest(n, unit)
<1>1. ns \in Nat
  BY WriteIs
<1>2. secs \in Int
  <2>1. n * Period[unit] \in Int /\ Second \in Nat \ {0}
    BY CountsAre, PeriodsBounded, SecondIs DEF Counts
  <2> QED BY <2>1, TruncatedIs
<1> HIDE DEF secs, ns
<1>3. text = [fields |-> 6, clock |-> secs, fraction |-> Fraction(ns), zone |-> Zulu]
  BY DEF TextWritten, secs, ns
<1>4. Fraction(ns) \in Digits \cup {NoFraction} /\ parseNanoseconds(Fraction(ns)) = ns
  BY <1>1, FractionIs
<1> HIDE DEF text
<1>5. text # EmptyText
  BY <1>2, <1>3, <1>4, MarksAssumption
<1>6. text.fraction # Unreadable /\ ZoneReadable(text.zone) /\ text.zone = Zulu
  BY <1>3, <1>4, MarksAssumption DEF ZoneReadable
<1>7. MainPortionReadable(text)
  BY <1>3 DEF MainPortionReadable
<1>8. timeZoneShift(Zulu) = 0
  BY DEF timeZoneShift
<1>9. Parsed(text) = Returned([tm |-> secs, ns |-> ns])
  BY <1>2, <1>3, <1>4, <1>5, <1>6, <1>7, <1>8 DEF Parsed
<1>10. fromIso8601String(text, unit) = TimePoint(secs, ns, unit)
  BY <1>9 DEF fromIso8601String, Returned
<1> QED BY <1>10 DEF text, secs, ns

(* A count at or after the epoch is its whole seconds and the rest.        *)
LEMMA PartsOfCount ==
    ASSUME NEW n \in Nat, n \in Counts, NEW unit \in Units
    PROVE  LET secs == Truncated(n * Period[unit], Second)
           IN  /\ Fits(secs, "s", unit)
               /\ Truncated(secs * Second, Period[unit]) + (Rest(n, unit) \div Period[unit]) = n
<1> DEFINE p == Period[unit]
           w == n * p
           secs == Truncated(w, Second)
           rest == w - secs * Second
           v == Truncated(secs * Second, p)
<1>1. p \in Nat \ {0} /\ Second \in Nat \ {0}
  BY UnitOfSecond, SecondIs
<1>2. MinCount \in Int /\ MinCount <= 0 /\ MaxCount \in Nat /\ n <= MaxCount
  BY CountsAre DEF Counts
<1>3. w \in Nat /\ w \in Int /\ w >= 0
  BY <1>1
<1>4. secs \in Nat /\ rest \in Nat /\ rest < Second /\ w = secs * Second + rest
      /\ Rest(n, unit) = rest
  <2> HIDE DEF w
  <2>1. secs = w \div Second
    BY <1>1, <1>3, TruncatedIs
  <2>2. w \div Second \in Nat /\ w % Second \in Nat /\ w % Second < Second
        /\ w = (w \div Second) * Second + (w % Second)
    BY <1>1, <1>3, Quotient
  <2> HIDE DEF secs
  <2>3. secs \in Nat /\ secs * Second \in Nat
    <3>1. secs \in Nat
      BY <2>1, <2>2
    <3> QED BY <1>1, <3>1
  <2>4. rest = w % Second
    BY <1>3, <2>1, <2>2, <2>3
  <2>5. rest \in Nat /\ rest < Second /\ w = secs * Second + rest
    BY <1>3, <2>2, <2>3, <2>4
  <2>6. Rest(n, unit) = IF rest > 0 THEN rest ELSE 0
    BY DEF Rest, w, secs
  <2> HIDE DEF rest
  <2> QED BY <2>3, <2>5, <2>6
<1>5. Fits(secs, "s", unit)
  <2> HIDE DEF secs, rest
  <2>1. secs * Second \in Nat /\ secs * Second <= w
    BY <1>1, <1>4
  <2>2. w <= MaxCount * p /\ MaxCount * p \in Nat /\ MinCount * p <= 0 /\ MinCount * p \in Int
    BY <1>1, <1>2
  <2> HIDE DEF w
  <2>3. MinCount * p <= secs * Second /\ secs * Second <= MaxCount * p
    BY <1>3, <2>1, <2>2
  <2> QED BY <2>3 DEF Fits, Second
<1>6. v + (rest \div p) = n
  <2> HIDE DEF secs, rest, p
  <2>1. ASSUME NEW k \in Nat \ {0}, Second = k * p PROVE v + (rest \div p) = n
    <3> DEFINE x == secs * k
    <3>1. x \in Nat /\ secs * Second = x * p
      BY <1>1, <1>4, <2>1
    <3> HIDE DEF x
    <3>2. v = x
      BY <1>1, <3>1, WholeQuotient
    <3>3. n * p = x * p + rest
      BY <1>4, <3>1
    <3>4. x <= n
      <4>1. x * p <= n * p
        <5>1. x * p \in Nat /\ n * p \in Nat
          BY <1>1, <3>1
        <5> QED BY <1>4, <3>3, <5>1
      <4> QED BY <1>1, <3>1, <4>1, AtMostTimes
    <3> DEFINE y == n - x
    <3>5. y \in Nat /\ n = x + y
      BY <3>1, <3>4
    <3> HIDE DEF y
    <3>6. rest = y * p
      <4>1. n * p = x * p + y * p
        BY <1>1, <3>1, <3>5
      <4>2. x * p \in Nat /\ y * p \in Nat
        BY <1>1, <3>1, <3>5
      <4> QED BY <1>4, <3>3, <4>1, <4>2
    <3>7. y * p <= rest /\ rest < (y + 1) * p
      <4>1. (y + 1) * p = y * p + p /\ y * p \in Nat
        BY <1>1, <3>5
      <4> QED BY <1>1, <3>6, <4>1
    <3>8. rest \div p = y
      BY <1>1, <1>4, <3>5, <3>7, QuotientIs
    <3> QED BY <3>1, <3>2, <3>5, <3>8
  <2>2. ASSUME NEW k \in Nat \ {0, 1}, p = k * Second PROVE v + (rest \div p) = n
    <3> DEFINE x == n * k
    <3>1. x \in Nat /\ w = x * Second
      BY <1>1, <2>2
    <3> HIDE DEF x
    <3>2. secs = x
      <4> HIDE DEF w
      <4> QED BY <1>1, <3>1, WholeQuotient DEF secs
    <3>3. secs * Second = n * p
      BY <3>1, <3>2
    <3>4. rest = 0
      <4>1. x * Second \in Nat
        BY <1>1, <3>1
      <4> QED BY <1>4, <3>1, <3>2, <4>1
    <3>5. v = n
      BY <1>1, <3>3, WholeQuotient
    <3>6. 0 * p <= rest /\ rest < (0 + 1) * p /\ rest \in Nat
      BY <1>1, <3>4
    <3>7. rest \div p = 0
      BY <1>1, <3>6, QuotientIs
    <3> QED BY <3>5, <3>7
  <2> QED BY <2>1, <2>2, UnitOfSecond DEF p
<1> QED BY <1>4, <1>5, <1>6

LEMMA AnsweredImplyWritten == CallAnswered => WrittenIsRead
<1> SUFFICES ASSUME CallAnswered, Called("write"), reply.outcome = "returned"
             PROVE  fromIso8601String(reply.value, asked.unit) =
                        IF asked.count >= 0 THEN Returned(asked.count)
                        ELSE checkedDurationCast(reply.value.clock, "s", asked.unit)
  BY DEF WrittenIsRead, Answered
<1> DEFINE n == asked.count
           unit == asked.unit
           p == Period[unit]
           secs == Truncated(n * p, Second)
<1>1. n \in Counts /\ unit \in Units /\ reply = toIso8601String(n, unit)
  BY DEF CallAnswered, Called, Requests
<1> HIDE DEF n, unit
<1>2. secs \in Counts /\ reply = Returned(TextWritten(n, unit)) /\ Rest(n, unit) \in Nat
  BY <1>1, WriteIs
<1>3. reply.value = TextWritten(n, unit) /\ reply.value.clock = secs
  BY <1>2 DEF Returned, TextWritten
<1>4. fromIso8601String(reply.value, unit) = TimePoint(secs, Rest(n, unit), unit)
  BY <1>1, <1>3, WrittenIsParsed
<1>5. n \in Int /\ MaxCount \in Int /\ MinCount \in Int /\ n <= MaxCount
      /\ p \in Nat \ {0} /\ Second \in Nat \ {0}
  BY <1>1, CountsAre, UnitOfSecond, SecondIs DEF Counts
<1>6. CASE n >= 0
  <2> DEFINE v == Truncated(secs * Second, p)
             d == Rest(n, unit) \div p
  <2>1. n \in Nat
    BY <1>5, <1>6
  <2>2. Fits(secs, "s", unit) /\ v + d = n
    BY <1>1, <2>1, PartsOfCount
  <2>3. ~(v + d > MaxCount) => TimePoint(secs, Rest(n, unit), unit) = Returned(v + d)
    BY <1>1, <1>2, <2>2, TimePointIs
  <2> HIDE DEF v, d
  <2>4. TimePoint(secs, Rest(n, unit), unit) = Returned(n)
    BY <1>5, <2>2, <2>3
  <2> HIDE DEF secs
  <2> QED BY <1>4, <1>6, <2>4 DEF n, unit
<1>7. CASE ~(n >= 0)
  <2>1. Rest(n, unit) = 0
    <3> DEFINE m == (-n) * p
               q == m \div Second
    <3>1. m \in Nat \ {0} /\ n * p = -m
      <4>1. -n \in Nat \ {0}
        BY <1>5, <1>7
      <4> QED BY <1>5, <4>1
    <3>2. q \in Nat /\ m = q * Second + (m % Second) /\ m % Second \in Nat
      <4> HIDE DEF m
      <4> QED BY <1>5, <3>1, Quotient
    <3>3. Truncated(-m, Second) = -q
      <4> HIDE DEF m
      <4>1. -m < 0 /\ -(-m) = m
        BY <3>1
      <4> QED BY <4>1 DEF Truncated, WithSign, Magnitude, q
    <3> HIDE DEF m, q
    <3>4. secs = -q
      BY <3>1, <3>3
    <3> HIDE DEF secs
    <3>5. ~(n * p - secs * Second > 0)
      <4>1. q * Second \in Nat /\ secs * Second = -(q * Second)
        BY <1>5, <3>2, <3>4
      <4> QED BY <3>1, <3>2, <4>1
    <3> QED BY <3>5 DEF Rest, secs
  <2>2. checkedDurationCast(secs, "s", unit) = Exact(secs, "s", unit)
    <3>1. "s" \in Units
      BY DEF Units
    <3> HIDE DEF secs
    <3> QED BY <1>1, <1>2, <3>1, CastIs
  <2> DEFINE v == Truncated(secs * Second, p)
             d == 0 \div p
  <2>3. d = 0
    <3>1. 0 * p <= 0 /\ 0 < (0 + 1) * p /\ 0 \in Nat
      BY <1>5
    <3> QED BY <1>5, <3>1, QuotientIs
  <2>4. secs \in Int /\ "s" \in Units
    BY <1>2, CountsAre DEF Counts, Units
  <2>5. CASE ~Fits(secs, "s", unit)
    <3>1. Exact(secs, "s", unit) = Thrown("overflow_error")
      BY <1>1, <2>4, <2>5, ExactIs
    <3>2. TimePoint(secs, Rest(n, unit), unit) = Thrown("overflow_error")
      BY <1>1, <1>2, <2>5, TimePointIs
    <3> HIDE DEF secs
    <3> QED BY <1>3, <1>4, <1>7, <2>2, <3>1, <3>2 DEF n, unit
  <2>6. CASE Fits(secs, "s", unit)
    <3>1. Exact(secs, "s", unit) = Returned(v) /\ v \in Counts
      BY <1>1, <2>4, <2>6, ExactIs DEF Second
    <3>2. 0 \in Nat
      OBVIOUS
    <3>3. ~(v + d > MaxCount) => TimePoint(secs, 0, unit) = Returned(v + d)
      BY <1>1, <1>2, <2>6, <3>2, TimePointIs
    <3> HIDE DEF v, d
    <3>4. v \in Int /\ v + d = v /\ ~(v + d > MaxCount)
      BY <1>5, <2>3, <3>1 DEF Counts
    <3>5. TimePoint(secs, Rest(n, unit), unit) = Returned(v)
      BY <2>1, <3>3, <3>4
    <3> HIDE DEF secs
    <3> QED BY <1>3, <1>4, <1>7, <2>2, <3>1, <3>5 DEF n, unit
  <2> QED BY <2>5, <2>6
<1> QED BY <1>6, <1>7

(* A second and its fraction in units of a second or less.                 *)
LEMMA InstantInUnits ==
    ASSUME NEW tm \in Int, NEW ns \in Nat, NEW p \in Nat \ {0}, NEW s \in Nat, NEW k \in Nat \ {0},
           s = k * p
    PROVE  LET instant == tm * s + ns
               r == Truncated(tm * s, p) + (ns \div p)
           IN  r \in Int /\ instant \in Int /\ r * p <= instant /\ instant < (r + 1) * p
<1> DEFINE x == tm * k
           d == ns \div p
           r == x + d
<1>1. x \in Int /\ tm * s = x * p
  OBVIOUS
<1>2. d \in Nat /\ ns % p \in Nat /\ ns % p < p /\ ns = d * p + (ns % p)
  BY Quotient
<1> HIDE DEF x, d
<1>3. Truncated(tm * s, p) = x
  BY <1>1, WholeQuotient
<1>4. r \in Int /\ r * p = x * p + d * p /\ (r + 1) * p = x * p + d * p + p
  BY <1>1, <1>2
<1>5. x * p \in Int /\ d * p \in Int /\ p \in Int
  BY <1>1, <1>2
<1> HIDE DEF r
<1>6. r * p <= tm * s + ns /\ tm * s + ns < (r + 1) * p /\ tm * s + ns \in Int
  BY <1>1, <1>2, <1>4, <1>5
<1>7. Truncated(tm * s, p) + (ns \div p) = r
  BY <1>3 DEF r, d
<1> QED BY <1>4, <1>6, <1>7

LEMMA AnsweredImplyInstant == CallAnswered => InstantIsRead
<1> SUFFICES ASSUME CallAnswered, Called("read"), reply.outcome # "aborted",
                    Parsed(asked.text).outcome = "returned"
             PROVE  LET p == Parsed(asked.text).value
                        instant == p.tm * Second + p.ns
                        unit == Period[asked.unit]
                    IN  /\ reply = Thrown("overflow_error") <=> ~Fits(p.tm, "s", asked.unit)
                        /\ reply.outcome = "undefined" <=>
                              Fits(p.tm, "s", asked.unit) /\ instant >= (MaxCount + 1) * unit
                        /\ reply.outcome = "returned" /\ unit <= Second =>
                              reply.value * unit <= instant /\ instant < (reply.value + 1) * unit
  BY DEF InstantIsRead, Answered
<1> DEFINE text == asked.text
           u == asked.unit
           unit == Period[u]
<1>1. text \in Texts /\ u \in Units /\ reply = fromIso8601String(text, u)
  BY DEF CallAnswered, Called, Requests
<1>2. PICK tm \in Counts, ns \in 0 .. Second : Parsed(text) = Returned([tm |-> tm, ns |-> ns])
  BY <1>1, ParsedIs
<1>3. Parsed(text).value.tm = tm /\ Parsed(text).value.ns = ns /\ ns \in Nat /\ ns <= Second
  BY <1>2, SecondIs DEF Returned
<1>4. reply = TimePoint(tm, ns, u)
  BY <1>1, <1>2 DEF fromIso8601String, Returned
<1> DEFINE instant == tm * Second + ns
           v == Truncated(tm * Second, unit)
           d == ns \div unit
<1>5. SUFFICES /\ reply = Thrown("overflow_error") <=> ~Fits(tm, "s", u)
               /\ reply.outcome = "undefined" <=>
                     Fits(tm, "s", u) /\ instant >= (MaxCount + 1) * unit
               /\ reply.outcome = "returned" /\ unit <= Second =>
                     reply.value * unit <= instant /\ instant < (reply.value + 1) * unit
  BY <1>3
<1> HIDE DEF text, u
<1>6. /\ unit \in Nat \ {0} /\ Second \in Nat \ {0} /\ tm \in Int
      /\ MaxCount \in Nat /\ MinCount \in Int
  BY <1>1, CountsAre, UnitOfSecond, SecondIs DEF Counts
<1>7. CASE ~Fits(tm, "s", u)
  <2>1. reply = Thrown("overflow_error")
    BY <1>1, <1>3, <1>4, <1>7, TimePointIs
  <2>2. reply.outcome = "thrown"
    BY <2>1, RepliesHold
  <2> HIDE DEF instant, unit
  <2> QED BY <1>7, <2>1, <2>2
<1>8. CASE Fits(tm, "s", u)
  <2> DEFINE r == v + d
  <2>1. /\ v \in Counts /\ d \in Nat
        /\ r > MaxCount => reply = Undefined
        /\ ~(r > MaxCount) => reply = Returned(r) /\ r \in Counts
    BY <1>1, <1>3, <1>4, <1>8, TimePointIs
  <2>2. v \in Int /\ v <= MaxCount /\ r \in Int
    BY <1>6, <2>1 DEF Counts
  <2>3. reply # Thrown("overflow_error")
    <3> HIDE DEF r, v, d
    <3> QED BY <2>1, RepliesHold
  <2>4. /\ reply.outcome = "undefined" <=> r > MaxCount
        /\ reply.outcome = "returned" => reply.value = r
    <3> HIDE DEF r, v, d
    <3>1. Returned(r).outcome = "returned" /\ Returned(r).value = r /\ Undefined.outcome = "undefined"
      BY RepliesHold
    <3> QED BY <2>1, <3>1
  <2>5. ASSUME NEW k \in Nat \ {0}, Second = k * unit
        PROVE  /\ r > MaxCount <=> instant >= (MaxCount + 1) * unit
               /\ r * unit <= instant /\ instant < (r + 1) * unit
    <3>1. instant \in Int /\ r * unit <= instant /\ instant < (r + 1) * unit
      <4> HIDE DEF unit
      <4> QED BY <1>3, <1>6, <2>5, InstantInUnits
    <3> HIDE DEF r, instant, unit
    <3>2. MaxCount + 1 \in Int /\ r + 1 \in Int /\ unit \in Nat
      BY <1>6, <2>2
    <3>3. r > MaxCount => MaxCount + 1 <= r
      BY <1>6, <2>2
    <3>4. ~(r > MaxCount) => r + 1 <= MaxCount + 1
      BY <1>6, <2>2
    <3>5. MaxCount + 1 <= r => (MaxCount + 1) * unit <= r * unit
      BY <2>2, <3>2, OrderTimes
    <3>6. r + 1 <= MaxCount + 1 => (r + 1) * unit <= (MaxCount + 1) * unit
      BY <2>2, <3>2, OrderTimes
    <3>7. (MaxCount + 1) * unit \in Int /\ r * unit \in Int /\ (r + 1) * unit \in Int
      BY <2>2, <3>2
    <3> QED BY <3>1, <3>3, <3>4, <3>5, <3>6, <3>7
  <2>6. ASSUME NEW k \in Nat \ {0, 1}, unit = k * Second
        PROVE  ~(r > MaxCount) /\ ~(instant >= (MaxCount + 1) * unit) /\ ~(unit <= Second)
    <3>1. Second < unit
      BY <1>6, <2>6
    <3>2. d = 0
      <4> HIDE DEF unit
      <4>1. 0 * unit <= ns /\ ns < (0 + 1) * unit
        BY <1>3, <1>6, <3>1
      <4> QED BY <1>3, <1>6, <4>1, QuotientIs
    <3>3. ~(r > MaxCount)
      <4> HIDE DEF v, d
      <4> QED BY <1>6, <2>2, <3>2
    <3>4. tm * Second <= MaxCount * unit
      BY <1>8 DEF Fits, Second
    <3>5. (MaxCount + 1) * unit = MaxCount * unit + unit /\ MaxCount * unit \in Int
      <4> HIDE DEF unit
      <4> QED BY <1>6
    <3>6. ~(instant >= (MaxCount + 1) * unit)
      <4> HIDE DEF unit
      <4>1. tm * Second \in Int
        BY <1>6
      <4> QED BY <1>3, <1>6, <3>1, <3>4, <3>5, <4>1
    <3>7. ~(unit <= Second)
      <4> HIDE DEF unit
      <4> QED BY <1>6, <3>1
    <3> QED BY <3>3, <3>6, <3>7
  <2>7. (\E k \in Nat \ {0} : Second = k * unit) \/ (\E k \in Nat \ {0, 1} : unit = k * Second)
    BY <1>1, UnitOfSecond
  <2> HIDE DEF r, instant, unit
  <2>8. CASE \E k \in Nat \ {0} : Second = k * unit
    BY <1>8, <2>3, <2>4, <2>5, <2>8
  <2>9. CASE \E k \in Nat \ {0, 1} : unit = k * Second
    BY <1>8, <2>3, <2>4, <2>6, <2>9
  <2> QED BY <2>7, <2>8, <2>9
<1> QED BY <1>7, <1>8

-----------------------------------------------------------------------------
(* The conversions.                                                        *)

(* For every text and every length of an hour and a minute, parseIso8601   *)
(* returns the clock of the text less the offset of its zone, with the one *)
(* exception of +00:mm.                                                    *)
THEOREM OffsetSubtracted == ConvSpec => []OffsetIsSubtracted
BY AlwaysAnswered, AnsweredImplyOffset, PTL

(* Whatever the units are multiples of and however wide a count is, as     *)
(* long as a long double has as many significant bits, checkedDurationCast *)
(* returns the truncated value of what lies within the limits of its       *)
(* target and throws for all else, although it decides by floating point.  *)
THEOREM CastExact == ConvSpec => []CastIsExact
BY AlwaysAnswered, AnsweredImplyExact, PTL

(* Every time point at or after the epoch, in any unit, is read by         *)
(* fromIso8601String from what toIso8601String writes of it.               *)
THEOREM WrittenRead == ConvSpec => []WrittenIsRead
BY AlwaysAnswered, AnsweredImplyWritten, PTL

(* fromIso8601String returns the last time point not after the instant in  *)
(* the text, throws exactly if its seconds do not fit, and overflows       *)
(* unnoticed exactly if only the fraction does not.                        *)
THEOREM InstantRead == ConvSpec => []InstantIsRead
BY AlwaysAnswered, AnsweredImplyInstant, PTL

(* convert returns the number that a text starts with, as a duration in    *)
(* the unit it ends with, or throws if the type cannot hold it.            *)
THEOREM ConvertedCorrectly == ConvSpec => []ConvertedAsWritten
BY AlwaysAnswered, AnsweredImplyConverted, PTL
=============================================================================

---------------------------- MODULE TimeZoneEnv ----------------------------
(***************************************************************************)
(* tmToTime and timeToTm (Sources/timeutil.cpp), called by several threads *)
(* of one process.  A call that names a time zone puts it in the           *)
(* environment variable TZ for the time of the conversion, under           *)
(* tzEnvMutex; a call with an empty zone converts in whatever zone the C   *)
(* library has in effect, without the mutex.                               *)
(*                                                                         *)
(* The C library is external: `env' is TZ, `zone' the zone tzset() last    *)
(* took from it.  timelocal() takes it anew, localtime_r() only when that  *)
(* was never done.  POSIX lets setenv() overwrite the string an earlier    *)
(* getenv() returned; `inPlace' says whether this library may.             *)
(***************************************************************************)
EXTENDS Naturals

CONSTANTS
    Threads,
    Zones,     (* time zones that can be named                             *)
    Unset,     (* TZ not set; the empty tzone argument                     *)
    Unread,    (* tzset() was not called yet                               *)
    Failed,    (* a conversion that threw, or none yet                     *)
    Free       (* the mutex has no holder                                  *)

ASSUME ValuesAssumption ==
    /\ Unset \notin Zones
    /\ Unread \notin Zones \cup {Unset}
    /\ Failed \notin Zones \cup {Unset}
    /\ Free \notin Threads

VARIABLES
    env, zone, inPlace, machine,   (* machine: TZ as the process was started *)
    tzEnvMutex,
    pc,       (* where each thread is                                      *)
    call,     (* the function it is in or was last in                      *)
    tzone,    (* that call's argument                                      *)
    oldtz,    (* what the pointer from getenv("TZ") reads                  *)
    used      (* the zone the conversion was made in                       *)

library == <<env, zone, inPlace, machine>>
vars == <<env, zone, inPlace, machine, tzEnvMutex, pc, call, tzone, oldtz, used>>

Calls == {"tmToTime", "timeToTm"}
Settings == Zones \cup {Unset}

(* The steps made while holding the mutex.                                 *)
Steps == {"getenv", "setenv", "tzset", "convert", "restore", "retzset", "unlock"}

Init ==
    /\ machine \in Settings
    /\ env = machine
    /\ zone = Unread
    /\ inPlace \in BOOLEAN
    /\ tzEnvMutex = Free
    /\ pc = [t \in Threads |-> "idle"]
    /\ call = [t \in Threads |-> "tmToTime"]
    /\ tzone = [t \in Threads |-> Unset]
    /\ oldtz = [t \in Threads |-> Unset]
    /\ used = [t \in Threads |-> Failed]

Goto(t, from, to) == pc[t] = from /\ pc' = [pc EXCEPT ![t] = to]

Enter(t, f, z) ==
    /\ Goto(t, "idle", IF z = Unset THEN "local" ELSE "lock")
    /\ call' = [call EXCEPT ![t] = f]
    /\ tzone' = [tzone EXCEPT ![t] = z]
    /\ used' = [used EXCEPT ![t] = Failed]
    /\ UNCHANGED <<library, tzEnvMutex, oldtz>>

(* The zone a call of f converts in; the library remembers it.             *)
Effective(f) == IF f = "tmToTime" \/ zone = Unread THEN env ELSE zone

(* The C call may fail, and then the function throws.                      *)
Converts(t) ==
    /\ zone' = Effective(call[t])
    /\ \/ used' = [used EXCEPT ![t] = Effective(call[t])]
       \/ UNCHANGED used
    /\ UNCHANGED <<env, inPlace, machine, tzEnvMutex, call, tzone, oldtz>>

(* Seeded fault: no lock_guard.                                            *)
LockNotTaken(t) ==
    /\ Goto(t, "lock", "getenv")
    /\ tzEnvMutex' = t
    /\ UNCHANGED <<library, call, tzone, oldtz, used>>

Lock(t) ==
    /\ Goto(t, "lock", "getenv")
    /\ tzEnvMutex = Free
    /\ tzEnvMutex' = t
    /\ UNCHANGED <<library, call, tzone, oldtz, used>>

GetEnv(t) ==
    /\ Goto(t, "getenv", "setenv")
    /\ oldtz' = [oldtz EXCEPT ![t] = env]
    /\ UNCHANGED <<library, tzEnvMutex, call, tzone, used>>

SetEnv(t) ==
    /\ Goto(t, "setenv", "tzset")
    /\ env' = tzone[t]
    /\ \/ UNCHANGED oldtz
       \/ /\ inPlace /\ oldtz[t] # Unset
          /\ oldtz' = [oldtz EXCEPT ![t] = tzone[t]]
    /\ UNCHANGED <<zone, inPlace, machine, tzEnvMutex, call, tzone, used>>

TzSet(t) ==
    /\ Goto(t, "tzset", "convert")
    /\ zone' = env
    /\ UNCHANGED <<env, inPlace, machine, tzEnvMutex, call, tzone, oldtz, used>>

(* Seeded fault: a failed conversion leaves the function at once.          *)
ConvertOrLeave(t) ==
    \/ Goto(t, "convert", "restore") /\ Converts(t)
    \/ /\ Goto(t, "convert", "idle")
       /\ UNCHANGED <<library, tzEnvMutex, call, tzone, oldtz, used>>

Convert(t) ==
    /\ Goto(t, "convert", "restore")
    /\ Converts(t)

(* Seeded fault: no Finally object.                                        *)
RestoreNothing(t) ==
    /\ Goto(t, "restore", "retzset")
    /\ UNCHANGED <<library, tzEnvMutex, call, tzone, oldtz, used>>

(* The body of the Finally object, run on return and on throw.             *)
Restore(t) ==
    /\ Goto(t, "restore", "retzset")
    /\ env' = oldtz[t]
    /\ UNCHANGED <<zone, inPlace, machine, tzEnvMutex, call, tzone, oldtz, used>>

(* Seeded fault: the library is not told of the restored zone.             *)
RetainZone(t) ==
    /\ Goto(t, "retzset", "unlock")
    /\ UNCHANGED <<library, tzEnvMutex, call, tzone, oldtz, used>>

ReTzSet(t) ==
    /\ Goto(t, "retzset", "unlock")
    /\ zone' = env
    /\ UNCHANGED <<env, inPlace, machine, tzEnvMutex, call, tzone, oldtz, used>>

Unlock(t) ==
    /\ Goto(t, "unlock", "idle")
    /\ tzEnvMutex' = Free
    /\ UNCHANGED <<library, call, tzone, oldtz, used>>

ConvertLocal(t) ==
    /\ Goto(t, "local", "idle")
    /\ Converts(t)

Inside(t) == GetEnv(t) \/ SetEnv(t) \/ TzSet(t) \/ Convert(t) \/ Restore(t) \/ ReTzSet(t) \/ Unlock(t)

Next ==
    \E t \in Threads :
        \/ \E f \in Calls, z \in Settings : Enter(t, f, z)
        \/ ConvertLocal(t)
        \/ Lock(t)
        \/ GetEnv(t)
        \/ SetEnv(t)
        \/ TzSet(t)
        \/ Convert(t)
        \/ Restore(t)
        \/ ReTzSet(t)
        \/ Unlock(t)

(* The scheduler does not leave a thread in the middle of a call for ever. *)
(* Nothing is assumed of the order in which waiting threads get the mutex. *)
Fairness == \A t \in Threads : WF_vars(Inside(t)) /\ WF_vars(ConvertLocal(t))

Spec == Init /\ [][Next]_vars /\ Fairness

-----------------------------------------------------------------------------
(* Properties.                                                             *)

(* The C library, the mutex and the threads' variables have their types.   *)
TypeOK ==
    /\ machine \in Settings /\ env \in Settings
    /\ zone \in Settings \cup {Unread}
    /\ inPlace \in BOOLEAN
    /\ tzEnvMutex \in Threads \cup {Free}
    /\ pc \in [Threads -> Steps \cup {"idle", "local", "lock"}]
    /\ call \in [Threads -> Calls]
    /\ tzone \in [Threads -> Settings]
    /\ oldtz \in [Threads -> Settings]
    /\ used \in [Threads -> Settings \cup {Failed}]

(* A conversion in a named zone is made in that zone, whatever the other   *)
(* threads convert meanwhile, with or without a zone.                      *)
NamedZoneIsUsed ==
    \A t \in Threads :
        pc[t] \in {"restore", "retzset", "unlock"} => used[t] \in {tzone[t], Failed}

(* getenv's string survives: the library does not reuse it, or there was   *)
(* none because TZ was not set.                                            *)
OldtzSurvives == ~inPlace \/ machine = Unset

(* While no thread holds the mutex, TZ and the zone in effect are those    *)
(* the process was started with, also after conversions that threw.        *)
ZoneRestored ==
    OldtzSurvives /\ tzEnvMutex = Free => env = machine /\ zone \in {machine, Unread}

(* The same, of states whose variables have their types.                   *)
ZoneHandedBack == TypeOK /\ ZoneRestored

(* A local conversion is made in a foreign zone only while another thread  *)
(* is inside a conversion with a named zone: the interference never lasts. *)
LocalDisturbedOnlyByHolder ==
    [][\A t \in Threads :
         OldtzSurvives /\ pc[t] = "local" /\ used'[t] \notin {machine, Failed}
             => tzEnvMutex \in Threads \ {t}]_vars

(* Every thread that gets the mutex gives it up, however the conversion    *)
(* ends.                                                                   *)
MutexReleased == \A t \in Threads : (tzEnvMutex = t) ~> (tzEnvMutex # t)
=============================================================================

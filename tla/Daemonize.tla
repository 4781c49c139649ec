----------------------------- MODULE Daemonize -----------------------------
(***************************************************************************)
(* kss::util::process::daemonize (Sources/daemonize.cpp): the process that *)
(* calls it, the child it forks and the process that child forks, each     *)
(* with its own copy of what a fork copies.                                *)
(*                                                                         *)
(* `at' is the call a process is about to make.  A process that threw is   *)
(* back in its program with an exception; one that returned is the daemon. *)
(* The system calls are external: they do what POSIX says of them, and     *)
(* those that depend on the system may fail.                               *)
(***************************************************************************)
EXTENDS Integers, FiniteSets

CONSTANTS
    Names, Account,   (* the users, and the ids of each                    *)
    NoUser, Nobody,   (* user is empty; a name that has no account         *)
    Root,             (* the uid that may take any id                      *)
    MaxFd,            (* bound on the descriptors                          *)
    IntMax            (* the largest int                                   *)

ASSUME NamesAssumption == NoUser \notin Names /\ Nobody \notin Names /\ NoUser # Nobody
ASSUME AccountAssumption == Account \in [Names -> [uid : Nat, gid : Nat]]
ASSUME NumbersAssumption == MaxFd \in Nat /\ IntMax \in Nat

Procs == {"caller", "child", "daemon"}

VARIABLES
    user,      (* the argument                                             *)
    limit,     (* what sysconf(_SC_OPEN_MAX) answers                       *)
    began,     (* the caller before the call                               *)
    at, proc,
    written    (* times the output the caller had buffered was written     *)

vars == <<user, limit, began, at, proc, written>>
given == <<user, limit, began>>

Descriptors == 3 .. MaxFd

(* (int)maxfd                                                              *)
AsInt(n) == IF n > IntMax THEN n - 2 * (IntMax + 1) ELSE n

Ids == {Account[n] : n \in Names}

(* A program with any descriptors open, perhaps the leader of its process  *)
(* group, perhaps with output it has not flushed.                          *)
Init ==
    /\ user \in Names \cup {NoUser, Nobody}
    /\ limit \in {-1} \cup 0 .. 2 * IntMax + 1
    /\ \E group \in {"caller", "shell"}, fds \in SUBSET Descriptors,
          u, g \in Ids, pending \in BOOLEAN :
          began = [group |-> group, session |-> "shell", tty |-> TRUE,
                   cwd |-> "home", umask |-> "inherited", open |-> fds,
                   stdin |-> "inherited", stdout |-> "inherited", stderr |-> "inherited",
                   uid |-> u.uid, gid |-> g.gid, pending |-> pending]
    /\ proc = [p \in Procs |-> began]
    /\ at = [p \in Procs |-> IF p = "caller" THEN "fork" ELSE "absent"]
    /\ written = 0

-----------------------------------------------------------------------------
Goes(p, from, to) ==
    /\ at[p] = from
    /\ at' = [at EXCEPT ![p] = to]
    /\ UNCHANGED given

Throws(p, from) == Goes(p, from, "threw") /\ UNCHANGED <<proc, written>>

(* What is pending in stdout's buffer goes where stdout goes.              *)
Flush(p) == written' = IF proc[p].pending THEN written + 1 ELSE written

(* Seeded fault: the output is written before the fork.                    *)
fork_flushed(p, new, from, to) ==
    /\ at[p] = from
    /\ at' = [at EXCEPT ![p] = "exit", ![new] = to]
    /\ proc' = [proc EXCEPT ![p].pending = FALSE, ![new] = [proc[p] EXCEPT !.pending = FALSE]]
    /\ Flush(p)
    /\ UNCHANGED given

(* The new process is a copy that goes on behind the fork.                 *)
fork(p, new, from, to) ==
    /\ at[p] = from
    /\ at' = [at EXCEPT ![p] = "exit", ![new] = to]
    /\ proc' = [proc EXCEPT ![new] = proc[p]]
    /\ UNCHANGED <<user, limit, began, written>>

exit(p) ==
    /\ Goes(p, "exit", "exited")
    /\ Flush(p)
    /\ UNCHANGED proc

(* Not for the leader of a process group.                                  *)
setsid(p) ==
    IF proc[p].group = p THEN Throws(p, "setsid")
    ELSE /\ Goes(p, "setsid", "fork (2)")
         /\ proc' = [proc EXCEPT ![p].session = p, ![p].group = p, ![p].tty = FALSE]
         /\ UNCHANGED written

chdir(p) ==
    /\ Goes(p, "chdir", "umask")
    /\ proc' = [proc EXCEPT ![p].cwd = "/"]
    /\ UNCHANGED written

umask(p) ==
    /\ Goes(p, "umask", "sysconf")
    /\ proc' = [proc EXCEPT ![p].umask = "0"]
    /\ UNCHANGED written

(* for (fd = 3; fd < (int)maxfd; ++fd) close(fd)                           *)
close_all(p) ==
    IF limit = -1 THEN Throws(p, "sysconf")
    ELSE /\ Goes(p, "sysconf", "stdin")
         /\ proc' = [proc EXCEPT ![p].open = {fd \in @ : fd >= AsInt(limit)}]
         /\ UNCHANGED written

(* freopen closes the stream, and then opens the file or fails.            *)
freopen_stdin(p) ==
    /\ \/ Goes(p, "stdin", "stdout") /\ proc' = [proc EXCEPT ![p].stdin = "null"]
       \/ Goes(p, "stdin", "threw") /\ proc' = [proc EXCEPT ![p].stdin = "closed"]
    /\ UNCHANGED written

freopen_stdout(p) ==
    /\ \/ /\ Goes(p, "stdout", "stderr")
          /\ proc' = [proc EXCEPT ![p].stdout = "null", ![p].pending = FALSE]
       \/ /\ Goes(p, "stdout", "threw")
          /\ proc' = [proc EXCEPT ![p].stdout = "closed", ![p].pending = FALSE]
    /\ Flush(p)

(* The leader of a session without a terminal that opens one gets it.      *)
OpensConsole(p) ==
    proc' = [proc EXCEPT ![p].stderr = "console", ![p].tty = @ \/ proc[p].session = p]

Behind(p) == IF user = NoUser THEN "returned" ELSE "getpwnam"

freopen_stderr(p) ==
    /\ \/ Goes(p, "stderr", Behind(p)) /\ OpensConsole(p)
       \/ Goes(p, "stderr", Behind(p)) /\ proc' = [proc EXCEPT ![p].stderr = "null"]
       \/ Goes(p, "stderr", "threw") /\ proc' = [proc EXCEPT ![p].stderr = "closed"]
    /\ UNCHANGED written

getpwnam(p) ==
    IF user = Nobody THEN Throws(p, "getpwnam")
    ELSE Goes(p, "getpwnam", "setuid") /\ UNCHANGED <<proc, written>>

(* Root may take any id; any other process only the one it has.            *)
MayTake(p, id, own) == proc[p].uid = Root \/ id = own

(* Seeded fault: a refused setuid is not noticed.                          *)
setuid_unchecked(p) ==
    /\ Goes(p, "setuid", "setgid")
    /\ proc' = IF MayTake(p, Account[user].uid, proc[p].uid)
               THEN [proc EXCEPT ![p].uid = Account[user].uid] ELSE proc
    /\ UNCHANGED written

setuid(p) ==
    IF ~MayTake(p, Account[user].uid, proc[p].uid) THEN Throws(p, "setuid")
    ELSE /\ Goes(p, "setuid", "setgid")
         /\ proc' = [proc EXCEPT ![p].uid = Account[user].uid]
         /\ UNCHANGED written

setgid(p) ==
    IF ~MayTake(p, Account[user].gid, proc[p].gid) THEN Throws(p, "setgid")
    ELSE /\ Goes(p, "setgid", "returned")
         /\ proc' = [proc EXCEPT ![p].gid = Account[user].gid]
         /\ UNCHANGED written

(* Seeded fault: the child goes on, without a second fork.                 *)
ForksOnce(p) ==
    \/ p = "caller" /\ fork(p, "child", "fork", "setsid")
    \/ p = "child" /\ Goes(p, "fork (2)", "chdir") /\ UNCHANGED <<proc, written>>

Forks(p) ==
    \/ p = "caller" /\ fork(p, "child", "fork", "setsid")
    \/ p = "child" /\ fork(p, "daemon", "fork (2)", "chdir")

(* A system call fails that may fail for reasons outside the program.      *)
Refused(p) == \E call \in {"fork", "fork (2)", "chdir", "getpwnam"} : Throws(p, call)

(* Seeded fault: the child waits at its exit for the daemon to return.     *)
StepsWaiting(p) ==
    \/ Forks(p) \/ Refused(p)
    \/ exit(p) /\ (p = "child" => at["daemon"] = "returned")
    \/ at[p] = "setsid" /\ setsid(p)
    \/ chdir(p) \/ umask(p)
    \/ at[p] = "sysconf" /\ close_all(p)
    \/ freopen_stdin(p) \/ freopen_stdout(p) \/ freopen_stderr(p)
    \/ at[p] = "getpwnam" /\ getpwnam(p)
    \/ at[p] = "setuid" /\ setuid(p)
    \/ at[p] = "setgid" /\ setgid(p)

Step(p) ==
    \/ Forks(p) \/ Refused(p)
    \/ exit(p)
    \/ at[p] = "setsid" /\ setsid(p)
    \/ chdir(p) \/ umask(p)
    \/ at[p] = "sysconf" /\ close_all(p)
    \/ freopen_stdin(p) \/ freopen_stdout(p) \/ freopen_stderr(p)
    \/ at[p] = "getpwnam" /\ getpwnam(p)
    \/ at[p] = "setuid" /\ setuid(p)
    \/ at[p] = "setgid" /\ setgid(p)

Next == \E p \in Procs : Step(p)

(* The scheduler runs a process that has a step to take.                   *)
Spec == Init /\ [][Next]_vars /\ \A p \in Procs : WF_vars(Step(p))

-----------------------------------------------------------------------------
(* Properties.                                                             *)

IdsOf(r) == [uid |-> r.uid, gid |-> r.gid]

(* Only the last process returns, and it is a daemon: in a session it does *)
(* not lead, so that opening the console gave it no terminal, with its     *)
(* streams elsewhere and nothing of the caller's in their buffers.  Of the *)
(* descriptors below the limit none is open, if the limit is an int.       *)
DaemonIsDetached ==
    \A p \in Procs : at[p] = "returned" =>
        /\ p = "daemon"
        /\ proc[p].session \notin {p, began.session} /\ ~proc[p].tty
        /\ proc[p].cwd = "/" /\ proc[p].umask = "0"
        /\ proc[p].stdin = "null" /\ proc[p].stdout = "null"
        /\ proc[p].stderr \in {"null", "console"} /\ ~proc[p].pending
        /\ limit <= IntMax => \A fd \in proc[p].open : fd >= limit

(* A daemon has the ids it was to get, both.  setuid before setgid has two *)
(* consequences: root can become a user only of the group it is in itself, *)
(* and for any other the exception comes from a process that has already   *)
(* given up root's uid and kept its gid.  No other failure changes an id.  *)
IdsChangeTogether ==
    \A p \in Procs :
        LET halfway == /\ user \in Names
                       /\ began.uid = Root /\ Account[user].uid # Root
                       /\ Account[user].gid # began.gid
        IN  /\ at[p] = "returned" =>
                  /\ IdsOf(proc[p]) = IF user = NoUser THEN IdsOf(began) ELSE Account[user]
                  /\ ~halfway
            /\ at[p] = "threw" =>
                  \/ IdsOf(proc[p]) = IdsOf(began)
                  \/ halfway /\ IdsOf(proc[p]) = [uid |-> Account[user].uid, gid |-> began.gid]

(* Each process that comes to its end or leaves the caller's stdout writes *)
(* its copy of what the caller had buffered: a daemon was announced by     *)
(* that output three times, and a fork that failed loses none of it.       *)
BufferedOutputIsCopied ==
    LET left == {p \in Procs : at[p] = "exited"}
        behind == {p \in Procs : proc[p].stdout # "inherited"}
    IN  written = IF began.pending THEN Cardinality(left \cup behind) ELSE 0

(* Whatever fails, in the end one process is left, with the answer of the  *)
(* call, and the others are gone.                                          *)
OneRemains ==
    <>[](\E p \in Procs :
            /\ at[p] \in {"returned", "threw"}
            /\ \A q \in Procs \ {p} : at[q] \in {"absent", "exited"})
=============================================================================

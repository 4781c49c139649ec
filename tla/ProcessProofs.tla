---------------------------- MODULE ProcessProofs ----------------------------
(***************************************************************************)
(* Theorems about Daemonize and ArgumentVector, the process a program runs *)
(* in and the arguments it is given.                                       *)
(*                                                                         *)
(* Of daemonize, for every set of users, every limit of descriptors and    *)
(* every int: what the process that returns is detached from, whose ids    *)
(* the processes have, and what is written of the caller's output.  Of the *)
(* arguments, for any number of vectors of any strings: what argv() hands  *)
(* out, and what becomes of it.                                            *)
(***************************************************************************)
EXTENDS Daemonize, ArgumentVector, FiniteSetTheorems, TLAPS

Process == [group : Procs \cup {"shell"}, session : Procs \cup {"shell"}, tty : BOOLEAN,
            cwd : {"home", "/"}, umask : {"inherited", "0"}, open : SUBSET Int,
            stdin : {"inherited", "null", "closed"}, stdout : {"inherited", "null", "closed"},
            stderr : {"inherited", "null", "console", "closed"},
            uid : Nat, gid : Nat, pending : BOOLEAN]

Labels == {"absent", "fork", "exit", "exited", "setsid", "fork (2)", "chdir", "umask", "sysconf",
           "stdin", "stdout", "stderr", "getpwnam", "setuid", "setgid", "returned", "threw"}

(* The calls each process makes, and those that lie ahead of the daemon.   *)
Places(p) ==
    IF p = "caller" THEN {"fork", "exit", "exited", "threw"}
    ELSE IF p = "child" THEN {"absent", "setsid", "fork (2)", "exit", "exited", "threw"}
    ELSE {"absent", "chdir", "umask", "sysconf", "stdin", "stdout", "stderr",
          "getpwnam", "setuid", "setgid", "returned", "threw"}

FromGetpwnam == {"getpwnam", "setuid", "setgid", "returned"}
FromStderr == FromGetpwnam \cup {"stderr"}
FromStdout == FromStderr \cup {"stdout"}
FromStdin == FromStdout \cup {"stdin"}
FromSysconf == FromStdin \cup {"sysconf"}
FromUmask == FromSysconf \cup {"umask"}
FromChdir == FromUmask \cup {"chdir"}

(* What the calls a process has behind it have done for it.                *)
Detached(p) ==
    /\ at[p] = "fork (2)" => proc[p].session = "child" /\ ~proc[p].tty
    /\ at[p] \in FromChdir => proc[p].session = "child" /\ ~proc[p].tty
    /\ at[p] \in FromUmask => proc[p].cwd = "/"
    /\ at[p] \in FromSysconf => proc[p].umask = "0"
    /\ at[p] \in FromStdin =>
          (limit <= IntMax => \A fd \in proc[p].open : fd >= limit)
    /\ at[p] \in FromStdout => proc[p].stdin = "null"
    /\ at[p] \in FromStderr => proc[p].stdout = "null" /\ ~proc[p].pending
    /\ at[p] \in FromGetpwnam => proc[p].stderr \in {"null", "console"}

(* The uid is the user's once setuid returned, for one that could take it. *)
Halfway ==
    /\ user \in Names
    /\ began.uid = Root /\ Account[user].uid # Root
    /\ Account[user].gid # began.gid

Identified(p) ==
    /\ at[p] \notin {"setgid", "returned", "threw"} => IdsOf(proc[p]) = IdsOf(began)
    /\ at[p] = "getpwnam" => user # NoUser
    /\ at[p] = "setuid" => user \in Names
    /\ at[p] = "setgid" =>
          /\ user \in Names
          /\ proc[p].uid = Account[user].uid /\ proc[p].gid = began.gid
          /\ began.uid = Root \/ Account[user].uid = began.uid
    /\ at[p] = "returned" =>
          /\ IdsOf(proc[p]) = IF user = NoUser THEN IdsOf(began) ELSE Account[user]
          /\ ~Halfway
    /\ at[p] = "threw" =>
          \/ IdsOf(proc[p]) = IdsOf(began)
          \/ Halfway /\ IdsOf(proc[p]) = [uid |-> Account[user].uid, gid |-> began.gid]

ProcessInv(p) == at[p] \in Places(p) /\ Detached(p) /\ Identified(p)

IInv ==
    /\ user \in Names \cup {NoUser, Nobody}
    /\ limit \in Int /\ limit >= -1
    /\ began \in Process /\ began.session = "shell"
    /\ at \in [Procs -> Labels] /\ proc \in [Procs -> Process]
    /\ \A p \in Procs : ProcessInv(p)

LEMMA Initially == Init => IInv
<1> SUFFICES ASSUME Init PROVE IInv
  OBVIOUS
<1>1. \A i \in Ids : i.uid \in Nat /\ i.gid \in Nat
  BY AccountAssumption DEF Ids
<1>2. \A fds \in SUBSET Descriptors : fds \in SUBSET Int
  BY NumbersAssumption DEF Descriptors
<1>3. began \in Process /\ began.session = "shell"
  BY <1>1, <1>2 DEF Init, Process, Procs
<1>4. at \in [Procs -> Labels] /\ proc \in [Procs -> Process]
  BY <1>3 DEF Init, Procs, Labels
<1>5. \A p \in Procs : at[p] \in Places(p)
  BY DEF Init, Procs, Places
<1>6. \A p \in Procs : Detached(p) /\ Identified(p)
  BY DEF Init, Procs, Detached, Identified, FromGetpwnam, FromStderr, FromStdout, FromStdin,
     FromSysconf, FromUmask, FromChdir
<1>7. user \in Names \cup {NoUser, Nobody} /\ limit \in Int /\ limit >= -1
  BY NumbersAssumption DEF Init
<1> QED BY <1>3, <1>4, <1>5, <1>6, <1>7 DEF IInv, ProcessInv

(* A step of one process leaves the others as they were.                   *)
LEMMA StepOfOne ==
    ASSUME IInv, UNCHANGED given, NEW p \in Procs,
           at' \in [Procs -> Labels], proc' \in [Procs -> Process],
           \A q \in Procs : q # p => at'[q] = at[q] /\ proc'[q] = proc[q],
           ProcessInv(p)'
    PROVE  IInv'
<1>1. user' = user /\ limit' = limit /\ began' = began
  BY DEF IInv, given
<1>2. ASSUME NEW q \in Procs, q # p PROVE ProcessInv(q)'
  <2>1. at'[q] = at[q] /\ proc'[q] = proc[q] /\ ProcessInv(q)
    BY <1>2 DEF IInv
  <2>2. Halfway' <=> Halfway
    BY <1>1 DEF Halfway
  <2>3. Detached(q)'
    BY <1>1, <2>1 DEF ProcessInv, Detached
  <2>4. Identified(q)'
    BY <1>1, <2>1, <2>2 DEF ProcessInv, Identified, IdsOf
  <2> QED BY <2>1, <2>3, <2>4 DEF ProcessInv
<1> QED BY <1>1, <1>2 DEF IInv

(* The same with what the step did to the process that took it.            *)
LEMMA StepTo ==
    ASSUME IInv, NEW p \in Procs, NEW from, NEW to \in Labels, Goes(p, from, to),
           NEW r \in Process, proc' = [proc EXCEPT ![p] = r],
           at[p] = from /\ at'[p] = to /\ proc'[p] = r => ProcessInv(p)'
    PROVE  IInv'
<1>1. /\ at' \in [Procs -> Labels] /\ proc' \in [Procs -> Process]
      /\ \A q \in Procs : q # p => at'[q] = at[q] /\ proc'[q] = proc[q]
      /\ at[p] = from /\ at'[p] = to /\ proc'[p] = r
  BY DEF IInv, Goes
<1> QED BY <1>1, StepOfOne DEF Goes

(* A call that throws before it changed anything, other than the setgid.   *)
LEMMA ThrowsKeeps ==
    ASSUME IInv, NEW p \in Procs, NEW from \in Labels \ {"setgid", "returned", "threw"},
           from \in Places(p), Throws(p, from)
    PROVE  IInv'
<1>1. /\ at' \in [Procs -> Labels] /\ proc' = proc /\ at[p] = from /\ at'[p] = "threw"
      /\ \A q \in Procs : q # p => at'[q] = at[q]
      /\ UNCHANGED given
  BY DEF Throws, Goes, IInv, Labels
<1>2. "threw" \in Places(p)
  BY DEF Places
<1>3. Detached(p)'
  BY <1>1 DEF Detached, FromGetpwnam, FromStderr, FromStdout, FromStdin, FromSysconf, FromUmask,
     FromChdir
<1>4. Identified(p)'
  BY <1>1 DEF IInv, ProcessInv, Identified, IdsOf, given
<1> QED BY <1>1, <1>2, <1>3, <1>4, StepOfOne DEF ProcessInv, IInv

(* A fork: the parent is about to exit, the new process is its copy.       *)
LEMMA ForkKeeps ==
    ASSUME IInv, NEW p \in Procs, NEW new \in {"child", "daemon"}, NEW to \in {"setsid", "chdir"},
           \/ p = "caller" /\ new = "child" /\ to = "setsid" /\ fork(p, new, "fork", to)
           \/ p = "child" /\ new = "daemon" /\ to = "chdir" /\ fork(p, new, "fork (2)", to)
    PROVE  IInv'
<1> USE DEF FromGetpwnam, FromStderr, FromStdout, FromStdin, FromSysconf, FromUmask, FromChdir
<1>1. /\ \/ p = "caller" /\ new = "child" /\ to = "setsid" /\ at[p] = "fork"
         \/ p = "child" /\ new = "daemon" /\ to = "chdir" /\ at[p] = "fork (2)"
      /\ at' = [at EXCEPT ![p] = "exit", ![new] = to]
      /\ proc' = [proc EXCEPT ![new] = proc[p]]
      /\ UNCHANGED given
  BY DEF fork, given
<1>2. /\ user' = user /\ limit' = limit /\ began' = began
      /\ new \in Procs /\ new # p /\ "exit" \in Labels /\ to \in Labels
  BY <1>1 DEF given, Procs, Labels
<1>3. /\ at' \in [Procs -> Labels] /\ proc' \in [Procs -> Process]
      /\ at'[p] = "exit" /\ proc'[p] = proc[p] /\ at'[new] = to /\ proc'[new] = proc[p]
      /\ \A q \in Procs : q # p /\ q # new => at'[q] = at[q] /\ proc'[q] = proc[q]
  BY <1>1, <1>2 DEF IInv
<1>4. ProcessInv(p)
  BY DEF IInv
<1>5. ProcessInv(p)'
  BY <1>1, <1>2, <1>3, <1>4 DEF ProcessInv, Places, Detached, Identified, IdsOf
<1>6. ProcessInv(new)'
  BY <1>1, <1>2, <1>3, <1>4 DEF ProcessInv, Places, Detached, Identified, IdsOf
<1>7. ASSUME NEW q \in Procs, q # p, q # new PROVE ProcessInv(q)'
  <2>1. at'[q] = at[q] /\ proc'[q] = proc[q] /\ ProcessInv(q)
    BY <1>3, <1>7 DEF IInv
  <2>2. Halfway' <=> Halfway
    BY <1>2 DEF Halfway
  <2>3. Detached(q)'
    BY <1>2, <2>1 DEF ProcessInv, Detached
  <2>4. Identified(q)'
    BY <1>2, <2>1, <2>2 DEF ProcessInv, Identified, IdsOf
  <2> QED BY <2>1, <2>3, <2>4 DEF ProcessInv
<1> QED BY <1>2, <1>3, <1>5, <1>6, <1>7 DEF IInv

LEMMA ExitKeeps == ASSUME IInv, NEW p \in Procs, exit(p) PROVE IInv'
<1>1. /\ at' \in [Procs -> Labels] /\ proc' = proc /\ at[p] = "exit" /\ at'[p] = "exited"
      /\ \A q \in Procs : q # p => at'[q] = at[q]
      /\ UNCHANGED given
  BY DEF exit, Goes, IInv, Labels
<1>2. ProcessInv(p)'
  BY <1>1 DEF IInv, ProcessInv, Places, Detached, Identified, IdsOf, given, FromGetpwnam, FromStderr,
     FromStdout, FromStdin, FromSysconf, FromUmask, FromChdir
<1> QED BY <1>1, <1>2, StepOfOne DEF IInv

(* The child leaves the caller's session.                                  *)
LEMMA SetsidKeeps == ASSUME IInv, NEW p \in Procs, at[p] = "setsid", setsid(p) PROVE IInv'
<1>1. ProcessInv(p) /\ p = "child"
  BY DEF IInv, ProcessInv, Places
<1>2. CASE Throws(p, "setsid")
  BY <1>1, <1>2, ThrowsKeeps DEF Labels, ProcessInv
<1>3. CASE ~Throws(p, "setsid")
  <2> DEFINE r == [proc[p] EXCEPT !.session = p, !.group = p, !.tty = FALSE]
  <2>1. Goes(p, "setsid", "fork (2)") /\ proc' = [proc EXCEPT ![p] = r]
    BY <1>3 DEF setsid, IInv
  <2>0. proc[p] \in Process
    BY DEF IInv
  <2>2. r \in Process /\ "fork (2)" \in Labels
    BY <2>0 DEF Process, Labels
  <2>3. r.session = "child" /\ ~r.tty /\ IdsOf(r) = IdsOf(proc[p])
    BY <1>1, <2>0 DEF Process, IdsOf
  <2>4. at[p] = "setsid" /\ began' = began
    BY <2>1 DEF Goes, given
  <2> HIDE DEF r
  <2>5. at'[p] = "fork (2)" /\ proc'[p] = r => ProcessInv(p)'
    BY <1>1, <2>3, <2>4 DEF ProcessInv, Places, Detached, Identified, IdsOf, FromGetpwnam,
       FromStderr, FromStdout, FromStdin, FromSysconf, FromUmask, FromChdir
  <2> QED BY <2>1, <2>2, <2>5, StepTo
<1> QED BY <1>2, <1>3

(* The calls of the daemon, each with what it does to the process.         *)
LEMMA DaemonStep ==
    ASSUME IInv, NEW p \in Procs, p = "daemon", NEW from \in Labels, NEW to \in Labels,
           NEW r \in Process, Goes(p, from, to), proc' = [proc EXCEPT ![p] = r],
           to \in Places(p),
           at[p] = from /\ at'[p] = to /\ proc'[p] = r /\ ProcessInv(p)
               /\ user' = user /\ limit' = limit /\ began' = began
             => Detached(p)' /\ Identified(p)'
    PROVE  IInv'
<1>1. at[p] = from /\ at'[p] = to /\ proc'[p] = r
  BY DEF IInv, Goes
<1>2. ProcessInv(p) /\ user' = user /\ limit' = limit /\ began' = began
  BY DEF IInv, Goes, given
<1> QED BY <1>1, <1>2, StepTo DEF ProcessInv

LEMMA DirectoryKeeps == ASSUME IInv, NEW p \in Procs, chdir(p) \/ umask(p) PROVE IInv'
<1> USE DEF FromGetpwnam, FromStderr, FromStdout, FromStdin, FromSysconf, FromUmask, FromChdir
<1>0. p = "daemon" /\ at[p] \in {"chdir", "umask"}
  BY DEF IInv, ProcessInv, Places, Procs, chdir, umask, Goes
<1>1. CASE chdir(p)
  <2> DEFINE r == [proc[p] EXCEPT !.cwd = "/"]
  <2>1. Goes(p, "chdir", "umask") /\ proc' = [proc EXCEPT ![p] = r]
    BY <1>1 DEF chdir, IInv
  <2>2. /\ r \in Process /\ IdsOf(r) = IdsOf(proc[p])
        /\ r.cwd = "/" /\ r.session = proc[p].session /\ r.tty = proc[p].tty
    BY DEF IInv, Process, IdsOf
  <2> HIDE DEF r
  <2>3. at[p] = "chdir" /\ at'[p] = "umask" /\ proc'[p] = r /\ ProcessInv(p)
            /\ user' = user /\ limit' = limit /\ began' = began
          => Detached(p)' /\ Identified(p)'
    BY <2>2 DEF ProcessInv, Detached, Identified, IdsOf
  <2> QED BY <1>0, <2>1, <2>2, <2>3, DaemonStep DEF Labels, Places
<1>2. CASE umask(p)
  <2> DEFINE r == [proc[p] EXCEPT !.umask = "0"]
  <2>1. Goes(p, "umask", "sysconf") /\ proc' = [proc EXCEPT ![p] = r]
    BY <1>2 DEF umask, IInv
  <2>2. /\ r \in Process /\ IdsOf(r) = IdsOf(proc[p])
        /\ r.umask = "0" /\ r.cwd = proc[p].cwd
        /\ r.session = proc[p].session /\ r.tty = proc[p].tty
    BY DEF IInv, Process, IdsOf
  <2> HIDE DEF r
  <2>3. at[p] = "umask" /\ at'[p] = "sysconf" /\ proc'[p] = r /\ ProcessInv(p)
            /\ user' = user /\ limit' = limit /\ began' = began
          => Detached(p)' /\ Identified(p)'
    BY <2>2 DEF ProcessInv, Detached, Identified, IdsOf
  <2> QED BY <1>0, <2>1, <2>2, <2>3, DaemonStep DEF Labels, Places
<1> QED BY <1>1, <1>2

(* A limit that is an int is the one the loop runs to.                     *)
LEMMA CloseKeeps == ASSUME IInv, NEW p \in Procs, at[p] = "sysconf", close_all(p) PROVE IInv'
<1> USE DEF FromGetpwnam, FromStderr, FromStdout, FromStdin, FromSysconf, FromUmask, FromChdir
<1>0. p = "daemon" /\ ProcessInv(p)
  BY DEF IInv, ProcessInv, Places, Procs
<1>1. CASE Throws(p, "sysconf")
  BY <1>0, <1>1, ThrowsKeeps DEF Labels, ProcessInv
<1>2. CASE ~Throws(p, "sysconf")
  <2> DEFINE r == [proc[p] EXCEPT !.open = {fd \in @ : fd >= AsInt(limit)}]
  <2>1. Goes(p, "sysconf", "stdin") /\ proc' = [proc EXCEPT ![p] = r]
    BY <1>2 DEF close_all, IInv
  <2>2. proc[p] \in Process /\ limit \in Int
    BY DEF IInv
  <2>3. limit <= IntMax => \A fd \in r.open : fd >= limit
    BY <2>2, NumbersAssumption DEF AsInt, Process
  <2>4. {fd \in proc[p].open : fd >= AsInt(limit)} \in SUBSET Int
    BY <2>2 DEF Process
  <2>5. /\ r \in Process /\ IdsOf(r) = IdsOf(proc[p])
        /\ r.umask = proc[p].umask /\ r.cwd = proc[p].cwd
        /\ r.session = proc[p].session /\ r.tty = proc[p].tty
    BY <2>2, <2>4 DEF Process, IdsOf
  <2> HIDE DEF r
  <2>6. at[p] = "sysconf" /\ at'[p] = "stdin" /\ proc'[p] = r /\ ProcessInv(p)
            /\ user' = user /\ limit' = limit /\ began' = began
          => Detached(p)' /\ Identified(p)'
    BY <2>3, <2>5 DEF ProcessInv, Detached, Identified, IdsOf
  <2> QED BY <1>0, <2>1, <2>5, <2>6, DaemonStep DEF Labels, Places
<1> QED BY <1>1, <1>2

(* A freopen that fails has closed the stream.                             *)
LEMMA StreamThrows ==
    ASSUME IInv, NEW p \in Procs, NEW from \in {"stdin", "stdout", "stderr"},
           Goes(p, from, "threw"),
           NEW r \in Process, proc' = [proc EXCEPT ![p] = r], IdsOf(r) = IdsOf(proc[p])
    PROVE  IInv'
<1>1. p = "daemon" /\ ProcessInv(p)
  BY DEF IInv, ProcessInv, Places, Procs, Goes
<1>2. at[p] = from /\ at'[p] = "threw" /\ proc'[p] = r /\ ProcessInv(p)
          /\ user' = user /\ limit' = limit /\ began' = began
        => Detached(p)' /\ Identified(p)'
  BY DEF ProcessInv, Detached, Identified, IdsOf, FromGetpwnam, FromStderr, FromStdout, FromStdin,
     FromSysconf, FromUmask, FromChdir
<1>3. from \in Labels /\ "threw" \in Labels /\ "threw" \in Places(p)
  BY <1>1 DEF Labels, Places
<1> QED BY <1>1, <1>2, <1>3, DaemonStep

LEMMA StreamsKeep ==
    ASSUME IInv, NEW p \in Procs, freopen_stdin(p) \/ freopen_stdout(p)
    PROVE  IInv'
<1> USE DEF FromGetpwnam, FromStderr, FromStdout, FromStdin, FromSysconf, FromUmask, FromChdir
<1>0. p = "daemon" /\ ProcessInv(p) /\ proc[p] \in Process
  BY DEF IInv, ProcessInv, Places, Procs, freopen_stdin, freopen_stdout, Goes
<1>1. CASE freopen_stdin(p)
  <2> DEFINE r == [proc[p] EXCEPT !.stdin = "null"]
             c == [proc[p] EXCEPT !.stdin = "closed"]
  <2>1. \/ Goes(p, "stdin", "stdout") /\ proc' = [proc EXCEPT ![p] = r]
        \/ Goes(p, "stdin", "threw") /\ proc' = [proc EXCEPT ![p] = c]
    BY <1>1 DEF freopen_stdin, IInv
  <2>2. /\ r \in Process /\ IdsOf(r) = IdsOf(proc[p])
        /\ r.stdin = "null" /\ r.umask = proc[p].umask /\ r.cwd = proc[p].cwd
        /\ r.session = proc[p].session /\ r.tty = proc[p].tty /\ r.open = proc[p].open
        /\ c \in Process /\ IdsOf(c) = IdsOf(proc[p])
    BY <1>0 DEF Process, IdsOf
  <2> HIDE DEF r, c
  <2>3. at[p] = "stdin" /\ at'[p] = "stdout" /\ proc'[p] = r /\ ProcessInv(p)
            /\ user' = user /\ limit' = limit /\ began' = began
          => Detached(p)' /\ Identified(p)'
    BY <2>2 DEF ProcessInv, Detached, Identified, IdsOf
  <2>4. CASE Goes(p, "stdin", "stdout") /\ proc' = [proc EXCEPT ![p] = r]
    BY <1>0, <2>2, <2>3, <2>4, DaemonStep DEF Labels, Places
  <2>5. CASE Goes(p, "stdin", "threw") /\ proc' = [proc EXCEPT ![p] = c]
    BY <2>2, <2>5, StreamThrows
  <2> QED BY <2>1, <2>4, <2>5
<1>2. CASE freopen_stdout(p)
  <2> DEFINE r == [proc[p] EXCEPT !.stdout = "null", !.pending = FALSE]
             c == [proc[p] EXCEPT !.stdout = "closed", !.pending = FALSE]
  <2>1. \/ Goes(p, "stdout", "stderr") /\ proc' = [proc EXCEPT ![p] = r]
        \/ Goes(p, "stdout", "threw") /\ proc' = [proc EXCEPT ![p] = c]
    BY <1>2 DEF freopen_stdout, IInv
  <2>2. /\ r \in Process /\ IdsOf(r) = IdsOf(proc[p])
        /\ r.stdout = "null" /\ ~r.pending /\ r.stdin = proc[p].stdin
        /\ r.umask = proc[p].umask /\ r.cwd = proc[p].cwd
        /\ r.session = proc[p].session /\ r.tty = proc[p].tty /\ r.open = proc[p].open
        /\ c \in Process /\ IdsOf(c) = IdsOf(proc[p])
    <3>1. r \in Process
      BY <1>0 DEF Process
    <3>2. /\ IdsOf(r) = IdsOf(proc[p])
          /\ r.stdout = "null" /\ ~r.pending /\ r.stdin = proc[p].stdin
          /\ r.umask = proc[p].umask /\ r.cwd = proc[p].cwd
          /\ r.session = proc[p].session /\ r.tty = proc[p].tty /\ r.open = proc[p].open
      BY <1>0 DEF Process, IdsOf
    <3>3. c \in Process /\ IdsOf(c) = IdsOf(proc[p])
      BY <1>0 DEF Process, IdsOf
    <3> QED BY <3>1, <3>2, <3>3
  <2> HIDE DEF r, c
  <2>3. at[p] = "stdout" /\ at'[p] = "stderr" /\ proc'[p] = r /\ ProcessInv(p)
            /\ user' = user /\ limit' = limit /\ began' = began
          => Detached(p)' /\ Identified(p)'
    BY <2>2 DEF ProcessInv, Detached, Identified, IdsOf
  <2>4. CASE Goes(p, "stdout", "stderr") /\ proc' = [proc EXCEPT ![p] = r]
    BY <1>0, <2>2, <2>3, <2>4, DaemonStep DEF Labels, Places
  <2>5. CASE Goes(p, "stdout", "threw") /\ proc' = [proc EXCEPT ![p] = c]
    BY <2>2, <2>5, StreamThrows
  <2> QED BY <2>1, <2>4, <2>5
<1> QED BY <1>1, <1>2

(* The console gives the daemon no terminal: it leads no session.          *)
LEMMA ConsoleKeeps == ASSUME IInv, NEW p \in Procs, freopen_stderr(p) PROVE IInv'
<1> USE DEF FromGetpwnam, FromStderr, FromStdout, FromStdin, FromSysconf, FromUmask, FromChdir
<1>0. p = "daemon" /\ ProcessInv(p) /\ proc[p] \in Process /\ at[p] = "stderr"
  BY DEF IInv, ProcessInv, Places, Procs, freopen_stderr, Goes
<1>1. proc[p].session # p /\ ~proc[p].tty
  BY <1>0 DEF ProcessInv, Detached
<1> DEFINE k == [proc[p] EXCEPT !.stderr = "console", !.tty = FALSE]
           r == [proc[p] EXCEPT !.stderr = "null"]
           c == [proc[p] EXCEPT !.stderr = "closed"]
<1>2. (proc[p].tty \/ proc[p].session = p) = FALSE
  BY <1>0, <1>1 DEF Process
<1>3. OpensConsole(p) => proc' = [proc EXCEPT ![p] = k]
  BY <1>2 DEF OpensConsole, IInv
<1>4. \/ Goes(p, "stderr", Behind(p)) /\ proc' = [proc EXCEPT ![p] = k]
      \/ Goes(p, "stderr", Behind(p)) /\ proc' = [proc EXCEPT ![p] = r]
      \/ Goes(p, "stderr", "threw") /\ proc' = [proc EXCEPT ![p] = c]
  BY <1>3 DEF freopen_stderr, IInv
<1> DEFINE Kept(s) ==
          /\ s.stdout = proc[p].stdout /\ s.pending = proc[p].pending /\ s.stdin = proc[p].stdin
          /\ s.umask = proc[p].umask /\ s.cwd = proc[p].cwd
          /\ s.session = proc[p].session /\ ~s.tty /\ s.open = proc[p].open
          /\ IdsOf(s) = IdsOf(proc[p])
<1>5. /\ k \in Process /\ k.stderr = "console" /\ Kept(k)
      /\ r \in Process /\ r.stderr = "null" /\ Kept(r)
  <2>1. k \in Process /\ k.stderr = "console" /\ ~k.tty
    BY <1>0 DEF Process
  <2>2. Kept(k)
    BY <1>0, <2>1 DEF Process, IdsOf
  <2>3. r \in Process /\ r.stderr = "null" /\ r.tty = proc[p].tty
    BY <1>0 DEF Process
  <2>4. Kept(r)
    BY <1>0, <1>1, <2>3 DEF Process, IdsOf
  <2> QED BY <2>1, <2>2, <2>3, <2>4
<1>6. c \in Process /\ IdsOf(c) = IdsOf(proc[p])
  BY <1>0 DEF Process, IdsOf
<1> HIDE DEF k, r, c
<1>8. ASSUME NEW s \in {k, r}, NEW to \in {"returned", "getpwnam"}, to = Behind(p),
             Goes(p, "stderr", to), proc' = [proc EXCEPT ![p] = s]
      PROVE IInv'
  <2>1. s \in Process /\ s.stderr \in {"null", "console"} /\ Kept(s)
    BY <1>5
  <2>2. /\ to = "returned" => user = NoUser
        /\ to = "getpwnam" => user # NoUser
    BY <1>8 DEF Behind
  <2> HIDE DEF Kept
  <2>3. at[p] = "stderr" /\ at'[p] = to /\ proc'[p] = s /\ ProcessInv(p)
            /\ user' = user /\ limit' = limit /\ began' = began
          => Detached(p)' /\ Identified(p)'
    BY <2>1, <2>2, NamesAssumption DEF Kept, ProcessInv, Detached, Identified, IdsOf, Halfway
  <2>4. "stderr" \in Labels /\ to \in Labels /\ to \in Places(p)
    BY <1>0 DEF Labels, Places
  <2> QED BY <1>0, <1>8, <2>1, <2>3, <2>4, DaemonStep
<1>9. Behind(p) \in {"returned", "getpwnam"}
  BY DEF Behind
<1> QED BY <1>4, <1>6, <1>8, <1>9, StreamThrows

LEMMA LookupKeeps == ASSUME IInv, NEW p \in Procs, at[p] = "getpwnam", getpwnam(p) PROVE IInv'
<1>1. p = "daemon" /\ ProcessInv(p) /\ proc[p] \in Process
  BY DEF IInv, ProcessInv, Places, Procs
<1>2. CASE user = Nobody
  BY <1>1, <1>2, ThrowsKeeps DEF getpwnam, Labels, ProcessInv
<1>3. CASE user # Nobody
  <2>1. Goes(p, "getpwnam", "setuid") /\ proc' = [proc EXCEPT ![p] = proc[p]]
    BY <1>3 DEF getpwnam, IInv
  <2>2. user \in Names
    BY <1>1, <1>3 DEF IInv, ProcessInv, Identified
  <2>3. at[p] = "getpwnam" /\ at'[p] = "setuid" /\ proc'[p] = proc[p] /\ ProcessInv(p)
            /\ user' = user /\ limit' = limit /\ began' = began
          => Detached(p)' /\ Identified(p)'
    BY <2>2 DEF ProcessInv, Detached, Identified, IdsOf, FromGetpwnam, FromStderr, FromStdout,
       FromStdin, FromSysconf, FromUmask, FromChdir
  <2>4. "getpwnam" \in Labels /\ "setuid" \in Labels /\ "setuid" \in Places(p)
    BY <1>1 DEF Labels, Places
  <2> QED BY <1>1, <2>1, <2>3, <2>4, DaemonStep
<1> QED BY <1>2, <1>3

(* What a change of ids leaves of the rest of the process.                 *)
Kept(r, s) ==
    /\ r.session = s.session /\ r.tty = s.tty /\ r.cwd = s.cwd /\ r.umask = s.umask
    /\ r.open = s.open /\ r.stdin = s.stdin /\ r.stdout = s.stdout /\ r.stderr = s.stderr
    /\ r.pending = s.pending

LEMMA StillDetached ==
    ASSUME NEW p \in Procs, Detached(p), at[p] \in FromGetpwnam, at'[p] \in FromGetpwnam,
           Kept(proc'[p], proc[p]), limit' = limit
    PROVE  Detached(p)'
BY DEF Kept, Detached, FromGetpwnam, FromStderr, FromStdout, FromStdin, FromSysconf, FromUmask,
   FromChdir

LEMMA SetuidKeeps == ASSUME IInv, NEW p \in Procs, at[p] = "setuid", setuid(p) PROVE IInv'
<1>1. p = "daemon" /\ ProcessInv(p) /\ proc[p] \in Process
  BY DEF IInv, ProcessInv, Places, Procs
<1>2. CASE Throws(p, "setuid")
  BY <1>1, <1>2, ThrowsKeeps DEF Labels, ProcessInv
<1>3. CASE ~Throws(p, "setuid")
  <2> DEFINE r == [proc[p] EXCEPT !.uid = Account[user].uid]
  <2>1. Goes(p, "setuid", "setgid") /\ proc' = [proc EXCEPT ![p] = r]
    BY <1>3 DEF setuid, IInv
  <2>2. user \in Names /\ IdsOf(proc[p]) = IdsOf(began)
    BY <1>1 DEF ProcessInv, Identified
  <2>3. proc[p].uid = began.uid /\ proc[p].gid = began.gid
    BY <2>2 DEF IdsOf
  <2>4. began.uid = Root \/ Account[user].uid = began.uid
    BY <1>3, <2>3 DEF setuid, MayTake
  <2>5. Account[user].uid \in Nat
    BY <2>2, AccountAssumption
  <2>6. /\ r \in Process /\ r.uid = Account[user].uid /\ r.gid = began.gid /\ Kept(r, proc[p])
    BY <1>1, <2>3, <2>5 DEF Process, Kept
  <2> HIDE DEF r
  <2>7. at[p] = "setuid" /\ at'[p] = "setgid" /\ proc'[p] = r /\ ProcessInv(p)
            /\ user' = user /\ limit' = limit /\ began' = began
          => Detached(p)' /\ Identified(p)'
    BY <2>2, <2>4, <2>6, StillDetached DEF ProcessInv, Identified, FromGetpwnam
  <2> QED BY <1>1, <2>1, <2>6, <2>7, DaemonStep DEF Labels, Places
<1> QED BY <1>2, <1>3

LEMMA SetgidKeeps == ASSUME IInv, NEW p \in Procs, at[p] = "setgid", setgid(p) PROVE IInv'
<1>1. p = "daemon" /\ ProcessInv(p) /\ proc[p] \in Process /\ began \in Process
  BY DEF IInv, ProcessInv, Places, Procs
<1>2. /\ user \in Names
      /\ proc[p].uid = Account[user].uid /\ proc[p].gid = began.gid
      /\ began.uid = Root \/ Account[user].uid = began.uid
  BY <1>1 DEF ProcessInv, Identified
<1>3. Account[user] \in [uid : Nat, gid : Nat] /\ user # NoUser
  BY <1>2, AccountAssumption, NamesAssumption
<1>4. Account[user] = [uid |-> Account[user].uid, gid |-> Account[user].gid]
  BY <1>3
<1>5. CASE Throws(p, "setgid")
  <2>1. Goes(p, "setgid", "threw") /\ proc' = [proc EXCEPT ![p] = proc[p]]
    BY <1>5 DEF Throws, IInv
  <2>2. Account[user].uid # Root /\ Account[user].gid # began.gid
    BY <1>2, <1>5 DEF setgid, MayTake, Goes, Throws, IInv, Labels
  <2>3. \/ IdsOf(proc[p]) = IdsOf(began)
        \/ Halfway /\ IdsOf(proc[p]) = [uid |-> Account[user].uid, gid |-> began.gid]
    BY <1>2, <2>2 DEF Halfway, IdsOf
  <2>4. at[p] = "setgid" /\ at'[p] = "threw" /\ proc'[p] = proc[p] /\ ProcessInv(p)
            /\ user' = user /\ limit' = limit /\ began' = began
          => Detached(p)' /\ Identified(p)'
    BY <2>3 DEF Detached, Identified, IdsOf, Halfway, FromGetpwnam, FromStderr, FromStdout,
       FromStdin, FromSysconf, FromUmask, FromChdir
  <2>5. "setgid" \in Labels /\ "threw" \in Labels /\ "threw" \in Places(p)
    BY <1>1 DEF Labels, Places
  <2> QED BY <1>1, <2>1, <2>4, <2>5, DaemonStep
<1>6. CASE ~Throws(p, "setgid")
  <2> DEFINE r == [proc[p] EXCEPT !.gid = Account[user].gid]
  <2>1. Goes(p, "setgid", "returned") /\ proc' = [proc EXCEPT ![p] = r]
    BY <1>6 DEF setgid, IInv
  <2>2. Account[user].uid = Root \/ Account[user].gid = began.gid
    BY <1>2, <1>6 DEF setgid, MayTake
  <2>3. r \in Process /\ r.uid = Account[user].uid /\ r.gid = Account[user].gid /\ Kept(r, proc[p])
    BY <1>1, <1>2, <1>3 DEF Process, Kept
  <2> HIDE DEF r
  <2>4. IdsOf(r) = Account[user] /\ ~Halfway
    BY <1>4, <2>2, <2>3 DEF IdsOf, Halfway
  <2>5. at[p] = "setgid" /\ at'[p] = "returned" /\ proc'[p] = r /\ ProcessInv(p)
            /\ user' = user /\ limit' = limit /\ began' = began
          => Detached(p)' /\ Identified(p)'
    BY <1>3, <2>3, <2>4, StillDetached DEF ProcessInv, Identified, FromGetpwnam, IdsOf, Halfway
  <2> QED BY <1>1, <2>1, <2>3, <2>5, DaemonStep DEF Labels, Places
<1> QED BY <1>5, <1>6

LEMMA Steps == ASSUME IInv, [Next]_vars PROVE IInv'
<1>1. CASE UNCHANGED vars
  <2>1. UNCHANGED <<user, limit, began, at, proc>>
    BY <1>1 DEF vars
  <2>2. ASSUME NEW p \in Procs PROVE ProcessInv(p)'
    BY <2>1 DEF IInv, ProcessInv, Detached, Identified, IdsOf, Halfway
  <2> QED BY <2>1, <2>2 DEF IInv
<1>2. ASSUME NEW p \in Procs, Step(p) PROVE IInv'
  <2>1. CASE Forks(p)
    BY <2>1, ForkKeeps DEF Forks
  <2>2. CASE Refused(p)
    <3>1. PICK from \in {"fork", "fork (2)", "chdir", "getpwnam"} : Throws(p, from)
      BY <2>2 DEF Refused
    <3>2. from \in Places(p)
      BY <3>1 DEF Throws, Goes, IInv, ProcessInv
    <3>3. from \in Labels \ {"setgid", "returned", "threw"}
      BY DEF Labels
    <3> QED BY <3>1, <3>2, <3>3, ThrowsKeeps
  <2>3. CASE exit(p)
    BY <2>3, ExitKeeps
  <2>4. CASE \/ at[p] = "setsid" /\ setsid(p)
             \/ chdir(p) \/ umask(p)
             \/ at[p] = "sysconf" /\ close_all(p)
    BY <2>4, SetsidKeeps, DirectoryKeeps, CloseKeeps
  <2>5. CASE freopen_stdin(p) \/ freopen_stdout(p) \/ freopen_stderr(p)
    BY <2>5, StreamsKeep, ConsoleKeeps
  <2>6. CASE \/ at[p] = "getpwnam" /\ getpwnam(p)
             \/ at[p] = "setuid" /\ setuid(p)
             \/ at[p] = "setgid" /\ setgid(p)
    BY <2>6, LookupKeeps, SetuidKeeps, SetgidKeeps
  <2> QED BY <1>2, <2>1, <2>2, <2>3, <2>4, <2>5, <2>6 DEF Step
<1> QED BY <1>1, <1>2 DEF Next

(* Each process is at a place of daemonize() it can be at, detached as far *)
(* as the calls behind it go and with the ids they gave it.                *)
THEOREM Invariance == Spec => []IInv
<1> QED BY Initially, Steps, PTL DEF Spec

(* The process that returns is a daemon, for every limit of descriptors    *)
(* that is an int and whatever was open: daemonize() up to its last call.  *)
THEOREM DetachedCorrect == Spec => []DaemonIsDetached
<1>1. IInv => DaemonIsDetached
  <2> SUFFICES ASSUME IInv, NEW p \in Procs, at[p] = "returned"
               PROVE  /\ p = "daemon"
                      /\ proc[p].session \notin {p, began.session} /\ ~proc[p].tty
                      /\ proc[p].cwd = "/" /\ proc[p].umask = "0"
                      /\ proc[p].stdin = "null" /\ proc[p].stdout = "null"
                      /\ proc[p].stderr \in {"null", "console"} /\ ~proc[p].pending
                      /\ limit <= IntMax => \A fd \in proc[p].open : fd >= limit
    BY DEF DaemonIsDetached
  <2>1. p = "daemon" /\ Detached(p) /\ began.session = "shell"
    BY DEF IInv, ProcessInv, Places, Procs
  <2> QED BY <2>1 DEF Detached, FromGetpwnam, FromStderr, FromStdout, FromStdin, FromSysconf,
          FromUmask, FromChdir
<1> QED BY Invariance, <1>1, PTL

(* A process that returned has the user's ids, both; one that threw has    *)
(* the caller's, unless setgid threw behind a setuid that gave up root.    *)
THEOREM IdsCorrect == Spec => []IdsChangeTogether
<1>1. IInv => IdsChangeTogether
  BY DEF IInv, ProcessInv, Identified, Halfway, IdsChangeTogether
<1> QED BY Invariance, <1>1, PTL

-----------------------------------------------------------------------------
(* The output the caller had buffered.                                     *)

(* The calls of a process that still has the stdout it came with.          *)
Ahead == {"fork", "exit", "setsid", "fork (2)", "chdir", "umask", "sysconf", "stdin", "stdout"}

Forking == {"setsid", "fork (2)"}

(* The processes that have come to their end or left the caller's stdout.  *)
Left == {p \in Procs : at[p] = "exited" \/ proc[p].stdout # "inherited"}

(* A process ahead of that holds what the caller held, and the process one *)
(* is about to fork is not there yet.                                      *)
Buffered ==
    /\ \A p \in Procs : at[p] \in Ahead =>
          proc[p].stdout = "inherited" /\ proc[p].pending = began.pending
    /\ \A p \in Procs : at[p] = "absent" => proc[p].stdout = "inherited"
    /\ at["caller"] = "fork" => at["child"] = "absent"
    /\ at["child"] \in Forking \cup {"absent"} => at["daemon"] = "absent"
    /\ written = IF began.pending THEN Cardinality(Left) ELSE 0

LEMMA LeftIsFinite == IsFiniteSet(Left) /\ Cardinality(Left) \in Nat
<1>1. IsFiniteSet(Procs)
  <2>1. IsFiniteSet({} \cup {"caller"})
    BY FS_EmptySet, FS_AddElement
  <2>2. IsFiniteSet(({} \cup {"caller"}) \cup {"child"})
    BY <2>1, FS_AddElement
  <2>3. IsFiniteSet((({} \cup {"caller"}) \cup {"child"}) \cup {"daemon"})
    BY <2>2, FS_AddElement
  <2>4. Procs = (({} \cup {"caller"}) \cup {"child"}) \cup {"daemon"}
    BY DEF Procs
  <2> QED BY <2>3, <2>4
<1>2. Left \in SUBSET Procs
  BY DEF Left
<1> QED BY <1>1, <1>2, FS_Subset, FS_CardinalityType

LEMMA BufferedInitially == Init => Buffered
<1> SUFFICES ASSUME Init PROVE Buffered
  OBVIOUS
<1>1. Left = {}
  BY DEF Init, Left, Procs
<1>2. Cardinality(Left) = 0
  BY <1>1, FS_EmptySet
<1> QED BY <1>2 DEF Init, Buffered, Procs, Ahead, Forking

(* A call that neither ends a process nor touches its stdout.              *)
LEMMA QuietStep ==
    ASSUME IInv, Buffered, NEW p \in Procs, NEW from, NEW to, Goes(p, from, to),
           from \notin {"absent", "exited"}, to \notin {"absent", "exited", "fork"},
           to \in Ahead => from \in Ahead,
           to \in Forking => from \in Forking,
           \A q \in Procs : proc'[q].stdout = proc[q].stdout /\ proc'[q].pending = proc[q].pending,
           written' = written
    PROVE  Buffered'
<1>1. /\ at[p] = from /\ at'[p] = to /\ began' = began
      /\ \A q \in Procs : q # p => at'[q] = at[q]
  BY DEF Goes, given, IInv
<1>2. Left' = Left
  BY <1>1 DEF Left
<1>3. \A q \in Procs : at'[q] \in Ahead =>
          proc'[q].stdout = "inherited" /\ proc'[q].pending = began'.pending
  BY <1>1 DEF Buffered
<1>4. \A q \in Procs : at'[q] = "absent" => proc'[q].stdout = "inherited"
  BY <1>1 DEF Buffered
<1>5. at'["caller"] = "fork" => at'["child"] = "absent"
  BY <1>1 DEF Buffered, Procs
<1>6. at'["child"] \in Forking \cup {"absent"} => at'["daemon"] = "absent"
  BY <1>1 DEF Buffered, Procs, Forking
<1> QED BY <1>1, <1>2, <1>3, <1>4, <1>5, <1>6 DEF Buffered

(* The call with which a process ends, or leaves the caller's stdout.      *)
LEMMA LeavingStep ==
    ASSUME IInv, Buffered, NEW p \in Procs, NEW from \in Ahead, NEW to,
           at[p] = from, at' = [at EXCEPT ![p] = to], UNCHANGED given,
           to \notin Ahead \cup {"absent"},
           \A q \in Procs : q # p => proc'[q] = proc[q],
           to = "exited" \/ proc'[p].stdout # "inherited",
           Flush(p)
    PROVE  Buffered'
<1>1. /\ at'[p] = to /\ began' = began
      /\ \A q \in Procs : q # p => at'[q] = at[q]
  BY DEF given, IInv
<1>2. p \notin Left /\ proc[p].pending = began.pending
  BY DEF Buffered, Left, Ahead
<1>3. Left' = Left \cup {p}
  BY <1>1 DEF Left
<1>4. Cardinality(Left') = Cardinality(Left) + 1
  BY <1>2, <1>3, LeftIsFinite, FS_AddElement
<1>5. \A q \in Procs : at'[q] \in Ahead =>
          proc'[q].stdout = "inherited" /\ proc'[q].pending = began'.pending
  BY <1>1 DEF Buffered
<1>6. \A q \in Procs : at'[q] = "absent" => proc'[q].stdout = "inherited"
  BY <1>1 DEF Buffered
<1>7. /\ at'["caller"] = "fork" => at'["child"] = "absent"
      /\ at'["child"] \in Forking \cup {"absent"} => at'["daemon"] = "absent"
  <2>1. from # "absent"
    BY DEF Ahead
  <2>2. to \notin Forking \cup {"fork"}
    BY DEF Ahead, Forking
  <2> QED BY <1>1, <2>1, <2>2 DEF Buffered, Procs
<1>8. written' = IF began'.pending THEN Cardinality(Left') ELSE 0
  <2>1. CASE began.pending
    BY <1>1, <1>2, <1>4, <2>1 DEF Buffered, Flush
  <2>2. CASE ~began.pending
    BY <1>1, <1>2, <2>2 DEF Buffered, Flush
  <2> QED BY <2>1, <2>2
<1> QED BY <1>5, <1>6, <1>7, <1>8 DEF Buffered

(* A fork copies the buffer, and nothing is written.                       *)
LEMMA ForkCopies ==
    ASSUME IInv, Buffered, NEW p \in Procs, Forks(p)
    PROVE  Buffered'
<1>1. \/ p = "caller" /\ fork("caller", "child", "fork", "setsid")
      \/ p = "child" /\ fork("child", "daemon", "fork (2)", "chdir")
  BY DEF Forks
<1>2. at \in [Procs -> Labels] /\ proc \in [Procs -> Process]
  BY DEF IInv
<1>3. began' = began /\ written' = written
  BY <1>1 DEF fork
<1>4. CASE p = "caller"
  <2>1. /\ at["caller"] = "fork" /\ at["child"] = "absent" /\ at["daemon"] = "absent"
        /\ at'["caller"] = "exit" /\ at'["child"] = "setsid" /\ at'["daemon"] = "absent"
        /\ proc'["caller"] = proc["caller"] /\ proc'["child"] = proc["caller"]
        /\ proc'["daemon"] = proc["daemon"]
    BY <1>1, <1>2, <1>4 DEF fork, Buffered, Procs
  <2>2. proc["caller"].stdout = "inherited" /\ proc["caller"].pending = began.pending
    BY <2>1 DEF Buffered, Ahead, Procs
  <2>3. \A q \in Procs : q \in Left' <=> q \in Left
    <3>1. proc["child"].stdout = "inherited" /\ proc["daemon"].stdout = "inherited"
      BY <2>1 DEF Buffered, Procs
    <3> QED BY <2>1, <2>2, <3>1 DEF Left, Procs
  <2>4. Left' = Left
    BY <2>3 DEF Left
  <2> QED BY <1>3, <2>1, <2>2, <2>4 DEF Buffered, Procs, Ahead, Forking
<1>5. CASE p = "child"
  <2>1. /\ at["child"] = "fork (2)" /\ at["daemon"] = "absent"
        /\ at'["child"] = "exit" /\ at'["daemon"] = "chdir" /\ at'["caller"] = at["caller"]
        /\ proc'["child"] = proc["child"] /\ proc'["daemon"] = proc["child"]
        /\ proc'["caller"] = proc["caller"]
    BY <1>1, <1>2, <1>5 DEF fork, Buffered, Procs, Forking
  <2>2. proc["child"].stdout = "inherited" /\ proc["child"].pending = began.pending
    BY <2>1 DEF Buffered, Ahead, Procs
  <2>3. at["caller"] # "fork"
    BY <2>1 DEF Buffered
  <2>4. \A q \in Procs : q \in Left' <=> q \in Left
    <3>1. proc["daemon"].stdout = "inherited"
      BY <2>1 DEF Buffered, Procs
    <3> QED BY <2>1, <2>2, <3>1 DEF Left, Procs
  <2>5. Left' = Left
    BY <2>4 DEF Left
  <2> QED BY <1>3, <2>1, <2>2, <2>3, <2>5 DEF Buffered, Procs, Ahead, Forking
<1> QED BY <1>1, <1>4, <1>5

(* The calls before the streams, and what they throw.                      *)
LEMMA EarlyCallsAreQuiet ==
    ASSUME IInv, Buffered, NEW p \in Procs,
           \/ Refused(p)
           \/ at[p] = "setsid" /\ setsid(p)
           \/ chdir(p) \/ umask(p)
           \/ at[p] = "sysconf" /\ close_all(p)
    PROVE  Buffered'
<1>1. proc \in [Procs -> Process]
  BY DEF IInv
<1>2. ASSUME NEW from \in Ahead \cup {"getpwnam"}, Throws(p, from) PROVE Buffered'
  BY <1>2, QuietStep DEF Throws, Ahead, Forking
<1>3. CASE Refused(p)
  BY <1>2, <1>3 DEF Refused, Ahead
<1>4. CASE at[p] = "setsid" /\ setsid(p)
  <2>1. CASE Throws(p, "setsid")
    BY <1>2, <2>1 DEF Ahead
  <2>2. CASE ~Throws(p, "setsid")
    <3> DEFINE r == [proc[p] EXCEPT !.session = p, !.group = p, !.tty = FALSE]
    <3>1. Goes(p, "setsid", "fork (2)") /\ written' = written /\ proc' = [proc EXCEPT ![p] = r]
      BY <1>1, <1>4, <2>2 DEF setsid
    <3>3. r.stdout = proc[p].stdout /\ r.pending = proc[p].pending
      BY <1>1 DEF Process
    <3> HIDE DEF r
    <3>2. \A q \in Procs : proc'[q].stdout = proc[q].stdout /\ proc'[q].pending = proc[q].pending
      BY <1>1, <3>1, <3>3
    <3> QED BY <3>1, <3>2, QuietStep DEF Ahead, Forking
  <2> QED BY <2>1, <2>2
<1>5. CASE chdir(p)
  <2>1. \A q \in Procs : proc'[q].stdout = proc[q].stdout /\ proc'[q].pending = proc[q].pending
    BY <1>1, <1>5 DEF chdir, Process
  <2> QED BY <1>5, <2>1, QuietStep DEF chdir, Ahead, Forking
<1>6. CASE umask(p)
  <2>1. \A q \in Procs : proc'[q].stdout = proc[q].stdout /\ proc'[q].pending = proc[q].pending
    BY <1>1, <1>6 DEF umask, Process
  <2> QED BY <1>6, <2>1, QuietStep DEF umask, Ahead, Forking
<1>7. CASE at[p] = "sysconf" /\ close_all(p)
  <2>1. CASE limit = -1
    BY <1>2, <1>7, <2>1 DEF close_all, Ahead
  <2>2. CASE limit # -1
    <3>1. \A q \in Procs : proc'[q].stdout = proc[q].stdout /\ proc'[q].pending = proc[q].pending
      BY <1>1, <1>7, <2>2 DEF close_all, Process
    <3> QED BY <1>7, <2>2, <3>1, QuietStep DEF close_all, Ahead, Forking
  <2> QED BY <2>1, <2>2
<1> QED BY <1>3, <1>4, <1>5, <1>6, <1>7

(* The streams other than stdout, and the ids.                             *)
LEMMA LateCallsAreQuiet ==
    ASSUME IInv, Buffered, NEW p \in Procs,
           \/ freopen_stdin(p) \/ freopen_stderr(p)
           \/ at[p] = "getpwnam" /\ getpwnam(p)
           \/ at[p] = "setuid" /\ setuid(p)
           \/ at[p] = "setgid" /\ setgid(p)
    PROVE  Buffered'
<1>1. proc \in [Procs -> Process]
  BY DEF IInv
<1>2. written' = written
  BY DEF freopen_stdin, freopen_stderr, getpwnam, setuid, setgid, Throws
<1>3. \A q \in Procs : proc'[q].stdout = proc[q].stdout /\ proc'[q].pending = proc[q].pending
  <2>1. CASE freopen_stdin(p)
    BY <1>1, <2>1 DEF freopen_stdin, Process
  <2>2. CASE freopen_stderr(p)
    BY <1>1, <2>2 DEF freopen_stderr, OpensConsole, Process
  <2>3. CASE getpwnam(p)
    BY <2>3 DEF getpwnam, Throws
  <2>4. CASE setuid(p)
    BY <1>1, <2>4 DEF setuid, Throws, Process
  <2>5. CASE setgid(p)
    BY <1>1, <2>5 DEF setgid, Throws, Process
  <2> QED BY <2>1, <2>2, <2>3, <2>4, <2>5
<1>4. PICK from \in {"stdin", "stderr", "getpwnam", "setuid", "setgid"},
           to \in {"stdout", "getpwnam", "setuid", "setgid", "returned", "threw"} :
         Goes(p, from, to) /\ (to = "stdout" => from = "stdin")
  BY DEF freopen_stdin, freopen_stderr, Behind, getpwnam, setuid, setgid, Throws
<1> QED BY <1>2, <1>3, <1>4, QuietStep DEF Ahead, Forking

(* exit and the reopening of stdout write what is buffered.                *)
LEMMA LeavingCallsFlush ==
    ASSUME IInv, Buffered, NEW p \in Procs, exit(p) \/ freopen_stdout(p)
    PROVE  Buffered'
<1>1. proc \in [Procs -> Process]
  BY DEF IInv
<1>2. CASE exit(p)
  BY <1>2, LeavingStep DEF exit, Goes, Ahead
<1>3. CASE freopen_stdout(p)
  <2>1. /\ \A q \in Procs : q # p => proc'[q] = proc[q]
        /\ proc'[p].stdout # "inherited"
    BY <1>1, <1>3 DEF freopen_stdout, Process
  <2>2. PICK to \in {"stderr", "threw"} : Goes(p, "stdout", to) /\ Flush(p)
    BY <1>3 DEF freopen_stdout
  <2> QED BY <2>1, <2>2, LeavingStep DEF Goes, Ahead
<1> QED BY <1>2, <1>3

LEMMA BufferedStep == ASSUME IInv, Buffered, [Next]_vars PROVE Buffered'
<1>1. CASE UNCHANGED vars
  BY <1>1 DEF vars, Buffered, Left
<1>2. ASSUME NEW p \in Procs, Step(p) PROVE Buffered'
  BY <1>2, ForkCopies, EarlyCallsAreQuiet, LateCallsAreQuiet, LeavingCallsFlush DEF Step
<1> QED BY <1>1, <1>2 DEF Next

(* For any users and whatever fails, each process that ended or left the   *)
(* caller's stdout has written its copy of the caller's buffer, and no     *)
(* other has.                                                              *)
THEOREM OutputCorrect == Spec => []BufferedOutputIsCopied
<1>1. Buffered => BufferedOutputIsCopied
  <2>1. Left = {p \in Procs : at[p] = "exited"} \cup {p \in Procs : proc[p].stdout # "inherited"}
    BY DEF Left
  <2> QED BY <2>1 DEF Buffered, BufferedOutputIsCopied
<1>2. IInv /\ Buffered /\ [Next]_vars => Buffered'
  BY BufferedStep
<1> QED BY Invariance, BufferedInitially, <1>1, <1>2, PTL DEF Spec

-----------------------------------------------------------------------------
(* Argument vectors.                                                       *)

Record == [strings : Seq(Texts), pointers : Seq(Texts \cup {Dangling}), room : Nat]
Causes == {"none", "add", "copy_assign"}

(* What an object can be, given the call that threw last on it.            *)
Sound(r, c) ==
    /\ Len(r.pointers) <= Len(r.strings)
    /\ c = "none" => r.pointers = r.strings
    /\ c = "add" => Len(r.pointers) < Len(r.strings)
    /\ \A n \in 1 .. Len(r.pointers) : r.pointers[n] \in {r.strings[n], Dangling}

ArgInv ==
    /\ obj \in [Objects -> Record \cup {NoObject}]
    /\ cause \in [Objects -> Causes]
    /\ held \in Objects \cup {Nothing, Gone}
    /\ \A o \in Objects : IF Exists(o) THEN Sound(obj[o], cause[o]) ELSE cause[o] = "none"
    /\ held \in Objects => Exists(held)

LEMMA RecordFields ==
    ASSUME NEW s \in Seq(Texts), NEW p \in Seq(Texts \cup {Dangling}), NEW n \in Nat
    PROVE  /\ Fields(s, p, n) \in Record /\ Fields(s, p, n).strings = s
           /\ Fields(s, p, n).pointers = p /\ Fields(s, p, n).room = n
<1> QED BY DEF Fields, Record

(* Strings and a pointer to each are sound.                                *)
LEMMA Built ==
    ASSUME NEW s \in Seq(Texts), NEW n \in Nat
    PROVE  Fields(s, s, n) \in Record /\ \A c \in {"none", "copy_assign"} : Sound(Fields(s, s, n), c)
<1>1. s \in Seq(Texts \cup {Dangling}) /\ Len(s) \in Nat
  OBVIOUS
<1> DEFINE r == Fields(s, s, n)
<1>2. r \in Record /\ r.strings = s /\ r.pointers = s
  BY <1>1, RecordFields
<1>3. \A i \in 1 .. Len(s) : s[i] \in {s[i], Dangling}
  OBVIOUS
<1> HIDE DEF r
<1>4. \A c \in {"none", "copy_assign"} : Sound(r, c)
  BY <1>1, <1>2, <1>3 DEF Sound
<1> QED BY <1>2, <1>4 DEF r

(* One object is given new fields, and the argv the program holds goes, or *)
(* becomes the object's.                                                   *)
LEMMA OneChanges ==
    ASSUME ArgInv, NEW o \in Objects, NEW r \in Record, NEW c \in Causes, Sound(r, c),
           obj' = [obj EXCEPT ![o] = r], cause' = [cause EXCEPT ![o] = c],
           held' \in {held, o, Nothing, Gone}
    PROVE  ArgInv'
<1>1. r # NoObject
  BY ObjectsAssumption DEF Record
<1>2. obj' \in [Objects -> Record \cup {NoObject}] /\ cause' \in [Objects -> Causes]
  BY DEF ArgInv
<1>3. held' \in Objects \cup {Nothing, Gone}
  BY DEF ArgInv
<1>4. obj'[o] = r /\ cause'[o] = c
  BY DEF ArgInv
<1>5. \A q \in Objects \ {o} : obj'[q] = obj[q] /\ cause'[q] = cause[q]
  BY DEF ArgInv
<1>6. ASSUME NEW q \in Objects
      PROVE  IF Exists(q)' THEN Sound(obj'[q], cause'[q]) ELSE cause'[q] = "none"
  <2>1. CASE q = o
    BY <1>1, <1>4, <2>1 DEF Exists
  <2>2. CASE q # o
    BY <1>5, <2>2 DEF Exists, ArgInv
  <2> QED BY <2>1, <2>2
<1>7. held' \in Objects => Exists(held)'
  BY <1>1, <1>4, <1>5, ObjectsAssumption DEF Exists, ArgInv
<1> QED BY <1>2, <1>3, <1>6, <1>7 DEF ArgInv

LEMMA FreedIs == \A o : Freed(o) \in {held, Gone}
<1> QED BY DEF Freed

LEMMA ExistsIs ==
    ASSUME ArgInv, NEW o \in Objects, Exists(o)
    PROVE  /\ obj[o] \in Record /\ cause[o] \in Causes /\ Sound(obj[o], cause[o])
           /\ obj[o].strings \in Seq(Texts) /\ obj[o].pointers \in Seq(Texts \cup {Dangling})
           /\ obj[o].room \in Nat
<1>1. obj[o] \in Record /\ cause[o] \in Causes /\ Sound(obj[o], cause[o])
  BY DEF ArgInv, Exists
<1> QED BY <1>1 DEF Record

LEMMA NothingChanges ==
    ASSUME ArgInv, UNCHANGED <<obj, cause>>, held' \in {held, Nothing}
    PROVE  ArgInv'
<1> QED BY ObjectsAssumption DEF ArgInv, Exists

(* rebuild() leaves a pointer to each string, or none and the strings that *)
(* found no room.                                                          *)
LEMMA RebuildKeeps ==
    ASSUME ArgInv, NEW o \in Objects, Exists(o), NEW s \in Seq(Texts),
           NEW op \in {"add", "copy_assign"}, rebuild(op, o, s)
    PROVE  ArgInv'
<1>1. obj[o] \in Record /\ obj[o].room \in Nat /\ Len(s) \in Nat
  BY ExistsIs
<1>2. <<>> \in Seq(Texts \cup {Dangling}) /\ Len(<<>>) = 0
  OBVIOUS
<1> DEFINE n == IF Len(s) > obj[o].room THEN Len(s) ELSE obj[o].room
<1>3. CASE /\ obj' = [obj EXCEPT ![o] = Fields(s, s, n)]
           /\ cause' = [cause EXCEPT ![o] = "none"]
           /\ held' = IF Len(s) > obj[o].room THEN Freed(o) ELSE held
  <2>1. n \in Nat
    BY <1>1
  <2> HIDE DEF n
  <2>2. Fields(s, s, n) \in Record /\ Sound(Fields(s, s, n), "none")
    BY <2>1, Built
  <2>3. held' \in {held, o, Nothing, Gone}
    BY <1>3, FreedIs
  <2>4. "none" \in Causes
    BY DEF Causes
  <2> QED BY <1>3, <2>2, <2>3, <2>4, OneChanges
<1>4. CASE /\ Len(s) > obj[o].room
           /\ obj' = [obj EXCEPT ![o] = Fields(s, <<>>, obj[o].room)]
           /\ cause' = [cause EXCEPT ![o] = op]
           /\ UNCHANGED held
  <2> DEFINE none == <<>>
             r == Fields(s, none, obj[o].room)
  <2>0. none \in Seq(Texts \cup {Dangling}) /\ Len(none) = 0 /\ (s = none \/ Len(s) > 0)
    BY <1>1, <1>2, <1>4
  <2> HIDE DEF none
  <2>1. r \in Record /\ r.strings = s /\ r.pointers = none
    BY <1>1, <2>0 DEF Fields, Record
  <2> HIDE DEF r
  <2>2. Sound(r, op)
    BY <1>1, <1>4, <2>0, <2>1 DEF Sound
  <2>3. op \in Causes /\ held' \in {held, o, Nothing, Gone}
    BY <1>4 DEF Causes
  <2>4. obj' = [obj EXCEPT ![o] = r]
    BY <1>4 DEF r, none
  <2> QED BY <1>4, <2>1, <2>2, <2>3, <2>4, OneChanges
<1> QED BY <1>3, <1>4 DEF rebuild

(* A copy assignment that throws between two strings.                      *)
LEMMA AssignmentThrowsKeeps ==
    ASSUME ArgInv, NEW o \in Objects, Exists(o), NEW p \in Objects, Exists(p),
           AssignmentThrows(o, p)
    PROVE  ArgInv'
<1> DEFINE was == obj[o].strings
           new == obj[p].strings
           old == obj[o].pointers
<1>1. /\ obj[o] \in Record /\ cause[o] \in Causes /\ Sound(obj[o], cause[o])
      /\ was \in Seq(Texts) /\ new \in Seq(Texts) /\ old \in Seq(Texts \cup {Dangling})
      /\ obj[o].room \in Nat
  BY ExistsIs
<1>2. PICK n \in 0 .. Len(was), d \in SUBSET (DOMAIN old) :
        /\ n <= Len(new) /\ d \subseteq 1 .. n
        /\ obj' = [obj EXCEPT
             ![o].strings = [i \in DOMAIN was |-> IF i <= n THEN new[i] ELSE was[i]],
             ![o].pointers = [i \in DOMAIN old |->
                 IF i \in d THEN Dangling ELSE IF i <= n THEN new[i] ELSE old[i]]]
        /\ cause' = IF n = 0 THEN cause ELSE [cause EXCEPT ![o] = "copy_assign"]
        /\ UNCHANGED held
  BY DEF AssignmentThrows
<1> DEFINE s == [i \in 1 .. Len(was) |-> IF i <= n THEN new[i] ELSE was[i]]
           q == [i \in 1 .. Len(old) |->
                    IF i \in d THEN Dangling ELSE IF i <= n THEN new[i] ELSE old[i]]
           c == IF n = 0 THEN cause[o] ELSE "copy_assign"
           r == [obj[o] EXCEPT !.strings = s, !.pointers = q]
<1>3. Len(was) \in Nat /\ Len(old) \in Nat /\ Len(new) \in Nat /\ Len(old) <= Len(was)
  BY <1>1 DEF Sound
<1>4. s \in Seq(Texts) /\ Len(s) = Len(was) /\ \A i \in 1 .. Len(was) : s[i] \in Texts
  <2>1. \A i \in 1 .. Len(was) : s[i] \in Texts
    BY <1>1, <1>2, <1>3
  <2>2. s \in [1 .. Len(was) -> Texts]
    BY <2>1
  <2> QED BY <1>3, <2>1, <2>2
<1>5. q \in Seq(Texts \cup {Dangling}) /\ Len(q) = Len(old)
  <2>1. \A i \in 1 .. Len(old) : q[i] \in Texts \cup {Dangling}
    BY <1>1, <1>2, <1>3
  <2>2. q \in [1 .. Len(old) -> Texts \cup {Dangling}]
    BY <2>1
  <2> QED BY <1>3, <2>2
<1>6. \A i \in 1 .. Len(old) : q[i] \in {s[i], Dangling}
  <2> TAKE i \in 1 .. Len(old)
  <2>1. i \in 1 .. Len(was) /\ old[i] \in {was[i], Dangling}
    BY <1>1, <1>3 DEF Sound
  <2> QED BY <2>1
<1>7. c = "none" => q = s
  <2> SUFFICES ASSUME c = "none" PROVE q = s
    OBVIOUS
  <2>1. n = 0 /\ cause[o] = "none"
    OBVIOUS
  <2>2. old = was
    BY <1>1, <2>1 DEF Sound
  <2> QED BY <1>2, <2>1, <2>2
<1>8. c \in Causes /\ (c = "add" => cause[o] = "add")
  BY <1>1 DEF Causes
<1>9. r \in Record /\ r.strings = s /\ r.pointers = q
  <2> HIDE DEF s, q
  <2> QED BY <1>1, <1>4, <1>5 DEF Record
<1>10. obj' = [obj EXCEPT ![o] = r]
  <2>1. DOMAIN was = 1 .. Len(was) /\ DOMAIN old = 1 .. Len(old)
    BY <1>1
  <2> QED BY <1>2, <2>1
<1>11. cause' = [cause EXCEPT ![o] = c]
  BY <1>2 DEF ArgInv
<1>12. Len(old) < Len(was) \/ cause[o] # "add"
  BY <1>1 DEF Sound
<1> HIDE DEF s, q, c, r
<1>13. Sound(r, c)
  BY <1>3, <1>4, <1>5, <1>6, <1>7, <1>8, <1>9, <1>12 DEF Sound
<1> QED BY <1>2, <1>8, <1>9, <1>10, <1>11, <1>13, OneChanges

(* Two objects change, and the argv the program holds is not the one of p. *)
LEMMA TwoChange ==
    ASSUME ArgInv, NEW o \in Objects, NEW p \in Objects, Exists(p), o # p,
           obj' = [obj EXCEPT ![o] = obj[p], ![p] = Empty],
           cause' = [cause EXCEPT ![o] = cause[p], ![p] = "none"],
           held' \in {held, o, Gone}, held' # p
    PROVE  ArgInv'
<1>1. obj[p] \in Record /\ cause[p] \in Causes /\ Sound(obj[p], cause[p])
  BY ExistsIs
<1>2. Empty \in Record /\ Sound(Empty, "none") /\ "none" \in Causes
  <2>1. <<>> \in Seq(Texts) /\ 0 \in Nat
    OBVIOUS
  <2> QED BY <2>1, Built DEF Empty, Causes
<1>3. obj[p] # NoObject /\ Empty # NoObject
  BY <1>1, <1>2, ObjectsAssumption DEF Record
<1>4. obj' \in [Objects -> Record \cup {NoObject}] /\ cause' \in [Objects -> Causes]
  BY <1>1, <1>2 DEF ArgInv
<1>5. /\ obj'[o] = obj[p] /\ cause'[o] = cause[p] /\ obj'[p] = Empty /\ cause'[p] = "none"
      /\ \A q \in Objects \ {o, p} : obj'[q] = obj[q] /\ cause'[q] = cause[q]
  BY DEF ArgInv
<1>6. held' \in {held, o, Gone} /\ held' \in Objects \cup {Nothing, Gone}
  BY DEF ArgInv
<1>7. ASSUME NEW q \in Objects
      PROVE  IF Exists(q)' THEN Sound(obj'[q], cause'[q]) ELSE cause'[q] = "none"
  <2>1. CASE q \in {o, p}
    BY <1>1, <1>2, <1>3, <1>5, <2>1 DEF Exists
  <2>2. CASE q \notin {o, p}
    BY <1>5, <2>2 DEF Exists, ArgInv
  <2> QED BY <2>1, <2>2
<1>8. held' \in Objects => Exists(held)'
  BY <1>3, <1>5, <1>6, ObjectsAssumption DEF Exists, ArgInv
<1> QED BY <1>4, <1>6, <1>7, <1>8 DEF ArgInv

LEMMA ConstructKeeps ==
    ASSUME ArgInv, NEW o \in Objects, NEW s \in Seq(Texts), construct(o, s)
    PROVE  ArgInv'
<1> DEFINE r == Fields(s, s, Len(s))
<1>1. Len(s) \in Nat
  OBVIOUS
<1>2. r \in Record /\ Sound(r, "none")
  BY <1>1, Built
<1>3. cause[o] = "none" /\ cause' = [cause EXCEPT ![o] = "none"] /\ "none" \in Causes
  BY DEF ArgInv, construct, Causes
<1>4. obj' = [obj EXCEPT ![o] = r] /\ held' \in {held, o, Nothing, Gone}
  BY DEF construct
<1> HIDE DEF r
<1> QED BY <1>2, <1>3, <1>4, OneChanges

LEMMA DestroyKeeps ==
    ASSUME ArgInv, NEW o \in Objects, destroy(o)
    PROVE  ArgInv'
<1>1. /\ obj' = [obj EXCEPT ![o] = NoObject] /\ cause' = [cause EXCEPT ![o] = "none"]
      /\ held' = IF held = o THEN Gone ELSE held
  BY DEF destroy, Freed
<1>2. obj' \in [Objects -> Record \cup {NoObject}] /\ cause' \in [Objects -> Causes]
  BY <1>1 DEF ArgInv, Causes
<1>3. held' \in Objects \cup {Nothing, Gone}
  BY <1>1 DEF ArgInv
<1>4. /\ obj'[o] = NoObject /\ cause'[o] = "none"
      /\ \A q \in Objects \ {o} : obj'[q] = obj[q] /\ cause'[q] = cause[q]
  BY <1>1 DEF ArgInv
<1>5. \A q \in Objects : IF Exists(q)' THEN Sound(obj'[q], cause'[q]) ELSE cause'[q] = "none"
  BY <1>4 DEF Exists, ArgInv
<1>6. held' \in Objects => Exists(held)'
  BY <1>1, <1>4, ObjectsAssumption DEF Exists, ArgInv
<1> QED BY <1>2, <1>3, <1>5, <1>6 DEF ArgInv

(* A range that throws part of the way leaves more strings than pointers.  *)
LEMMA AddRangeKeeps ==
    ASSUME ArgInv, NEW o \in Objects, NEW s \in Seq(Texts), add_range(o, s)
    PROVE  ArgInv'
<1> DEFINE was == obj[o].strings
           old == obj[o].pointers
<1>0. Exists(o)
  BY DEF add_range, Callable
<1>1. /\ obj[o] \in Record /\ cause[o] \in Causes /\ Sound(obj[o], cause[o])
      /\ was \in Seq(Texts) /\ old \in Seq(Texts \cup {Dangling}) /\ obj[o].room \in Nat
  BY <1>0, ExistsIs
<1>2. CASE rebuild("add", o, was \o s)
  <2> DEFINE w == was \o s
  <2>1. w \in Seq(Texts)
    BY <1>1
  <2>2. rebuild("add", o, w)
    BY <1>2
  <2> HIDE DEF w
  <2> QED BY <1>0, <2>1, <2>2, RebuildKeeps
<1>3. CASE Unchanged("add", o)
  BY <1>3, NothingChanges DEF Unchanged
<1>4. ASSUME NEW n \in 1 .. Len(s) - 1, NEW d \in SUBSET DOMAIN old,
             obj' = [obj EXCEPT
                ![o].strings = was \o SubSeq(s, 1, n),
                ![o].pointers = [i \in DOMAIN old |-> IF i \in d THEN Dangling ELSE old[i]]],
             cause' = [cause EXCEPT ![o] = IF cause[o] = "none" THEN "add" ELSE cause[o]],
             UNCHANGED held
      PROVE  ArgInv'
  <2> DEFINE m == SubSeq(s, 1, n)
             w == was \o m
             q == [i \in 1 .. Len(old) |-> IF i \in d THEN Dangling ELSE old[i]]
             c == IF cause[o] = "none" THEN "add" ELSE cause[o]
             r == [obj[o] EXCEPT !.strings = w, !.pointers = q]
  <2>1. Len(was) \in Nat /\ Len(old) \in Nat /\ Len(old) <= Len(was) /\ Len(s) \in Nat
    BY <1>1 DEF Sound
  <2>2. m \in Seq(Texts) /\ Len(m) = n
    BY <1>4, <2>1
  <2>3. /\ w \in Seq(Texts) /\ Len(w) = Len(was) + n
        /\ \A i \in 1 .. Len(was) : w[i] = was[i]
    <3>1. was \in Seq(Texts) /\ m \in Seq(Texts)
      BY <1>1, <2>2
    <3> HIDE DEF was, m
    <3>2. w \in Seq(Texts) /\ Len(w) = Len(was) + Len(m)
      BY <3>1
    <3>3. \A i \in 1 .. Len(was) : w[i] = was[i]
      BY <3>1
    <3> QED BY <2>2, <3>2, <3>3
  <2>4. q \in Seq(Texts \cup {Dangling}) /\ Len(q) = Len(old)
    <3>1. \A i \in 1 .. Len(old) : q[i] \in Texts \cup {Dangling}
      BY <1>1, <2>1
    <3>2. q \in [1 .. Len(old) -> Texts \cup {Dangling}]
      BY <3>1
    <3> QED BY <2>1, <3>2
  <2>5. \A i \in 1 .. Len(old) : q[i] \in {w[i], Dangling}
    <3> TAKE i \in 1 .. Len(old)
    <3>1. i \in 1 .. Len(was) /\ old[i] \in {was[i], Dangling} /\ w[i] = was[i]
      BY <1>1, <2>1, <2>3 DEF Sound
    <3> HIDE DEF w
    <3> QED BY <3>1
  <2>6. c \in Causes /\ c # "none"
    BY <1>1 DEF Causes
  <2>7. r \in Record /\ r.strings = w /\ r.pointers = q
    <3> HIDE DEF w, q
    <3> QED BY <1>1, <2>3, <2>4 DEF Record
  <2>8. obj' = [obj EXCEPT ![o] = r]
    <3>1. DOMAIN old = 1 .. Len(old)
      BY <1>1
    <3> QED BY <1>4, <3>1
  <2>9. cause' = [cause EXCEPT ![o] = c]
    BY <1>4
  <2> HIDE DEF m, w, q, c, r
  <2>10. Sound(r, c)
    BY <2>1, <2>3, <2>4, <2>5, <2>6, <2>7 DEF Sound
  <2>11. held' \in {held, o, Nothing, Gone}
    BY <1>4
  <2> QED BY <2>6, <2>7, <2>8, <2>9, <2>10, <2>11, OneChanges
<1> QED BY <1>2, <1>3, <1>4 DEF add_range

(* Characters written through an argv are those of the string.             *)
LEMMA ChangeKeeps ==
    ASSUME ArgInv, NEW n, NEW t \in Texts, change(n, t)
    PROVE  ArgInv'
<1>1. held \in Objects /\ Exists(held) /\ n \in DOMAIN obj[held].pointers /\ UNCHANGED <<cause, held>>
  BY DEF change, ArgInv
<1>2. PICK o \in Objects : o = held
  BY <1>1
<1> DEFINE was == obj[o].strings
           old == obj[o].pointers
<1>3. /\ obj[o] \in Record /\ cause[o] \in Causes /\ Sound(obj[o], cause[o])
      /\ was \in Seq(Texts) /\ old \in Seq(Texts \cup {Dangling}) /\ obj[o].room \in Nat
  BY <1>1, <1>2, ExistsIs
<1>4. CASE UNCHANGED obj
  BY <1>1, <1>4, NothingChanges
<1>5. CASE obj' = [obj EXCEPT ![held].strings[n] = t, ![held].pointers[n] = t]
  <2> DEFINE w == [was EXCEPT ![n] = t]
             q == [old EXCEPT ![n] = t]
             r == [obj[o] EXCEPT !.strings = w, !.pointers = q]
             c == cause[o]
  <2>1. n \in 1 .. Len(old) /\ Len(old) <= Len(was) /\ Len(old) \in Nat /\ Len(was) \in Nat
    BY <1>1, <1>2, <1>3 DEF Sound
  <2>2. w \in Seq(Texts) /\ Len(w) = Len(was)
    BY <1>3, <2>1
  <2>3. q \in Seq(Texts \cup {Dangling}) /\ Len(q) = Len(old)
    BY <1>3, <2>1
  <2>4. \A i \in 1 .. Len(old) : q[i] \in {w[i], Dangling}
    <3> TAKE i \in 1 .. Len(old)
    <3>1. i \in 1 .. Len(was) /\ old[i] \in {was[i], Dangling}
      BY <1>3, <2>1 DEF Sound
    <3>2. CASE i = n
      <4>1. w[i] = t /\ q[i] = t
        BY <1>3, <2>1, <3>1, <3>2
      <4> QED BY <4>1
    <3>3. CASE i # n
      <4>1. w[i] = was[i] /\ q[i] = old[i]
        BY <1>3, <2>1, <3>1, <3>3
      <4> QED BY <3>1, <4>1
    <3> QED BY <3>2, <3>3
  <2>5. c = "none" => q = w
    BY <1>3 DEF Sound
  <2>6. c = "add" => Len(old) < Len(was)
    BY <1>3 DEF Sound
  <2>7. r \in Record /\ r.strings = w /\ r.pointers = q
    <3> HIDE DEF w, q
    <3> QED BY <1>3, <2>2, <2>3 DEF Record
  <2>8. obj' = [obj EXCEPT ![o] = r]
    BY <1>2, <1>3, <1>5 DEF Record
  <2>9. cause' = [cause EXCEPT ![o] = c] /\ c \in Causes
    BY <1>1, <1>3 DEF ArgInv
  <2> HIDE DEF w, q, r, c
  <2>10. Sound(r, c)
    BY <2>1, <2>2, <2>3, <2>4, <2>5, <2>6, <2>7 DEF Sound
  <2>11. held' \in {held, o, Nothing, Gone}
    BY <1>1
  <2> QED BY <2>7, <2>8, <2>9, <2>10, <2>11, OneChanges
<1> QED BY <1>4, <1>5 DEF change

LEMMA InputsAreTexts == \A s \in Inputs : s \in Seq(Texts) /\ Len(s) \in Nat
<1> SUFFICES ASSUME NEW s \in Inputs PROVE s \in Seq(Texts) /\ Len(s) \in Nat
  OBVIOUS
<1>1. PICK n \in 0 .. MaxArguments : s \in [1 .. n -> Texts]
  BY DEF Inputs
<1> QED BY <1>1, BoundAssumption

(* Every call keeps the invariant.                                         *)
LEMMA ArgSteps == ArgInv /\ [ArgNext]_argvars => ArgInv'
<1> SUFFICES ASSUME ArgInv, [ArgNext]_argvars PROVE ArgInv'
  OBVIOUS
<1>1. ASSUME NEW o \in Objects, NEW s \in Inputs,
             construct(o, s) \/ add_range(o, s)
      PROVE  ArgInv'
  BY <1>1, InputsAreTexts, ConstructKeeps, AddRangeKeeps
<1>2. ASSUME NEW o \in Objects, construct_throws(o) \/ argv(o) PROVE ArgInv'
  <2>1. CASE construct_throws(o)
    BY <2>1, NothingChanges DEF construct_throws, Unchanged
  <2>2. CASE argv(o)
    <3>1. CASE ~SizesAgree(o)
      BY <2>2, <3>1, NothingChanges DEF argv, Terminates
    <3>2. CASE SizesAgree(o)
      <4>1. UNCHANGED <<obj, cause>> /\ held' \in {Nothing, o} /\ Exists(o)
        BY <2>2, <3>2 DEF argv, Callable
      <4> QED BY <4>1, ObjectsAssumption DEF ArgInv, Exists
    <3> QED BY <3>1, <3>2
  <2> QED BY <1>2, <2>1, <2>2
<1>3. ASSUME NEW o \in Objects, NEW p \in Objects, copy_construct(o, p) PROVE ArgInv'
  <2>1. obj[p].strings \in Seq(Texts) /\ construct(o, obj[p].strings)
    BY <1>3, ExistsIs DEF copy_construct
  <2> QED BY <2>1, ConstructKeeps
<1>4. ASSUME NEW o \in Objects, NEW p \in Objects, move_construct(o, p) PROVE ArgInv'
  <2>1. Exists(p) /\ o # p /\ held' \in {held, o, Gone} /\ held' # p
    BY <1>4 DEF move_construct
  <2>2. /\ obj' = [obj EXCEPT ![o] = obj[p], ![p] = Empty]
        /\ cause' = [cause EXCEPT ![o] = cause[p], ![p] = "none"]
    BY <1>4 DEF move_construct
  <2> QED BY <2>1, <2>2, TwoChange
<1>5. ASSUME NEW o \in Objects, NEW p \in Objects, move_assign(o, p) PROVE ArgInv'
  <2>1. Exists(p) /\ o # p /\ held' \in {held, o, Gone} /\ held' # p
    BY <1>5, ObjectsAssumption DEF move_assign, Freed
  <2>2. /\ obj' = [obj EXCEPT ![o] = obj[p], ![p] = Empty]
        /\ cause' = [cause EXCEPT ![o] = cause[p], ![p] = "none"]
    BY <1>5 DEF move_assign
  <2> QED BY <2>1, <2>2, TwoChange
<1>6. ASSUME NEW o \in Objects, destroy(o) PROVE ArgInv'
  BY <1>6, DestroyKeeps
<1>7. ASSUME NEW o \in Objects, NEW p \in Objects, copy_assign(o, p) PROVE ArgInv'
  <2>1. Exists(o) /\ Exists(p)
    BY <1>7 DEF copy_assign, Callable
  <2>2. CASE o = p
    BY <1>7, <2>2, NothingChanges DEF copy_assign, Terminates
  <2>3. CASE o # p /\ rebuild("copy_assign", o, obj[p].strings)
    <3>1. obj[p].strings \in Seq(Texts)
      BY <2>1, ExistsIs
    <3> QED BY <2>1, <2>3, <3>1, RebuildKeeps
  <2>4. CASE o # p /\ AssignmentThrows(o, p)
    BY <2>1, <2>4, AssignmentThrowsKeeps
  <2> QED BY <1>7, <2>2, <2>3, <2>4 DEF copy_assign
<1>8. ASSUME NEW o \in Objects, NEW t \in Texts, add(o, t) PROVE ArgInv'
  <2>1. Exists(o)
    BY <1>8 DEF add, Callable
  <2>2. CASE rebuild("add", o, Append(obj[o].strings, t))
    <3> DEFINE s == Append(obj[o].strings, t)
    <3>1. s \in Seq(Texts)
      BY <2>1, ExistsIs
    <3>2. rebuild("add", o, s)
      BY <2>2
    <3> HIDE DEF s
    <3> QED BY <2>1, <3>1, <3>2, RebuildKeeps
  <2>3. CASE Terminates("add", o) \/ Unchanged("add", o)
    BY <2>3, NothingChanges DEF Terminates, Unchanged
  <2> QED BY <1>8, <2>2, <2>3 DEF add
<1>9. ASSUME NEW n \in 1 .. MaxArguments, NEW t \in Texts, change(n, t) PROVE ArgInv'
  BY <1>9, ChangeKeeps
<1>10. CASE UNCHANGED argvars
  BY <1>10, NothingChanges DEF argvars
<1> QED
  BY <1>1, <1>2, <1>3, <1>4, <1>5, <1>6, <1>7, <1>8, <1>9, <1>10 DEF ArgNext

LEMMA ArgInitially == ArgInit => ArgInv
<1> QED BY ObjectsAssumption DEF ArgInit, ArgInv, Exists, Causes

(* What argv() hands out are the strings, except behind calls that threw:  *)
(* an add leaves sizes that differ, and a copy assignment pointers that    *)
(* read the new text or dangle (ArgumentVector::rebuild, add, operator=).  *)
THEOREM ArgvCorrect == ArgSpec => []ArgvIsCurrent
<1>1. ArgInv => ArgvIsCurrent
  <2> SUFFICES ASSUME ArgInv, NEW o \in Objects, Exists(o)
               PROVE  /\ cause[o] = "none" => obj[o].pointers = obj[o].strings
                      /\ cause[o] = "add" => ~SizesAgree(o)
                      /\ \A n \in DOMAIN obj[o].pointers :
                            obj[o].pointers[n] \in {obj[o].strings[n], Dangling}
    BY DEF ArgvIsCurrent
  <2>1. Sound(obj[o], cause[o]) /\ obj[o].pointers \in Seq(Texts \cup {Dangling})
        /\ obj[o].strings \in Seq(Texts)
    BY ExistsIs
  <2> QED BY <2>1 DEF Sound, SizesAgree
<1> QED BY <1>1, ArgInitially, ArgSteps, PTL DEF ArgSpec

(* An argv that the program keeps is taken away by a call on its own       *)
(* object only, and by an add or a copy assignment only for want of room   *)
(* (ArgumentVector::rebuild, the moves and the destructor).                *)
THEOREM HeldArgvCorrect == ArgSpec => HeldArgvIsFreedByItsOwner
<1> DEFINE Taken == reply'.on = held /\
                    \/ reply'.op \in {"destroy", "move_assign"}
                    \/ /\ reply'.op \in {"add", "copy_assign"}
                       /\ obj[held].room < Len(obj'[held].strings)
           Loss == held \in Objects /\ held' = Gone => Taken
<1>1. ASSUME ArgInv, [ArgNext]_argvars, held \in Objects, held' = Gone PROVE Taken
  <2>1. held # Gone /\ Gone \notin Objects /\ Gone # Nothing
    BY <1>1, ObjectsAssumption
  <2>2. ASSUME NEW op \in {"add", "copy_assign"}, NEW o \in Objects, NEW s, rebuild(op, o, s)
        PROVE  Taken
    <3>1. /\ obj' = [obj EXCEPT ![o] = Fields(s, s, IF Len(s) > @.room THEN Len(s) ELSE @.room)]
          /\ held' = IF Len(s) > obj[o].room THEN Freed(o) ELSE held
          /\ Answers(op, o, "returned")
      BY <1>1, <2>1, <2>2 DEF rebuild
    <3>2. held = o /\ Len(s) > obj[o].room
      BY <1>1, <2>1, <3>1 DEF Freed
    <3>3. obj'[o].strings = s
      BY <1>1, <3>1 DEF ArgInv, Fields
    <3>4. obj[held].room < Len(obj'[held].strings)
      BY <3>2, <3>3
    <3>5. reply'.on = held /\ reply'.op = op
      BY <3>1, <3>2 DEF Answers
    <3> QED BY <3>4, <3>5
  <2>3. ASSUME NEW o \in Objects, destroy(o) PROVE Taken
    BY <1>1, <2>1, <2>3 DEF destroy, Freed, Answers
  <2>4. ASSUME NEW o \in Objects, NEW p \in Objects, move_assign(o, p) PROVE Taken
    BY <1>1, <2>1, <2>4 DEF move_assign, Freed, Answers
  <2>5. ASSUME NEW o \in Objects, NEW p \in Objects, copy_assign(o, p) PROVE Taken
    <3>1. CASE rebuild("copy_assign", o, obj[p].strings)
      BY <2>2, <3>1
    <3>2. CASE UNCHANGED held
      BY <1>1, <2>1, <3>2
    <3> QED BY <2>5, <3>1, <3>2 DEF copy_assign, Terminates, AssignmentThrows
  <2>6. ASSUME NEW o \in Objects, NEW t \in Texts, add(o, t) PROVE Taken
    <3>1. CASE rebuild("add", o, Append(obj[o].strings, t))
      BY <2>2, <3>1
    <3>2. CASE UNCHANGED held
      BY <1>1, <2>1, <3>2
    <3> QED BY <2>6, <3>1, <3>2 DEF add, Terminates, Unchanged
  <2>7. ASSUME NEW o \in Objects, NEW s \in Inputs, add_range(o, s) PROVE Taken
    <3>1. CASE rebuild("add", o, obj[o].strings \o s)
      BY <2>2, <3>1
    <3>2. CASE UNCHANGED held
      BY <1>1, <2>1, <3>2
    <3> QED BY <2>7, <3>1, <3>2 DEF add_range, Unchanged
  <2>8. CASE UNCHANGED held
    BY <1>1, <2>1, <2>8
  <2>9. ASSUME NEW o \in Objects, NEW p \in Objects, move_construct(o, p) PROVE Taken
    BY <1>1, <2>1, <2>9 DEF move_construct
  <2>10. ASSUME NEW o \in Objects, NEW s, construct(o, s) PROVE Taken
    BY <1>1, <2>1, <2>10 DEF construct
  <2>11. ASSUME NEW o \in Objects, construct_throws(o) \/ argv(o) PROVE Taken
    BY <1>1, <2>1, <2>11 DEF construct_throws, Unchanged, argv, Terminates
  <2>12. ASSUME NEW n, NEW t, change(n, t) PROVE Taken
    BY <2>8, <2>12 DEF change
  <2> QED BY <1>1, <2>3, <2>4, <2>5, <2>6, <2>7, <2>8, <2>9, <2>10, <2>11, <2>12
             DEF ArgNext, argvars, copy_construct
<1>2. ArgInv /\ [ArgNext]_argvars => [Loss]_argvars
  BY <1>1
<1> QED BY <1>2, ArgInitially, ArgSteps, PTL DEF ArgSpec, HeldArgvIsFreedByItsOwner
=============================================================================

---------------------------- MODULE MCDaemonize ----------------------------
(* root, a user with a group of its own and one in root's group.           *)
EXTENDS Daemonize

MCNames == {"root", "user", "operator"}
MCAccount == [n \in MCNames |->
    CASE n = "root" -> [uid |-> 0, gid |-> 0]
      [] n = "user" -> [uid |-> 1, gid |-> 1]
      [] n = "operator" -> [uid |-> 2, gid |-> 0]]
=============================================================================

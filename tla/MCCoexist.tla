----------------------------- MODULE MCCoexist -----------------------------
(* Small instances of Coexist. *)
EXTENDS Coexist

ReadOnly == {"r"}
ReadWrite == {"r", "w"}

(* An application that neither duplicates descriptors, nor closes its       *)
(* standard input, nor uses a number it has closed.                         *)
PlainCalls == AllCalls \ {"dup", "dup2", "fcntl_dup", "close0", "stale"}

(* One that uses the kqueue API, and one that serves datagrams with epoll. *)
KqueueCalls == {"kqueue", "dual", "bind", "kevent"}
DatagramCalls == {"kqueue", "dual", "bind", "epoll"}

(* One that closes its standard input first, and one that registers a       *)
(* socket with an epoll descriptor it has closed.                           *)
ZeroCalls == {"close0", "kqueue", "dual", "epoll"}
StaleCalls == {"kqueue", "kernel", "epoll", "stale"}
=============================================================================

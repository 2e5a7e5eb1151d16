------------------------------ MODULE MCSemIpc ------------------------------
(* Small instances of SemIpc. *)
EXTENDS SemIpc, TLC

Poll(op, timeout, nev, nch) == [op |-> op, timeout |-> timeout, nev |-> nev, nch |-> nch]

Ordinary == NoKind

(* Callers that differ in how they wait: spinning, asleep and retrying     *)
(* until there is an event, and asleep until fstack, an alarm or an         *)
(* interrupted sleep (which withdraws the request as a deadline does) ends  *)
(* the wait.                                                                *)
MixedKinds ==
  {Ordinary, Poll("epoll", "zero", 1, 0), Poll("kevent", "none", 1, 1)}

(* Ordinary calls that compete with polls that have a deadline. *)
LiveKinds == {Ordinary, Poll("epoll", "pos", 1, 0), Poll("epoll", "bad", 1, 0)}

RegisterKinds == {Poll("kevent", "pos", 0, 1)}

EpollTimed == {Poll("epoll", "pos", 1, 0)}

EpollZero == {Poll("epoll", "zero", 1, 0)}

KeventNull == {Poll("kevent", "none", 1, 0)}

Symmetry == Permutations(Thread)

(* Every kind of call with a valid deadline. *)
AllKinds ==
  {Ordinary, Poll("epoll", "none", 1, 0), Poll("epoll", "zero", 1, 0),
   Poll("epoll", "pos", 1, 0), Poll("kevent", "none", 1, 1), Poll("kevent", "pos", 1, 1),
   Poll("kevent", "none", 0, 1)}
=============================================================================

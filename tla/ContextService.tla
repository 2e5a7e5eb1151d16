--------------------------- MODULE ContextService ---------------------------
(***************************************************************************)
(* What a socket-operation context promises the threads that share it,     *)
(* with no lock, no status word read outside the lock and no semaphore: it *)
(* holds one request at a time; a patient request (an ordinary socket      *)
(* call) is answered and its own requester takes that answer; an impatient *)
(* one (epoll_wait, kevent) may also be withdrawn by its requester.        *)
(***************************************************************************)
EXTENDS Naturals

CONSTANT Thread

VARIABLES
  phase,    (* "free", "asked" or "answered"                              *)
  owner,    (* the request held: <<thread, call number>>, or <<>>         *)
  patient,  (* the requester waits until it is answered                   *)
  given     (* for which request the last value each thread got was made  *)

vars == <<phase, owner, patient, given>>

Nobody == <<>>

Init == /\ phase = "free" /\ owner = Nobody /\ patient = FALSE
        /\ given = [t \in Thread |-> Nobody]

Free == phase' = "free" /\ owner' = Nobody /\ patient' = FALSE

Ask(t) ==
  /\ phase = "free"
  /\ phase' = "asked" /\ owner' \in {t} \X Nat /\ patient' \in BOOLEAN
  /\ UNCHANGED given

Answer ==
  /\ phase = "asked" /\ phase' = "answered"
  /\ UNCHANGED <<owner, patient, given>>

Take(t) ==
  /\ phase = "answered" /\ owner[1] = t
  /\ given' = [given EXCEPT ![t] = owner]
  /\ Free

Withdraw(t) ==
  /\ phase # "free" /\ ~patient /\ owner[1] = t
  /\ given' \in {given, [given EXCEPT ![t] = Nobody], [given EXCEPT ![t] = owner]}
  /\ Free

Next == Answer \/ \E t \in Thread : Ask(t) \/ Take(t) \/ Withdraw(t)

Spec == Init /\ [][Next]_vars
=============================================================================

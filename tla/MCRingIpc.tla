----------------------------- MODULE MCRingIpc -----------------------------
(* Small instances of RingIpc. *)
EXTENDS RingIpc

Call(op, timeout) == [op |-> op, timeout |-> timeout]

AllKinds == Kind

(* Calls that wait for their completion as long as it takes. *)
PatientKinds == {Call("call", "none"), Call("epoll", "none"), Call("kevent", "none")}

(* Calls that are submitted once. *)
OnceKinds == {Call("call", "none"), Call("kevent", "none"), Call("kevent", "pos"),
              Call("epoll", "pos")}

OrdinaryKinds == {Call("call", "none")}

TimedKinds == {Call("call", "none"), Call("epoll", "pos")}

(* An epoll_wait that does not wait and is submitted until there is an event. *)
ZeroKinds == {Call("epoll", "zero")}

KeventNull == {Call("kevent", "none")}
=============================================================================

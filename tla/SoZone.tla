------------------------------- MODULE SoZone -------------------------------
(***************************************************************************)
(* The zone of socket-operation contexts that one fstack instance shares   *)
(* with its applications (struct ff_socket_ops_zone, in hugepage memory):  *)
(* processes attach a context, share it with the children they fork and    *)
(* detach it when they exit, while the fstack loop scans the attached      *)
(* contexts.  Default build: parent and child use the same context and     *)
(* count their references to it.                                           *)
(*                                                                         *)
(* The zone lock orders attach, detach and the scan; sc->lock orders fork  *)
(* and detach.  Both are spinlocks in shared memory.                       *)
(***************************************************************************)
EXTENDS Integers, FiniteSets

CONSTANTS
  Proc,      (* process slots; a slot is reused when its process is gone *)
  Count,     (* contexts in the zone, a power of two                     *)
  MaxKills   (* bound: processes that die without running destructors    *)

ASSUME SoZoneAssumption ==
  /\ Count \in {1, 2, 4, 8, 16, 32}
  /\ IsFiniteSet(Proc)
  /\ MaxKills \in Nat

VARIABLES
  zlock,     (* zone->lock is taken                                      *)
  free,      (* zone->free                                               *)
  idx,       (* zone->idx, where the next search for a context starts    *)
  inuse,     (* zone->inuse                                              *)
  sclock,    (* sc->lock of each context is taken                        *)
  refcount,  (* sc->refcount of each context                             *)
  pc,        (* where each process is                                    *)
  held,      (* the adapter's static sc in each process                  *)
  fpc,       (* where the fstack loop is                                 *)
  tmp,       (* its count of attached contexts, read once per call       *)
  served,    (* contexts the last pass looked at                         *)
  orphan,    (* history: references held by processes that were killed   *)
  kills      (* processes killed so far                                  *)

zoneVars == <<free, idx, inuse>>
procVars == <<pc, held>>
scanVars == <<fpc, tmp, served>>
killVars == <<orphan, kills>>
vars == <<zlock, zoneVars, sclock, refcount, procVars, scanVars, killVars>>

Context   == 0 .. Count - 1
NoContext == -1
InUse     == {c \in Context : inuse[c] = 1}
Holders(c) == {p \in Proc : held[p] = c}

(* Processes between ff_linux_fork and the parent's refcount++. *)
Forked(c) == {p \in Proc : held[p] = c /\ pc[p] = "forked"}

-----------------------------------------------------------------------------
(* ff_create_so_memzone *)
Init ==
  /\ zlock = FALSE /\ free = Count /\ idx = 0
  /\ inuse = [c \in Context |-> 0]
  /\ sclock = [c \in Context |-> FALSE]
  /\ refcount = [c \in Context |-> 0]
  /\ pc = [p \in Proc |-> "gone"]
  /\ held = [p \in Proc |-> NoContext]
  /\ fpc = "idle" /\ tmp = 0 /\ served = {}
  /\ orphan = [c \in Context |-> 0] /\ kills = 0

Goto(p, l) == pc' = [pc EXCEPT ![p] = l]

-----------------------------------------------------------------------------
(* An application starts and calls ff_attach_so_context. *)
Start(p) ==
  /\ pc[p] = "gone" /\ held[p] = NoContext
  /\ Goto(p, "attachLock")
  /\ UNCHANGED <<zlock, zoneVars, sclock, refcount, held, scanVars, killVars>>

AttachLock(p) ==
  /\ pc[p] = "attachLock" /\ ~zlock
  /\ zlock' = TRUE
  /\ Goto(p, "attach")
  /\ UNCHANGED <<zoneVars, sclock, refcount, held, scanVars, killVars>>

(* The context at distance i from idx is the first one that is not in use. *)
Nearest(i) ==
  /\ inuse[(idx + i) % Count] = 0
  /\ \A j \in 0 .. i - 1 : inuse[(idx + j) % Count] # 0

(* Variant with a fault: the counter is not decremented. *)
FreeUncounted(n) == n

(* zone->free once a context is taken. *)
FreeAfterAttach(n) == n - 1

Attach(p) ==
  /\ pc[p] = "attach" /\ free # 0
  /\ \E i \in 0 .. Count - 1 :
       LET c == (idx + i) % Count IN
       /\ Nearest(i)
       /\ inuse' = [inuse EXCEPT ![c] = 1]
       /\ sclock' = [sclock EXCEPT ![c] = FALSE]
       /\ refcount' = [refcount EXCEPT ![c] = 1]
       /\ free' = FreeAfterAttach(free)
       /\ idx' = c + 1
       /\ held' = [held EXCEPT ![p] = c]
  /\ zlock' = FALSE
  /\ Goto(p, "run")
  /\ UNCHANGED <<scanVars, killVars>>

(* No free context, or none found where free says there is one: NULL. *)
AttachFails(p) ==
  /\ pc[p] = "attach"
  /\ free = 0 \/ \A c \in Context : inuse[c] # 0
  /\ zlock' = FALSE
  /\ Goto(p, "gone")
  /\ UNCHANGED <<zoneVars, sclock, refcount, held, scanVars, killVars>>

-----------------------------------------------------------------------------
(* ff_hook_fork: sc->lock is held from before the fork until the parent    *)
(* has counted the child's reference.                                      *)
ForkLock(p) ==
  /\ pc[p] = "run" /\ ~sclock[held[p]]
  /\ sclock' = [sclock EXCEPT ![held[p]] = TRUE]
  /\ Goto(p, "forking")
  /\ UNCHANGED <<zlock, zoneVars, refcount, held, scanVars, killVars>>

(* The child runs at once, with a copy of the parent's sc. *)
Fork(p, q) ==
  /\ pc[p] = "forking" /\ pc[q] = "gone" /\ held[q] = NoContext
  /\ pc' = [pc EXCEPT ![p] = "forked", ![q] = "run"]
  /\ held' = [held EXCEPT ![q] = held[p]]
  /\ UNCHANGED <<zlock, zoneVars, sclock, refcount, scanVars, killVars>>

ForkFails(p) ==
  /\ pc[p] = "forking"
  /\ sclock' = [sclock EXCEPT ![held[p]] = FALSE]
  /\ Goto(p, "run")
  /\ UNCHANGED <<zlock, zoneVars, refcount, held, scanVars, killVars>>

(* Variant with a fault: the child's reference is not counted. *)
ForkUncounted(n) == n

(* sc->refcount once the parent has counted the child. *)
RefsAfterFork(n) == n + 1

ForkDone(p) ==
  /\ pc[p] = "forked"
  /\ refcount' = [refcount EXCEPT ![held[p]] = RefsAfterFork(@)]
  /\ sclock' = [sclock EXCEPT ![held[p]] = FALSE]
  /\ Goto(p, "run")
  /\ UNCHANGED <<zlock, zoneVars, held, scanVars, killVars>>

-----------------------------------------------------------------------------
(* ff_adapter_exit, ff_detach_so_context: the zone lock, then sc->lock. *)
Exit(p) ==
  /\ pc[p] = "run"
  /\ Goto(p, "detachLock")
  /\ UNCHANGED <<zlock, zoneVars, sclock, refcount, held, scanVars, killVars>>

DetachZoneLock(p) ==
  /\ pc[p] = "detachLock" /\ ~zlock
  /\ zlock' = TRUE
  /\ Goto(p, "detachScLock")
  /\ UNCHANGED <<zoneVars, sclock, refcount, held, scanVars, killVars>>

(* Variant with a fault: detach does not wait for sc->lock. *)
ScLockIgnored(c) == TRUE

ScLockFree(c) == ~sclock[c]

DetachScLock(p) ==
  /\ pc[p] = "detachScLock" /\ ScLockFree(held[p])
  /\ sclock' = [sclock EXCEPT ![held[p]] = TRUE]
  /\ Goto(p, "detach")
  /\ UNCHANGED <<zlock, zoneVars, refcount, held, scanVars, killVars>>

(* Variant with a fault: an off-by-one in the comparison. *)
LastReferenceLate(c) == refcount[c] < 1

(* detach frees the context; otherwise it drops one reference. *)
LastReference(c) == refcount[c] <= 1

Detach(p) ==
  LET c == held[p] IN
  /\ pc[p] = "detach"
  /\ IF LastReference(c)
     THEN /\ refcount' = refcount
          /\ IF inuse[c] = 1
             THEN /\ inuse' = [inuse EXCEPT ![c] = 0]
                  /\ free' = free + 1
                  /\ idx' = c
             ELSE UNCHANGED zoneVars
     ELSE /\ refcount' = [refcount EXCEPT ![c] = @ - 1]
          /\ UNCHANGED zoneVars
  /\ sclock' = [sclock EXCEPT ![c] = FALSE]
  /\ zlock' = FALSE
  /\ held' = [held EXCEPT ![p] = NoContext]
  /\ Goto(p, "gone")
  /\ UNCHANGED <<scanVars, killVars>>

(* The process is killed while it is not in the adapter: no destructor     *)
(* runs and nobody gives its reference back.                               *)
Kill(p) ==
  /\ pc[p] = "run" /\ kills < MaxKills
  /\ orphan' = [orphan EXCEPT ![held[p]] = @ + 1]
  /\ kills' = kills + 1
  /\ held' = [held EXCEPT ![p] = NoContext]
  /\ Goto(p, "gone")
  /\ UNCHANGED <<zlock, zoneVars, sclock, refcount, scanVars>>

-----------------------------------------------------------------------------
(* ff_handle_each_context: the zone lock is held from the first pass to    *)
(* the end of the drain window.                                            *)
ScanLock ==
  /\ fpc \in {"idle", "window"} /\ ~zlock
  /\ zlock' = TRUE
  /\ tmp' = IF fpc = "idle" THEN Count - free ELSE tmp
  /\ fpc' = "pass"
  /\ UNCHANGED <<zoneVars, sclock, refcount, procVars, served, killVars>>

(* The loop over the contexts stops when it has seen n of them in use. *)
Reached(n) == {c \in InUse : Cardinality({d \in InUse : d < c}) < n}

ScanPass ==
  /\ fpc = "pass"
  /\ served' = Reached(tmp)
  /\ fpc' = "passed"
  /\ UNCHANGED <<zlock, zoneVars, sclock, refcount, procVars, tmp, killVars>>

(* Variant with a fault: the lock window opens whatever is attached. *)
WindowAlways == TRUE

(* Variant with a fault: the lock is kept for the whole drain window. *)
WindowNever == FALSE

(* The lock window opens only when nothing was attached. *)
WindowOpens == tmp = 0

(* The drain window is over, or it goes on with a lock window or without. *)
ScanEnd ==
  /\ fpc = "passed"
  /\ \/ fpc' = "idle" /\ zlock' = FALSE
     \/ WindowOpens /\ fpc' = "window" /\ zlock' = FALSE
     \/ ~WindowOpens /\ fpc' = "pass" /\ zlock' = zlock
  /\ UNCHANGED <<zoneVars, sclock, refcount, procVars, tmp, served, killVars>>

-----------------------------------------------------------------------------
Process(p) ==
  \/ Start(p) \/ AttachLock(p) \/ Attach(p) \/ AttachFails(p)
  \/ ForkLock(p) \/ (\E q \in Proc : Fork(p, q)) \/ ForkFails(p) \/ ForkDone(p)
  \/ Exit(p) \/ DetachZoneLock(p) \/ DetachScLock(p) \/ Detach(p)
  \/ Kill(p)

Scan == ScanLock \/ ScanPass \/ ScanEnd

Next == Scan \/ \E p \in Proc : Process(p)

Spec == Init /\ [][Next]_vars

(* A process that is in an adapter call goes on and the fstack loop runs.  *)
(* The spinlocks are test-and-set: a process that spins for one is given   *)
(* no turn, so its steps are only weakly fair.  Nothing makes a process    *)
(* start, fork or exit, and nothing is assumed of how long the drain       *)
(* window lasts.                                                           *)
Fairness ==
  /\ WF_vars(Scan)
  /\ \A p \in Proc :
       /\ WF_vars(AttachLock(p)) /\ WF_vars(DetachZoneLock(p)) /\ WF_vars(DetachScLock(p))
       /\ WF_vars(Attach(p) \/ AttachFails(p) \/ Detach(p))
       /\ WF_vars(ForkFails(p) \/ ForkDone(p) \/ \E q \in Proc : Fork(p, q))

FairSpec == Spec /\ Fairness

-----------------------------------------------------------------------------
(* The variables have the values the code can give them. *)
TypeOK ==
  /\ zlock \in BOOLEAN
  /\ free \in 0 .. Count /\ idx \in 0 .. Count
  /\ inuse \in [Context -> {0, 1}]
  /\ sclock \in [Context -> BOOLEAN]
  /\ refcount \in [Context -> Nat]
  /\ pc \in [Proc -> {"gone", "attachLock", "attach", "run", "forking", "forked",
                      "detachLock", "detachScLock", "detach"}]
  /\ held \in [Proc -> Context \cup {NoContext}]
  /\ fpc \in {"idle", "pass", "passed", "window"}
  /\ tmp \in 0 .. Count
  /\ served \in SUBSET Context
  /\ orphan \in [Context -> Nat] /\ kills \in Nat

(* zone->free is exact, whatever the order of attaches, forks, exits and   *)
(* kills: ff_handle_each_context derives the number of contexts to serve   *)
(* from it, and asserts count >= free.                                     *)
FreeIsExact == free = Count - Cardinality(InUse)

(* A context that some process still uses is in use: an exiting parent or  *)
(* child never frees it under the other, even in the window between        *)
(* ff_linux_fork and refcount++, so it is never handed to a stranger.      *)
NotFreedWhileHeld == \A p \in Proc : held[p] # NoContext => inuse[held[p]] = 1

(* The reference count is the number of processes that hold the context,   *)
(* less the children whose parent has not counted them yet, plus what      *)
(* killed processes left behind.                                           *)
RefsMatch ==
  \A c \in InUse :
    refcount[c] = Cardinality(Holders(c)) - Cardinality(Forked(c)) + orphan[c]

(* A context is given back when the last process that uses it exits; only  *)
(* a killed process can leak it.                                           *)
Reclaimed == \A c \in InUse : Holders(c) # {} \/ orphan[c] > 0

(* A pass over the contexts looks at every attached one before it stops    *)
(* counting, unless nothing was attached when the call began.              *)
ScanReachesAll == fpc = "passed" => served = InUse \/ tmp = 0

(* The zone lock is free again and again, however long the drain window    *)
(* is, so that processes which spin for it have a chance: fstack does not  *)
(* sit on it while it has nobody to serve ("starved to death" in           *)
(* ff_handle_each_context).  It may stay taken only while fstack's drain   *)
(* window goes on with contexts to serve, or while processes fork for      *)
(* ever and keep the sc->lock a detaching holder of the zone lock needs.   *)
LockOpens ==
  \/ []<>(~zlock)
  \/ <>[](fpc \in {"pass", "passed"} /\ tmp # 0)
  \/ []<>(\E p \in Proc : pc[p] = "forking")
=============================================================================

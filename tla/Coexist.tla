------------------------------- MODULE Coexist -------------------------------
(***************************************************************************)
(* Dual-stack sockets of the native API (FF_KERNEL_COEXIST build with      *)
(* kernel_coexist set): one ff_socket makes an F-Stack socket and a host   *)
(* kernel socket, ff_native_fd_map pairs their descriptors, and the        *)
(* kqueue an application waits on is paired with a host epoll              *)
(* (ff_epoll_pairs), so that one event loop serves both stacks.            *)
(*                                                                         *)
(* The process is single-threaded; an action is one call of the            *)
(* application.  The network makes sockets of either stack readable at any *)
(* time.                                                                   *)
(***************************************************************************)
EXTENDS Integers, FiniteSets

CONSTANTS
  NbFFd,      (* F-Stack descriptors                                      *)
  NbHFd,      (* host descriptors besides 0; the table may fill           *)
  MaxPairs,   (* FF_EPOLL_COEXIST_MAX                                     *)
  MaxEvents,  (* bound: events the application's array has room for       *)
  Filter,     (* filters the application asks for: "r", "w"               *)
  Calls,      (* names of the calls the application makes                 *)
  MaxCalls    (* bound: calls that change descriptors or registrations    *)

AllCalls == {"kqueue", "dual", "fstack", "kernel", "dup", "dup2", "fcntl_dup",
             "bind", "listen", "connect", "accept", "epoll", "kevent",
             "close0",   (* close(0): the process gives up its standard input *)
             "stale"}    (* calls with numbers that are closed, or no kqueue  *)

ASSUME CoexistAssumption ==
  /\ NbFFd \in Nat \ {0} /\ NbHFd \in Nat /\ MaxPairs \in Nat
  /\ MaxEvents \in Nat \ {0} /\ Filter \subseteq {"r", "w"} /\ Calls \subseteq AllCalls
  /\ MaxCalls \in Nat

VARIABLES
  (* F-Stack: what each descriptor refers to, the state of each socket,   *)
  (* the filters registered on each kqueue                                *)
  ff, fst, knote,
  (* host: the same; hreg has the registrations of the host epolls        *)
  hf, hst, hreg,
  (* ff_native_fd_map, ff_epoll_pairs                                     *)
  map, pairs,
  kheld,   (* host descriptors the application holds as encoded kernel fds *)
  ready,   (* sockets, of either stack, with something to read             *)
  room,    (* maxevents or nevents: the application's array, always used   *)
  got,     (* the events the last call returned                            *)
  calls,   (* calls made, of those that are bounded                        *)
  told,    (* history: the last of bind, listen that returned 0 for each   *)
           (* descriptor                                                   *)
  asked,   (* history: the filters the last call about a descriptor asked  *)
           (* for, through each kqueue descriptor                          *)
  spoilt   (* history: host descriptors a failed close, a dup2 or an       *)
           (* F_DUPFD left behind, number 0 where 0 means none, and host   *)
           (* epolls made for a number that is no kqueue                   *)

fVars == <<ff, fst, knote>>
hVars == <<hf, hst, hreg, kheld>>
history == <<told, asked>>
vars == <<fVars, hVars, map, pairs, ready, room, got, calls, history, spoilt>>

FFd == 0 .. NbFFd - 1
HFd == 0 .. NbHFd
Id  == 1 .. NbFFd + NbHFd + 1   (* open files; the halves of a pair share one *)
Stdin == -1   (* the file the process has on host descriptor 0 at first *)

State == {"new", "bound", "listen", "conn", "kq"}
App   == [stk: {"f", "k"}, fd: FFd \union HFd]
Fd(f) == [stk |-> "f", fd |-> f]
KFd(h) == [stk |-> "k", fd |-> h]
Reg   == [ep: HFd, h: HFd, file: Id, app: App, mask: SUBSET Filter]

-----------------------------------------------------------------------------
(* Descriptors and files. *)

IsKq(f)   == ff[f] # 0 /\ fst[ff[f]] = "kq"
IsSock(f) == ff[f] # 0 /\ fst[ff[f]] # "kq"

Least(S) == CHOOSE x \in S : \A y \in S : x <= y
FreeF  == {f \in FFd : ff[f] = 0}
FreeH  == {h \in HFd : hf[h] = 0}
FreeId == {i \in Id : (\A f \in FFd : ff[f] # i) /\ (\A h \in HFd : hf[h] # i)}
NewF == Least(FreeF)
NewH == Least(FreeH)
NewId == Least(FreeId)

(* The host half of F-Stack descriptor f: ff_native_map_get > 0. *)
Dual(f) == map[f] # 0
Host(f) == hf[map[f]]

(* What follows from descriptor tables with fewer entries: a file without  *)
(* a descriptor is gone, with its state, its readiness and its             *)
(* registrations; F-Stack descriptors in cut lose their knotes.            *)
Tables(ff1, hf1, cut) ==
  LET openF == {ff1[f] : f \in FFd}
      openH == {hf1[h] : h \in HFd} IN
  /\ ff' = ff1 /\ hf' = hf1
  /\ fst' = [i \in Id |-> IF i \in openF THEN fst[i] ELSE "new"]
  /\ hst' = [i \in Id |-> IF i \in openH THEN hst[i] ELSE "new"]
  /\ ready' = {x \in ready : IF x[1] = "f" THEN x[2] \in openF ELSE x[2] \in openH}
  /\ knote' = [i \in Id |-> [f \in FFd |-> IF i \in openF /\ f \notin cut THEN knote[i][f] ELSE {}]]
  /\ asked' = [k \in FFd |-> [f \in FFd |-> IF {k, f} \cap cut = {} THEN asked[k][f] ELSE {}]]
  /\ hreg' = {r \in hreg : r.file \in openH /\ hf1[r.ep] # 0}
  /\ told' = [f \in FFd |-> IF f \in cut THEN "new" ELSE told[f]]
  /\ kheld' = {h \in kheld : hf1[h] # 0}

Init ==
  /\ ff = [f \in FFd |-> 0] /\ hf = [h \in HFd |-> IF h = 0 THEN Stdin ELSE 0]
  /\ fst = [i \in Id |-> "new"] /\ hst = [i \in Id |-> "new"]
  /\ knote = [i \in Id |-> [f \in FFd |-> {}]] /\ hreg = {}
  /\ map = [f \in FFd |-> 0] /\ pairs = {} /\ kheld = {}
  /\ ready = {} /\ room \in 1 .. MaxEvents /\ got = {} /\ calls = 0 /\ spoilt = {}
  /\ told = [f \in FFd |-> "new"] /\ asked = [k \in FFd |-> [f \in FFd |-> {}]]

(* The application also uses numbers it has closed.  (A call that fails in *)
(* both stacks changes nothing and is left out.)                           *)
Stale == "stale" \in Calls

(* A call that is bounded; one that returns no events. *)
Count  == calls < MaxCalls /\ calls' = calls + 1 /\ room' = room
Return == Count /\ got' = {}

-----------------------------------------------------------------------------
(* Making descriptors. *)

(* ff_socket with SOCK_KERNEL: a host socket, its descriptor encoded. *)
SocketKernel ==
  /\ "kernel" \in Calls /\ FreeH # {}
  /\ hf' = [hf EXCEPT ![NewH] = NewId]
  /\ kheld' = kheld \union {NewH}
  /\ Return
  /\ UNCHANGED <<fVars, hst, hreg, map, pairs, ready, history, spoilt>>

(* ff_socket with SOCK_FSTACK, or without coexistence. *)
SocketFstack ==
  /\ "fstack" \in Calls /\ FreeF # {}
  /\ ff' = [ff EXCEPT ![NewF] = NewId]
  /\ Return
  /\ UNCHANGED <<fst, knote, hVars, map, pairs, ready, history, spoilt>>

(* The process closes its standard input: host descriptor 0 is free. *)
CloseStdin ==
  /\ "close0" \in Calls /\ hf[0] = Stdin
  /\ hf' = [hf EXCEPT ![0] = 0]
  /\ Return
  /\ UNCHANGED <<fVars, hst, hreg, kheld, map, pairs, ready, history, spoilt>>

(* ff_socket without a marker: both sockets, or only the F-Stack one when  *)
(* the host has none to give; the map is written only if it has.  Host     *)
(* descriptor 0 is stored (hfd >= 0) but means none to every reader (> 0). *)
SocketDual ==
  /\ "dual" \in Calls /\ FreeF # {}
  /\ ff' = [ff EXCEPT ![NewF] = NewId]
  /\ IF FreeH # {}
     THEN /\ hf' = [hf EXCEPT ![NewH] = NewId]
          /\ map' = [map EXCEPT ![NewF] = NewH]
          /\ spoilt' = spoilt \union ({NewH} \cap {0})
     ELSE UNCHANGED <<hf, map, spoilt>>
  /\ Return
  /\ UNCHANGED <<fst, knote, hst, hreg, kheld, pairs, ready, history>>

(* ff_kqueue, ff_epoll_create. *)
Kqueue ==
  /\ "kqueue" \in Calls /\ FreeF # {}
  /\ ff' = [ff EXCEPT ![NewF] = NewId]
  /\ fst' = [fst EXCEPT ![NewId] = "kq"]
  /\ Return
  /\ UNCHANGED <<knote, hVars, map, pairs, ready, history, spoilt>>

(* ff_dup: another descriptor of the F-Stack file, or of the host's. *)
Dup(f) ==
  /\ "dup" \in Calls /\ ff[f] # 0 /\ FreeF # {}
  /\ ff' = [ff EXCEPT ![NewF] = ff[f]]
  /\ Return
  /\ UNCHANGED <<fst, knote, hVars, map, pairs, ready, history, spoilt>>

DupKernel(h) ==
  /\ "dup" \in Calls /\ h \in kheld /\ FreeH # {}
  /\ hf' = [hf EXCEPT ![NewH] = hf[h]]
  /\ kheld' = kheld \union {NewH}
  /\ Return
  /\ UNCHANGED <<fVars, hst, hreg, map, pairs, ready, history, spoilt>>

(* What the map and the pairs hold for F-Stack descriptor f. *)
Attached(f) == ({map[f]} \ {0}) \union {p.ep : p \in {q \in pairs : q.kq = f}}

(* ff_dup2 of F-Stack descriptors: g's file is closed, what was attached   *)
(* to g stays.                                                             *)
Dup2(f, g) ==
  /\ "dup2" \in Calls /\ f # g /\ ff[f] # 0
  /\ Tables([ff EXCEPT ![g] = ff[f]], hf, {g})
  /\ spoilt' = spoilt \union Attached(g)
  /\ Return
  /\ UNCHANGED <<map, pairs>>

(* ff_dup2 of encoded kernel descriptors. *)
Dup2Kernel(h, n) ==
  /\ "dup2" \in Calls /\ h # n /\ h \in kheld /\ n \in kheld
  /\ Tables(ff, [hf EXCEPT ![n] = hf[h]], {})
  /\ Return
  /\ UNCHANGED <<map, pairs, spoilt>>

(* ff_fcntl(F_DUPFD) is forwarded to the host half, whose new descriptor   *)
(* nobody keeps, and then run on the F-Stack descriptor, if that is open.  *)
FcntlDup(f) ==
  /\ "fcntl_dup" \in Calls /\ (ff[f] # 0 \/ (Stale /\ Dual(f)))
  /\ ff' = IF ff[f] # 0 /\ FreeF # {} THEN [ff EXCEPT ![NewF] = ff[f]] ELSE ff
  /\ IF Dual(f) /\ FreeH # {}
     THEN /\ hf' = [hf EXCEPT ![NewH] = Host(f)]
          /\ spoilt' = spoilt \union {NewH}
     ELSE UNCHANGED <<hf, spoilt>>
  /\ Return
  /\ UNCHANGED <<fst, knote, hst, hreg, kheld, map, pairs, ready, history>>

(* On a kernel descriptor the host's new descriptor is returned without    *)
(* its encoding: no later call can name it.                                *)
FcntlDupKernel(h) ==
  /\ "fcntl_dup" \in Calls /\ h \in kheld /\ FreeH # {}
  /\ hf' = [hf EXCEPT ![NewH] = hf[h]]
  /\ spoilt' = spoilt \union {NewH}
  /\ Return
  /\ UNCHANGED <<fVars, hst, hreg, kheld, map, pairs, ready, history>>

-----------------------------------------------------------------------------
(* Closing. *)

HfWithout(S) == [h \in HFd |-> IF h \in S THEN 0 ELSE hf[h]]

(* Variant with a fault: the host epoll of a kqueue is forgotten. *)
ClosedWithMap(f) == {map[f]} \ {0}

(* Variant with a fault: the host half of a socket is forgotten. *)
ClosedWithPair(f) == {p.ep : p \in {q \in pairs : q.kq = f}}

(* The host descriptors ff_close closes with F-Stack descriptor f. *)
ClosedWith(f) == Attached(f)

(* Variant with a fault: the entry of a closed descriptor is kept. *)
MapKept(f) == map

MapWithout(f) == [map EXCEPT ![f] = 0]

(* ff_close of an F-Stack descriptor, when kern_close succeeds. *)
Close(f) ==
  /\ ff[f] # 0
  /\ Tables([ff EXCEPT ![f] = 0], HfWithout(ClosedWith(f)), {f})
  /\ map' = MapWithout(f)
  /\ pairs' = {p \in pairs : p.kq # f}
  /\ spoilt' = spoilt \ ClosedWith(f)
  /\ Return

(* kern_close frees the descriptor and then reports the error of the       *)
(* socket's close (soclose: _sleep fails with EPERM when a connected,      *)
(* blocking socket lingers); ff_close leaves at once.                      *)
CloseError(f) ==
  /\ ff[f] # 0 /\ fst[ff[f]] = "conn" /\ \A g \in FFd \ {f} : ff[g] # ff[f]
  /\ Tables([ff EXCEPT ![f] = 0], hf, {f})
  /\ spoilt' = spoilt \union Attached(f)
  /\ Return
  /\ UNCHANGED <<map, pairs>>

(* ff_close of an encoded kernel descriptor. *)
CloseKernel(h) ==
  /\ h \in kheld
  /\ Tables(ff, HfWithout({h}), {})
  /\ spoilt' = spoilt \ {h}
  /\ Return
  /\ UNCHANGED <<map, pairs>>

-----------------------------------------------------------------------------
(* Naming, listening, connecting, reading. *)

(* Variant with a fault: the host's refusal is not reported. *)
OnlyIfFstack(f, hostOk) == TRUE

(* The call returns 0: the F-Stack part succeeded, and the host's, if any. *)
ReturnsZero(f, hostOk) == ~Dual(f) \/ hostOk

(* The host half of f goes to state s if the host allows it. *)
HostTo(f, s, hostOk) ==
  hst' = IF Dual(f) /\ hostOk THEN [hst EXCEPT ![Host(f)] = s] ELSE hst

(* ff_bind: kern_bindat, then bind of the host half, which may fail on its *)
(* own (another local program has the port); nothing is undone.            *)
Bind(f) ==
  /\ "bind" \in Calls /\ IsSock(f) /\ fst[ff[f]] = "new"
  /\ fst' = [fst EXCEPT ![ff[f]] = "bound"]
  /\ \E hostOk \in BOOLEAN :
       /\ HostTo(f, "bound", hostOk)
       /\ told' = IF ReturnsZero(f, hostOk) THEN [told EXCEPT ![f] = "bound"] ELSE told
  /\ Return
  /\ UNCHANGED <<ff, knote, hf, hreg, kheld, map, pairs, ready, asked, spoilt>>

(* ff_listen: the same with listen.  A host socket whose bind failed gets  *)
(* a port of the kernel's choice.                                          *)
Listen(f) ==
  /\ "listen" \in Calls /\ IsSock(f) /\ fst[ff[f]] = "bound"
  /\ fst' = [fst EXCEPT ![ff[f]] = "listen"]
  /\ \E hostOk \in BOOLEAN :
       /\ HostTo(f, "listen", hostOk)
       /\ told' = IF ReturnsZero(f, hostOk) /\ told[f] = "bound"
                  THEN [told EXCEPT ![f] = "listen"] ELSE told
  /\ Return
  /\ UNCHANGED <<ff, knote, hf, hreg, kheld, map, pairs, ready, asked, spoilt>>

(* ff_connect: the host half first, whatever comes of it and whatever f is. *)
Connect(f) ==
  /\ "connect" \in Calls
  /\ (IsSock(f) /\ fst[ff[f]] = "new") \/ (ff[f] = 0 /\ Stale /\ Dual(f))
  /\ \E hostOk, fOk \in BOOLEAN :
       /\ HostTo(f, "conn", hostOk)
       /\ fst' = IF fOk /\ ff[f] # 0 THEN [fst EXCEPT ![ff[f]] = "conn"] ELSE fst
  /\ Return
  /\ UNCHANGED <<ff, knote, hf, hreg, kheld, map, pairs, ready, history, spoilt>>

(* ff_bind, ff_listen, ff_connect of an encoded kernel descriptor. *)
KernelTo(h, s) ==
  /\ h \in kheld
  /\ CASE s = "bound"  -> "bind" \in Calls /\ hst[hf[h]] = "new"
       [] s = "listen" -> "listen" \in Calls /\ hst[hf[h]] = "bound"
       [] s = "conn"   -> "connect" \in Calls /\ hst[hf[h]] = "new"
  /\ hst' = [hst EXCEPT ![hf[h]] = s]
  /\ Return
  /\ UNCHANGED <<fVars, hf, hreg, kheld, map, pairs, ready, history, spoilt>>

(* A connection or data arrives at a socket of one of the stacks. *)
Arrive(side, i) ==
  /\ IF side = "f" THEN fst[i] \in {"bound", "listen", "conn"}
                   ELSE hst[i] \in {"bound", "listen", "conn"}
  /\ <<side, i>> \notin ready
  /\ ready' = ready \union {<<side, i>>}
  /\ UNCHANGED <<fVars, hVars, map, pairs, room, got, calls, history, spoilt>>

(* A connection is accepted from the host socket h: its descriptor is      *)
(* encoded.                                                                *)
HostAccept(h) ==
  /\ hf[h] # 0 /\ hst[hf[h]] = "listen" /\ <<"h", hf[h]>> \in ready /\ FreeH # {}
  /\ hf' = [hf EXCEPT ![NewH] = NewId]
  /\ hst' = [hst EXCEPT ![NewId] = "conn"]
  /\ kheld' = kheld \union {NewH}
  /\ ready' = ready \ {<<"h", hf[h]>>}
  /\ UNCHANGED <<fVars, hreg>>

(* ff_accept, ff_accept4: kern_accept first; if it would block, the host   *)
(* half.                                                                   *)
Accept(f) ==
  /\ "accept" \in Calls /\ IsSock(f) /\ fst[ff[f]] = "listen"
  /\ \/ /\ <<"f", ff[f]>> \in ready /\ FreeF # {}
        /\ ff' = [ff EXCEPT ![NewF] = NewId]
        /\ fst' = [fst EXCEPT ![NewId] = "conn"]
        /\ ready' = ready \ {<<"f", ff[f]>>}
        /\ UNCHANGED <<knote, hVars>>
     \/ <<"f", ff[f]>> \notin ready /\ Dual(f) /\ HostAccept(map[f])
  /\ Return
  /\ UNCHANGED <<map, pairs, history, spoilt>>

AcceptKernel(h) ==
  /\ "accept" \in Calls /\ h \in kheld /\ HostAccept(h)
  /\ Return
  /\ UNCHANGED <<map, pairs, history, spoilt>>

(* ff_read, ff_recv and their kin look at one stack only, whatever the map *)
(* says.                                                                   *)
Recv(f) ==
  /\ IsSock(f) /\ fst[ff[f]] # "listen" /\ <<"f", ff[f]>> \in ready
  /\ ready' = ready \ {<<"f", ff[f]>>}
  /\ got' = {}
  /\ UNCHANGED <<fVars, hVars, map, pairs, room, history, spoilt, calls>>

RecvKernel(h) ==
  /\ h \in kheld /\ hst[hf[h]] # "listen" /\ <<"h", hf[h]>> \in ready
  /\ ready' = ready \ {<<"h", hf[h]>>}
  /\ got' = {}
  /\ UNCHANGED <<fVars, hVars, map, pairs, room, history, spoilt, calls>>

-----------------------------------------------------------------------------
(* Registering and waiting. *)

SlotFree == Cardinality(pairs) < MaxPairs

(* ff_epoll_host_ep: the host epolls of number k; with create, one is made *)
(* if there is none, a slot is free and the host has a descriptor left.    *)
HostEps(k) == {p.ep : p \in {q \in pairs : q.kq = k}}
Creates(k) == HostEps(k) = {} /\ SlotFree /\ FreeH # {}

(* The lookup-and-create of ff_epoll_host_ep followed by one change of the *)
(* registrations: change[ep] is what epoll_ctl on ep makes of them.        *)
(* Nobody looks whether k is a kqueue, and a host epoll that gets          *)
(* descriptor 0 is dropped.                                                *)
WithHostEp(k, create, change) ==
  IF create /\ Creates(k)
  THEN /\ hf' = [hf EXCEPT ![NewH] = IF IsKq(k) THEN ff[k] ELSE NewId]
       /\ spoilt' = IF NewH = 0 \/ ~IsKq(k) THEN spoilt \union {NewH} ELSE spoilt
       /\ IF NewH = 0 THEN UNCHANGED <<pairs, hreg>>
          ELSE /\ pairs' = pairs \union {[kq |-> k, ep |-> NewH]}
               /\ hreg' = change[NewH]
  ELSE /\ hreg' = IF HostEps(k) = {} THEN hreg ELSE change[Least(HostEps(k))]
       /\ UNCHANGED <<hf, pairs, spoilt>>

(* kern_kevent finds the kqueue and the socket. *)
Found(k, f) == IsKq(k) /\ IsSock(f)

(* What the application passes: a kqueue and a socket, or numbers that     *)
(* were and still have a host half; never a kqueue to be watched by one.   *)
Passes(k, f) == Found(k, f) \/ (Stale /\ Dual(f) /\ ~IsKq(f))
PassesKernel(k, h) == h \in kheld /\ (IsKq(k) \/ Stale)

(* The last call about f on this kqueue came through k. *)
AskedBy(k, f, now) ==
  [a \in FFd |-> IF ff[a] = ff[k]
                 THEN [asked[a] EXCEPT ![f] = IF a = k THEN now ELSE {}] ELSE asked[a]]

Registered(ep, h) == {r \in hreg : r.ep = ep /\ r.h = h /\ r.file = hf[h]}
Entry(ep, h, app, mask) ==
  [ep |-> ep, h |-> h, file |-> hf[h], app |-> app, mask |-> mask]

(* epoll_ctl of the host: ADD fails if h is registered, MOD and DEL if it  *)
(* is not; all failures leave the registrations as they are.               *)
EpollCtlHost(op, ep, h, app, mask) ==
  LET old == Registered(ep, h) IN
  CASE op = "add" /\ old = {} -> hreg \union {Entry(ep, h, app, mask)}
    [] op = "mod" /\ old # {} -> (hreg \ old) \union {Entry(ep, h, app, mask)}
    [] op = "del" -> hreg \ old
    [] OTHER -> hreg

(* ff_epoll_ctl of an F-Stack descriptor: the host half, then both filters *)
(* on the kqueue.  MOD of what is not registered fails there.              *)
EpollCtl(k, f, op, mask) ==
  /\ "epoll" \in Calls /\ Passes(k, f)
  /\ IF Dual(f)
     THEN WithHostEp(k, op # "del", [ep \in HFd |-> EpollCtlHost(op, ep, map[f], Fd(f), mask)])
     ELSE UNCHANGED <<hf, pairs, hreg, spoilt>>
  /\ IF Found(k, f)
     THEN LET now == IF op = "del" \/ (op = "mod" /\ knote[ff[k]][f] = {}) THEN {} ELSE mask
          IN /\ knote' = [knote EXCEPT ![ff[k]][f] = now]
             /\ asked' = AskedBy(k, f, now)
     ELSE UNCHANGED <<knote, asked>>
  /\ Return
  /\ UNCHANGED <<ff, fst, hst, kheld, map, ready, told>>

(* ff_epoll_ctl of an encoded kernel descriptor: only the host. *)
EpollCtlKernel(k, h, op, mask) ==
  /\ "epoll" \in Calls /\ PassesKernel(k, h)
  /\ WithHostEp(k, op # "del", [ep \in HFd |-> EpollCtlHost(op, ep, h, KFd(h), mask)])
  /\ Return
  /\ UNCHANGED <<fVars, hst, kheld, map, ready, history>>

(* What a wait on number k can return of each stack; the kqueue part of it *)
(* fails unless k is a kqueue.                                             *)
ReadyIn(regs, ps, k) ==
  {r \in regs : [kq |-> k, ep |-> r.ep] \in ps /\ "r" \in r.mask /\ <<"h", r.file>> \in ready}
HostReady(k) == ReadyIn(hreg, pairs, k)
FReady(k, kn) == {f \in FFd : IsKq(k) /\ "r" \in kn[ff[k]][f] /\ <<"f", ff[f]>> \in ready}

(* As many members of S as fit into n events. *)
Some(S, n) == IF Cardinality(S) <= n THEN {S} ELSE {T \in SUBSET S : Cardinality(T) = n}

(* Variant with a fault: host events alone are enough to return. *)
FullOnAny(evs, n) == evs # {}

(* Variant with a fault: one slot of the array is never used. *)
FullEarly(evs, n) == Cardinality(evs) >= n - 1

(* The host's events fill the application's array: the kqueue is not asked. *)
Full(evs, n) == Cardinality(evs) >= n

Events(hs, fs) == {<<"h", r.app>> : r \in hs} \union {<<"f", Fd(f)>> : f \in fs}

(* ff_epoll_wait; ff_kevent without a changelist. *)
Wait(k) ==
  /\ IsKq(k) \/ (Stale /\ HostEps(k) # {})
  /\ \E hs \in Some(HostReady(k), room) :
       IF Full(hs, room) THEN got' = Events(hs, {})
       ELSE \E fs \in Some(FReady(k, knote), room - Cardinality(hs)) : got' = Events(hs, fs)
  /\ UNCHANGED <<fVars, hVars, map, pairs, ready, room, calls, history, spoilt>>

(* ff_host_kqueue_ctl: a descriptor that is registered already gets the    *)
(* new filter instead of the old one; deleting one filter deletes both.    *)
KqueueCtlHost(op, ep, h, app, flt) ==
  LET op1 == IF op = "add" /\ Registered(ep, h) # {} THEN "mod" ELSE op
  IN EpollCtlHost(op1, ep, h, app, {flt})

KnoteChange(was, op, flt) == IF op = "add" THEN was \union {flt} ELSE was \ {flt}

(* ff_kevent that changes one filter of F-Stack descriptor f, with an      *)
(* array for events or without.  The host's part is done first; when its   *)
(* events fill the array, the change never reaches the kqueue, and when    *)
(* the kqueue refuses it, they are all that is reported.                   *)
Kevent(k, f, op, flt, wait) ==
  /\ "kevent" \in Calls /\ Count /\ Passes(k, f)
  /\ IF Dual(f)
     THEN WithHostEp(k, op = "add", [ep \in HFd |-> KqueueCtlHost(op, ep, map[f], Fd(f), flt)])
     ELSE UNCHANGED <<hf, pairs, hreg, spoilt>>
  /\ LET n == IF wait THEN room ELSE 0
         done == Found(k, f) /\ (op = "add" \/ flt \in knote[ff[k]][f])
         kn1 == IF done THEN [knote EXCEPT ![ff[k]][f] = KnoteChange(@, op, flt)] ELSE knote
     IN \E hs \in Some(ReadyIn(hreg', pairs', k), n) :
          /\ knote' = IF n > 0 /\ Full(hs, n) THEN knote ELSE kn1
          /\ IF done /\ ~Full(hs, n)
             THEN \E fs \in Some(FReady(k, kn1), n - Cardinality(hs)) : got' = Events(hs, fs)
             ELSE got' = Events(hs, {})
  /\ asked' = IF Found(k, f) THEN AskedBy(k, f, IF op = "add" THEN {flt} ELSE {}) ELSE asked
  /\ UNCHANGED <<ff, fst, hst, kheld, map, ready, told>>

(* ff_kevent that changes a filter of an encoded kernel descriptor. *)
KeventKernel(k, h, op, flt) ==
  /\ "kevent" \in Calls /\ PassesKernel(k, h)
  /\ WithHostEp(k, op = "add", [ep \in HFd |-> KqueueCtlHost(op, ep, h, KFd(h), flt)])
  /\ Return
  /\ UNCHANGED <<fVars, hst, kheld, map, ready, history>>

-----------------------------------------------------------------------------
Next ==
  \/ SocketKernel \/ SocketFstack \/ SocketDual \/ Kqueue \/ CloseStdin
  \/ \E f \in FFd : \/ Dup(f) \/ FcntlDup(f) \/ Close(f) \/ CloseError(f)
                    \/ Bind(f) \/ Listen(f) \/ Connect(f) \/ Accept(f) \/ Recv(f)
                    \/ Wait(f)
  \/ \E f, g \in FFd : Dup2(f, g)
  \/ \E h \in HFd : \/ DupKernel(h) \/ FcntlDupKernel(h) \/ CloseKernel(h)
                    \/ AcceptKernel(h) \/ RecvKernel(h)
                    \/ \E s \in {"bound", "listen", "conn"} : KernelTo(h, s)
  \/ \E h, n \in HFd : Dup2Kernel(h, n)
  \/ \E side \in {"f", "h"}, i \in Id : Arrive(side, i)
  \/ \E k, f \in FFd, op \in {"add", "mod", "del"}, mask \in SUBSET Filter \ {{}} :
        EpollCtl(k, f, op, mask)
  \/ \E k \in FFd, h \in HFd, op \in {"add", "mod", "del"}, mask \in SUBSET Filter \ {{}} :
        EpollCtlKernel(k, h, op, mask)
  \/ \E k, f \in FFd, op \in {"add", "del"}, flt \in Filter, wait \in BOOLEAN :
        Kevent(k, f, op, flt, wait)
  \/ \E k \in FFd, h \in HFd, op \in {"add", "del"}, flt \in Filter :
        KeventKernel(k, h, op, flt)

Spec == Init /\ [][Next]_vars

(* The application waits on each of its kqueues again and again. *)
FairSpec == Spec /\ \A k \in FFd : WF_vars(Wait(k))

-----------------------------------------------------------------------------
(* Every variable has its type, and ff_epoll_pairs never has more pairs    *)
(* than slots (ff_epoll_host_ep).                                          *)
TypeOK ==
  /\ ff \in [FFd -> Id \union {0}] /\ hf \in [HFd -> Id \union {0, Stdin}]
  /\ fst \in [Id -> State] /\ hst \in [Id -> State]
  /\ knote \in [Id -> [FFd -> SUBSET Filter]] /\ hreg \subseteq Reg
  /\ map \in [FFd -> HFd]
  /\ pairs \subseteq [kq: FFd, ep: HFd \ {0}] /\ Cardinality(pairs) <= MaxPairs
  /\ kheld \subseteq HFd /\ spoilt \subseteq HFd /\ calls \in 0 .. MaxCalls
  /\ ready \subseteq {"f", "h"} \X Id /\ room \in 1 .. MaxEvents /\ got \subseteq {"f", "h"} \X App
  /\ told \in [FFd -> {"new", "bound", "listen"}]
  /\ asked \in [FFd -> [FFd -> SUBSET Filter]]

(* Host descriptor h is reached from a descriptor the application can      *)
(* still close.                                                            *)
Reached(h) ==
  \/ h \in kheld
  \/ \E f \in FFd : ff[f] # 0 /\ h \in Attached(f)

(* the host descriptors this code has opened *)
Opened == {h \in HFd : hf[h] \in Id}

(* Every host descriptor goes with the last close of what it was opened    *)
(* for (ff_close, ff_epoll_close_pair), however sockets, kqueues and their *)
(* duplicates are opened, registered and closed; except those a failed     *)
(* close, a dup2 or an F_DUPFD has left behind, number 0, and the host     *)
(* epoll of a number that is no kqueue.                                    *)
NoLeak == \A h \in Opened : Reached(h) \/ h \in spoilt

(* ff_native_fd_map and ff_epoll_pairs never join two different sockets or *)
(* a kqueue with another's epoll, though descriptor numbers are reused at  *)
(* once; with the same exceptions.                                         *)
PairsMatch ==
  \A f \in FFd : \A h \in Attached(f) \ spoilt : ff[f] # 0 /\ hf[h] = ff[f]

(* A registration that a host epoll holds for an F-Stack descriptor        *)
(* belongs to the host half that descriptor has now, so no event is        *)
(* reported for a descriptor that is closed or means something else by     *)
(* then; with the same exceptions.                                         *)
NoGhostEvent ==
  \A r \in hreg : r.app.stk = "f" =>
    \/ r.h \in spoilt \/ r.ep \in spoilt \/ r.file \in {hf[h] : h \in spoilt}
    \/ hf[r.h] = r.file /\ map[r.app.fd] = r.h

(* A dual-stack descriptor for which ff_bind and then ff_listen returned 0 *)
(* listens in both stacks.                                                 *)
ListensInBoth ==
  \A f \in FFd : (Dual(f) /\ IsSock(f) /\ map[f] \notin spoilt /\ told[f] = "listen") =>
    fst[ff[f]] = "listen" /\ hst[Host(f)] = "listen"

(* The registrations of the host half of f with the host epoll of k. *)
HostWatches(k, f) ==
  {r \in hreg : r.ep \in HostEps(k) /\ r.h = map[f] /\ r.file = Host(f)}

(* What the application last asked of a dual-stack descriptor is watched   *)
(* for by the kqueue or by its host epoll, even if ff_kevent returned      *)
(* before the change reached the kqueue or the host had no epoll to give.  *)
DualWatched ==
  \A k, f \in FFd : (IsKq(k) /\ Dual(f)) =>
    asked[k][f] \subseteq knote[ff[k]][f] \union UNION {r.mask : r \in HostWatches(k, f)}

(* Descriptor f can be returned by a wait on kqueue descriptor k. *)
Awaited(k, f) == IsKq(k) /\ f \in FReady(k, knote)

(* More is ready than the application's array can take. *)
Crowded(k) == Cardinality(HostReady(k)) + Cardinality(FReady(k, knote)) > room

(* A descriptor registered for reading whose F-Stack socket stays readable *)
(* is reported by ff_epoll_wait or ff_kevent along with what the host half *)
(* of the event loop reports, until more is ready than fits.               *)
FstackEventsReported ==
  \A k, f \in FFd :
    Awaited(k, f) ~> (<<"f", Fd(f)>> \in got \/ ~Awaited(k, f) \/ Crowded(k))

-----------------------------------------------------------------------------
(* What does not hold in general. *)

(* What the application asked for last is on the kqueue. *)
ChangesReachKqueue ==
  \A k, f \in FFd : IsKq(k) => asked[k][f] \subseteq knote[ff[k]][f]

(* The F-Stack half is reported however much the host half has to report.  *)
NeverStarved ==
  \A k, f \in FFd : Awaited(k, f) ~> (<<"f", Fd(f)>> \in got \/ ~Awaited(k, f))

(* Everything open on the host can still be closed through a descriptor    *)
(* the application has.                                                    *)
ReleasedTogether == \A h \in Opened : Reached(h)

(* What is attached to an open descriptor was made for it. *)
JoinsExact == \A f \in FFd : \A h \in Attached(f) : ff[f] # 0 => hf[h] = ff[f]

(* The host half of a registered dual-stack socket is registered for the   *)
(* same filters.                                                           *)
FiltersMirrored ==
  \A r \in hreg : (r.app.stk = "f" /\ r.h \notin spoilt) =>
    \A p \in pairs : p.ep = r.ep => knote[ff[p.kq]][r.app.fd] \subseteq r.mask
=============================================================================

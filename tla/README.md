# F-Stack: call channels, processes, packets, control messages and coexistence in TLA+

This directory specifies the parts of F-Stack (`src/f-stack-fork`) in which several
processes, threads, devices or network stacks work on shared state: the channel through
which the LD_PRELOAD adapter hands socket calls to the `fstack` process, in both of its
builds, the zone the contexts of that channel are allocated from, the life of processes
that fork, the packet path of the library, the control messages of its tools, and the
coexistence of F-Stack with the host's own stack. TLC checks the modules on small instances;
TLAPS proves the safety properties of both channels, of the zone, of processes that fork, of
the control messages and of the coexistence for every instance.

Contents: [system](#the-system) · [modules](#modules-and-how-they-follow-the-code) ·
[runs](#runs) · [bounds](#bounds) · [fairness](#fairness) · [proofs](#proofs) ·
[disagreements](#where-the-code-and-its-documents-disagree) ·
[not modelled](#what-is-not-modelled) · [plan](#plan)

## The system

F-Stack runs FreeBSD's TCP/IP stack in user space on top of DPDK. There are two ways to
use it: an application linked with the library (`lib/`), or an unmodified application
with `libff_syscall.so` preloaded (`adapter/syscall/`), whose socket calls are executed
by a separate `fstack` process linked with the library.

| Part | State | Operations | Talks to |
|---|---|---|---|
| Semaphore channel (`ff_hook_syscall.c`, `ff_socket_ops.c`, default build) | per context: `lock`, `status` (IDLE, REQ, REP), `ops`, `args`, `result`, `wait_sem`; `need_alarm_sem` | every hooked call, `epoll_wait`, `kevent`, `alarm_event_sem`; `ff_handle_each_context` | application threads, signal handlers and the fstack loop share a context |
| Ring channel (`ff_ring_ipc.c`, `FF_USE_RING_IPC`) | per context: `ops`, `args`, `result`, `completion`; one `req_ring` per fstack instance | `ff_ring_submit_and_wait`, `ff_ring_send_response`, `ff_ring_alarm_wakeup` | same |
| Context zone (`ff_so_zone.c`) | `free`, `idx`, `inuse[]`, zone lock; per context `refcount`, `lock` | attach, detach, fork, exit; the scan | processes, through hugepage memory |
| Packet path (`ff_dpdk_if.c`, `ff_dpdk_kni.c`, `ff_veth.c`) | mbuf pool, receive queues, dispatch rings, KNI ring, transmit batches | `main_loop` and what it calls | one polling process per queue, NIC, kernel, FreeBSD stack |
| User threads (`ff_hook_syscall.c`, `ff_socket_ops.c`, `ff_compat.c`; `FF_USE_THREAD_STRUCT_HANDLE`) | per context `ff_thread_handle`, `forking`, `refcount`; a thread with a descriptor table per process | start, fork, exit; register, fork and exit requests in fstack | processes, the zone, the FreeBSD stack |
| Control messages (`ff_dpdk_if.c`, `ff_msg.h`, `tools/compat/ff_ipc.c`) | message pool, request and reply rings | `process_msg_ring`, `handle_msg`; `ff_ipc_send`, `ff_ipc_recv` | command line tools |
| Kernel coexistence (`ff_syscall_wrapper.c`, `ff_epoll.c`, `ff_host_interface.c`; `FF_KERNEL_COEXIST`) | `ff_native_fd_map`, `ff_epoll_pairs`; sockets, kqueues, epolls of two stacks | socket, dup, close, bind, listen, connect, accept, read, epoll, kevent | application, FreeBSD stack, host kernel |
| Descriptor space (`ff_hook_syscall.c`) | which descriptor is F-Stack's, kernel event map | every hook | application, kernel |
| Adapter start-up | worker id semaphore, `inited` | `ff_adapter_init`, symbol loading | other processes |
| Bind table (`ff_socket_ops.c`) | bound addresses | bind, listen, close | processes that share a port |
| Library services (config, INI parser, glue, timers, wrappers) | mostly start-up or per-process state | | FreeBSD stack |
| Micro-thread adapter, DPDK, FreeBSD, nginx, redis, tools, testkit scripts | | | vendored or pure I/O |

What is hard, part by part:

* **Semaphore channel.** The status is read without the lock before it is read with it;
  polls sleep on a semaphore that nobody resets, so a poll that gives up leaves a token
  for the next one; a deadline races fstack's answer; a signal handler takes the same
  spinlock as the code it interrupts. Right means: one owner at a time, each caller gets
  the answer to its own call, calls are executed once, no poll sleeps on an answer.
* **Ring channel.** Nothing withdraws a request whose caller has given up, the ring
  has one producer by construction but several in use, and fstack takes as many entries as
  the ring has into a table of half that size. Right means the same as above.
* **Zone.** Contexts are shared by parent and child, and processes come and go, some
  killed, while fstack scans. Right means: the free counter is exact, a context in use
  is not given to anybody else, and the scan reaches every attached context.
* **Packet path.** Every ring, pool and table has a limit, every allocation may fail and
  every device may accept part of a batch. Right means: every mbuf has exactly one owner,
  a frame is delivered at most once, tables do not overflow, nothing waits for ever.
* **User threads.** Parent and child run side by side from `fork()` on and meet only in one
  flag; contexts, handles and thread addresses are used again. Right means: a child has
  exactly its parent's descriptors, nobody runs on a thread that is freed or another's.
* **Control messages.** A tool that gives up leaves its message with a process that will
  still answer. Right means: a message is in one place, answers are not mixed up, and
  the pool gets everything back.
* **Coexistence.** One call is two calls on two stacks, either of which may fail, and
  descriptor numbers of both are used again at once. Right means: the two halves live and
  die together, and one event loop hears both.

`PROJECT.json` lists the hazards one by one, at the line where each bites, with the
properties that would catch it.

## Modules and how they follow the code

Each `MC` module only defines values for the constants of the module it extends.
Definitions named `...Late`, `...Unchecked`, `...IfMany` and so on, introduced by the words
"Variant with a fault" or "fault variant", are plausible mistakes. They are not used by any specification;
each property was seen to fail when one of them replaces the definition that follows it.

### SemIpc: one context in the default build

Threads (`Thread`) share a context, as the threads of a process do without
`FF_THREAD_SOCKET`. `SigThread` are the threads on which the signal handler may run.
A call is ordinary (`SYSCALL`: socket, read, close, ...; they differ only in what fstack
executes, not in how they wait), an `epoll_wait` or a `kevent`, with a kind of timeout,
room for events or not, changes or not.

| Code | Action |
|---|---|
| `ACQUIRE_ZONE_LOCK`: unlocked read, lock, second test | `SeeStatus`, `TakeLock` (with `Acquire`, `StatusIs`) |
| `SYSCALL` between the two waits, and after | `SubmitCall`, `Collect` |
| `ff_hook_epoll_wait`/`kevent`: publish, sleep, end | `SubmitPoll`, `SemTaken` or `SemFailed`, `FinishPoll` |
| `ff_handle_each_context` sees REQ, try-lock, handler | `FstackSee`, `FstackTry`, `FstackHandle` |
| `alarm_event_sem` | `Signal`, `AlarmLock`, `AlarmPost` |
| a socket becomes ready | `Event` |

A critical section is two steps, so a try-lock can fail and what was read without the
lock can be stale. `FinishPoll` has the retry of `epoll_wait` (`timeout <= 0` and nothing
returned) in it. `result` carries, besides the value, the request it was computed for;
`runs`, `applied` and `lost` are history variables that no guard reads.

### ContextService: what a context promises

Ask, answer, take or withdraw, by one owner at a time; a patient request cannot be
withdrawn. `SemIpc!Service` is the refinement mapping: the status word is the phase.

### SoZone: the zone

Process slots attach (`AttachLock`, `Attach`, `AttachFails`), fork (`ForkLock`, `Fork`,
`ForkDone`, `ForkFails`), exit (`Exit`, `DetachZoneLock`, `DetachScLock`, `Detach`) or are
killed (`Kill`). fstack scans: `ScanLock`, `ScanPass`, `ScanEnd`, the last with the window
in which the zone lock is free. The fork is two steps because the child runs before the
parent counts its reference. How long fstack's drain window is stays open: `ScanEnd` may go on
or leave at any pass.

### RingIpc: contexts of one instance in the ring build

Every store outside a lock is a step: `FillOps`, `FillArgs`, `Clear`, and the three steps of a
single-producer enqueue, `EnqueueHead`, `EnqueueSlot`, `EnqueueTail`, which are those of
`__rte_ring_move_prod_head` and `__rte_ring_do_enqueue_elem`. The thread waits (`Completed`,
`TimedOut`); fstack takes a burst, reads ops and args, runs the handler and sets
`completion` (`Dequeue`, `Begin`, `Finish`, `Respond`). `Alarm` is `ff_ring_alarm_wakeup`.
`ObjsMax` is the size of the table `objs[]`. A burst that is longer is written behind it, which
is undefined: `Dequeue` lets fstack go on with the entries as they are or stop there for ever
(`fpc = "overrun"`). What else the overwritten stack might do is not modelled; `NoRequestLost` and
`CallsReturn` make no claim about a fstack that has stopped.

### PacketPath: the packet path

One polling process per queue; process 0 is the primary, which also serves KNI. A packet is
a chain of mbufs (`next` of `struct rte_mbuf`) plus the number of the frame it carries; `Freed`
returns the whole chain, as `rte_pktmbuf_free` does. `main_loop` is `Drain` or
`NoDrain`, then for the primary `KniTx` and `KniRx`, then `RingBurst`, `RxBurst` and
`UserDone`, with `Stop` at its top; `process_packets` handles the packets of a burst one by
one: the dispatcher's verdict (`Respond`, `Refuse`, `Forward`, or `Keep`), the filter and
`knictl` (`Keep`, `ToKernel`), the broadcast of ARP and NDP (`CloneTo`, `CloneToKernel`), and
`ff_veth_input` (`Input`, `InputDrops`, `InputPartial`). The stack sends and frees at any time
while it runs (`StackSend`, `StackFree`). What the dispatcher, the filter, the checksum flags
and the rate limits decide is left open, so each outcome happens in each state.
`pool` counts how often an mbuf is on the free list, so a double free is visible.

### ForkThreads: processes and their threads in fstack

The build `FF_USE_THREAD_STRUCT_HANDLE`, in which a process has a thread and a descriptor
table of its own in fstack. A request is pending until fstack has served it (how a context
is asked and answered is SemIpc's subject); any free context may be attached (which one is
SoZone's).

| Code | Action |
|---|---|
| `ff_adapter_init` from `ff_attach_so_context` on | `Start`, `Started` |
| `socket`, `close` through `SYSCALL` | `Call`, `Return` |
| `ff_hook_fork` in the parent | `ForkLock`, `Fork` or `ForkFails`, `ParentCounts`, `ParentDone` |
| `ff_hook_fork` in the child | `ChildAttach` or `ChildFails`, `ChildDup` |
| `ff_adapter_exit` | `Exit`, `Detach` |
| `ff_sys_register_thread`, `ff_sys_fork`, `ff_sys_socket`, `ff_sys_close`, `ff_sys_exit_thread` | `ServeRegister`, `ServeFork`, `ServeOpen`, `ServeClose`, `ServeExit` |
| the return from the middle of these functions when `share_mem_alloc` has nothing (`DEFINE_REQ_ARGS`) | `StartNoMem`, `ChildNoMem`, `ExitNoMem` |
| SIGKILL | `Kill`, at any point, also with `sc->lock` held |

`Attached` shows what attaching does not reset (the handle, `forking`), `NewThread` lets the
allocation fail and addresses come back. `inherits` is a history variable: the parent's
descriptors at the moment of `fork()`. A request that finds no memory is never made: the process goes
on with the handle its context was found with (`tainted`), or its thread stays in fstack
when its context is given up (`lost`). Both are history and appear only in the properties. An ordinary call
without memory returns -1 and changes nothing.

### ControlMsg: tools and processes

One tool at a time, as `tools/README.md:31` demands, and any number of F-Stack processes.
A request is `Alloc`, `Fill`, `Send`, then `Recv` with `Discard` until the message is its own,
`Finish`; or it ends in `AllocFails`, `FillFails`, `SendFails`, `TimeOut`, or `Kill`. A
process takes the ring's messages (`Dequeue`) and executes and answers them one by one
(`Handle`). The wait of `MAX_ATTEMPTS_NUM` milliseconds is a nondeterministic `TimeOut` while
the reply ring is empty. `SendFails` has both of `ff_ipc_send`'s failures, the full ring and
the ring that does not exist. Of a message the module keeps its type, whose request and whose
answer it carries, and whether its buffer is its own (`extra`) and where it was (`moved`).
`pool` counts, so that a message freed twice is visible.

### Coexist: two stacks behind one descriptor

The native API with `kernel_coexist` on; an action is one call of a single-threaded
application, plus `Arrive` for the network. `ff` and `hf` map descriptors to open files of
F-Stack and of the host; the two halves of a dual-stack socket, and a kqueue with its host
epoll, get the same file identity, so that `PairsMatch` can tell whether the map still joins
what belongs together. Descriptors are given out lowest first, so numbers come back at once.
`Tables` is what both kernels do when descriptors go.

Host descriptors are numbered from 0. Number 0 is the process's standard input until `CloseStdin`; then
`ff_socket` may get it and store it, or `ff_epoll_host_ep` may get it and drop it, and to every
reader of the map it means none. The application also passes numbers it has closed
(`"stale"` in `Calls`): the host halves of `ff_epoll_ctl`, `ff_kevent`, `ff_connect` and `ff_fcntl` are done before
anybody looks at the F-Stack descriptor, and `WithHostEp` pairs a host epoll with whatever
number it is given. `Found` is what the kqueue half looks at; when it fails, `ff_kevent` returns the
host's events. `room` is the size of the application's event array, chosen once.
One thing is left out: a kqueue is never registered with a kqueue.

`told`, `asked` and `spoilt` are history: what the application was told, the filters it asked for last, and
the host descriptors that the code leaves where nothing closes them: those of a
failed close, a `dup2` or an `F_DUPFD`, number 0, and the host epoll of a number that is no kqueue.

## Runs

| Run | Configuration | Checks | Shows |
|---|---|---|---|
| sem_shared | `SemIpc.cfg` | TypeOK, OneOwner, OwnAnswer, ExactlyOnce, ChangesOnce, NoLostWakeup, TokensBounded, Service | two threads on one context that spin, retry, or register a change and wait, with sleeps that are interrupted; a token of the previous user, an alarm |
| sem_progress | `SemIpcLive.cfg` | CallsReturn | ordinary calls and polls with a deadline return |
| zone | `SoZone.cfg` | FreeIsExact, NotFreedWhileHeld, RefsMatch, Reclaimed, ScanReachesAll | three processes, two contexts, one kill |
| zone_progress | `SoZoneLive.cfg` | LockOpens | the zone lock is free again and again although fstack may drain for ever, because of the window it opens when the zone is empty |
| ring | `RingIpc.cfg` | NoRequestLost, WithinCapacity, OwnAnswer, AtMostOnce, CallsReturn | one producer, a ring of three entries and a table of two, every kind of call, up to three submissions, an alarm |
| packets | `PacketPath.cfg` | Conserved, DeliveredOnce, TablesHold | two processes, one-entry rings, three mbufs, two frames, a stop |
| packets_progress | `PacketPathLive.cfg` | RingServed, BatchLeaves | rings are served and batches leave |
| coexist | `Coexist.cfg` | NoLeak, PairsMatch, NoGhostEvent, ListensInBoth, DualWatched, FstackEventsReported | every sequence of five calls, three descriptors a side with number 0 among them, numbers that are closed, one host epoll, arrays of one and of two events |
| control | `ControlMsg.cfg` | OneHolder, Accounted, OwnAnswer, CaughtUp, OwnBuffer, ToolReturns | four requests of two types, rings of two, three messages, one killed tool |
| fork | `ForkThreads.cfg` | ChildInherits, OwnThread, NoThreadLeak | three processes and thread addresses on two contexts, one kill, two requests without memory |

Every module has a type invariant, `TypeOK`. The runs list it for SemIpc;
in the others it says nothing about the code that the properties do not, and it holds on the same
instances (add it to `INVARIANTS`). Where there are proofs it is a theorem, `TypeCorrect`.

Two more runs show a disagreement each; see below. `SemIpcOne.cfg` is kept beside `SemIpc.cfg`:
one thread makes every kind of call in every order of three with two signals, and passes.

`Reclaimed` says that a context in use has a user or lost one to a kill: a killed process does
leak its context, the code has no recovery, and the property says that nothing else does.
`ScanReachesAll` says that a pass looks at every attached context unless the zone was empty
when the pass began.

`OwnAnswer` and `AtMostOnce` of RingIpc are about calls that start with a clean context (`clean`:
nothing of the thread is on the ring or with fstack) and are not cut short by a deadline or an
alarm. Without that condition they are false, and three of the counterexamples below say how.
Its `CallsReturn` is about calls that are submitted once; an `epoll_wait` with timeout 0 or -1
submits again until there is an event.

`CaughtUp` is why a tool that waits on a ring full of other tools' answers gets its own in the
end: a process answers in order, so when a tool has its answer nothing is left before it.
`Accounted` allows one lost message per killed tool, and nothing else loses one.

`LockOpens` says no more than that the lock becomes free. Who takes it then is not said: the lock is a
test-and-set, and a process that spins may lose every time. It excepts the two cases in which the
code does keep the lock: a drain window with contexts to serve, in which no window is opened
(`tmp` is not 0), and processes that fork for ever, whose `sc->lock` a detaching holder of the zone lock waits for.

`NoLeak`, `PairsMatch` and `NoGhostEvent` except what is in `spoilt`; that the exceptions are needed
is shown by `CoexistLinger.cfg` (a failed close), `CoexistZero.cfg` (number 0) and `CoexistStale.cfg` (a number that is
no kqueue). `DualWatched` is what remains of a registration when `ff_kevent` returns early
because the host's events fill the array: the kqueue never hears of it, the host epoll
does. For a socket without a host half nothing remains (`CoexistChanges.cfg`). `FstackEventsReported` holds until
more is ready in both stacks than the array takes (`Crowded`); the run has arrays of one event, which the host fills alone, and
from then on the F-Stack half may starve (`CoexistStarved.cfg`).

`OwnThread`, `NoThreadLeak` and `ChildInherits` except the threads in `tainted` and `lost`; `ForkThreadsNoMem.cfg` shows
two processes on one thread without the exception.

`ChildInherits` is a safety property and holds with the race of run fork_hang: a parent
that spins for ever does not touch its descriptors either.

## Bounds

* Calls per thread (`MaxCalls`): two are needed for one call to meet what an earlier one left
  behind; `SemIpcOne.cfg` has three, so that the middle one can time out. The proofs have no
  such bound.
* Threads: two share a context. A third adds no new kind of step; the theorems cover any number.
* `MaxReady`, `MaxAlarms`, `MaxStale`: one pending event, up to two signals, one stale token.
* Kinds of call: `SemIpc.cfg` has an ordinary call, an epoll_wait that retries and a kevent with a
  change; any sleep may be interrupted, which withdraws a request exactly as a deadline does.
  Deadlines, valid or not, are in `SemIpcLive.cfg`; the theorems cover every kind.
* Zone: three processes on two contexts are enough for a full zone, for a parent, a child and
  a stranger, and for a search that wraps around. `Count` is a power of two, as
  `ff_set_max_so_context` makes it.
* Ring: `RingSize` 4 holds three entries. One thread fills it by submitting a poll three times
  (`MaxTries`), overruns a table of two (`ObjsMax`; the code has 63 entries and a table of 32), and leaves
  entries behind for its second call. The other configurations have a table that is never overrun,
  so that what they show does not come from that.
* Packets: rings of one entry are full at once; three mbufs run out in the middle of a
  broadcast; `Burst` 2 lets a batch fill. Chains of two mbufs are in `PacketPathLive.cfg` and
  `PacketPathChain.cfg`. In `PacketPath.cfg` packets have one segment, because
  with two `Conserved` is false (see `packets_chain`).
* Coexist: three descriptors a side hold a kqueue, a listener and a connection, and fill up; five
  calls are enough to register a dual-stack socket, close it and use its number again, and for the
  host to fill an array of one event; an array of two takes one event of each stack. Reading,
  waiting and arrivals are not bounded.
* ControlMsg: with rings of two entries three stale requests fill a reply ring; with four requests
  and three messages the pool runs dry and a message is used again. `ControlMsgDry.cfg` scales
  the real sizes down (a pool of 64 per process, eight reply rings of 31) to four messages and
  four rings of one.
* ForkThreads: three processes are a parent, a child and a stranger (or grandchild); two
  contexts are used again and run out (a child then finds none), and three addresses let a
  freed one be used again while two others are held. Two requests without memory let a stale handle
  meet a thread that was left behind. One descriptor and two calls tell a copied table from another.
* Symmetry is used for threads, processes and mbufs in runs that check invariants, and
  together with a refinement only where that is a safety formula; never in liveness runs.

## Fairness

* fstack and each polling process have a core of their own and never block: weak fairness of
  their steps.
* An application thread inside a call goes on: weak fairness of its own steps, and a
  deadline passes.
* SemIpc: a thread that spins for `sc->lock`, or for a status, that keeps becoming available gets it:
  strong fairness. The spinlock does not promise that; its holders are a few instructions long
  and fstack only tries it, once per pass.
* SoZone: weak fairness only. The zone lock is held for a whole drain window and taken again at once, the
  code itself fears that applications are "starved to death" on it (`ff_socket_ops.c:724`), and
  nothing gives a spinning process a turn. So no run claims that an attach or a detach finishes, only
  that the lock opens (`LockOpens`).
* `drain_tsc` passes again and again: strong fairness of `Drain`.
* Coexist: the application waits on its kqueues again and again (weak fairness of `Wait`); that is
  what an event loop does.
* ControlMsg: a tool that runs is scheduled (weak fairness of its steps, of which `TimeOut` is one
  because the wait is limited). Nothing is assumed of the processes: they may never answer.
* ForkThreads (only `ForkThreadsHang.cfg`): every process and fstack are scheduled.
* Nothing makes an application call, fork or exit, a signal, an event or a frame happen.

Where a poll without a deadline is among the calls, `CallsReturn` is not claimed: it
waits for an event that may never come, and so do the threads that share its context.

## Proofs

Seven modules hold theorems, each about the module it extends and for every value of its
constants. None of the properties is inductive: each proof has an inductive invariant `IInv` with what
the code relies on without saying it, one lemma `<Action>Keeps` per action (or per family
of actions that do the same to `IInv`), a theorem `Inductive` that puts them together, and the
properties as its consequences; in PacketPathProof there are three such rounds, one per property. Every `IInv`
was an invariant of the module's runs before it was proved.

The assumptions on the constants are those of the modules themselves. Among them the sets of processes
(SoZone, ForkThreads), of messages (ControlMsg) and of mbufs (PacketPath) are finite, for the sake of what is counted.
Some theorems have a hypothesis, because the code does not give the properties
without it, and a configuration shows that: `SoleProducer` in RingIpcProof (`RingIpcShared.cfg`),
a large enough table in its `TableFits` (`RingIpcOverrun.cfg`),
`NoEarlyFree` in ControlMsgProof (`ControlMsgKni.cfg`) and `~Broken` in one of PacketPathProof (`PacketPathChain.cfg`).

### SemIpcProof

| Theorem | Property |
|---|---|
| TypeCorrect | TypeOK |
| SingleOwner | OneOwner |
| AnswersAreOwn | OwnAnswer |
| CallsRunOnce | ExactlyOnce |
| ChangesApplyOnce | ChangesOnce |
| WakeupsKept | NoLostWakeup |
| TokensStayBounded | TokensBounded |
| Implements | Service (refinement of ContextService) |

* `LockInv`: who is inside the critical section. `locked` is a bare word, so that at most
  one of the threads, handlers and fstack is inside has to be carried along.
* `StatusInv` and `OwnerInv`: a thread that found IDLE under the lock still finds it;
  while the status is not IDLE `args` names a thread that waits for it, and `ops` is its call.
  From this follows that the reset to IDLE at the end of a poll, which the code does without
  looking, can only discard that thread's own request.
* `ResultInv`: the result in the context belongs to the request in the context, or is
  the 0 the poll itself put there. This makes a stale token harmless.
* `RunsInv`, `ChangesInv`: executions counted along the life of a request.
* `TokenInv`: tokens, counted together with the handlers that may still post one. A poll past
  its sleep has either taken a token or met an empty semaphore, hence `Slack`.

For `Implements` each action is shown to map to one abstract step or to a stutter, given `IInv`.

### SoZoneProof

| Theorem | Property |
|---|---|
| FreeStaysExact | FreeIsExact |
| NeverFreedWhileHeld | NotFreedWhileHeld |
| RefsStayExact | RefsMatch |
| AlwaysReclaimed | Reclaimed |
| ScanAlwaysReachesAll | ScanReachesAll |

The two locks are what the counters need: between `ForkLock` and `ForkDone` a child exists that is not
counted yet, and `sc->lock` keeps every `Detach` of that context away until it is, so that a refcount of
1 means that nobody else is left. `IInv` says who holds which lock (`ZoneLockInv`, `ScLockInv`), which processes have a context
(`HeldInv`), that a context in use has a reference (`RefInv`) and that the scan's count is that of the
attached contexts or began as 0 (`CountInv`). The zone's size is any of those `ff_set_max_so_context` makes.

### RingIpcProof

| Theorem (under `SoleProducer`) | Property |
|---|---|
| RequestsKept | NoRequestLost |
| CapacityKept | WithinCapacity |
| AnswersAreOwn | OwnAnswer |
| CallsRunAtMostOnce | AtMostOnce |
| TableFits (and `RingSize - 1 <= ObjsMax`) | BurstFits |

`SoleProducer` says that there is at most one thread on the ring, which is what
`03-interface-spec.md` (D-004) demands. `IndexInv` relates the three indices and the step the
producer is at; `WaitInv` says where the entry of a waiting thread is; `FillInv`, `CleanInv` and `RunsInv`
follow one call from `FillOps` to its answer when nothing older is on the ring. Calls, retries,
alarms, the size of the ring (a power of two, at most 64) and of the table are arbitrary. With 64 and 32, the
code's sizes, `RequestsKept` holds up to the moment the table is overrun; `TableFits` says which
size of the table would make sure it never is.

### ForkThreadsProof

| Theorem | Property |
|---|---|
| ThreadsAreOwn | OwnThread |
| ThreadsAreKept | NoThreadLeak |
| ChildrenInherit | ChildInherits |
| TypeCorrect | TypeOK |

A context that is used again still has the handle of its previous user (`ForkThreadsStale.cfg`), and
addresses of threads come back, so that equal handles prove nothing. `IInv` therefore speaks of
claims: a context claims a thread when its handle is one it was given and is still to be used, or
when an answered fork has brought one; a handle a process was left with for want of memory is no claim. A claimed thread exists and is claimed once
(`ClaimInv`); every thread that exists is held so by a context in use or is `lost` (`LeakInv`). `ParentInv` is the
heart of `ChildInherits`: until the child has its copy the parent is about to wait, waits,
or was killed,
and nobody else asks anything on its context; nor, unless the thread is tainted, on its thread.

### ControlMsgProof

| Theorem (under `NoEarlyFree`) | Property |
|---|---|
| MessagesHaveOneHolder | OneHolder |
| MessagesAreAccounted | Accounted |
| AnswersAreOwn | OwnAnswer |
| RingsAreCleaned | CaughtUp |
| BuffersAreOwn | OwnBuffer |
| TypeCorrect | TypeOK |

`NoEarlyFree` excludes `knictl`, the one tool that frees a message it has only given up. The pool, the
tool's hand and each ring are places; every step moves messages between two of them, so that
places stay disjoint (`Disjoint`, lemma `Move`) and hold each message once. Only a kill empties
the hand into nothing: `LostInv` bounds the messages in no place by the kills. `TrackInv` is the order argument
behind `CaughtUp`: there is one tool at a time, so the message it waits for is the last one sent to its
process, stays last on every ring on its way, and when it comes back there is nothing behind it.

### CoexistProof

| Theorem | Property |
|---|---|
| PairsAlwaysMatch | PairsMatch |
| NothingLeaks | NoLeak |
| NoGhosts | NoGhostEvent |
| BothListen | ListensInBoth |
| WishesAreWatched | DualWatched |
| TypesHold | TypeOK |

`HostInv` says that a host descriptor is the application's own, attached to one F-Stack descriptor or left
behind, so that a close takes exactly what belongs to it. `DualFile` says that the file of a host half is
open in no other descriptor but those left behind; a registration made for it therefore goes with
it (`RegInv`), and the host epoll of a kqueue never looks like a half (`KqInv`). `ListensInBoth` needs in
addition that files and descriptors are as new when they are given out again (`FreshInv`, `ToldInv`). The
actions fall into three families: those that only open (lemma `GrowKeeps`), those that close or
redirect (`ShrinkKeeps`) and those that change socket states (`StateStep`). That there is a file
left whenever a descriptor is (`IdLeft`) is a pigeonhole argument; that the lowest free number is
free (`LeastIn`) is well-foundedness of finite sets.

`WishesAreWatched` has an invariant of its own on top (`WatchInv`): what was asked of a descriptor
that is closed, or through one, is forgotten, and what was asked of a dual-stack descriptor is on the kqueue or
in a registration of its host half with the host epoll of that kqueue. A step keeps it when it takes
nothing away from either (`Still`); a close takes only what belongs to the descriptor that is closed (`TablesWatched`),
a call about one descriptor leaves the registrations of the others (`OnlyOfStays`), and
`ff_kevent` either reaches the kqueue or had events from a host epoll, which then has the change too.

### PacketPathProof

| Theorem | Property |
|---|---|
| TypesHold | TypeOK |
| TablesAlwaysHold | TablesHold |
| MbufsConserved (while `~Broken`) | Conserved |
| SingleSegment (`MaxSegs = 1`) | Conserved |
| FramesDeliveredOnce | DeliveredOnce |

The properties count packets over all the places where they can be, so the module starts with what
counting needs: `N` packets of a kind in a sequence, `M` in one sequence per queue, `K` and `S` in sets, and how
each changes when a packet is appended, taken from the front or moved.

* `IInv` adds to types and `TablesHold` only that a process is inside `process_packets` exactly when
  its burst is not empty (`BurstInv`).
* Conserved is "`Own(m)` is 1", `Own` being the sum of the mbuf's places: on the way in, out, or with a stack.
  One lemma `<Action>Owns` per action shows that what leaves one place appears in another.
  That an mbuf is in the pool only once is needed by the actions that allocate, which is why the
  lemmas start from `Own(m) = 1` and not from any sum. The exception is `InputPartial`, the failure of
  `ff_veth_input` in the middle of a chain, named by `Broken`: `PacketPathChain.cfg` shows that
  it frees an mbuf twice. With one mbuf per frame it cannot happen (`SingleSegment`), which
  is the setting of `PacketPath.cfg`.
* DeliveredOnce cannot be had by counting packets: a broadcast multiplies them. `Weight(f, d)` counts only
  the packets from which frame `f` can still reach the destination `d`, plus the deliveries to `d`. A clone
  in a ring can only reach the process that reads the ring (and the kernel, if that is the primary); the
  packet being broadcast can reach the queues its loop has not come to. One lemma `<Action>Weight` per
  action shows that no step makes the weight larger, except the arrival of the frame, before which it is 0.
  This needs `Broadcast`: what is in the broadcast loop is ARP or NDP, and if it came through a
  ring its loop is already over. `OnlyOne` adds that a frame which is not broadcast has one destination.

### Only model-checked

* Liveness (CallsReturn, LockOpens, RingServed, BatchLeaves, ToolReturns, FstackEventsReported):
  fairness is out of the prover's reach.

## Where the code and its documents disagree

Two runs end in a counterexample to a sentence of the repository, which `PROJECT.json` quotes:

| Run | Property | What happens |
|---|---|---|
| packets_chain | NoDoubleFree | a chain whose second BSD mbuf cannot be allocated is freed twice, its tail never |
| fork_hang | ForkReturns | the child clears `forking` before the parent sets it; the parent spins for ever with `sc->lock` held |

The following configurations, kept for whoever changes this code, give a counterexample too:

| Configuration | Property | What happens |
|---|---|---|
| `SemIpcChanges.cfg` | ChangesReachKqueue | a kevent times out before fstack has seen it; its changes are dropped and 0 is returned (FT-031: "Returns 0" on registration) |
| `SemIpcEvents.cfg` | EventsDelivered | a deadline passes just after fstack answered; the edge-triggered events it took are dropped (FT-027) |
| `SemIpcAlarm.cfg` | AlarmEndsKevent | a signal before `need_alarm_sem` is set is lost (FT-040) |
| `SemIpcSignal.cfg` | HandlerReturns | a signal on the thread that holds `sc->lock` spins for ever (FT-040) |
| `RingIpcStale.cfg` | NoStaleAnswer | after a timed-out poll the next call returns the poll's answer (`02-architecture-design-spec.md:413`) |
| `RingIpcTwice.cfg` | NoSecondRun | after a timed-out poll the next call is executed twice (same) |
| `SemIpcZero.cfg` | EpollZeroReturns | `epoll_wait(..., 0)` without an event does not return (FT-024: "Returns 0 immediately") |
| `RingIpcTorn.cfg` | NoTornRequest | after a timed-out poll fstack reads a request while it is being written (`ff_socket_ops.c:516`: "No lock needed") |
| `RingIpcShared.cfg` | NoRequestLost | two threads overwrite each other's slot of the single-producer ring (FT-042, FT-048) |
| `RingIpcKevent.cfg` | KeventWaits | `kevent` with a NULL timeout returns 0 at once (FT-032) |
| `CoexistChanges.cfg` | ChangesReachKqueue | host events fill `eventlist`; `ff_kevent` returns before the changelist has reached the kqueue (`ff_syscall_wrapper.c:2114`) |
| `RingIpcOverrun.cfg` | BurstFits | an `epoll_wait` with timeout 0 that is submitted again and again leaves more entries on the ring than `objs[]` has room for; fstack writes behind it (`ff_socket_ops.c:657`) |
| `CoexistZero.cfg` | ReleasedTogether | a process without standard input gets host descriptor 0 for a dual-stack socket; it is stored and never closed (`ff_syscall_wrapper.c:950`, 1155) |
| `CoexistStale.cfg` | JoinsExact | a call about a closed epoll descriptor makes a host epoll for its number, which the next kqueue of that number is joined with (`ff_epoll.c:117`) |
| `CoexistStarved.cfg` | NeverStarved | host events fill the array at every wait; the F-Stack sockets are never reported (`ff_epoll.c:274`) |
| `CoexistLinger.cfg` | ReleasedTogether | a close that reports an error leaves the host socket open with no descriptor to close it by (`ff_syscall_wrapper.c:1148`) |
| `CoexistFilters.cfg` | FiltersMirrored | adding EVFILT_WRITE replaces EVFILT_READ on the host epoll (`ff_host_interface.c:434`) |
| `ControlMsgKni.cfg` | OneHolder | `knictl` frees a message that is still on a ring; it can be in the pool twice and filled while it is executed (`knictl.c:74`) |
| `ControlMsgMoved.cfg` | BufferAtOrigin | `route` advances `buf_addr` and nobody puts it back (`rtioctl.c:103`) |
| `ControlMsgDry.cfg` | PoolRecovers | answers nobody came for, of several types, empty the pool; a tool without a message cannot take them off the rings |
| `ForkThreadsStale.cfg` | HandleLive | the first request on a context that is used again runs on the freed thread of its previous user (`ff_so_zone.c:205`) |
| `ForkThreadsNoMem.cfg` | AlwaysApart | a process without memory for its register request runs on the thread handle of its context's previous user, which is another's by then (`ff_hook_syscall.c:65`, 3356) |
| `ForkThreadsLeak.cfg` | ContextsReclaimed | the parent counts a reference for a child that has its own context, which is then never free again (`ff_hook_syscall.c:2482`) |

FT numbers are those of `docs/ld_preload_ring_spec/04-test-spec.md`. Run one with
`tlc -config SemIpcAlarm.cfg MCSemIpc` (a configuration goes with the MC module its name begins
with).

A further observation without a run: a poll whose deadline is exactly 10^9 ns past the second (the
test is `>` where `>=` is needed) fails with EINVAL and leaves one token each time, which is
why `TokensBounded` excludes such deadlines.

## What is not modelled

* Data: addresses, buffers, message headers, packet contents; what the FreeBSD stack does with
  a call. fstack's handler returns 0 or more for a poll and anything for a call.
* Builds: `FF_PRELOAD_POLLING_MODE`, `FF_KERNEL_EVENT`, `FF_MULTI_SC`, `FF_USE_PAGE_ARRAY`.
* The numbering of processes in `ff_adapter_init`. Three of its early returns
  (`ff_hook_syscall.c` 3230, 3321, 3335) leave `worker_id_lock` locked or unposted, after which no
  later process or thread gets through: a reading of the code, with nothing left to check.
* The bind table of `ff_socket_ops.c` and the conversion of descriptors and arguments in the hooks:
  sequential data handling inside one request.
* Several tools at a time: the rings are single-producer and `tools/README.md` forbids it.
* The content of fstack's stack after a burst has overrun `objs[]`: it goes on or it stops.
* In Coexist, a kqueue that is registered with a kqueue.
* What `epoll` flags other than IN and OUT become on a kqueue (EV_CLEAR, EV_ONESHOT).
* In SoZone, a process killed while it holds a spinlock: there is no recovery to check. In
  ForkThreads such kills happen, and its safety properties survive them.
* Memory ordering: stores are seen in program order. The code's atomics (`completion`,
  the ring's indices) give that; `status` is written and tested again under a lock.
* Components with status `not_modelled` in `PROJECT.json`: configuration, wrappers, FreeBSD glue,
  the micro-thread adapter, vendored code, scripts.

## Plan

1. *Done:* the modules SemIpc, ContextService, SoZone, RingIpc, PacketPath, ForkThreads, ControlMsg and
   Coexist, and the proofs for all of them.
2. *Done:* every invariant that a passing run checks is the statement of a theorem.
3. Further modelling, if the code changes: the KNI rate limit as counters in PacketPath; a
   composition of SoZone and SemIpc, so that a context changes hands with its semaphore as it was
   left (SemIpc starts from any such semaphore value already, `MaxStale`).

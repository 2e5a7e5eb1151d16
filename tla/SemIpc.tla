------------------------------- MODULE SemIpc -------------------------------
(***************************************************************************)
(* One socket-operation context (struct ff_so_context) of the LD_PRELOAD   *)
(* adapter in its default build (semaphore mode): the application threads  *)
(* that share the context, the fstack polling loop that serves it and the  *)
(* signal handler that calls alarm_event_sem().                            *)
(*                                                                         *)
(* A context carries one request at a time.  An application thread spins   *)
(* for IDLE, fills ops/args under sc->lock and sets REQ; fstack executes   *)
(* the request under the same lock and sets REP; the thread reads          *)
(* sc->result and sets IDLE.  epoll_wait and kevent do not spin for REP,   *)
(* they sleep on sc->wait_sem, with or without a deadline.                 *)
(*                                                                         *)
(* The lock is modelled as the code has it, a word with no owner.  Every   *)
(* critical section is two steps, taking the lock and running the body, so *)
(* that trylock can fail and the unlocked ("dirty") reads of sc->status    *)
(* can be stale by the time the lock is taken.                             *)
(***************************************************************************)
EXTENDS Integers

CONSTANTS
  Thread,     (* application threads that share the context              *)
  SigThread,  (* threads of the process (callers or not) on which the    *)
              (* signal handler that calls alarm_event_sem() may run     *)
  Kinds,      (* the calls the threads make, a subset of Kind            *)
  MaxCalls,   (* bound: calls per thread                                 *)
  MaxReady,   (* bound: undelivered socket events                        *)
  MaxAlarms,  (* bound: deliveries of the signal                         *)
  MaxStale    (* bound: tokens the context's previous user left in       *)
              (* sc->wait_sem, which ff_attach_so_context does not reset *)

(* A call is an ordinary socket call ("call"), an epoll_wait or a kevent.  *)
(* timeout: "none" is a negative epoll timeout or a NULL kevent timeout;   *)
(* "zero" is epoll_wait's timeout 0; "pos" is a relative timeout; "bad" is *)
(* one whose absolute deadline is not a valid timespec.  nev is            *)
(* maxevents/nevents and nch is nchanges, 0 or more.                       *)
Kind ==
  [op: {"call"}, timeout: {"none"}, nev: {0}, nch: {0}] \cup
  [op: {"epoll"}, timeout: {"none", "zero", "pos", "bad"}, nev: {1}, nch: {0}] \cup
  [op: {"kevent"}, timeout: {"none", "pos", "bad"}, nev: {0, 1}, nch: {0, 1}]

ASSUME SemIpcAssumption ==
  /\ "NULL" \notin Thread
  /\ Kinds \subseteq Kind
  /\ MaxCalls \in Nat
  /\ MaxReady \in Nat
  /\ MaxAlarms \in Nat
  /\ MaxStale \in Nat

VARIABLES
  status,         (* sc->status                                          *)
  locked,         (* sc->lock                                            *)
  wait_sem,       (* value of sc->wait_sem                               *)
  ops,            (* sc->ops, with the arguments fstack inspects         *)
  args,           (* whose argument block sc->args points to             *)
  result,         (* sc->result: the value, and the request it is for    *)
  need_alarm_sem, (* the adapter's static of that name                   *)
  pc,             (* where each application thread is                    *)
  kind,           (* the call each thread is making                      *)
  call,           (* number of calls each thread has started             *)
  nchanges,       (* args->nchanges in each thread's argument block      *)
  waited,         (* what sem_wait/sem_timedwait returned to each thread *)
  ret,            (* what each thread's last call returned               *)
  sig,            (* the signal handler's frame on each SigThread        *)
  alarms,         (* signals delivered so far                            *)
  fpc,            (* where the fstack loop is                            *)
  ready,          (* socket events not yet retrieved                     *)
  runs,           (* history: executions of its current call (2: more)   *)
  applied,        (* history: times its changelist was applied           *)
  lost            (* history: an event was retrieved and not delivered   *)

scVars   == <<status, locked, wait_sem, ops, args, result>>
appVars  == <<need_alarm_sem, pc, kind, call, nchanges, waited, ret>>
sigVars  == <<sig, alarms>>
histVars == <<runs, applied, lost>>
vars     == <<scVars, appVars, sigVars, fpc, ready, histVars>>

Request   == Thread \X Nat
NoRequest == <<>>
NoResult  == [by |-> NoRequest, val |-> 0]
(* what the context's previous user, another process, left in sc->result *)
OldRequest == <<"NULL", 0>>
OldResult  == [by |-> OldRequest, val |-> 1]
Result     == [by: Request \cup {NoRequest, OldRequest}, val: Int]
NoKind    == [op |-> "call", timeout |-> "none", nev |-> 0, nch |-> 0]

IsPoll(k)    == k.op \in {"epoll", "kevent"}

(* timeout <= 0 in epoll_wait, timeout == NULL in kevent *)
Unbounded(k) == IsPoll(k) /\ k.timeout \in {"none", "zero"}

-----------------------------------------------------------------------------
Init ==
  /\ status = "IDLE" /\ locked = FALSE /\ wait_sem \in 0 .. MaxStale
  /\ ops = NoKind /\ args = "NULL" /\ result \in {NoResult, OldResult}
  /\ need_alarm_sem = FALSE
  /\ pc = [t \in Thread |-> "user"]
  /\ kind = [t \in Thread |-> NoKind]
  /\ call = [t \in Thread |-> 0]
  /\ nchanges = [t \in Thread |-> 0]
  /\ waited = [t \in Thread |-> "ok"]
  /\ ret = [t \in Thread |-> NoResult]
  /\ sig = [s \in SigThread |-> "none"] /\ alarms = 0
  /\ fpc = "scan"
  /\ ready = 0
  /\ runs = [t \in Thread |-> 0]
  /\ applied = [t \in Thread |-> 0]
  /\ lost = FALSE

(* A thread makes progress only while no signal handler runs on it. *)
At(t, l) == pc[t] = l /\ (t \in SigThread => sig[t] = "none")

Goto(t, l) == pc' = [pc EXCEPT ![t] = l]

-----------------------------------------------------------------------------
(* Application threads. *)

(* The thread enters a hooked call and fills its own argument block. *)
StartCall(t) ==
  /\ At(t, "user") /\ call[t] < MaxCalls
  /\ \E k \in Kinds :
       /\ kind' = [kind EXCEPT ![t] = k]
       /\ nchanges' = [nchanges EXCEPT ![t] = k.nch]
  /\ call' = [call EXCEPT ![t] = @ + 1]
  /\ runs' = [runs EXCEPT ![t] = 0]
  /\ applied' = [applied EXCEPT ![t] = 0]
  /\ Goto(t, "idleSpin")
  /\ UNCHANGED <<scVars, need_alarm_sem, waited, ret, sigVars, fpc, ready, lost>>

(* ACQUIRE_ZONE_LOCK, the unlocked read: the thread saw the status it      *)
(* waits for and goes for the lock.                                        *)
SeeStatus(t) ==
  /\ \/ At(t, "idleSpin") /\ status = "IDLE" /\ Goto(t, "idleLock")
     \/ At(t, "repSpin")  /\ status = "REP"  /\ Goto(t, "repLock")
  /\ UNCHANGED <<scVars, need_alarm_sem, kind, call, nchanges, waited, ret,
                 sigVars, fpc, ready, histVars>>

(* Variant with a fault: the second look is left out. *)
StatusUnchecked(exp) == TRUE

(* The second look at the status, now under the lock. *)
StatusIs(exp) == status = exp

(* ACQUIRE_ZONE_LOCK, rte_spinlock_lock and the second look: either the    *)
(* thread keeps the lock and goes to the body, or it unlocks and spins.    *)
Acquire(t, exp, spin, body) ==
  IF StatusIs(exp) THEN locked' = TRUE /\ Goto(t, body)
                   ELSE locked' = FALSE /\ Goto(t, spin)

TakeLock(t) ==
  /\ ~locked
  /\ \/ At(t, "idleLock") /\ Acquire(t, "IDLE", "idleSpin", "fill")
     \/ At(t, "repLock")  /\ Acquire(t, "REP", "repSpin", "read")
     \/ At(t, "semLock")  /\ locked' = TRUE /\ Goto(t, "semDone")
  /\ UNCHANGED <<status, wait_sem, ops, args, result, need_alarm_sem, kind, call,
                 nchanges, waited, ret, sigVars, fpc, ready, histVars>>

(* SYSCALL, first half: publish an ordinary request. *)
SubmitCall(t) ==
  /\ At(t, "fill") /\ ~IsPoll(kind[t])
  /\ ops' = kind[t] /\ args' = t
  /\ status' = "REQ" /\ locked' = FALSE
  /\ Goto(t, "repSpin")
  /\ UNCHANGED <<wait_sem, result, need_alarm_sem, kind, call, nchanges, waited,
                 ret, sigVars, fpc, ready, histVars>>

(* Variant with a fault: sc->result is not reset. *)
ResetNothing(old) == old

(* What epoll_wait and kevent leave in sc->result before they wait. *)
ResetResult(old) == NoResult

(* epoll_wait/kevent: publish the request with sc->result reset. *)
SubmitPoll(t) ==
  /\ At(t, "fill") /\ IsPoll(kind[t])
  /\ ops' = kind[t] /\ args' = t
  /\ result' = ResetResult(result)
  /\ need_alarm_sem' = (need_alarm_sem \/ Unbounded(kind[t]))
  /\ status' = "REQ" /\ locked' = FALSE
  /\ Goto(t, "semWait")
  /\ UNCHANGED <<wait_sem, kind, call, nchanges, waited, ret, sigVars, fpc, ready,
                 histVars>>

(* SYSCALL, second half: read the result and free the context. *)
Collect(t) ==
  /\ At(t, "read")
  /\ ret' = [ret EXCEPT ![t] = result]
  /\ status' = "IDLE" /\ locked' = FALSE
  /\ Goto(t, "user")
  /\ UNCHANGED <<wait_sem, ops, args, result, need_alarm_sem, kind, call, nchanges,
                 waited, sigVars, fpc, ready, histVars>>

(* Variant with a fault: the sleep ends without a token. *)
TokenAssumed == TRUE

(* sem_wait/sem_timedwait succeed. *)
TokenThere == wait_sem > 0

(* The sleep of epoll_wait/kevent ends, having taken a token ... *)
SemTaken(t) ==
  /\ At(t, "semWait") /\ TokenThere /\ kind[t].timeout # "bad"
  /\ wait_sem' = wait_sem - 1
  /\ waited' = [waited EXCEPT ![t] = "ok"]
  /\ Goto(t, "semLock")
  /\ UNCHANGED <<status, locked, ops, args, result, need_alarm_sem, kind, call,
                 nchanges, ret, sigVars, fpc, ready, histVars>>

(* ... or without one: the deadline passed; a signal interrupted the sleep *)
(* (EINTR); or the deadline is not a valid timespec (EINVAL).              *)
SemFailed(t) ==
  /\ At(t, "semWait")
  /\ \/ /\ wait_sem = 0 /\ kind[t].timeout = "pos"
        /\ waited' = [waited EXCEPT ![t] = "timedout"]
     \/ /\ wait_sem = 0 /\ kind[t].timeout # "bad"
        /\ waited' = [waited EXCEPT ![t] = "failed"]
     \/ /\ kind[t].timeout = "bad"
        /\ waited' = [waited EXCEPT ![t] = "failed"]
  /\ Goto(t, "semLock")
  /\ UNCHANGED <<scVars, need_alarm_sem, kind, call, nchanges, ret, sigVars, fpc,
                 ready, histVars>>

(* What epoll_wait/kevent takes as its value once it holds the lock again: *)
(* sc->result only if the semaphore was taken.                             *)
PollValue(how) ==
  CASE how = "ok"       -> result
    [] how = "timedout" -> NoResult
    [] OTHER            -> [by |-> NoRequest, val |-> -1]

(* epoll_wait/kevent after the sleep, holding the lock: the context is     *)
(* freed whatever its status is; an epoll_wait with timeout <= 0 and no    *)
(* event starts again.                                                     *)
FinishPoll(t) ==
  LET v     == PollValue(waited[t])
      retry == kind[t].op = "epoll" /\ Unbounded(kind[t]) /\ v.val = 0
  IN /\ At(t, "semDone")
     /\ need_alarm_sem' = (need_alarm_sem /\ ~Unbounded(kind[t]))
     /\ status' = "IDLE" /\ locked' = FALSE
     /\ lost' = (lost \/ (waited[t] # "ok" /\ result.val > 0))
     /\ IF retry
        THEN Goto(t, "idleSpin") /\ ret' = ret
        ELSE Goto(t, "user") /\ ret' = [ret EXCEPT ![t] = v]
     /\ UNCHANGED <<wait_sem, ops, args, result, kind, call, nchanges, waited,
                    sigVars, fpc, ready, runs, applied>>

-----------------------------------------------------------------------------
(* alarm_event_sem(), called from a signal handler on some thread. *)

Signal(t) ==
  /\ sig[t] = "none" /\ alarms < MaxAlarms
  /\ sig' = [sig EXCEPT ![t] = "lock"]
  /\ alarms' = alarms + 1
  /\ UNCHANGED <<scVars, appVars, fpc, ready, histVars>>

AlarmLock(t) ==
  /\ sig[t] = "lock" /\ ~locked
  /\ locked' = TRUE
  /\ sig' = [sig EXCEPT ![t] = "post"]
  /\ UNCHANGED <<status, wait_sem, ops, args, result, appVars, alarms, fpc, ready,
                 histVars>>

AlarmPost(t) ==
  /\ sig[t] = "post"
  /\ wait_sem' = IF need_alarm_sem THEN wait_sem + 1 ELSE wait_sem
  /\ need_alarm_sem' = FALSE
  /\ locked' = FALSE
  /\ sig' = [sig EXCEPT ![t] = "none"]
  /\ UNCHANGED <<status, ops, args, result, pc, kind, call, nchanges, waited, ret,
                 alarms, fpc, ready, histVars>>

-----------------------------------------------------------------------------
(* The fstack loop: ff_handle_each_context, ff_handle_socket_ops. *)

(* The unlocked read in ff_handle_each_context saw a request. *)
FstackSee ==
  /\ fpc = "scan" /\ status = "REQ"
  /\ fpc' = "try"
  /\ UNCHANGED <<scVars, appVars, sigVars, ready, histVars>>

(* rte_spinlock_trylock and the second look: a taken lock or a changed     *)
(* status sends fstack on to the other contexts.                           *)
FstackTry ==
  /\ fpc = "try"
  /\ IF ~locked /\ status = "REQ" THEN fpc' = "run" /\ locked' = TRUE
                                  ELSE fpc' = "scan" /\ locked' = locked
  /\ UNCHANGED <<status, wait_sem, ops, args, result, appVars, sigVars, ready,
                 histVars>>

(* Values the handler can give: an ordinary call returns something, a poll *)
(* returns the events that are ready (and, registered with EV_CLEAR, no    *)
(* longer ready) or fails.                                                 *)
HandlerValues(k) ==
  IF IsPoll(k) THEN {-1, IF k.nev = 0 THEN 0 ELSE ready} ELSE {0}

(* The handler leaves the request in REQ, to run it again on the next pass *)
(* (sem_flag = 0): epoll_wait with timeout 0 or kevent with a NULL timeout *)
(* that found nothing.                                                     *)
KeepWaiting(k, val) ==
  /\ val = 0 /\ k.nev # 0
  /\ \/ k.op = "epoll"  /\ k.timeout = "zero"
     \/ k.op = "kevent" /\ k.timeout = "none"

(* Variant with a fault: any request that yields 0 is run again. *)
StatusAfterAnyZero(k, val) == IF val = 0 THEN "REQ" ELSE "REP"

(* sc->status after the handler. *)
StatusAfter(k, val) == IF KeepWaiting(k, val) THEN "REQ" ELSE "REP"

(* Variants with a fault: a post for an ordinary call too; none for a poll *)
(* that found nothing.                                                     *)
PostAlways(k, val) == 1
PostOnEvent(k, val) == IF IsPoll(k) /\ val > 0 THEN 1 ELSE 0

(* sem_post calls that go with the answer. *)
Posts(k, val) == IF IsPoll(k) /\ ~KeepWaiting(k, val) THEN 1 ELSE 0

(* Variant with a fault: nchanges is kept. *)
ChangesKept(k, n) == n

(* args->nchanges after the handler: ff_sys_kevent clears it. *)
ChangesLeft(k, n) == IF k.op = "kevent" THEN 0 ELSE n

(* ff_handle_socket_ops with the lock: run the handler, then answer. *)
FstackHandle ==
  /\ fpc = "run"
  /\ \E v \in HandlerValues(ops) :
       /\ result' = [by |-> <<args, call[args]>>, val |-> v]
       /\ ready' = IF v > 0 THEN 0 ELSE ready
       /\ status' = StatusAfter(ops, v)
       /\ wait_sem' = wait_sem + Posts(ops, v)
  /\ runs' = [runs EXCEPT ![args] = IF @ < 2 THEN @ + 1 ELSE @]
  /\ applied' = [applied EXCEPT ![args] = @ + nchanges[args]]
  /\ nchanges' = [nchanges EXCEPT ![args] = ChangesLeft(ops, @)]
  /\ locked' = FALSE
  /\ fpc' = "scan"
  /\ UNCHANGED <<ops, args, need_alarm_sem, pc, kind, call, waited, ret, sigVars,
                 lost>>

(* The network delivers something a poller is registered for. *)
Event ==
  /\ ready < MaxReady
  /\ ready' = ready + 1
  /\ UNCHANGED <<scVars, appVars, sigVars, fpc, histVars>>

-----------------------------------------------------------------------------
App(t) ==
  \/ StartCall(t) \/ SeeStatus(t) \/ TakeLock(t)
  \/ SubmitCall(t) \/ SubmitPoll(t) \/ Collect(t)
  \/ SemTaken(t) \/ SemFailed(t) \/ FinishPoll(t)

Alarm(t) == Signal(t) \/ AlarmLock(t) \/ AlarmPost(t)

Fstack == FstackSee \/ FstackTry \/ FstackHandle

(* The threads have made all the calls the bound allows; nothing is left to *)
(* do, which is not a deadlock.                                            *)
Done == /\ \A t \in Thread : pc[t] = "user" /\ call[t] = MaxCalls
        /\ UNCHANGED vars

Next == \/ \E t \in Thread : App(t)
        \/ \E t \in SigThread : Alarm(t)
        \/ Fstack
        \/ Event
        \/ Done

Spec == Init /\ [][Next]_vars

(* fstack runs its loop on a dedicated core; a thread's own steps go on; a *)
(* deadline passes; a spinning thread wins the lock or sees the status it  *)
(* waits for if either keeps becoming possible (the loop gives the lock up *)
(* after each request and passes over every context).  Nothing makes an    *)
(* application call, a signal or an event happen.                          *)
Deadline(t) == SemFailed(t) /\ (waited'[t] = "timedout" \/ kind[t].timeout = "bad")
Fairness ==
  /\ WF_vars(Fstack)
  /\ \A t \in Thread :
       /\ WF_vars(\/ SubmitCall(t) \/ SubmitPoll(t) \/ Collect(t) \/ SemTaken(t)
                  \/ Deadline(t) \/ FinishPoll(t))
       /\ SF_vars(SeeStatus(t)) /\ SF_vars(TakeLock(t))
  /\ \A t \in SigThread : SF_vars(AlarmLock(t)) /\ WF_vars(AlarmPost(t))

FairSpec == Spec /\ Fairness

-----------------------------------------------------------------------------
InFlight(t) ==
  pc[t] \in {"repSpin", "repLock", "read", "semWait", "semLock", "semDone"}

(* The variables have the values the code can give them. *)
TypeOK ==
  /\ status \in {"IDLE", "REQ", "REP"}
  /\ locked \in BOOLEAN
  /\ wait_sem \in Nat
  /\ ops \in Kind
  /\ args \in Thread \cup {"NULL"}
  /\ result \in Result
  /\ need_alarm_sem \in BOOLEAN
  /\ pc \in [Thread -> {"user", "idleSpin", "idleLock", "fill", "repSpin",
                        "repLock", "read", "semWait", "semLock", "semDone"}]
  /\ kind \in [Thread -> Kind]
  /\ call \in [Thread -> Nat]
  /\ nchanges \in [Thread -> Nat]
  /\ waited \in [Thread -> {"ok", "timedout", "failed"}]
  /\ ret \in [Thread -> Result]
  /\ sig \in [SigThread -> {"none", "lock", "post"}]
  /\ alarms \in Nat
  /\ fpc \in {"scan", "try", "run"}
  /\ ready \in Nat
  /\ runs \in [Thread -> 0 .. 2]
  /\ applied \in [Thread -> Nat]
  /\ lost \in BOOLEAN

(* A context serves one caller at a time: of the threads that share it at  *)
(* most one has a request in it, and the status is IDLE exactly when none  *)
(* has (ACQUIRE_ZONE_LOCK's recheck, and the unconditional reset to IDLE   *)
(* that ends a poll whatever the status has become meanwhile).             *)
OneOwner ==
  /\ \A t, u \in Thread : InFlight(t) /\ InFlight(u) => t = u
  /\ status # "IDLE" <=> \E t \in Thread : InFlight(t)

(* What a call returns is what fstack computed for that very call: never   *)
(* another thread's answer, never an earlier one's that a stale semaphore  *)
(* token exposed (the reset of sc->result in epoll_wait and kevent).  An   *)
(* ordinary call always has an answer; a poll may end without one.         *)
OwnAnswer ==
  \A t \in Thread :
    pc[t] = "user" =>
      /\ ret[t].by \in {NoRequest, <<t, call[t]>>}
      /\ call[t] > 0 /\ ~IsPoll(kind[t]) => ret[t].by = <<t, call[t]>>

(* An ordinary call is executed exactly once by the time it returns, and   *)
(* never a second time, however often fstack scans the context.            *)
ExactlyOnce ==
  \A t \in Thread :
    ~IsPoll(kind[t]) =>
      /\ runs[t] <= 1
      /\ pc[t] = "user" /\ call[t] > 0 => runs[t] = 1

(* A kevent that fstack keeps re-running applies its changelist at most    *)
(* once (ff_sys_kevent clears args->nchanges).                             *)
ChangesOnce == \A t \in Thread : applied[t] <= 1

(* A poll that has been answered is never left asleep: the token fstack    *)
(* posted, or an older one, is there to be taken.                          *)
NoLostWakeup ==
  \A t \in Thread : pc[t] = "semWait" /\ status = "REP" => wait_sem > 0

(* Unconsumed semaphore tokens do not pile up: a timed-out or interrupted  *)
(* poll leaves one behind only if none was there, and each alarm leaves at *)
(* most one.  (A poll with an invalid deadline leaves one each time, see   *)
(* the README.)                                                            *)
TokensBounded ==
  (\A k \in Kinds : k.timeout # "bad") =>
    wait_sem <= (IF MaxStale > 1 THEN MaxStale ELSE 1) + alarms
                + (IF status = "REP" THEN 1 ELSE 0)

(* Every call returns, if the polls among them have deadlines: nobody      *)
(* waits for an answer, for the lock or for IDLE for ever.                 *)
CallsReturn == \A t \in Thread : (pc[t] # "user") ~> (pc[t] = "user")

(* The context implements the abstract service: whatever the interleaving  *)
(* of threads, fstack and signals, deadlines and stale tokens included.    *)
CS == INSTANCE ContextService WITH
        phase   <- CASE status = "IDLE" -> "free"
                     [] status = "REQ"  -> "asked"
                     [] status = "REP"  -> "answered",
        owner   <- IF status = "IDLE" THEN <<>> ELSE <<args, call[args]>>,
        patient <- status # "IDLE" /\ ~IsPoll(ops),
        given   <- [t \in Thread |-> ret[t].by]

Service == CS!Spec

-----------------------------------------------------------------------------
(* What the repository says of the adapter and the code does not do. *)

(* FT-031 of 04-test-spec.md: a kevent that registers a change "Returns    *)
(* 0".  A return that is not an error means the change is registered.      *)
ChangesReachKqueue ==
  \A t \in Thread :
    pc[t] = "user" /\ kind[t].nch > 0 /\ ret[t].val >= 0 => applied[t] = 1

(* FT-027 of 04-test-spec.md: when the peer sends data, epoll_wait         *)
(* "Returns EPOLLIN event".  An event fstack retrieves reaches a caller.   *)
EventsDelivered == ~lost

(* FT-024 of 04-test-spec.md: epoll_wait with timeout 0 and no ready       *)
(* events "Returns 0 immediately".                                         *)
EpollZeroReturns ==
  \A t \in Thread :
    (pc[t] # "user" /\ kind[t].timeout = "zero") ~> (pc[t] = "user")

(* FT-040 of 04-test-spec.md: with alarm_event_sem called in a signal      *)
(* handler the application "wakes normally".  A kevent with a NULL timeout *)
(* that is in progress when the handler runs returns.                      *)
AlarmEndsKevent ==
  \A t \in Thread :
    (/\ pc[t] # "user" /\ Unbounded(kind[t]) /\ kind[t].op = "kevent"
     /\ \E s \in SigThread : sig[s] = "post") ~> (pc[t] = "user")

(* FT-040 again: the signal handler that calls alarm_event_sem returns,    *)
(* whichever thread it runs on.                                            *)
HandlerReturns ==
  \A s \in SigThread : (sig[s] # "none") ~> (sig[s] = "none")
=============================================================================

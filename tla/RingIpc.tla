------------------------------ MODULE RingIpc ------------------------------
(***************************************************************************)
(* The same request path in the FF_USE_RING_IPC build: no status word, no  *)
(* lock, no semaphore.  An application thread writes ops, args and result  *)
(* of its context, clears sc->completion, puts the context on the request  *)
(* ring of its fstack instance and spins until completion is set or its    *)
(* time is up.  fstack takes contexts off the ring in bursts, executes     *)
(* whatever request the context holds at that moment and sets completion.  *)
(*                                                                         *)
(* Nothing tells fstack that a thread has given up waiting, so every store *)
(* the code does outside a lock is a step of its own here.  The ring is    *)
(* DPDK's, created with RING_F_SP_ENQ: its enqueue is three unsynchronised *)
(* steps of the producer.                                                  *)
(***************************************************************************)
EXTENDS Integers, Sequences, FiniteSets

CONSTANTS
  Thread,     (* application threads, each with a context of its own; all *)
              (* attached to one fstack instance, hence to one ring       *)
  Kinds,      (* the calls the threads make, a subset of Kind             *)
  RingSize,   (* size of the ring, a power of two; it holds one less      *)
  ObjsMax,    (* entries of fstack's table objs[] for one burst           *)
  MaxCalls,   (* bound: calls per thread                                  *)
  MaxTries,   (* bound: submissions per call (epoll_wait retries)         *)
  MaxAlarms   (* bound: calls of alarm_event_sem                          *)

(* A call and how long it waits for completion.  timeout: "none" is for    *)
(* ever, "zero" does not wait, "pos" has a deadline.                       *)
Kind == [op: {"call"}, timeout: {"none"}]
   \cup [op: {"epoll", "kevent"}, timeout: {"none", "zero", "pos"}]

ASSUME RingIpcAssumption ==
  /\ Kinds \subseteq Kind
  /\ RingSize \in {2, 4, 8, 16, 32, 64}
  /\ ObjsMax \in Nat \ {0}
  /\ MaxCalls \in Nat /\ MaxTries \in Nat /\ MaxAlarms \in Nat

VARIABLES
  ops,        (* sc->ops of each context: the call it was written for     *)
  args,       (* sc->args of each context, likewise                       *)
  result,     (* sc->result: the value and the call it is for             *)
  completion, (* sc->completion of each context                           *)
  slots,      (* the ring's array                                         *)
  prodHead, prodTail, consTail,   (* the ring's indices                   *)
  pc,         (* where each thread is                                     *)
  kind,       (* the call each thread is making                           *)
  call,       (* number of calls each thread has started                  *)
  tries,      (* submissions of that call                                 *)
  head,       (* prod.head as each thread's enqueue read it               *)
  ret,        (* what each thread's last call returned                    *)
  batch,      (* contexts fstack took off the ring and has not handled    *)
  fpc,        (* where fstack is in ff_handle_socket_ops_ring             *)
  cur,        (* the call it is executing: the ops and args it read       *)
  alarms,     (* calls of alarm_event_sem so far                          *)
  runs,       (* history: executions of each thread's current call        *)
  clean       (* history: nothing of the thread's earlier calls was with  *)
              (* fstack when it began, and nothing cut its wait short     *)

scVars   == <<ops, args, result, completion>>
ringVars == <<slots, prodHead, prodTail, consTail>>
appVars  == <<pc, kind, call, tries, head, ret>>
histVars == <<runs, clean>>
vars     == <<scVars, ringVars, appVars, batch, fpc, cur, alarms, histVars>>

Slot     == 0 .. RingSize - 1
NoCall   == 0
NoResult == [by |-> NoCall, val |-> 0]
NoKind   == [op |-> "call", timeout |-> "none"]
Torn     == -1  (* the ops of one call with the args of another *)

-----------------------------------------------------------------------------
Init ==
  /\ ops = [t \in Thread |-> NoCall] /\ args = [t \in Thread |-> NoCall]
  /\ result = [t \in Thread |-> NoResult]
  /\ completion = [t \in Thread |-> 0]
  /\ slots = [i \in Slot |-> "empty"]
  /\ prodHead = 0 /\ prodTail = 0 /\ consTail = 0
  /\ pc = [t \in Thread |-> "user"]
  /\ kind = [t \in Thread |-> NoKind]
  /\ call = [t \in Thread |-> NoCall]
  /\ tries = [t \in Thread |-> 0]
  /\ head = [t \in Thread |-> 0]
  /\ ret = [t \in Thread |-> NoResult]
  /\ batch = <<>> /\ fpc = "ring" /\ cur = NoCall
  /\ alarms = 0
  /\ runs = [t \in Thread |-> 0] /\ clean = [t \in Thread |-> TRUE]

(* The contexts that are on the ring or in fstack's hands. *)
OnRing == {slots[i % RingSize] : i \in consTail .. prodTail - 1}
InBatch == {batch[i] : i \in 1 .. Len(batch)}

Goto(t, l) == pc' = [pc EXCEPT ![t] = l]

-----------------------------------------------------------------------------
(* Application threads. *)

StartCall(t) ==
  /\ pc[t] = "user" /\ call[t] < MaxCalls
  /\ \E k \in Kinds : kind' = [kind EXCEPT ![t] = k]
  /\ call' = [call EXCEPT ![t] = @ + 1]
  /\ tries' = [tries EXCEPT ![t] = 0]
  /\ runs' = [runs EXCEPT ![t] = 0]
  /\ clean' = [clean EXCEPT ![t] = t \notin OnRing \cup InBatch]
  /\ Goto(t, "ops")
  /\ UNCHANGED <<scVars, ringVars, head, ret, batch, fpc, cur, alarms>>

(* SYSCALL, and its copies in epoll_wait and kevent: the request is        *)
(* written into the context ...                                            *)
FillOps(t) ==
  /\ pc[t] = "ops" /\ tries[t] < MaxTries
  /\ ops' = [ops EXCEPT ![t] = call[t]]
  /\ tries' = [tries EXCEPT ![t] = @ + 1]
  /\ Goto(t, "args")
  /\ UNCHANGED <<args, result, completion, ringVars, kind, call, head, ret, batch,
                 fpc, cur, alarms, histVars>>

FillArgs(t) ==
  /\ pc[t] = "args"
  /\ args' = [args EXCEPT ![t] = call[t]]
  /\ result' = [result EXCEPT ![t] = NoResult]
  /\ Goto(t, "clear")
  /\ UNCHANGED <<ops, completion, ringVars, kind, call, tries, head, ret, batch, fpc,
                 cur, alarms, histVars>>

(* Variant with a fault: completion is not cleared. *)
ClearNothing(t) == completion' = completion

(* ... completion is cleared before the context is put on the ring ...     *)
ClearCompletion(t) == completion' = [completion EXCEPT ![t] = 0]

Clear(t) ==
  /\ pc[t] = "clear"
  /\ ClearCompletion(t)
  /\ Goto(t, "enqueue")
  /\ UNCHANGED <<ops, args, result, ringVars, kind, call, tries, head, ret, batch,
                 fpc, cur, alarms, histVars>>

(* Variant with a fault: a full ring is overwritten. *)
RoomAlways == TRUE

(* The ring has room for one more. *)
Room == RingSize - 1 + consTail - prodHead > 0

(* rte_ring_sp_enqueue: read prod.head and see that there is room (a full  *)
(* ring makes the caller try again) ...                                    *)
EnqueueHead(t) ==
  /\ pc[t] = "enqueue" /\ Room
  /\ head' = [head EXCEPT ![t] = prodHead]
  /\ Goto(t, "advance")
  /\ UNCHANGED <<scVars, ringVars, kind, call, tries, ret, batch, fpc, cur, alarms,
                 histVars>>

(* ... advance prod.head and fill the slot ...                             *)
EnqueueSlot(t) ==
  /\ pc[t] = "advance"
  /\ prodHead' = head[t] + 1
  /\ slots' = [slots EXCEPT ![head[t] % RingSize] = t]
  /\ Goto(t, "publish")
  /\ UNCHANGED <<scVars, prodTail, consTail, kind, call, tries, head, ret, batch, fpc,
                 cur, alarms, histVars>>

(* ... and publish it.                                                     *)
EnqueueTail(t) ==
  /\ pc[t] = "publish"
  /\ prodTail' = head[t] + 1
  /\ Goto(t, "wait")
  /\ UNCHANGED <<scVars, slots, prodHead, consTail, kind, call, tries, head, ret, batch,
                 fpc, cur, alarms, histVars>>

(* Variant with a fault: every call that yields 0 is submitted again. *)
ReturnOnlyEvents(t, v) ==
  IF v.val = 0
  THEN Goto(t, "ops") /\ ret' = ret
  ELSE Goto(t, "user") /\ ret' = [ret EXCEPT ![t] = v]

(* timeout <= 0 in epoll_wait. *)
Retries(k) == k.op = "epoll" /\ k.timeout \in {"none", "zero"}

(* What the caller does with the value v: an epoll_wait with timeout <= 0  *)
(* and no event submits again.                                             *)
Return(t, v) ==
  IF Retries(kind[t]) /\ v.val = 0
  THEN Goto(t, "ops") /\ ret' = ret
  ELSE Goto(t, "user") /\ ret' = [ret EXCEPT ![t] = v]

(* The spin ends because completion is set ...                             *)
Completed(t) ==
  /\ pc[t] = "wait" /\ completion[t] = 1
  /\ Return(t, result[t])
  /\ UNCHANGED <<scVars, ringVars, kind, call, tries, head, batch, fpc, cur, alarms,
                 histVars>>

(* ... or because the time is up: 0 events.  The context stays on the ring. *)
TimedOut(t) ==
  /\ pc[t] = "wait" /\ completion[t] = 0 /\ kind[t].timeout # "none"
  /\ Return(t, NoResult)
  /\ clean' = [clean EXCEPT ![t] = FALSE]
  /\ UNCHANGED <<scVars, ringVars, kind, call, tries, head, batch, fpc, cur, alarms,
                 runs>>

(* alarm_event_sem, ff_ring_alarm_wakeup: completion is set whatever the   *)
(* thread is waiting for.  (The entry it leaves on the response ring is    *)
(* never read.)                                                            *)
Alarm(t) ==
  /\ alarms < MaxAlarms
  /\ alarms' = alarms + 1
  /\ completion' = [completion EXCEPT ![t] = 1]
  /\ clean' = [clean EXCEPT ![t] = FALSE]
  /\ UNCHANGED <<ops, args, result, ringVars, appVars, batch, fpc, cur, runs>>

-----------------------------------------------------------------------------
(* The fstack loop: ff_handle_each_context, ff_handle_socket_ops_ring. *)

(* Variant with a fault: the loop over the burst stops one short. *)
BurstShort == prodTail - consTail - 1

(* Entries of the burst that are handled. *)
Burst == prodTail - consTail

(* The burst is longer than the table: rte_ring_sc_dequeue_burst is asked  *)
(* for FF_RING_SIZE (64) entries, objs[] has SOCKET_OPS_CONTEXT_MAX_NUM    *)
(* (32).                                                                   *)
Overruns == Burst > ObjsMax

(* rte_ring_sc_dequeue_burst takes everything that is published.  What it  *)
(* writes behind objs[] is undefined: fstack goes on with the entries as   *)
(* they are, or it stops there and then.                                   *)
Dequeue ==
  /\ fpc = "ring" /\ batch = <<>> /\ consTail < prodTail
  /\ consTail' = prodTail
  /\ \/ /\ batch' = [i \in 1 .. Burst |-> slots[(consTail + i - 1) % RingSize]]
        /\ fpc' = "ring"
     \/ /\ Overruns
        /\ batch' = <<>>
        /\ fpc' = "overrun"
  /\ UNCHANGED <<scVars, slots, prodHead, prodTail, appVars, cur, alarms, histVars>>

(* ff_so_handler(sc->ops, sc->args) is called with what is there now. *)
Begin ==
  /\ fpc = "ring" /\ batch # <<>>
  /\ LET c == Head(batch) IN
       cur' = IF ops[c] = args[c] THEN ops[c] ELSE Torn
  /\ fpc' = "run"
  /\ UNCHANGED <<scVars, ringVars, appVars, batch, alarms, histVars>>

(* Values a handler gives; the polls never block, they return what is there. *)
HandlerValues == {0, 1}

Finish ==
  /\ fpc = "run"
  /\ LET c == Head(batch) IN
       /\ \E v \in HandlerValues : result' = [result EXCEPT ![c] = [by |-> cur, val |-> v]]
       /\ runs' = IF cur = call[c] THEN [runs EXCEPT ![c] = @ + 1] ELSE runs
  /\ fpc' = "respond"
  /\ UNCHANGED <<ops, args, completion, ringVars, appVars, batch, cur, alarms, clean>>

(* ff_ring_send_response *)
Notify(c) == completion' = [completion EXCEPT ![c] = 1]

Respond ==
  /\ fpc = "respond"
  /\ Notify(Head(batch))
  /\ batch' = Tail(batch)
  /\ fpc' = "ring" /\ cur' = NoCall
  /\ UNCHANGED <<ops, args, result, ringVars, appVars, alarms, histVars>>

-----------------------------------------------------------------------------
App(t) ==
  \/ StartCall(t) \/ FillOps(t) \/ FillArgs(t) \/ Clear(t)
  \/ EnqueueHead(t) \/ EnqueueSlot(t) \/ EnqueueTail(t)
  \/ Completed(t) \/ TimedOut(t)

Fstack == Dequeue \/ Begin \/ Finish \/ Respond

(* All the calls and submissions the bounds allow have been made, or       *)
(* nobody answers any more.                                                *)
Done ==
  /\ \/ \A t \in Thread : \/ pc[t] = "user" /\ call[t] = MaxCalls
                          \/ pc[t] = "ops" /\ tries[t] = MaxTries
     \/ fpc = "overrun"
  /\ UNCHANGED vars

Next == (\E t \in Thread : App(t) \/ Alarm(t)) \/ Fstack \/ Done

Spec == Init /\ [][Next]_vars

(* fstack and the threads' own steps go on. *)
Fairness ==
  /\ WF_vars(Fstack)
  /\ \A t \in Thread :
       WF_vars(\/ FillOps(t) \/ FillArgs(t) \/ Clear(t) \/ EnqueueHead(t)
               \/ EnqueueSlot(t) \/ EnqueueTail(t) \/ Completed(t) \/ TimedOut(t))

FairSpec == Spec /\ Fairness

-----------------------------------------------------------------------------
Result == [by: Torn .. MaxCalls, val: {0, 1}]

(* The variables have the values the code can give them. *)
TypeOK ==
  /\ ops \in [Thread -> 0 .. MaxCalls] /\ args \in [Thread -> 0 .. MaxCalls]
  /\ result \in [Thread -> Result]
  /\ completion \in [Thread -> {0, 1}]
  /\ slots \in [Slot -> Thread \cup {"empty"}]
  /\ prodHead \in Nat /\ prodTail \in Nat /\ consTail \in Nat
  /\ pc \in [Thread -> {"user", "ops", "args", "clear", "enqueue", "advance", "publish",
                        "wait"}]
  /\ kind \in [Thread -> Kind]
  /\ call \in [Thread -> 0 .. MaxCalls]
  /\ tries \in [Thread -> 0 .. MaxTries]
  /\ head \in [Thread -> Nat]
  /\ ret \in [Thread -> Result]
  /\ batch \in Seq(Thread)
  /\ fpc \in {"ring", "run", "respond", "overrun"}
  /\ cur \in Torn .. MaxCalls
  /\ alarms \in 0 .. MaxAlarms
  /\ runs \in [Thread -> Nat] /\ clean \in [Thread -> BOOLEAN]

(* FT-048 of 04-test-spec.md, "no loss": the context of a thread that      *)
(* waits is on the ring or with fstack, or its completion is set, even if  *)
(* the ring has been full meanwhile or a burst was longer than objs[] and  *)
(* fstack survived it.  It needs the "sole producer" of                    *)
(* 03-interface-spec.md, D-004: two threads on one ring lose requests.     *)
NoRequestLost ==
  fpc # "overrun" =>
    \A t \in Thread :
      pc[t] = "wait" /\ completion[t] = 0 => t \in OnRing \cup InBatch

(* The ring never holds more than its capacity, and what is published is   *)
(* what the producer has filled.                                           *)
WithinCapacity ==
  /\ consTail <= prodTail /\ prodTail <= prodHead
  /\ prodHead - consTail <= RingSize - 1

(* A call that starts with nothing of its thread left on the ring or with  *)
(* fstack, and whose wait is not cut short by a deadline or an alarm,      *)
(* returns the answer that was computed for it: the completion it saw was  *)
(* set for it (ff_ring_submit_and_wait clears the flag before it enqueues). *)
OwnAnswer == \A t \in Thread : pc[t] = "user" /\ clean[t] => ret[t].by = call[t]

(* Such a call, if it is an ordinary one, is not executed twice.           *)
AtMostOnce == \A t \in Thread : kind[t].op = "call" /\ clean[t] => runs[t] <= 1

(* Every call that is submitted once returns: fstack completes it or its   *)
(* deadline passes, the ring full or not, unless fstack is lost to a burst *)
(* that overran objs[].                                                    *)
CallsReturn ==
  \A t \in Thread :
    (pc[t] # "user" /\ ~Retries(kind[t])) ~> (pc[t] = "user" \/ fpc = "overrun")

-----------------------------------------------------------------------------
(* What the repository says of the ring build and the code does not do. *)

(* A burst never overruns fstack's table.  An epoll_wait with timeout 0    *)
(* that submits again and again leaves an entry of its one context on the  *)
(* ring each time (ff_hook_epoll_wait), so the ring can hold RingSize - 1  *)
(* entries, more than objs[] has room for.                                 *)
BurstFits == fpc # "overrun"

(* 02-architecture-design-spec.md says that the design eliminates the race *)
(* after a timeout.  An ordinary call never returns what was computed for  *)
(* the poll that timed out before it ...                                   *)
NoStaleAnswer ==
  \A t \in Thread :
    pc[t] = "user" /\ call[t] > 0 /\ kind[t].op = "call" => ret[t].by = call[t]

(* ... nor is it executed a second time for that poll's place on the ring. *)
NoSecondRun == \A t \in Thread : kind[t].op = "call" => runs[t] <= 1

(* ff_socket_ops.c: "SPSC dequeue guarantees mutual exclusion".  fstack    *)
(* never executes a request that its thread is still writing.              *)
NoTornRequest == cur # Torn

(* FT-032 of 04-test-spec.md: a kevent with a NULL timeout "Returns when   *)
(* events arrive", not before.                                             *)
KeventWaits ==
  \A t \in Thread :
    pc[t] = "user" /\ kind[t].op = "kevent" /\ kind[t].timeout = "none" => ret[t].val # 0
=============================================================================

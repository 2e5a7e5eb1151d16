---------------------------- MODULE RingIpcProof ----------------------------
(***************************************************************************)
(* Proofs about RingIpc when the ring has a sole producer, as D-004 of     *)
(* 03-interface-spec.md has it (with two, requests are lost: see           *)
(* RingIpcShared.cfg), for any calls, any ring size and any bounds.        *)
(* The argument: with one producer the three steps of the enqueue are not  *)
(* interleaved with another's, so the indices stay in order and what is    *)
(* published has been filled; so a thread that waits is on the ring, with  *)
(* fstack, or completed; and if nothing of it was there when its call      *)
(* began, then the one entry fstack gets is that of the call.              *)
(***************************************************************************)
EXTENDS RingIpc, SequenceTheorems, TLAPS

SoleProducer == \A t, u \in Thread : t = u

(* The indices are in order, and what the thread knows of them while it    *)
(* enqueues stays true; published slots have been filled.                  *)
IndexInv ==
  /\ WithinCapacity
  /\ \A i \in consTail .. prodTail - 1 : slots[i % RingSize] \in Thread
  /\ \A t \in Thread :
       /\ pc[t] # "publish" => prodHead = prodTail
       /\ pc[t] = "advance" => head[t] = prodHead /\ Room
       /\ pc[t] = "publish" => /\ head[t] = prodTail /\ prodHead = prodTail + 1
                              /\ slots[head[t] % RingSize] = t

(* A context is in fstack's hands while it is handled. *)
BatchInv == fpc \in {"run", "respond"} => batch # <<>>

(* A thread that waits is on the ring, with fstack, or completed, unless   *)
(* fstack is lost.                                                         *)
WaitInv ==
  fpc # "overrun" =>
    \A t \in Thread :
      pc[t] = "wait" /\ completion[t] = 0 => consTail < prodTail \/ batch # <<>>

(* What is in the context while a call is under way. *)
FillInv ==
  \A t \in Thread :
    /\ pc[t] \in {"args", "clear", "enqueue", "advance", "publish", "wait"} => ops[t] = call[t]
    /\ pc[t] \in {"clear", "enqueue", "advance", "publish", "wait"} => args[t] = call[t]

(* A clean call has nothing on the ring or with fstack until it enqueues,  *)
(* then one entry, and none again when completion is set with its answer.  *)
CleanInv ==
  \A t \in Thread : clean[t] =>
    /\ pc[t] # "wait" => consTail = prodTail /\ batch = <<>>
    /\ pc[t] \in {"enqueue", "advance", "publish"} => completion[t] = 0
    /\ pc[t] = "wait" =>
         \/ completion[t] = 0 /\ prodTail = consTail + 1 /\ batch = <<>>
         \/ completion[t] = 0 /\ prodTail = consTail /\ Len(batch) = 1
         \/ completion[t] = 1 /\ prodTail = consTail /\ batch = <<>> /\ result[t].by = call[t]
    /\ fpc \in {"run", "respond"} => cur = call[t]
    /\ fpc = "respond" => result[t].by = call[t]

(* How often a clean ordinary call has been executed. *)
RunsInv ==
  \A t \in Thread : clean[t] /\ kind[t].op = "call" =>
    /\ runs[t] <= 1
    /\ pc[t] \notin {"user", "wait"} => runs[t] = 0
    /\ pc[t] = "wait" /\ completion[t] = 0 /\ fpc # "respond" => runs[t] = 0

(* The inductive invariant. *)
IInv ==
  /\ TypeOK /\ IndexInv /\ BatchInv /\ WaitInv /\ FillInv /\ CleanInv /\ OwnAnswer /\ RunsInv

-----------------------------------------------------------------------------
(* The ring's size, and that an index finds its slot. *)
LEMMA RingFacts == RingSize \in Nat /\ RingSize >= 2
BY RingIpcAssumption

LEMMA SlotOf == ASSUME NEW i \in Nat PROVE i % RingSize \in Slot
<1>1. CASE RingSize = 2 BY <1>1 DEF Slot
<1>2. CASE RingSize = 4 BY <1>2 DEF Slot
<1>3. CASE RingSize = 8 BY <1>3 DEF Slot
<1>4. CASE RingSize = 16 BY <1>4 DEF Slot
<1>5. CASE RingSize = 32 BY <1>5 DEF Slot
<1>6. CASE RingSize = 64 BY <1>6 DEF Slot
<1> QED BY <1>1, <1>2, <1>3, <1>4, <1>5, <1>6, RingIpcAssumption

(* What a call leaves or returns without an answer is a result. *)
LEMMA NoResultIsResult == NoResult \in Result
BY RingIpcAssumption DEF NoResult, Result, NoCall, Torn

(* A sole producer is on the ring if anything is, and with fstack if       *)
(* anything is.                                                            *)
LEMMA WhereItIs ==
  ASSUME SoleProducer, TypeOK, IndexInv, NEW t \in Thread
  PROVE  t \in OnRing \cup InBatch <=> consTail < prodTail \/ batch # <<>>
<1>1. t \in OnRing <=> consTail < prodTail
  <2>1. ASSUME consTail < prodTail PROVE t \in OnRing
    <3>1. consTail \in consTail .. prodTail - 1
      BY <2>1 DEF TypeOK
    <3>2. slots[consTail % RingSize] = t
      BY <3>1 DEF IndexInv, SoleProducer
    <3> QED BY <3>1, <3>2 DEF OnRing
  <2>2. ASSUME t \in OnRing PROVE consTail < prodTail
    <3>1. PICK i \in consTail .. prodTail - 1 : TRUE
      BY <2>2 DEF OnRing
    <3> QED BY <3>1 DEF TypeOK
  <2> QED BY <2>1, <2>2
<1>2. t \in InBatch <=> batch # <<>>
  <2>1. ASSUME batch # <<>> PROVE t \in InBatch
    <3>1. 1 \in 1 .. Len(batch)
      BY <2>1, EmptySeq DEF TypeOK
    <3>2. batch[1] \in Thread
      BY <3>1, ElementOfSeq DEF TypeOK
    <3>3. batch[1] = t
      BY <3>2 DEF SoleProducer
    <3> QED BY <3>1, <3>3 DEF InBatch
  <2>2. ASSUME t \in InBatch, batch = <<>> PROVE FALSE
    <3>1. Len(batch) = 0
      BY <2>2, EmptySeq
    <3> QED BY <2>2, <3>1 DEF InBatch
  <2> QED BY <2>1, <2>2
<1> QED BY <1>1, <1>2

(* A call begins: it is clean if nothing is on the ring or with fstack. *)
LEMMA StartCallKeeps == ASSUME SoleProducer, IInv, NEW t \in Thread, StartCall(t) PROVE IInv'
<1>1. /\ pc[t] = "user" /\ call[t] < MaxCalls
      /\ call' = [call EXCEPT ![t] = @ + 1] /\ tries' = [tries EXCEPT ![t] = 0]
      /\ runs' = [runs EXCEPT ![t] = 0] /\ clean' = [clean EXCEPT ![t] = t \notin OnRing \cup InBatch]
      /\ pc' = [pc EXCEPT ![t] = "ops"]
      /\ UNCHANGED <<ops, args, result, completion, slots, prodHead, prodTail, consTail,
                     head, ret, batch, fpc, cur, alarms>>
  BY DEF StartCall, Goto, scVars, ringVars, appVars, histVars
<1>2. TypeOK'
  <2>1. PICK k \in Kinds : kind' = [kind EXCEPT ![t] = k]
    BY DEF StartCall
  <2>2. k \in Kind /\ call[t] + 1 \in 0 .. MaxCalls /\ 0 \in 0 .. MaxTries
    BY <1>1, RingIpcAssumption DEF IInv, TypeOK
  <2>3. (t \notin OnRing \cup InBatch) \in BOOLEAN
    OBVIOUS
  <2> QED BY <1>1, <2>1, <2>2, <2>3 DEF IInv, TypeOK
<1>3. IndexInv'
  BY <1>1 DEF IInv, TypeOK, WithinCapacity, Room, IndexInv, SoleProducer
<1>4. WaitInv'
  BY <1>1 DEF IInv, TypeOK, WaitInv, SoleProducer
<1>5. FillInv'
  BY <1>1 DEF IInv, TypeOK, FillInv, SoleProducer
<1>6. CleanInv'
  <2>1. clean'[t] => prodTail = consTail /\ batch = <<>> /\ fpc \notin {"run", "respond"}
    <3>1. clean'[t] = (t \notin OnRing \cup InBatch)
      BY <1>1 DEF IInv, TypeOK
    <3>2. clean'[t] => ~(consTail < prodTail) /\ batch = <<>>
      BY <3>1, WhereItIs DEF IInv
    <3>3. ~(consTail < prodTail) => prodTail = consTail
      BY DEF IInv, TypeOK, IndexInv, WithinCapacity
    <3> QED BY <3>2, <3>3 DEF IInv, BatchInv
  <2> QED BY <1>1, <2>1 DEF IInv, TypeOK, CleanInv, SoleProducer
<1>7. OwnAnswer'
  BY <1>1 DEF IInv, TypeOK, OwnAnswer, SoleProducer
<1>8. RunsInv'
  BY <1>1 DEF IInv, TypeOK, RunsInv, SoleProducer
<1>9. (BatchInv)'
  BY <1>1 DEF IInv, BatchInv
<1> QED BY <1>2, <1>3, <1>4, <1>5, <1>6, <1>7, <1>8, <1>9 DEF IInv

(* The request is written into the context ... *)
LEMMA FillOpsKeeps == ASSUME SoleProducer, IInv, NEW t \in Thread, FillOps(t) PROVE IInv'
<1>1. /\ pc[t] = "ops" /\ tries[t] < MaxTries
      /\ ops' = [ops EXCEPT ![t] = call[t]] /\ tries' = [tries EXCEPT ![t] = @ + 1]
      /\ pc' = [pc EXCEPT ![t] = "args"]
      /\ UNCHANGED <<args, result, completion, slots, prodHead, prodTail, consTail, kind,
                     call, head, ret, batch, fpc, cur, alarms, runs, clean>>
  BY DEF FillOps, Goto, scVars, ringVars, appVars, histVars
<1>2. TypeOK'
  <2>1. tries[t] + 1 \in 0 .. MaxTries
    BY <1>1, RingIpcAssumption DEF IInv, TypeOK
  <2> QED BY <1>1, <2>1 DEF IInv, TypeOK
<1>3. IndexInv'
  BY <1>1 DEF IInv, TypeOK, WithinCapacity, Room, IndexInv, SoleProducer
<1>4. WaitInv'
  BY <1>1 DEF IInv, TypeOK, WaitInv, SoleProducer
<1>5. FillInv'
  BY <1>1 DEF IInv, TypeOK, FillInv, SoleProducer
<1>6. CleanInv'
  BY <1>1 DEF IInv, TypeOK, CleanInv, SoleProducer
<1>7. OwnAnswer'
  BY <1>1 DEF IInv, TypeOK, OwnAnswer, SoleProducer
<1>8. RunsInv'
  BY <1>1 DEF IInv, TypeOK, RunsInv, SoleProducer
<1>9. (BatchInv)'
  BY <1>1 DEF IInv, BatchInv
<1> QED BY <1>2, <1>3, <1>4, <1>5, <1>6, <1>7, <1>8, <1>9 DEF IInv

(* ... its arguments too ... *)
LEMMA FillArgsKeeps == ASSUME SoleProducer, IInv, NEW t \in Thread, FillArgs(t) PROVE IInv'
<1>1. /\ pc[t] = "args"
      /\ args' = [args EXCEPT ![t] = call[t]] /\ result' = [result EXCEPT ![t] = NoResult]
      /\ pc' = [pc EXCEPT ![t] = "clear"]
      /\ UNCHANGED <<ops, completion, slots, prodHead, prodTail, consTail, kind, call, tries,
                     head, ret, batch, fpc, cur, alarms, runs, clean>>
  BY DEF FillArgs, Goto, scVars, ringVars, appVars, histVars
<1>2. TypeOK'
  BY <1>1, NoResultIsResult DEF IInv, TypeOK
<1>3. IndexInv'
  BY <1>1 DEF IInv, TypeOK, WithinCapacity, Room, IndexInv, SoleProducer
<1>4. WaitInv'
  BY <1>1 DEF IInv, TypeOK, WaitInv, SoleProducer
<1>5. FillInv'
  BY <1>1 DEF IInv, TypeOK, FillInv, SoleProducer
<1>6. CleanInv'
  BY <1>1 DEF IInv, TypeOK, CleanInv, BatchInv, SoleProducer
<1>7. OwnAnswer'
  BY <1>1 DEF IInv, TypeOK, OwnAnswer, SoleProducer
<1>8. RunsInv'
  BY <1>1 DEF IInv, TypeOK, RunsInv, SoleProducer
<1>9. (BatchInv)'
  BY <1>1 DEF IInv, BatchInv
<1> QED BY <1>2, <1>3, <1>4, <1>5, <1>6, <1>7, <1>8, <1>9 DEF IInv

(* ... completion is cleared ... *)
LEMMA ClearKeeps == ASSUME SoleProducer, IInv, NEW t \in Thread, Clear(t) PROVE IInv'
<1>1. /\ pc[t] = "clear"
      /\ completion' = [completion EXCEPT ![t] = 0]
      /\ pc' = [pc EXCEPT ![t] = "enqueue"]
      /\ UNCHANGED <<ops, args, result, slots, prodHead, prodTail, consTail, kind, call,
                     tries, head, ret, batch, fpc, cur, alarms, runs, clean>>
  BY DEF Clear, ClearCompletion, Goto, scVars, ringVars, appVars, histVars
<1>2. TypeOK'
  BY <1>1 DEF IInv, TypeOK
<1>3. IndexInv'
  BY <1>1 DEF IInv, TypeOK, WithinCapacity, Room, IndexInv, SoleProducer
<1>4. WaitInv'
  BY <1>1 DEF IInv, TypeOK, WaitInv, SoleProducer
<1>5. FillInv'
  BY <1>1 DEF IInv, TypeOK, FillInv, SoleProducer
<1>6. CleanInv'
  BY <1>1 DEF IInv, TypeOK, CleanInv, SoleProducer
<1>7. OwnAnswer'
  BY <1>1 DEF IInv, TypeOK, OwnAnswer, SoleProducer
<1>8. RunsInv'
  BY <1>1 DEF IInv, TypeOK, RunsInv, SoleProducer
<1>9. (BatchInv)'
  BY <1>1 DEF IInv, BatchInv
<1> QED BY <1>2, <1>3, <1>4, <1>5, <1>6, <1>7, <1>8, <1>9 DEF IInv

(* ... and the context put on the ring: prod.head is read ... *)
LEMMA EnqueueHeadKeeps == ASSUME SoleProducer, IInv, NEW t \in Thread, EnqueueHead(t) PROVE IInv'
<1>1. /\ pc[t] = "enqueue" /\ Room
      /\ head' = [head EXCEPT ![t] = prodHead]
      /\ pc' = [pc EXCEPT ![t] = "advance"]
      /\ UNCHANGED <<ops, args, result, completion, slots, prodHead, prodTail, consTail,
                     kind, call, tries, ret, batch, fpc, cur, alarms, runs, clean>>
  BY DEF EnqueueHead, Goto, scVars, ringVars, appVars, histVars
<1>2. TypeOK'
  BY <1>1 DEF IInv, TypeOK
<1>3. IndexInv'
  BY <1>1 DEF IInv, TypeOK, WithinCapacity, Room, IndexInv, SoleProducer
<1>4. WaitInv'
  BY <1>1 DEF IInv, TypeOK, WaitInv, SoleProducer
<1>5. FillInv'
  BY <1>1 DEF IInv, TypeOK, FillInv, SoleProducer
<1>6. CleanInv'
  BY <1>1 DEF IInv, TypeOK, CleanInv, SoleProducer
<1>7. OwnAnswer'
  BY <1>1 DEF IInv, TypeOK, OwnAnswer, SoleProducer
<1>8. RunsInv'
  BY <1>1 DEF IInv, TypeOK, RunsInv, SoleProducer
<1>9. (BatchInv)'
  BY <1>1 DEF IInv, BatchInv
<1> QED BY <1>2, <1>3, <1>4, <1>5, <1>6, <1>7, <1>8, <1>9 DEF IInv

(* ... the slot filled ... *)
LEMMA EnqueueSlotKeeps == ASSUME SoleProducer, IInv, NEW t \in Thread, EnqueueSlot(t) PROVE IInv'
<1>1. /\ pc[t] = "advance"
      /\ prodHead' = head[t] + 1
      /\ slots' = [slots EXCEPT ![head[t] % RingSize] = t]
      /\ pc' = [pc EXCEPT ![t] = "publish"]
      /\ UNCHANGED <<ops, args, result, completion, prodTail, consTail, kind, call, tries,
                     head, ret, batch, fpc, cur, alarms, runs, clean>>
  BY DEF EnqueueSlot, Goto, scVars, ringVars, appVars, histVars
<1>2. TypeOK'
  <2>1. head[t] % RingSize \in Slot /\ head[t] + 1 \in Nat
    BY SlotOf DEF IInv, TypeOK
  <2> QED BY <1>1, <2>1 DEF IInv, TypeOK
<1>3. IndexInv'
  <2>1. head[t] = prodHead /\ prodHead = prodTail /\ Room
    BY <1>1 DEF IInv, IndexInv
  <2>2. \A i \in Nat : i % RingSize \in Slot
    BY SlotOf
  <2>3. WithinCapacity'
    BY <1>1, <2>1, RingFacts DEF IInv, TypeOK, IndexInv, WithinCapacity, Room
  <2>4. slots'[head[t] % RingSize] = t
    BY <1>1, <2>2 DEF IInv, TypeOK
  <2>5. ASSUME NEW i \in (consTail .. prodTail - 1)' PROVE slots'[i % RingSize] \in Thread
    <3>1. i \in Nat /\ i \in consTail .. prodTail - 1
      BY <1>1 DEF IInv, TypeOK
    <3>2. slots[i % RingSize] \in Thread /\ i % RingSize \in Slot
      BY <2>2, <3>1 DEF IInv, IndexInv
    <3> QED BY <1>1, <3>2 DEF IInv, TypeOK
  <2>6. ASSUME NEW u \in Thread
        PROVE  /\ pc'[u] = "publish" /\ head'[u] = prodTail'
               /\ prodHead' = prodTail' + 1 /\ slots'[head'[u] % RingSize] = u
    BY <1>1, <2>1, <2>4 DEF IInv, TypeOK, SoleProducer
  <2> QED BY <2>3, <2>5, <2>6 DEF IndexInv
<1>4. WaitInv'
  BY <1>1 DEF IInv, TypeOK, WaitInv, SoleProducer
<1>5. FillInv'
  BY <1>1 DEF IInv, TypeOK, FillInv, SoleProducer
<1>6. CleanInv'
  BY <1>1 DEF IInv, TypeOK, CleanInv, SoleProducer
<1>7. OwnAnswer'
  BY <1>1 DEF IInv, TypeOK, OwnAnswer, SoleProducer
<1>8. RunsInv'
  BY <1>1 DEF IInv, TypeOK, RunsInv, SoleProducer
<1>9. (BatchInv)'
  BY <1>1 DEF IInv, BatchInv
<1> QED BY <1>2, <1>3, <1>4, <1>5, <1>6, <1>7, <1>8, <1>9 DEF IInv

(* ... and published. *)
LEMMA EnqueueTailKeeps == ASSUME SoleProducer, IInv, NEW t \in Thread, EnqueueTail(t) PROVE IInv'
<1>1. /\ pc[t] = "publish"
      /\ prodTail' = head[t] + 1
      /\ pc' = [pc EXCEPT ![t] = "wait"]
      /\ UNCHANGED <<ops, args, result, completion, slots, prodHead, consTail, kind, call,
                     tries, head, ret, batch, fpc, cur, alarms, runs, clean>>
  BY DEF EnqueueTail, Goto, scVars, ringVars, appVars, histVars
<1>2. TypeOK'
  <2>1. head[t] + 1 \in Nat
    BY DEF IInv, TypeOK
  <2> QED BY <1>1, <2>1 DEF IInv, TypeOK
<1>3. IndexInv'
  <2>1. prodTail' = prodTail + 1 /\ prodHead = prodTail + 1 /\ slots[prodTail % RingSize] = t
    BY <1>1 DEF IInv, IndexInv
  <2>2. ASSUME NEW i \in (consTail .. prodTail - 1)' PROVE slots'[i % RingSize] \in Thread
    <3>1. i = prodTail \/ i \in consTail .. prodTail - 1
      BY <1>1, <2>1 DEF IInv, TypeOK
    <3> QED BY <1>1, <2>1, <3>1 DEF IInv, IndexInv
  <2>3. WithinCapacity'
    BY <1>1, <2>1 DEF IInv, TypeOK, IndexInv, WithinCapacity
  <2>4. ASSUME NEW u \in Thread PROVE pc'[u] = "wait" /\ prodHead' = prodTail'
    BY <1>1, <2>1 DEF IInv, TypeOK, SoleProducer
  <2> QED BY <2>2, <2>3, <2>4 DEF IndexInv
<1>4. WaitInv'
  BY <1>1 DEF IInv, TypeOK, IndexInv, WithinCapacity, WaitInv, SoleProducer
<1>5. FillInv'
  BY <1>1 DEF IInv, TypeOK, FillInv, SoleProducer
<1>6. CleanInv'
  BY <1>1 DEF IInv, TypeOK, IndexInv, WithinCapacity, CleanInv, SoleProducer
<1>7. OwnAnswer'
  BY <1>1 DEF IInv, TypeOK, OwnAnswer, SoleProducer
<1>8. RunsInv'
  BY <1>1 DEF IInv, TypeOK, RunsInv, SoleProducer
<1>9. (BatchInv)'
  BY <1>1 DEF IInv, BatchInv
<1> QED BY <1>2, <1>3, <1>4, <1>5, <1>6, <1>7, <1>8, <1>9 DEF IInv

(* A wait ends with completion set. *)
LEMMA CompletedKeeps == ASSUME SoleProducer, IInv, NEW t \in Thread, Completed(t) PROVE IInv'
<1>1. /\ pc[t] = "wait" /\ completion[t] = 1
      /\ \/ Retries(kind[t]) /\ pc' = [pc EXCEPT ![t] = "ops"] /\ ret' = ret
         \/ pc' = [pc EXCEPT ![t] = "user"] /\ ret' = [ret EXCEPT ![t] = result[t]]
      /\ UNCHANGED <<ops, args, result, completion, slots, prodHead, prodTail, consTail,
                     kind, call, tries, head, batch, fpc, cur, alarms, runs, clean>>
  BY DEF Completed, Return, Goto, scVars, ringVars, appVars, histVars
<1>2. TypeOK'
  <2>0. /\ ret \in [Thread -> Result] /\ result \in [Thread -> Result]
        /\ pc \in [Thread -> {"user", "ops", "args", "clear", "enqueue", "advance", "publish",
                              "wait"}]
    BY DEF IInv, TypeOK
  <2>1. ret' \in [Thread -> Result]
    BY <1>1, <2>0
  <2>2. pc' \in [Thread -> {"user", "ops", "args", "clear", "enqueue", "advance", "publish",
                            "wait"}]
    BY <1>1, <2>0
  <2> QED BY <1>1, <2>1, <2>2 DEF IInv, TypeOK
<1>3. IndexInv'
  BY <1>1 DEF IInv, TypeOK, WithinCapacity, Room, IndexInv, SoleProducer
<1>4. WaitInv'
  BY <1>1 DEF IInv, TypeOK, WaitInv, SoleProducer
<1>5. FillInv'
  BY <1>1 DEF IInv, TypeOK, FillInv, SoleProducer
<1>6. CleanInv'
  BY <1>1 DEF IInv, TypeOK, CleanInv, SoleProducer
<1>7. OwnAnswer'
  BY <1>1 DEF IInv, TypeOK, CleanInv, OwnAnswer, SoleProducer
<1>8. RunsInv'
  BY <1>1 DEF IInv, TypeOK, RunsInv, Retries, SoleProducer
<1>9. (BatchInv)'
  BY <1>1 DEF IInv, BatchInv
<1> QED BY <1>2, <1>3, <1>4, <1>5, <1>6, <1>7, <1>8, <1>9 DEF IInv

(* A wait ends with the time; its entry stays where it is. *)
LEMMA TimedOutKeeps == ASSUME SoleProducer, IInv, NEW t \in Thread, TimedOut(t) PROVE IInv'
<1>1. /\ pc[t] = "wait" /\ completion[t] = 0
      /\ clean' = [clean EXCEPT ![t] = FALSE]
      /\ \/ pc' = [pc EXCEPT ![t] = "ops"] /\ ret' = ret
         \/ pc' = [pc EXCEPT ![t] = "user"] /\ ret' = [ret EXCEPT ![t] = NoResult]
      /\ UNCHANGED <<ops, args, result, completion, slots, prodHead, prodTail, consTail,
                     kind, call, tries, head, batch, fpc, cur, alarms, runs>>
  BY DEF TimedOut, Return, Goto, scVars, ringVars, appVars, histVars
<1>2. TypeOK'
  <2>0. /\ ret \in [Thread -> Result] /\ result \in [Thread -> Result]
        /\ pc \in [Thread -> {"user", "ops", "args", "clear", "enqueue", "advance", "publish",
                              "wait"}]
    BY DEF IInv, TypeOK
  <2>1. ret' \in [Thread -> Result]
    BY <1>1, <2>0, NoResultIsResult
  <2>2. pc' \in [Thread -> {"user", "ops", "args", "clear", "enqueue", "advance", "publish",
                            "wait"}]
    BY <1>1, <2>0
  <2>3. clean' \in [Thread -> BOOLEAN]
    BY <1>1 DEF IInv, TypeOK
  <2> QED BY <1>1, <2>1, <2>2, <2>3 DEF IInv, TypeOK
<1>3. IndexInv'
  BY <1>1 DEF IInv, TypeOK, WithinCapacity, Room, IndexInv, SoleProducer
<1>4. WaitInv'
  BY <1>1 DEF IInv, TypeOK, WaitInv, SoleProducer
<1>5. FillInv'
  BY <1>1 DEF IInv, TypeOK, FillInv, SoleProducer
<1>6. CleanInv'
  BY <1>1 DEF IInv, TypeOK, CleanInv, SoleProducer
<1>7. OwnAnswer'
  BY <1>1 DEF IInv, TypeOK, OwnAnswer, SoleProducer
<1>8. RunsInv'
  BY <1>1 DEF IInv, TypeOK, RunsInv, SoleProducer
<1>9. (BatchInv)'
  BY <1>1 DEF IInv, BatchInv
<1> QED BY <1>2, <1>3, <1>4, <1>5, <1>6, <1>7, <1>8, <1>9 DEF IInv

(* An alarm sets completion. *)
LEMMA AlarmKeeps == ASSUME SoleProducer, IInv, NEW t \in Thread, Alarm(t) PROVE IInv'
<1>1. /\ alarms < MaxAlarms /\ alarms' = alarms + 1
      /\ completion' = [completion EXCEPT ![t] = 1] /\ clean' = [clean EXCEPT ![t] = FALSE]
      /\ UNCHANGED <<ops, args, result, slots, prodHead, prodTail, consTail, pc, kind, call,
                     tries, head, ret, batch, fpc, cur, runs>>
  BY DEF Alarm, Goto, scVars, ringVars, appVars, histVars
<1>2. TypeOK'
  <2>1. alarms' \in 0 .. MaxAlarms
    BY <1>1, RingIpcAssumption DEF IInv, TypeOK
  <2> QED BY <1>1, <2>1 DEF IInv, TypeOK
<1>3. WaitInv'
  BY <1>1 DEF IInv, TypeOK, WaitInv, SoleProducer
<1>4. CleanInv'
  BY <1>1 DEF IInv, TypeOK, CleanInv, SoleProducer
<1>5. OwnAnswer'
  BY <1>1 DEF IInv, TypeOK, OwnAnswer, SoleProducer
<1>6. RunsInv'
  BY <1>1 DEF IInv, TypeOK, RunsInv, SoleProducer
<1>7. (IndexInv /\ BatchInv /\ FillInv)'
  BY <1>1 DEF IInv, IndexInv, BatchInv, FillInv, WithinCapacity, Room
<1> QED BY <1>2, <1>3, <1>4, <1>5, <1>6, <1>7 DEF IInv

-----------------------------------------------------------------------------
(* fstack takes all that is published: each entry is a thread. *)
LEMMA DequeueKeeps ==
  ASSUME SoleProducer, IInv, Dequeue, fpc' = "ring" PROVE IInv'
<1>1. /\ fpc = "ring" /\ batch = <<>> /\ consTail < prodTail
      /\ batch' = [i \in 1 .. Burst |-> slots[(consTail + i - 1) % RingSize]]
      /\ consTail' = prodTail
      /\ UNCHANGED <<ops, args, result, completion, slots, prodHead, prodTail, pc, kind, call,
                     tries, head, ret, fpc, cur, alarms, runs, clean>>
  BY DEF Dequeue, scVars, appVars, histVars
<1>2. Burst \in Nat /\ Burst > 0 /\ Burst = prodTail - consTail
  BY <1>1 DEF Burst, IInv, TypeOK
<1>3. batch' \in Seq(Thread) /\ Len(batch') = Burst
  <2>1. ASSUME NEW i \in 1 .. Burst PROVE slots[(consTail + i - 1) % RingSize] \in Thread
    <3>1. consTail + i - 1 \in consTail .. prodTail - 1
      BY <1>2 DEF IInv, TypeOK
    <3> QED BY <3>1 DEF IInv, IndexInv
  <2>2. DOMAIN batch' = 1 .. Burst
    BY <1>1
  <2>3. batch' \in [1 .. Burst -> Thread]
    BY <1>1, <2>1
  <2>4. batch' \in Seq(Thread)
    BY <1>2, <2>3, SeqDef
  <2> QED BY <1>2, <2>2, <2>4, LenProperties
<1>4. batch' # <<>>
  BY <1>2, <1>3, EmptySeq
<1>5. TypeOK'
  BY <1>1, <1>3 DEF IInv, TypeOK
<1>6. IndexInv'
  BY <1>1, RingFacts DEF IInv, TypeOK, IndexInv, WithinCapacity, Room
<1>7. (BatchInv /\ WaitInv)'
  BY <1>4 DEF BatchInv, WaitInv
<1>8. CleanInv'
  <2>1. ASSUME NEW t \in Thread, clean[t]
        PROVE  pc[t] = "wait" /\ completion[t] = 0 /\ prodTail = consTail + 1
    BY <1>1, <2>1 DEF IInv, TypeOK, CleanInv
  <2>2. ASSUME NEW t \in Thread, clean[t] PROVE Len(batch') = 1 /\ prodTail = consTail'
    BY <1>1, <1>2, <1>3, <2>1, <2>2 DEF IInv, TypeOK
  <2> QED BY <1>1, <2>1, <2>2 DEF CleanInv
<1>9. (FillInv /\ OwnAnswer /\ RunsInv)'
  BY <1>1 DEF IInv, FillInv, OwnAnswer, RunsInv
<1> QED BY <1>5, <1>6, <1>7, <1>8, <1>9 DEF IInv

(* A burst that overruns the table stops fstack; no call is clean then. *)
LEMMA OverrunKeeps ==
  ASSUME SoleProducer, IInv, Dequeue, fpc' # "ring" PROVE IInv'
<1>1. /\ fpc = "ring" /\ batch = <<>> /\ batch' = <<>> /\ fpc' = "overrun" /\ Overruns
      /\ consTail' = prodTail
      /\ UNCHANGED <<ops, args, result, completion, slots, prodHead, prodTail, pc, kind, call,
                     tries, head, ret, cur, alarms, runs, clean>>
  BY DEF Dequeue, scVars, appVars, histVars
<1>2. prodTail - consTail > 1
  BY <1>1, RingIpcAssumption DEF Overruns, Burst, IInv, TypeOK
<1>3. TypeOK'
  BY <1>1 DEF IInv, TypeOK
<1>4. IndexInv'
  BY <1>1, RingFacts DEF IInv, TypeOK, IndexInv, WithinCapacity, Room
<1>5. (BatchInv /\ WaitInv)'
  BY <1>1 DEF BatchInv, WaitInv
<1>6. ASSUME NEW t \in Thread PROVE ~clean[t]
  BY <1>1, <1>2 DEF IInv, TypeOK, CleanInv
<1>7. (CleanInv /\ OwnAnswer /\ RunsInv)'
  BY <1>1, <1>6 DEF CleanInv, OwnAnswer, RunsInv
<1>8. FillInv'
  BY <1>1 DEF IInv, FillInv
<1> QED BY <1>3, <1>4, <1>5, <1>7, <1>8 DEF IInv

(* The context that fstack handles is the sole producer's. *)
LEMMA HeadOfBatch ==
  ASSUME SoleProducer, TypeOK, batch # <<>>, NEW t \in Thread PROVE Head(batch) = t
BY HeadTailProperties DEF TypeOK, SoleProducer

(* fstack reads the request: a clean one is whole. *)
LEMMA BeginKeeps == ASSUME SoleProducer, IInv, Begin PROVE IInv'
<1>1. /\ fpc = "ring" /\ batch # <<>> /\ fpc' = "run"
      /\ cur' = IF ops[Head(batch)] = args[Head(batch)] THEN ops[Head(batch)] ELSE Torn
      /\ UNCHANGED <<ops, args, result, completion, slots, prodHead, prodTail, consTail, pc,
                     kind, call, tries, head, ret, batch, alarms, runs, clean>>
  BY DEF Begin, scVars, ringVars, appVars, histVars
<1>2. Head(batch) \in Thread
  BY <1>1, HeadTailProperties DEF IInv, TypeOK
<1>3. cur' \in Torn .. MaxCalls
  <2>1. ops[Head(batch)] \in 0 .. MaxCalls
    BY <1>2 DEF IInv, TypeOK
  <2> QED BY <1>1, <2>1, RingIpcAssumption DEF Torn
<1>4. TypeOK'
  BY <1>1, <1>3 DEF IInv, TypeOK
<1>5. CleanInv'
  <2>1. ASSUME NEW t \in Thread, clean[t] PROVE pc[t] = "wait" /\ cur' = call[t]
    <3>1. pc[t] = "wait"
      BY <1>1, <2>1 DEF IInv, CleanInv
    <3>2. Head(batch) = t
      BY <1>1, HeadOfBatch DEF IInv
    <3> QED BY <1>1, <3>1, <3>2 DEF IInv, FillInv
  <2> QED BY <1>1, <2>1 DEF IInv, CleanInv
<1>6. RunsInv'
  BY <1>1 DEF IInv, RunsInv
<1>7. (IndexInv /\ BatchInv /\ WaitInv /\ FillInv /\ OwnAnswer)'
  BY <1>1 DEF IInv, IndexInv, WithinCapacity, Room, BatchInv, WaitInv, FillInv, OwnAnswer
<1> QED BY <1>4, <1>5, <1>6, <1>7 DEF IInv

(* The handler's result, and the one execution of a clean call. *)
LEMMA FinishKeeps == ASSUME SoleProducer, IInv, Finish PROVE IInv'
<1> DEFINE c == Head(batch)
<1>1. /\ fpc = "run" /\ fpc' = "respond" /\ batch # <<>>
      /\ runs' = IF cur = call[c] THEN [runs EXCEPT ![c] = @ + 1] ELSE runs
      /\ UNCHANGED <<ops, args, completion, slots, prodHead, prodTail, consTail, pc,
                     kind, call, tries, head, ret, batch, cur, alarms, clean>>
  BY DEF Finish, scVars, ringVars, appVars, IInv, BatchInv
<1>2. PICK v \in {0, 1} : result' = [result EXCEPT ![c] = [by |-> cur, val |-> v]]
  BY DEF Finish, HandlerValues
<1>3. c \in Thread
  BY <1>1, HeadTailProperties DEF IInv, TypeOK
<1>4. \A t \in Thread : c = t
  BY <1>1, HeadOfBatch DEF IInv
<1> HIDE DEF c
<1>5. TypeOK'
  <2>1. [by |-> cur, val |-> v] \in Result
    BY DEF IInv, TypeOK, Result
  <2>2. result' \in [Thread -> Result]
    BY <1>2, <2>1 DEF IInv, TypeOK
  <2>3. runs' \in [Thread -> Nat]
    <3>1. runs \in [Thread -> Nat] /\ runs[c] + 1 \in Nat
      BY <1>3 DEF IInv, TypeOK
    <3> QED BY <1>1, <1>3, <3>1
  <2> QED BY <1>1, <2>2, <2>3 DEF IInv, TypeOK
<1>6. CleanInv'
  <2>1. ASSUME NEW t \in Thread, clean[t]
        PROVE  pc[t] = "wait" /\ completion[t] = 0 /\ cur = call[t] /\ result'[t].by = call[t]
    BY <1>1, <1>2, <1>4, <2>1 DEF IInv, TypeOK, CleanInv
  <2> QED BY <1>1, <2>1 DEF IInv, CleanInv
<1>7. RunsInv'
  <2>1. ASSUME NEW t \in Thread, clean[t], kind[t].op = "call"
        PROVE  pc[t] = "wait" /\ runs[t] = 0
    BY <1>1, <2>1 DEF IInv, CleanInv, RunsInv
  <2>2. ASSUME NEW t \in Thread, clean[t], kind[t].op = "call" PROVE runs'[t] <= 1
    BY <1>1, <1>3, <1>4, <2>1, <2>2 DEF IInv, TypeOK
  <2> QED BY <1>1, <2>1, <2>2 DEF RunsInv
<1>8. (IndexInv /\ BatchInv /\ WaitInv /\ FillInv /\ OwnAnswer)'
  BY <1>1 DEF IInv, IndexInv, WithinCapacity, Room, BatchInv, WaitInv, FillInv, OwnAnswer
<1> QED BY <1>5, <1>6, <1>7, <1>8 DEF IInv

(* The answer is handed over. *)
LEMMA RespondKeeps == ASSUME SoleProducer, IInv, Respond PROVE IInv'
<1>1. /\ fpc = "respond" /\ fpc' = "ring" /\ batch # <<>> /\ cur' = NoCall
      /\ completion' = [completion EXCEPT ![Head(batch)] = 1] /\ batch' = Tail(batch)
      /\ UNCHANGED <<ops, args, result, slots, prodHead, prodTail, consTail, pc,
                     kind, call, tries, head, ret, alarms, runs, clean>>
  BY DEF Respond, Notify, scVars, ringVars, appVars, histVars, IInv, BatchInv
<1>2. /\ Head(batch) \in Thread /\ batch' \in Seq(Thread) /\ Len(batch') = Len(batch) - 1
  BY <1>1, HeadTailProperties DEF IInv, TypeOK
<1>3. \A t \in Thread : completion'[t] = 1
  BY <1>1, HeadOfBatch DEF IInv, TypeOK
<1>4. TypeOK'
  <2>1. cur' \in Torn .. MaxCalls
    BY <1>1, RingIpcAssumption DEF NoCall, Torn
  <2>2. completion' \in [Thread -> {0, 1}]
    BY <1>1 DEF IInv, TypeOK
  <2> QED BY <1>1, <1>2, <2>1, <2>2 DEF IInv, TypeOK
<1>5. WaitInv'
  BY <1>3 DEF WaitInv
<1>6. CleanInv'
  <2>1. ASSUME NEW t \in Thread, clean[t]
        PROVE  /\ pc[t] = "wait" /\ completion'[t] = 1 /\ prodTail = consTail
               /\ batch' = <<>> /\ result[t].by = call[t]
    <3>1. pc[t] = "wait" /\ result[t].by = call[t]
      BY <1>1, <2>1 DEF IInv, CleanInv
    <3>2. prodTail = consTail /\ Len(batch) = 1
      BY <1>1, <2>1, <3>1 DEF IInv, CleanInv
    <3>3. batch' = <<>>
      BY <1>2, <3>2, EmptySeq
    <3> QED BY <1>3, <3>1, <3>2, <3>3
  <2> QED BY <1>1, <2>1 DEF CleanInv
<1>7. RunsInv'
  BY <1>1, <1>3 DEF IInv, RunsInv
<1>8. (IndexInv /\ BatchInv /\ FillInv /\ OwnAnswer)'
  BY <1>1 DEF IInv, IndexInv, WithinCapacity, Room, BatchInv, FillInv, OwnAnswer
<1> QED BY <1>4, <1>5, <1>6, <1>7, <1>8 DEF IInv

-----------------------------------------------------------------------------
(* The initial state: an empty ring and threads outside a call. *)
LEMMA InitHolds == ASSUME Init PROVE IInv
<1>1. TypeOK
  <2>1. /\ NoCall \in 0 .. MaxCalls /\ NoCall \in Torn .. MaxCalls /\ 0 \in 0 .. MaxTries
        /\ 0 \in 0 .. MaxAlarms /\ NoKind \in Kind
    BY RingIpcAssumption DEF NoCall, Torn, NoKind, Kind
  <2>2. <<>> \in Seq(Thread)
    BY EmptySeq
  <2> QED BY <2>1, <2>2, NoResultIsResult DEF Init, TypeOK
<1>2. IndexInv
  BY RingFacts DEF Init, IndexInv, WithinCapacity
<1>3. BatchInv /\ WaitInv /\ FillInv /\ RunsInv
  BY DEF Init, BatchInv, WaitInv, FillInv, RunsInv
<1>4. CleanInv /\ OwnAnswer
  BY DEF Init, CleanInv, OwnAnswer, NoResult, NoCall
<1> QED BY <1>1, <1>2, <1>3, <1>4 DEF IInv

(* Every step keeps the invariant. *)
LEMMA NextKeeps == ASSUME SoleProducer, IInv, [Next]_vars PROVE IInv'
<1>1. CASE \E t \in Thread : App(t)
  BY <1>1, StartCallKeeps, FillOpsKeeps, FillArgsKeeps, ClearKeeps, EnqueueHeadKeeps,
     EnqueueSlotKeeps, EnqueueTailKeeps, CompletedKeeps, TimedOutKeeps DEF App
<1>2. CASE \E t \in Thread : Alarm(t)
  BY <1>2, AlarmKeeps
<1>3. CASE Fstack
  BY <1>3, DequeueKeeps, OverrunKeeps, BeginKeeps, FinishKeeps, RespondKeeps DEF Fstack
<1>4. CASE UNCHANGED vars
  BY <1>4 DEF vars, scVars, ringVars, appVars, histVars, IInv, TypeOK, IndexInv,
     WithinCapacity, Room, BatchInv, WaitInv, FillInv, CleanInv, OwnAnswer, RunsInv
<1> QED BY <1>1, <1>2, <1>3, <1>4 DEF Next, Done

(* The invariant holds in every reachable state of ff_ring_submit_and_wait *)
(* and ff_handle_socket_ops_ring, if the ring has a sole producer.         *)
THEOREM Inductive == ASSUME SoleProducer PROVE Spec => []IInv
BY InitHolds, NextKeeps, PTL DEF Spec

(* Type correctness of the ring channel for any calls, any ring size and   *)
(* any number of calls, submissions and alarms.                            *)
THEOREM TypeCorrect == ASSUME SoleProducer PROVE Spec => []TypeOK
<1>1. IInv => TypeOK
  BY DEF IInv
<1> QED BY <1>1, Inductive, PTL

(* FT-048, "no loss": a thread that waits in ff_ring_submit_and_wait has   *)
(* its context on the ring or with fstack, or its completion is set, unless *)
(* a burst that overran objs[] has stopped fstack.                         *)
THEOREM RequestsKept == ASSUME SoleProducer PROVE Spec => []NoRequestLost
<1>1. IInv => NoRequestLost
  BY WhereItIs DEF IInv, WaitInv, NoRequestLost
<1> QED BY <1>1, Inductive, PTL

(* A table with room for what the ring holds is never overrun: as many     *)
(* entries as FF_RING_SIZE - 1 in objs[] of ff_handle_each_context are     *)
(* enough.  (The code's SOCKET_OPS_CONTEXT_MAX_NUM are not:                *)
(* RingIpcOverrun.cfg.)                                                    *)
THEOREM TableFits ==
  ASSUME SoleProducer, RingSize - 1 <= ObjsMax PROVE Spec => []BurstFits
<1>1. Init => BurstFits
  BY DEF Init, BurstFits
<1>2. ASSUME IInv, BurstFits, [Next]_vars PROVE BurstFits'
  <2>1. CASE \E t \in Thread : App(t) \/ Alarm(t)
    BY <1>2, <2>1 DEF App, StartCall, FillOps, FillArgs, Clear, EnqueueHead, EnqueueSlot,
       EnqueueTail, Completed, TimedOut, Alarm, BurstFits
  <2>2. CASE Dequeue
    <3>1. prodTail - consTail <= RingSize - 1
      BY <1>2, RingFacts DEF IInv, IndexInv, WithinCapacity, TypeOK
    <3>2. prodTail - consTail \in Int /\ ObjsMax \in Nat /\ RingSize - 1 \in Int
      BY <1>2, RingFacts, RingIpcAssumption DEF IInv, TypeOK
    <3>3. ~Overruns
      BY <3>1, <3>2 DEF Overruns, Burst
    <3> QED BY <2>2, <3>3 DEF Dequeue, BurstFits
  <2>3. CASE Begin \/ Finish \/ Respond
    BY <2>3 DEF Begin, Finish, Respond, BurstFits
  <2>4. CASE UNCHANGED vars
    BY <1>2, <2>4 DEF vars, BurstFits
  <2> QED BY <1>2, <2>1, <2>2, <2>3, <2>4 DEF Next, Done, Fstack
<1> QED BY <1>1, <1>2, Inductive, PTL DEF Spec

(* The three steps of rte_ring_sp_enqueue never fill more than the ring    *)
(* holds, and never publish what they have not filled.                     *)
THEOREM CapacityKept == ASSUME SoleProducer PROVE Spec => []WithinCapacity
<1>1. IInv => WithinCapacity
  BY DEF IInv, IndexInv
<1> QED BY <1>1, Inductive, PTL

(* A call that begins with nothing of its thread with fstack, and whose    *)
(* wait is not cut short, returns what was computed for it.                *)
THEOREM AnswersAreOwn == ASSUME SoleProducer PROVE Spec => []OwnAnswer
<1>1. IInv => OwnAnswer
  BY DEF IInv
<1> QED BY <1>1, Inductive, PTL

(* Such a call, if it is an ordinary one, is executed at most once by      *)
(* ff_handle_socket_ops_ring.                                              *)
THEOREM CallsRunAtMostOnce == ASSUME SoleProducer PROVE Spec => []AtMostOnce
<1>1. IInv => AtMostOnce
  BY DEF IInv, RunsInv, AtMostOnce
<1> QED BY <1>1, Inductive, PTL
=============================================================================

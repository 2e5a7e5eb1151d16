---------------------------- MODULE SemIpcProof ----------------------------
(***************************************************************************)
(* Proofs about SemIpc, for any number of threads, any calls and any       *)
(* bounds.  The argument: sc->lock gives its holder the context to itself; *)
(* so the status, the request and the result only change hands in the      *)
(* order IDLE, REQ, REP; so the thread that is waiting is the one whose    *)
(* request is in the context, and the answer in it is that thread's own.   *)
(***************************************************************************)
EXTENDS SemIpc, FiniteSets, FiniteSetTheorems, TLAPS

Holds(t) == pc[t] \in {"fill", "read", "semDone"}

(* sc->lock is taken by at most one of: a thread, a handler, fstack. *)
LockInv ==
  /\ \A t \in Thread : Holds(t) => locked /\ fpc # "run"
  /\ \A s \in SigThread : sig[s] = "post" => locked /\ fpc # "run"
  /\ fpc = "run" => locked
  /\ \A t, u \in Thread : Holds(t) /\ Holds(u) => t = u
  /\ \A r, s \in SigThread : sig[r] = "post" /\ sig[s] = "post" => r = s
  /\ \A t \in Thread, s \in SigThread : ~(Holds(t) /\ sig[s] = "post")

(* Where a thread or fstack is tells what the status is. *)
StatusInv ==
  /\ \A t \in Thread : pc[t] = "fill" => status = "IDLE"
  /\ \A t \in Thread : pc[t] = "read" => status = "REP"
  /\ fpc = "run" => status = "REQ"

(* The request in the context is that of the thread that waits for it. *)
OwnerInv ==
  /\ \A t \in Thread : InFlight(t) => args = t /\ ops = kind[t] /\ status # "IDLE"
  /\ status # "IDLE" => args \in Thread /\ InFlight(args)
  /\ \A t \in Thread : pc[t] # "user" => call[t] > 0 /\ kind[t] \in Kinds
  /\ \A t \in Thread : pc[t] \in {"repSpin", "repLock", "read"} => ~IsPoll(kind[t])
  /\ \A t \in Thread : pc[t] \in {"semWait", "semLock", "semDone"} => IsPoll(kind[t])

(* The value in the context is for the request in the context; a poll that *)
(* has not been answered has the value it put there itself.                *)
ResultInv ==
  /\ status = "REP" => result.by = <<args, call[args]>>
  /\ status # "IDLE" /\ IsPoll(ops) => result.by \in {NoRequest, <<args, call[args]>>}

(* How often the current call has been executed. *)
RunsInv ==
  \A t \in Thread : ~IsPoll(kind[t]) =>
    /\ pc[t] \in {"idleSpin", "idleLock", "fill"} => runs[t] = 0
    /\ InFlight(t) => runs[t] = (IF status = "REP" THEN 1 ELSE 0)
    /\ pc[t] = "user" => runs[t] = (IF call[t] > 0 THEN 1 ELSE 0)

(* A change is either still to be applied or has been, once. *)
ChangesInv ==
  \A t \in Thread :
    /\ applied[t] + nchanges[t] <= 1
    /\ nchanges[t] > 0 => kind[t].op = "kevent"

(* The signal handlers in progress. *)
Handlers == {s \in SigThread : sig[s] # "none"}

(* Tokens allowed for besides those of alarms: a poll that is past its     *)
(* sleep has taken one, or there was none; one that has its answer and not *)
(* woken yet has one more to take.                                         *)
Slack ==
  LET base == IF MaxStale > 1 THEN MaxStale ELSE 1
  IN IF \E t \in Thread : pc[t] \in {"semLock", "semDone"}
     THEN IF status = "REP" THEN base ELSE base - 1
     ELSE IF status = "REP" /\ IsPoll(ops) THEN base + 1 ELSE base

(* A handler in progress may still post one token; one that is done has    *)
(* posted at most one.                                                     *)
TokenInv ==
  /\ IsFiniteSet(Handlers)
  /\ Cardinality(Handlers) <= alarms
  /\ (\A k \in Kinds : k.timeout # "bad") =>
       wait_sem + Cardinality(Handlers) <= alarms + Slack

(* The inductive invariant. *)
IInv ==
  /\ TypeOK /\ LockInv /\ StatusInv /\ OwnerInv /\ ResultInv
  /\ OwnAnswer /\ RunsInv /\ ChangesInv /\ NoLostWakeup /\ TokenInv

-----------------------------------------------------------------------------
(* What the kinds of calls have in common. *)
LEMMA KindFacts ==
  ASSUME NEW k \in Kind
  PROVE  /\ k.nch \in {0, 1} /\ k.nev \in {0, 1}
         /\ k.nch = 1 => k.op = "kevent"
         /\ ~IsPoll(k) => k.nev = 0 /\ k.timeout = "none"
BY DEF Kind, IsPoll

(* The initial kind is a kind. *)
LEMMA NoKindIsKind == NoKind \in Kind
BY DEF NoKind, Kind

(* What a poll leaves or returns without an answer is a result. *)
LEMMA NoResultIsResult ==
  /\ NoResult \in Result /\ OldResult \in Result
  /\ [by |-> NoRequest, val |-> -1] \in Result
BY DEF NoResult, OldResult, Result

(* The numbers of TokenInv, before and after a step. *)
LEMMA SlackType == Slack \in Int /\ Slack' \in Int
BY SemIpcAssumption DEF Slack

(* ... and with what they are compared. *)
LEMMA TokenTypes ==
  ASSUME TypeOK, TypeOK', TokenInv
  PROVE  /\ Cardinality(Handlers) \in Nat /\ Slack \in Int /\ Slack' \in Int
         /\ wait_sem \in Nat /\ wait_sem' \in Nat /\ alarms \in Nat
BY SlackType, FS_CardinalityType DEF TypeOK, TokenInv

(* A thread that enters a hooked call has no request in the context yet. *)
LEMMA StartCallKeeps == ASSUME IInv, NEW t \in Thread, StartCall(t) PROVE IInv'
<1>1. TypeOK'
  <2>1. PICK k \in Kinds : /\ kind' = [kind EXCEPT ![t] = k]
                          /\ nchanges' = [nchanges EXCEPT ![t] = k.nch]
    BY DEF StartCall
  <2>2. k \in Kind /\ k.nch \in Nat
    BY SemIpcAssumption, KindFacts
  <2> QED
    BY <2>1, <2>2 DEF IInv, TypeOK, StartCall, Goto, scVars, sigVars
<1>2. LockInv'
  BY DEF IInv, LockInv, StartCall, Goto, scVars, sigVars, Holds
<1>3. StatusInv'
  BY DEF IInv, StatusInv, StartCall, Goto, scVars
<1>4. OwnerInv'
  BY DEF IInv, TypeOK, OwnerInv, StartCall, At, Goto, scVars, InFlight
<1>5. ResultInv'
  BY DEF IInv, ResultInv, StartCall, At, scVars, OwnerInv, InFlight
<1>6. OwnAnswer'
  BY DEF IInv, TypeOK, OwnAnswer, StartCall, Goto
<1>7. RunsInv'
  BY DEF IInv, TypeOK, RunsInv, StartCall, Goto, scVars, InFlight
<1>8. ChangesInv'
  <2>1. PICK k \in Kinds : /\ kind' = [kind EXCEPT ![t] = k]
                          /\ nchanges' = [nchanges EXCEPT ![t] = k.nch]
    BY DEF StartCall
  <2>2. k.nch \in {0, 1} /\ (k.nch = 1 => k.op = "kevent")
    BY SemIpcAssumption, KindFacts
  <2> QED
    BY <2>1, <2>2 DEF IInv, TypeOK, StartCall, ChangesInv
<1>9. NoLostWakeup'
  BY DEF IInv, NoLostWakeup, StartCall, Goto, scVars
<1>10. TokenInv'
  <2>1. Handlers' = Handlers /\ alarms' = alarms
    BY DEF StartCall, Handlers, sigVars
  <2>2. wait_sem' - Slack' <= wait_sem - Slack
    BY SemIpcAssumption DEF IInv, TypeOK, StartCall, Slack, Goto, scVars
  <2> QED
    BY <2>1, <2>2, <1>1, TokenTypes DEF IInv, TokenInv
<1> QED BY <1>1, <1>2, <1>3, <1>4, <1>5, <1>6, <1>7, <1>8, <1>9, <1>10 DEF IInv

(* The unlocked read of sc->status changes nothing but the thread's place. *)
LEMMA SeeStatusKeeps == ASSUME IInv, NEW t \in Thread, SeeStatus(t) PROVE IInv'
<1>1. TypeOK'
  BY DEF IInv, TypeOK, SeeStatus, Goto, scVars, sigVars, histVars
<1>2. LockInv'
  BY DEF IInv, TypeOK, LockInv, SeeStatus, Goto, scVars, sigVars, Holds
<1>3. StatusInv'
  BY DEF IInv, TypeOK, StatusInv, SeeStatus, Goto, scVars
<1>4. OwnerInv'
  BY DEF IInv, TypeOK, OwnerInv, SeeStatus, At, Goto, scVars, InFlight
<1>5. OwnAnswer'
  BY DEF IInv, TypeOK, OwnAnswer, SeeStatus, Goto
<1>6. RunsInv'
  BY DEF IInv, TypeOK, RunsInv, SeeStatus, At, Goto, scVars, histVars, InFlight
<1>7. NoLostWakeup'
  BY DEF IInv, TypeOK, NoLostWakeup, SeeStatus, Goto, scVars
<1>8. TokenInv'
  <2>1. Handlers' = Handlers /\ alarms' = alarms
    BY DEF SeeStatus, Handlers, sigVars
  <2>2. wait_sem' - Slack' <= wait_sem - Slack
    BY SemIpcAssumption DEF IInv, TypeOK, SeeStatus, Slack, Goto, scVars
  <2> QED
    BY <2>1, <2>2, <1>1, TokenTypes DEF IInv, TokenInv
<1>9. (ResultInv /\ ChangesInv)'
  BY DEF IInv, SeeStatus, ResultInv, ChangesInv, scVars, histVars
<1> QED BY <1>1, <1>2, <1>3, <1>4, <1>5, <1>6, <1>7, <1>8, <1>9 DEF IInv

(* ACQUIRE_ZONE_LOCK's second look: a thread that keeps the lock knows the *)
(* status.                                                                 *)
LEMMA TakeLockKeeps == ASSUME IInv, NEW t \in Thread, TakeLock(t) PROVE IInv'
<1>1. TypeOK'
  BY DEF IInv, TypeOK, TakeLock, Goto, sigVars, histVars, Acquire
<1>2. LockInv'
  BY DEF IInv, TypeOK, LockInv, TakeLock, Goto, sigVars, Acquire, Holds
<1>3. StatusInv'
  BY DEF IInv, TypeOK, StatusInv, TakeLock, Goto, Acquire, StatusIs
<1>4. OwnerInv'
  BY DEF IInv, TypeOK, OwnerInv, TakeLock, At, Goto, Acquire, InFlight
<1>5. OwnAnswer'
  BY DEF IInv, TypeOK, OwnAnswer, TakeLock, Goto, Acquire
<1>6. RunsInv'
  BY DEF IInv, TypeOK, RunsInv, TakeLock, At, Goto, histVars, Acquire, InFlight
<1>7. NoLostWakeup'
  BY DEF IInv, TypeOK, NoLostWakeup, TakeLock, Goto, Acquire
<1>8. TokenInv'
  <2>1. Handlers' = Handlers /\ alarms' = alarms
    BY DEF TakeLock, Handlers, sigVars
  <2>2. wait_sem' - Slack' <= wait_sem - Slack
    BY SemIpcAssumption DEF IInv, TypeOK, TakeLock, Slack, At, Goto, Acquire
  <2> QED
    BY <2>1, <2>2, <1>1, TokenTypes DEF IInv, TokenInv
<1>9. (ResultInv /\ ChangesInv)'
  BY DEF IInv, TakeLock, ResultInv, ChangesInv, histVars
<1> QED BY <1>1, <1>2, <1>3, <1>4, <1>5, <1>6, <1>7, <1>8, <1>9 DEF IInv

(* SYSCALL publishes a request in an idle context. *)
LEMMA SubmitCallKeeps == ASSUME IInv, NEW t \in Thread, SubmitCall(t) PROVE IInv'
<1>1. TypeOK'
  BY DEF IInv, TypeOK, SubmitCall, Goto, sigVars, histVars
<1>2. LockInv'
  BY DEF IInv, TypeOK, LockInv, SubmitCall, At, Goto, sigVars, Holds
<1>3. StatusInv'
  BY DEF IInv, TypeOK, StatusInv, SubmitCall, At, Goto, LockInv, Holds
<1>4. OwnerInv'
  BY DEF IInv, TypeOK, OwnerInv, SubmitCall, At, Goto, InFlight, StatusInv
<1>5. ResultInv'
  BY DEF ResultInv, SubmitCall
<1>6. OwnAnswer'
  BY DEF IInv, OwnAnswer, SubmitCall, Goto
<1>7. RunsInv'
  BY DEF IInv, RunsInv, SubmitCall, At, Goto, histVars, InFlight, StatusInv
<1>8. NoLostWakeup'
  BY DEF NoLostWakeup, SubmitCall
<1>9. TokenInv'
  <2>1. Handlers' = Handlers /\ alarms' = alarms
    BY DEF SubmitCall, Handlers, sigVars
  <2>2. wait_sem' - Slack' <= wait_sem - Slack
    BY SemIpcAssumption DEF IInv, TypeOK, SubmitCall, Slack, StatusInv, At,
         Goto
  <2> QED
    BY <2>1, <2>2, <1>1, TokenTypes DEF IInv, TokenInv
<1>10. (ChangesInv)'
  BY DEF IInv, SubmitCall, ChangesInv, histVars
<1> QED BY <1>1, <1>2, <1>3, <1>4, <1>5, <1>6, <1>7, <1>8, <1>9, <1>10 DEF IInv

(* epoll_wait and kevent publish a request, with the result reset. *)
LEMMA SubmitPollKeeps == ASSUME IInv, NEW t \in Thread, SubmitPoll(t) PROVE IInv'
<1>1. TypeOK'
  <2>1. need_alarm_sem' \in BOOLEAN
    BY DEF SubmitPoll
  <2>2. result' \in Result
    BY NoResultIsResult DEF SubmitPoll, ResetResult
  <2> QED
    BY <2>1, <2>2 DEF IInv, TypeOK, SubmitPoll, Goto, sigVars, histVars
<1>2. LockInv'
  BY DEF IInv, TypeOK, LockInv, SubmitPoll, At, Goto, sigVars, Holds
<1>3. StatusInv'
  BY DEF IInv, TypeOK, StatusInv, SubmitPoll, At, Goto, LockInv, Holds
<1>4. OwnerInv'
  BY DEF IInv, TypeOK, OwnerInv, SubmitPoll, At, Goto, InFlight, StatusInv
<1>5. ResultInv'
  BY DEF ResultInv, SubmitPoll, ResetResult, NoResult
<1>6. OwnAnswer'
  BY DEF IInv, OwnAnswer, SubmitPoll, Goto
<1>7. RunsInv'
  BY DEF IInv, RunsInv, SubmitPoll, At, Goto, histVars, InFlight, StatusInv
<1>8. NoLostWakeup'
  BY DEF NoLostWakeup, SubmitPoll
<1>9. TokenInv'
  <2>1. Handlers' = Handlers /\ alarms' = alarms
    BY DEF SubmitPoll, Handlers, sigVars
  <2>2. wait_sem' - Slack' <= wait_sem - Slack
    BY SemIpcAssumption DEF IInv, TypeOK, SubmitPoll, Slack, StatusInv, At,
         Goto
  <2> QED
    BY <2>1, <2>2, <1>1, TokenTypes DEF IInv, TokenInv
<1>10. (ChangesInv)'
  BY DEF IInv, SubmitPoll, ChangesInv, histVars
<1> QED BY <1>1, <1>2, <1>3, <1>4, <1>5, <1>6, <1>7, <1>8, <1>9, <1>10 DEF IInv

(* SYSCALL reads its own answer and frees the context. *)
LEMMA CollectKeeps == ASSUME IInv, NEW t \in Thread, Collect(t) PROVE IInv'
<1>1. TypeOK'
  BY DEF IInv, TypeOK, Collect, Goto, sigVars, histVars
<1>2. LockInv'
  BY DEF IInv, TypeOK, LockInv, Collect, At, Goto, sigVars, Holds
<1>3. StatusInv'
  BY DEF IInv, TypeOK, StatusInv, Collect, At, Goto, LockInv, Holds
<1>4. OwnerInv'
  BY DEF IInv, TypeOK, OwnerInv, Collect, At, Goto, InFlight
<1>5. ResultInv'
  BY DEF ResultInv, Collect
<1>6. OwnAnswer'
  BY DEF IInv, TypeOK, OwnAnswer, Collect, At, Goto, ResultInv, StatusInv,
       InFlight, OwnerInv
<1>7. RunsInv'
  BY DEF IInv, TypeOK, RunsInv, Collect, At, Goto, histVars, InFlight,
       StatusInv, OwnerInv
<1>8. NoLostWakeup'
  BY DEF NoLostWakeup, Collect
<1>9. TokenInv'
  <2>1. Handlers' = Handlers /\ alarms' = alarms
    BY DEF Collect, Handlers, sigVars
  <2>2. wait_sem' - Slack' <= wait_sem - Slack
    BY SemIpcAssumption DEF IInv, TypeOK, Collect, Slack, OwnerInv, InFlight,
         At, Goto
  <2> QED
    BY <2>1, <2>2, <1>1, TokenTypes DEF IInv, TokenInv
<1>10. (ChangesInv)'
  BY DEF IInv, Collect, ChangesInv, histVars
<1> QED BY <1>1, <1>2, <1>3, <1>4, <1>5, <1>6, <1>7, <1>8, <1>9, <1>10 DEF IInv

(* A poll wakes up with a token. *)
LEMMA SemTakenKeeps == ASSUME IInv, NEW t \in Thread, SemTaken(t) PROVE IInv'
<1>1. TypeOK'
  BY DEF IInv, TypeOK, SemTaken, Goto, sigVars, histVars, TokenThere
<1>2. LockInv'
  BY DEF IInv, LockInv, SemTaken, Goto, sigVars, Holds
<1>3. StatusInv'
  BY DEF IInv, StatusInv, SemTaken, Goto
<1>4. OwnerInv'
  BY DEF IInv, OwnerInv, SemTaken, At, Goto, InFlight
<1>5. OwnAnswer'
  BY DEF IInv, OwnAnswer, SemTaken, Goto
<1>6. RunsInv'
  BY DEF IInv, RunsInv, SemTaken, At, Goto, histVars, InFlight
<1>7. NoLostWakeup'
  BY DEF IInv, TypeOK, NoLostWakeup, SemTaken, At, Goto, InFlight, OwnerInv
<1>8. TokenInv'
  <2>1. Handlers' = Handlers /\ alarms' = alarms
    BY DEF SemTaken, Handlers, sigVars
  <2>2. wait_sem' - Slack' <= wait_sem - Slack
    BY SemIpcAssumption DEF IInv, TypeOK, SemTaken, Slack
  <2> QED
    BY <2>1, <2>2, <1>1, TokenTypes DEF IInv, TokenInv
<1>9. (ResultInv /\ ChangesInv)'
  BY DEF IInv, SemTaken, ResultInv, ChangesInv, histVars
<1> QED BY <1>1, <1>2, <1>3, <1>4, <1>5, <1>6, <1>7, <1>8, <1>9 DEF IInv

(* A poll's sleep ends without a token, so there was none, unless its      *)
(* deadline was invalid.                                                   *)
LEMMA SemFailedKeeps == ASSUME IInv, NEW t \in Thread, SemFailed(t) PROVE IInv'
<1>1. TypeOK'
  BY DEF IInv, TypeOK, SemFailed, Goto, scVars, sigVars, histVars
<1>2. LockInv'
  BY DEF IInv, LockInv, SemFailed, Goto, scVars, sigVars, Holds
<1>3. StatusInv'
  BY DEF IInv, StatusInv, SemFailed, Goto, scVars
<1>4. OwnerInv'
  BY DEF IInv, OwnerInv, SemFailed, At, Goto, scVars, InFlight
<1>5. OwnAnswer'
  BY DEF IInv, OwnAnswer, SemFailed, Goto
<1>6. RunsInv'
  BY DEF IInv, RunsInv, SemFailed, At, Goto, scVars, histVars, InFlight
<1>7. NoLostWakeup'
  BY DEF IInv, NoLostWakeup, SemFailed, At, scVars
<1>8. TokenInv'
  <2>1. Handlers' = Handlers /\ alarms' = alarms /\ wait_sem' = wait_sem
    BY DEF SemFailed, Handlers, scVars, sigVars
  <2>2. ASSUME \A k \in Kinds : k.timeout # "bad"
        PROVE  wait_sem = 0 /\ Slack' >= 0
    BY <2>2, SemIpcAssumption DEF IInv, OwnerInv, SemFailed, Slack, At
  <2> QED
    BY <2>1, <2>2, <1>1, TokenTypes DEF IInv, TokenInv
<1>9. (ResultInv /\ ChangesInv)'
  BY DEF IInv, SemFailed, ResultInv, ChangesInv, scVars, histVars
<1> QED BY <1>1, <1>2, <1>3, <1>4, <1>5, <1>6, <1>7, <1>8, <1>9 DEF IInv

(* A poll frees the context whatever its status, and takes the value only  *)
(* if it is its own.                                                       *)
LEMMA FinishPollKeeps == ASSUME IInv, NEW t \in Thread, FinishPoll(t) PROVE IInv'
<1>1. TypeOK'
  <2>1. need_alarm_sem' \in BOOLEAN /\ lost' \in BOOLEAN
    BY DEF FinishPoll
  <2>2. PollValue(waited[t]) \in Result
    BY NoResultIsResult DEF IInv, TypeOK, PollValue
  <2>3. pc' \in [Thread -> {"user", "idleSpin", "idleLock", "fill", "repSpin",
                           "repLock", "read", "semWait", "semLock", "semDone"}]
        /\ ret' \in [Thread -> Result]
    BY <2>2 DEF IInv, TypeOK, FinishPoll, Goto
  <2> QED
    BY <2>1, <2>3 DEF IInv, TypeOK, FinishPoll, sigVars
<1>2. LockInv'
  BY DEF IInv, TypeOK, LockInv, FinishPoll, At, Goto, sigVars, Holds
<1>3. StatusInv'
  BY DEF IInv, TypeOK, StatusInv, FinishPoll, At, Goto, LockInv, Holds
<1>4. OwnerInv'
  BY DEF IInv, TypeOK, OwnerInv, FinishPoll, At, Goto, InFlight
<1>5. ResultInv'
  BY DEF ResultInv, FinishPoll
<1>6. OwnAnswer'
  BY DEF IInv, TypeOK, OwnAnswer, FinishPoll, At, Goto, PollValue, NoResult,
       ResultInv, InFlight, OwnerInv
<1>7. RunsInv'
  BY DEF IInv, TypeOK, RunsInv, FinishPoll, At, Goto, InFlight, OwnerInv
<1>8. NoLostWakeup'
  BY DEF NoLostWakeup, FinishPoll
<1>9. TokenInv'
  <2>1. Handlers' = Handlers /\ alarms' = alarms
    BY DEF FinishPoll, Handlers, sigVars
  <2>2. wait_sem' - Slack' <= wait_sem - Slack
    BY SemIpcAssumption DEF IInv, TypeOK, FinishPoll, Slack, OwnerInv,
         InFlight, At, Goto
  <2> QED
    BY <2>1, <2>2, <1>1, TokenTypes DEF IInv, TokenInv
<1>10. (ChangesInv)'
  BY DEF IInv, FinishPoll, ChangesInv
<1> QED BY <1>1, <1>2, <1>3, <1>4, <1>5, <1>6, <1>7, <1>8, <1>9, <1>10 DEF IInv

(* A signal arrives: one more handler in progress. *)
LEMMA SignalKeeps == ASSUME IInv, NEW s \in SigThread, Signal(s) PROVE IInv'
<1>1. TypeOK'
  BY DEF IInv, TypeOK, Signal, scVars, appVars, histVars
<1>2. LockInv'
  BY DEF IInv, LockInv, Signal, scVars, appVars, Holds
<1>3. TokenInv'
  <2>1. Handlers' = Handlers \cup {s} /\ s \notin Handlers
    BY DEF IInv, TypeOK, Signal, Handlers
  <2>2. IsFiniteSet(Handlers') /\ Cardinality(Handlers') = Cardinality(Handlers) + 1
    BY <2>1, FS_AddElement DEF IInv, TokenInv
  <2>3. Slack' = Slack /\ wait_sem' = wait_sem /\ alarms' = alarms + 1
    BY DEF Signal, Slack, scVars, appVars
  <2> QED
    BY <2>2, <2>3, <1>1, TokenTypes DEF IInv, TokenInv
<1>4. (StatusInv /\ OwnerInv /\ ResultInv /\ OwnAnswer /\ RunsInv /\ ChangesInv /\ NoLostWakeup)'
  BY DEF IInv, Signal, StatusInv, OwnerInv, ResultInv, OwnAnswer, RunsInv,
       ChangesInv, NoLostWakeup, scVars, appVars, histVars, InFlight
<1> QED BY <1>1, <1>2, <1>3, <1>4 DEF IInv

(* alarm_event_sem takes sc->lock. *)
LEMMA AlarmLockKeeps == ASSUME IInv, NEW s \in SigThread, AlarmLock(s) PROVE IInv'
<1>1. TypeOK'
  BY DEF IInv, TypeOK, AlarmLock, appVars, histVars
<1>2. LockInv'
  BY DEF IInv, LockInv, AlarmLock, appVars, Holds
<1>3. TokenInv'
  <2>1. Handlers' = Handlers
    BY DEF AlarmLock, Handlers
  <2>2. Slack' = Slack /\ wait_sem' = wait_sem /\ alarms' = alarms
    BY DEF AlarmLock, Slack, appVars
  <2> QED
    BY <2>1, <2>2 DEF IInv, TokenInv
<1>4. (StatusInv /\ OwnerInv /\ ResultInv /\ OwnAnswer /\ RunsInv /\ ChangesInv /\ NoLostWakeup)'
  BY DEF IInv, AlarmLock, StatusInv, OwnerInv, ResultInv, OwnAnswer, RunsInv,
       ChangesInv, NoLostWakeup, appVars, histVars, InFlight
<1> QED BY <1>1, <1>2, <1>3, <1>4 DEF IInv

(* alarm_event_sem posts at most one token and its handler ends. *)
LEMMA AlarmPostKeeps == ASSUME IInv, NEW s \in SigThread, AlarmPost(s) PROVE IInv'
<1>1. TypeOK'
  <2>1. wait_sem' \in Nat
    BY DEF IInv, TypeOK, AlarmPost
  <2>2. /\ need_alarm_sem' = FALSE /\ locked' = FALSE
        /\ sig' = [sig EXCEPT ![s] = "none"]
        /\ UNCHANGED <<status, ops, args, result, pc, kind, call, nchanges, waited,
                       ret, alarms, fpc, ready, runs, applied, lost>>
    BY DEF AlarmPost, histVars
  <2> QED
    BY <2>1, <2>2 DEF IInv, TypeOK
<1>2. LockInv'
  BY DEF IInv, TypeOK, LockInv, AlarmPost, Holds
<1>3. NoLostWakeup'
  BY DEF IInv, TypeOK, NoLostWakeup, AlarmPost
<1>4. TokenInv'
  <2>1. Handlers' = Handlers \ {s} /\ s \in Handlers
    BY DEF IInv, TypeOK, AlarmPost, Handlers
  <2>2. IsFiniteSet(Handlers') /\ Cardinality(Handlers') = Cardinality(Handlers) - 1
    BY <2>1, FS_RemoveElement DEF IInv, TokenInv
  <2>3. Slack' = Slack /\ wait_sem' <= wait_sem + 1 /\ alarms' = alarms /\ wait_sem' \in Nat
    BY DEF IInv, TypeOK, AlarmPost, Slack
  <2> QED
    BY <2>2, <2>3, <1>1, TokenTypes DEF IInv, TokenInv
<1>5. (StatusInv /\ OwnerInv /\ ResultInv /\ OwnAnswer /\ RunsInv /\ ChangesInv)'
  BY DEF IInv, AlarmPost, StatusInv, OwnerInv, ResultInv, OwnAnswer, RunsInv,
       ChangesInv, histVars, InFlight
<1> QED BY <1>1, <1>2, <1>3, <1>4, <1>5 DEF IInv

(* fstack's unlocked read changes nothing but its place. *)
LEMMA FstackSeeKeeps == ASSUME IInv, FstackSee PROVE IInv'
<1>1. TypeOK'
  BY DEF IInv, TypeOK, FstackSee, scVars, appVars, sigVars, histVars
<1>2. LockInv'
  BY DEF IInv, LockInv, FstackSee, scVars, appVars, sigVars, Holds
<1>3. StatusInv'
  BY DEF IInv, StatusInv, FstackSee, appVars
<1>4. (OwnerInv /\ ResultInv /\ OwnAnswer /\ RunsInv /\ ChangesInv /\ NoLostWakeup /\ TokenInv)'
  BY DEF IInv, FstackSee, OwnerInv, ResultInv, OwnAnswer, RunsInv, ChangesInv,
       NoLostWakeup, TokenInv, scVars, appVars, sigVars, histVars, InFlight,
       Handlers, Slack
<1> QED BY <1>1, <1>2, <1>3, <1>4 DEF IInv

(* trylock and the second look: fstack runs a request only with the lock   *)
(* and the status REQ.                                                     *)
LEMMA FstackTryKeeps == ASSUME IInv, FstackTry PROVE IInv'
<1>1. TypeOK'
  BY DEF IInv, TypeOK, FstackTry, appVars, sigVars, histVars
<1>2. LockInv'
  BY DEF IInv, LockInv, FstackTry, appVars, sigVars, Holds
<1>3. StatusInv'
  BY DEF IInv, StatusInv, FstackTry, appVars
<1>4. (OwnerInv /\ ResultInv /\ OwnAnswer /\ RunsInv /\ ChangesInv /\ NoLostWakeup /\ TokenInv)'
  BY DEF IInv, FstackTry, OwnerInv, ResultInv, OwnAnswer, RunsInv, ChangesInv,
       NoLostWakeup, TokenInv, appVars, sigVars, histVars, InFlight, Handlers,
       Slack
<1> QED BY <1>1, <1>2, <1>3, <1>4 DEF IInv

(* ff_handle_socket_ops executes the request of the thread that waits for  *)
(* it, and posts a token if that thread sleeps.                            *)
LEMMA FstackHandleKeeps == ASSUME IInv, FstackHandle PROVE IInv'
<1>1. TypeOK'
  <2>1. args \in Thread /\ ops \in Kind
    BY DEF IInv, TypeOK, FstackHandle, StatusInv, OwnerInv
  <2>2. PICK v \in HandlerValues(ops) :
          /\ result' = [by |-> <<args, call[args]>>, val |-> v]
          /\ ready' = (IF v > 0 THEN 0 ELSE ready)
          /\ status' = StatusAfter(ops, v)
          /\ wait_sem' = wait_sem + Posts(ops, v)
    BY DEF FstackHandle
  <2>3. v \in Int /\ ready \in Nat
    BY <2>2 DEF IInv, TypeOK, HandlerValues
  <2>4. result' \in Result /\ ready' \in Nat
    BY <2>1, <2>2, <2>3 DEF IInv, TypeOK, Result, Request
  <2>5. status' \in {"IDLE", "REQ", "REP"} /\ wait_sem' \in Nat
    BY <2>2 DEF IInv, TypeOK, StatusAfter, Posts
  <2>6. /\ runs' \in [Thread -> 0 .. 2] /\ applied' \in [Thread -> Nat]
        /\ nchanges' \in [Thread -> Nat]
    BY <2>1 DEF IInv, TypeOK, FstackHandle, ChangesLeft
  <2> QED
    BY <2>4, <2>5, <2>6 DEF IInv, TypeOK, FstackHandle, sigVars
<1>2. LockInv'
  BY DEF IInv, LockInv, FstackHandle, sigVars, Holds
<1>3. StatusInv'
  BY DEF IInv, StatusInv, FstackHandle
<1>4. OwnerInv'
  BY DEF IInv, OwnerInv, FstackHandle, StatusAfter, InFlight, StatusInv
<1>5. ResultInv'
  BY DEF ResultInv, FstackHandle
<1>6. RunsInv'
  BY DEF IInv, TypeOK, RunsInv, FstackHandle, StatusAfter, KeepWaiting,
       InFlight, StatusInv, OwnerInv, IsPoll
<1>7. ChangesInv'
  <2>1. args \in Thread /\ ops = kind[args]
    BY DEF IInv, FstackHandle, StatusInv, OwnerInv
  <2> QED
    BY <2>1 DEF IInv, TypeOK, ChangesInv, FstackHandle, ChangesLeft
<1>8. NoLostWakeup'
  BY DEF IInv, TypeOK, NoLostWakeup, FstackHandle, StatusAfter, Posts,
       InFlight, OwnerInv
<1>9. TokenInv'
  <2>1. Handlers' = Handlers /\ alarms' = alarms
    BY DEF FstackHandle, Handlers, sigVars
  <2>2. wait_sem' - Slack' <= wait_sem - Slack
    BY SemIpcAssumption DEF IInv, TypeOK, FstackHandle, Slack, StatusInv,
         StatusAfter, Posts
  <2> QED
    BY <2>1, <2>2, <1>1, TokenTypes DEF IInv, TokenInv
<1>10. (OwnAnswer)'
  BY DEF IInv, FstackHandle, OwnAnswer
<1> QED BY <1>1, <1>2, <1>3, <1>4, <1>5, <1>6, <1>7, <1>8, <1>9, <1>10 DEF IInv

(* An event on a socket touches no context. *)
LEMMA EventKeeps == ASSUME IInv, Event PROVE IInv'
<1>1. TypeOK'
  BY DEF IInv, TypeOK, Event, scVars, appVars, sigVars, histVars
<1>2. (LockInv /\ StatusInv /\ OwnerInv /\ ResultInv /\ OwnAnswer /\ RunsInv /\ ChangesInv /\ NoLostWakeup /\ TokenInv)'
  BY DEF IInv, Event, LockInv, StatusInv, OwnerInv, ResultInv, OwnAnswer,
       RunsInv, ChangesInv, NoLostWakeup, TokenInv, scVars, appVars, sigVars,
       histVars, InFlight, Handlers, Slack, Holds
<1> QED BY <1>1, <1>2 DEF IInv

-----------------------------------------------------------------------------
(* A context that has just been attached satisfies the invariant. *)
LEMMA InitIInv == ASSUME Init PROVE IInv
<1>1. TypeOK
  <2>1. wait_sem \in Nat /\ ops \in Kind /\ result \in Result
    BY SemIpcAssumption, NoKindIsKind, NoResultIsResult DEF Init
  <2>2. kind \in [Thread -> Kind] /\ ret \in [Thread -> Result]
    BY NoKindIsKind, NoResultIsResult DEF Init
  <2>3. /\ call \in [Thread -> Nat] /\ nchanges \in [Thread -> Nat]
        /\ runs \in [Thread -> 0 .. 2] /\ applied \in [Thread -> Nat]
    BY DEF Init
  <2>4. /\ waited \in [Thread -> {"ok", "timedout", "failed"}]
        /\ sig \in [SigThread -> {"none", "lock", "post"}]
        /\ pc \in [Thread -> {"user", "idleSpin", "idleLock", "fill", "repSpin",
                             "repLock", "read", "semWait", "semLock", "semDone"}]
    BY DEF Init
  <2>5. /\ status \in {"IDLE", "REQ", "REP"} /\ fpc \in {"scan", "try", "run"}
        /\ args \in Thread \cup {"NULL"} /\ alarms \in Nat /\ ready \in Nat
    BY DEF Init
  <2>6. locked \in BOOLEAN /\ need_alarm_sem \in BOOLEAN /\ lost \in BOOLEAN
    BY DEF Init
  <2> QED
    BY <2>1, <2>2, <2>3, <2>4, <2>5, <2>6 DEF TypeOK
<1>2. LockInv /\ StatusInv /\ OwnerInv /\ ResultInv /\ ChangesInv /\ NoLostWakeup
  BY DEF Init, LockInv, Holds, StatusInv, OwnerInv, InFlight, ResultInv,
       ChangesInv, NoLostWakeup
<1>3. OwnAnswer /\ RunsInv
  BY DEF Init, OwnAnswer, NoResult, RunsInv
<1>4. TokenInv
  <2>1. Handlers = {}
    BY DEF Init, Handlers
  <2>2. IsFiniteSet(Handlers) /\ Cardinality(Handlers) = 0
    BY <2>1, FS_EmptySet
  <2>3. wait_sem <= Slack /\ alarms = 0 /\ wait_sem \in Nat
    BY SemIpcAssumption DEF Init, Slack
  <2> QED
    BY <2>2, <2>3, SlackType DEF TokenInv
<1> QED BY <1>1, <1>2, <1>3, <1>4 DEF IInv

(* A step that changes nothing keeps the invariant. *)
LEMMA StutterKeeps == ASSUME IInv, UNCHANGED vars PROVE IInv'
<1>1. (TypeOK /\ LockInv /\ StatusInv /\ OwnerInv /\ ResultInv)'
  BY DEF IInv, vars, scVars, appVars, sigVars, histVars, TypeOK, LockInv,
       Holds, StatusInv, OwnerInv, InFlight, ResultInv
<1>2. (OwnAnswer /\ RunsInv /\ ChangesInv /\ NoLostWakeup /\ TokenInv)'
  BY DEF IInv, vars, scVars, appVars, sigVars, histVars, OwnAnswer, RunsInv,
       InFlight, ChangesInv, NoLostWakeup, TokenInv, Handlers, Slack
<1> QED BY <1>1, <1>2 DEF IInv

(* Every step of the threads, the handlers and fstack keeps the invariant. *)
LEMMA NextIInv == ASSUME IInv, [Next]_vars PROVE IInv'
<1>1. ASSUME NEW t \in Thread, App(t) PROVE IInv'
  BY <1>1, StartCallKeeps, SeeStatusKeeps, TakeLockKeeps, SubmitCallKeeps,
     SubmitPollKeeps, CollectKeeps, SemTakenKeeps, SemFailedKeeps, FinishPollKeeps
     DEF App
<1>2. ASSUME NEW s \in SigThread, Alarm(s) PROVE IInv'
  BY <1>2, SignalKeeps, AlarmLockKeeps, AlarmPostKeeps DEF Alarm
<1>3. CASE Fstack
  BY <1>3, FstackSeeKeeps, FstackTryKeeps, FstackHandleKeeps DEF Fstack
<1>4. CASE Event
  BY <1>4, EventKeeps
<1>5. CASE UNCHANGED vars
  BY <1>5, StutterKeeps
<1> QED BY <1>1, <1>2, <1>3, <1>4, <1>5 DEF Next, Done

(* The invariant holds in every state of every execution. *)
THEOREM Inductive == Spec => []IInv
BY InitIInv, NextIInv, PTL DEF Spec

(* Every variable of the context and of its users keeps its type, for any  *)
(* number of threads.                                                      *)
THEOREM TypeCorrect == Spec => []TypeOK
BY Inductive, PTL DEF IInv

(* However many threads share a context, it serves one of them at a time.  *)
THEOREM SingleOwner == Spec => []OneOwner
<1>1. IInv => OneOwner
  BY DEF IInv, OwnerInv, OneOwner
<1> QED BY <1>1, Inductive, PTL

(* No call ever returns another call's answer.                             *)
THEOREM AnswersAreOwn == Spec => []OwnAnswer
BY Inductive, PTL DEF IInv

(* An ordinary call is executed exactly once by the time it returns.       *)
THEOREM CallsRunOnce == Spec => []ExactlyOnce
<1>1. IInv => ExactlyOnce
  BY DEF IInv, TypeOK, RunsInv, InFlight, ExactlyOnce
<1> QED BY <1>1, Inductive, PTL

(* A changelist is applied at most once, however often fstack re-runs the  *)
(* kevent that carries it.                                                 *)
THEOREM ChangesApplyOnce == Spec => []ChangesOnce
<1>1. ASSUME IInv, NEW t \in Thread PROVE applied[t] <= 1
  <2>1. applied[t] \in Nat /\ nchanges[t] \in Nat /\ applied[t] + nchanges[t] <= 1
    BY <1>1 DEF IInv, TypeOK, ChangesInv
  <2> QED
    BY <2>1
<1>2. IInv => ChangesOnce
  BY <1>1 DEF ChangesOnce
<1> QED BY <1>2, Inductive, PTL

(* A poll that fstack has answered finds a token to wake it.               *)
THEOREM WakeupsKept == Spec => []NoLostWakeup
BY Inductive, PTL DEF IInv

(* With valid deadlines, the tokens in the semaphore are bounded by the    *)
(* number of alarms, however many polls have timed out.                    *)
THEOREM TokensStayBounded == Spec => []TokensBounded
<1>1. IInv => TokensBounded
  <2> SUFFICES ASSUME IInv, \A k \in Kinds : k.timeout # "bad"
               PROVE  wait_sem <= (IF MaxStale > 1 THEN MaxStale ELSE 1) + alarms
                                  + (IF status = "REP" THEN 1 ELSE 0)
    BY DEF TokensBounded
  <2>1. Cardinality(Handlers) \in Nat /\ wait_sem \in Nat /\ alarms \in Nat
    BY FS_CardinalityType DEF IInv, TypeOK, TokenInv
  <2>2. Slack <= (IF MaxStale > 1 THEN MaxStale ELSE 1)
                 + (IF status = "REP" THEN 1 ELSE 0)
    BY SemIpcAssumption DEF Slack
  <2> QED
    BY <2>1, <2>2, SlackType, SemIpcAssumption DEF IInv, TokenInv
<1> QED BY <1>1, Inductive, PTL

-----------------------------------------------------------------------------
(* Refinement: which abstract step each step of the context takes. *)

(* A step that leaves the status, the request and the returned values      *)
(* alone is not visible in the abstract service.                           *)
LEMMA StutterMaps ==
  ASSUME UNCHANGED <<status, ops, args, call, ret>>
  PROVE  UNCHANGED CS!vars
BY DEF CS!vars

(* Publishing a request is the service's Ask. *)
LEMMA SubmitMaps ==
  ASSUME IInv, NEW t \in Thread, SubmitCall(t) \/ SubmitPoll(t)
  PROVE  CS!Ask(t)
<1>1. status = "IDLE" /\ status' = "REQ" /\ args' = t /\ call' = call /\ ret' = ret
  BY DEF IInv, StatusInv, SubmitCall, SubmitPoll, At
<1>2. <<t, call[t]>> \in {t} \X Nat
  BY DEF IInv, TypeOK
<1> QED BY <1>1, <1>2 DEF CS!Ask

(* Executing a request is the service's Answer, or is not visible if       *)
(* fstack keeps the request to run it again.                               *)
LEMMA HandleMaps ==
  ASSUME IInv, FstackHandle
  PROVE  CS!Answer \/ UNCHANGED CS!vars
<1>1. status = "REQ" /\ UNCHANGED <<ops, args, call, ret>>
  BY DEF IInv, StatusInv, FstackHandle
<1>2. status' \in {"REQ", "REP"}
  BY DEF FstackHandle, StatusAfter
<1>3. CASE status' = "REQ"
  BY <1>1, <1>3, StutterMaps
<1>4. CASE status' = "REP"
  BY <1>1, <1>4 DEF CS!Answer
<1> QED BY <1>2, <1>3, <1>4

(* Returning from an ordinary call is the service's Take. *)
LEMMA CollectMaps ==
  ASSUME IInv, NEW t \in Thread, Collect(t)
  PROVE  CS!Take(t)
<1>1. /\ status = "REP" /\ args = t /\ result.by = <<args, call[args]>>
      /\ status' = "IDLE" /\ ret' = [ret EXCEPT ![t] = result]
  BY DEF IInv, StatusInv, OwnerInv, ResultInv, InFlight, Collect, At
<1>2. [u \in Thread |-> ret'[u].by]
        = [[u \in Thread |-> ret[u].by] EXCEPT ![t] = <<args, call[args]>>]
  BY <1>1 DEF IInv, TypeOK
<1> QED BY <1>1, <1>2 DEF CS!Take, CS!Free, CS!Nobody

(* Returning from a poll, answered or not, is the service's Withdraw. *)
LEMMA FinishMaps ==
  ASSUME IInv, NEW t \in Thread, FinishPoll(t)
  PROVE  CS!Withdraw(t)
<1> DEFINE v == PollValue(waited[t])
<1>1. /\ status # "IDLE" /\ args = t /\ IsPoll(ops)
      /\ result.by \in {NoRequest, <<args, call[args]>>}
      /\ status' = "IDLE" /\ ret' \in {ret, [ret EXCEPT ![t] = v]}
  BY DEF IInv, OwnerInv, ResultInv, InFlight, FinishPoll, At
<1>2. v.by \in {NoRequest, <<args, call[args]>>}
  BY <1>1 DEF PollValue, NoResult
<1>3. [u \in Thread |-> ret'[u].by]
        \in {[u \in Thread |-> ret[u].by],
             [[u \in Thread |-> ret[u].by] EXCEPT ![t] = CS!Nobody],
             [[u \in Thread |-> ret[u].by] EXCEPT ![t] = <<args, call[args]>>]}
  <2>1. CASE ret' = ret
    BY <2>1
  <2>2. CASE ret' = [ret EXCEPT ![t] = v]
    <3>1. [u \in Thread |-> ret'[u].by] = [[u \in Thread |-> ret[u].by] EXCEPT ![t] = v.by]
      BY <2>2 DEF IInv, TypeOK
    <3> QED BY <3>1, <1>2 DEF CS!Nobody, NoRequest
  <2> QED BY <1>1, <2>1, <2>2
<1> HIDE DEF v
<1>4. status \in {"REQ", "REP"}
  BY <1>1 DEF IInv, TypeOK
<1> QED BY <1>1, <1>3, <1>4 DEF CS!Withdraw, CS!Free, CS!Nobody

(* Entering a call is not visible: the request in the context is           *)
(* another's.                                                              *)
LEMMA StartMaps ==
  ASSUME IInv, NEW t \in Thread, StartCall(t)
  PROVE  UNCHANGED CS!vars
<1>1. UNCHANGED <<status, ops, args, ret>> /\ call' = [call EXCEPT ![t] = @ + 1]
  BY DEF StartCall, scVars
<1>2. status # "IDLE" => args \in Thread /\ args # t
  BY DEF IInv, OwnerInv, InFlight, StartCall, At
<1>3. status # "IDLE" => call'[args] = call[args]
  BY <1>1, <1>2
<1> QED BY <1>1, <1>3 DEF CS!vars

(* The context implements the abstract service: every step of the code is  *)
(* a request, an answer, a return or a withdrawal of the service, or is    *)
(* not visible in it.                                                      *)
THEOREM Implements == Spec => Service
<1>1. ASSUME Init PROVE CS!Init
  <2>1. status = "IDLE" /\ ret = [t \in Thread |-> NoResult]
    BY <1>1 DEF Init
  <2>2. [t \in Thread |-> ret[t].by] = [t \in Thread |-> CS!Nobody]
    BY <2>1 DEF NoResult, NoRequest, CS!Nobody
  <2>3. (status # "IDLE" /\ ~IsPoll(ops)) = FALSE
    BY <2>1
  <2> QED
    BY <2>1, <2>2, <2>3 DEF CS!Init, CS!Nobody
<1>2. ASSUME IInv, [Next]_vars PROVE [CS!Next]_(CS!vars)
  <2>1. ASSUME NEW t \in Thread, App(t) PROVE CS!Next \/ UNCHANGED CS!vars
    <3>1. CASE SeeStatus(t) \/ TakeLock(t) \/ SemTaken(t) \/ SemFailed(t)
      <4>1. UNCHANGED <<status, ops, args, call, ret>>
        BY <3>1 DEF SeeStatus, TakeLock, SemTaken, SemFailed, scVars
      <4> QED BY <4>1, StutterMaps
    <3> QED
      BY <1>2, <2>1, <3>1, StartMaps, SubmitMaps, CollectMaps, FinishMaps
         DEF App, CS!Next
  <2>2. ASSUME NEW s \in SigThread, Alarm(s) PROVE UNCHANGED CS!vars
    <3>1. UNCHANGED <<status, ops, args, call, ret>>
      BY <2>2 DEF Alarm, Signal, AlarmLock, AlarmPost, scVars, appVars
    <3> QED BY <3>1, StutterMaps
  <2>3. ASSUME Fstack PROVE CS!Next \/ UNCHANGED CS!vars
    <3>1. CASE FstackSee \/ FstackTry
      <4>1. UNCHANGED <<status, ops, args, call, ret>>
        BY <3>1 DEF FstackSee, FstackTry, scVars, appVars
      <4> QED BY <4>1, StutterMaps
    <3> QED BY <1>2, <2>3, <3>1, HandleMaps DEF Fstack, CS!Next
  <2>4. ASSUME Event \/ UNCHANGED vars PROVE UNCHANGED CS!vars
    <3>1. UNCHANGED <<status, ops, args, call, ret>>
      BY <2>4 DEF Event, vars, scVars, appVars
    <3> QED BY <3>1, StutterMaps
  <2> QED BY <1>2, <2>1, <2>2, <2>3, <2>4 DEF Next, Done
<1> QED BY <1>1, <1>2, Inductive, PTL DEF Spec, Service, CS!Spec
=============================================================================

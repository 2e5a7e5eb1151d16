---------------------------- MODULE SoZoneProof ----------------------------
(***************************************************************************)
(* Proofs about SoZone, for any processes and kills and any zone size the  *)
(* code accepts.  The argument: zone->lock is held by one process or by    *)
(* the scan, so the number of attached contexts does not change under      *)
(* either; sc->lock is held from before a fork until the child is counted, *)
(* so a process that detaches sees every reference to its context counted, *)
(* and refcount <= 1 means that it is the only one left.                   *)
(***************************************************************************)
EXTENDS SoZone, FiniteSetTheorems, TLAPS

(* Who holds the zone lock, and who holds the lock of its context. *)
HasZone(p) == pc[p] \in {"attach", "detachScLock", "detach"}
ScanHasZone == fpc \in {"pass", "passed"}
HasSc(p) == pc[p] \in {"forking", "forked", "detach"}

ZoneLockInv ==
  /\ \A p \in Proc : HasZone(p) => zlock /\ ~ScanHasZone
  /\ \A p, q \in Proc : HasZone(p) /\ HasZone(q) => p = q
  /\ ScanHasZone => zlock

ScLockInv ==
  /\ \A p \in Proc : HasSc(p) => sclock[held[p]]
  /\ \A p, q \in Proc : HasSc(p) /\ HasSc(q) /\ held[p] = held[q] => p = q

(* A process has a context from attach to detach. *)
HeldInv ==
  \A p \in Proc : held[p] = NoContext <=> pc[p] \in {"gone", "attachLock", "attach"}

(* A context in use has a reference; one that is free has lost none. *)
RefInv ==
  \A c \in Context :
    /\ inuse[c] = 1 => refcount[c] >= 1
    /\ inuse[c] = 0 => orphan[c] = 0

(* The scan's count is that of the attached contexts, or it began with     *)
(* none; it gives the lock up only in the latter case.                     *)
CountInv ==
  /\ ScanHasZone => tmp \in {0, Cardinality(InUse)}
  /\ fpc = "window" => tmp = 0

(* The inductive invariant. *)
IInv ==
  /\ TypeOK /\ ZoneLockInv /\ ScLockInv /\ HeldInv /\ NotFreedWhileHeld
  /\ RefInv /\ RefsMatch /\ FreeIsExact /\ CountInv /\ ScanReachesAll

-----------------------------------------------------------------------------
(* The zone's size. *)
LEMMA CountFacts == Count \in Nat \ {0} /\ Context \subseteq Nat /\ NoContext \notin Context
BY SoZoneAssumption DEF Context, NoContext

(* The search for a context stays in the zone when it wraps around. *)
LEMMA SearchInZone ==
  ASSUME NEW i \in 0 .. Count, NEW j \in 0 .. Count - 1
  PROVE  (i + j) % Count \in Context
<1>1. CASE Count = 1 BY <1>1 DEF Context
<1>2. CASE Count = 2 BY <1>2 DEF Context
<1>3. CASE Count = 4 BY <1>3 DEF Context
<1>4. CASE Count = 8 BY <1>4 DEF Context
<1>5. CASE Count = 16 BY <1>5 DEF Context
<1>6. CASE Count = 32 BY <1>6 DEF Context
<1> QED BY <1>1, <1>2, <1>3, <1>4, <1>5, <1>6, SoZoneAssumption

(* The sets that are counted are finite. *)
LEMMA FiniteSets ==
  /\ IsFiniteSet(InUse) /\ Cardinality(InUse) \in Nat /\ Cardinality(InUse) <= Count
  /\ \A c : /\ IsFiniteSet(Holders(c)) /\ Cardinality(Holders(c)) \in Nat
          /\ IsFiniteSet(Forked(c)) /\ Cardinality(Forked(c)) \in Nat
<1>1. IsFiniteSet(Context) /\ Cardinality(Context) = Count
  BY CountFacts, FS_Interval DEF Context
<1>2. InUse \in SUBSET Context
  BY DEF InUse
<1>3. \A c : Holders(c) \in SUBSET Proc /\ Forked(c) \in SUBSET Proc
  BY DEF Holders, Forked
<1> QED BY <1>1, <1>2, <1>3, SoZoneAssumption, FS_Subset, FS_CardinalityType

(* One more, one less. *)
LEMMA AddOne ==
  ASSUME NEW S, IsFiniteSet(S), NEW x, x \notin S
  PROVE  Cardinality(S) \in Nat /\ Cardinality(S \cup {x}) = Cardinality(S) + 1
BY FS_AddElement, FS_CardinalityType

LEMMA RemoveOne ==
  ASSUME NEW S, IsFiniteSet(S), NEW x \in S
  PROVE  Cardinality(S) \in Nat /\ Cardinality(S \ {x}) = Cardinality(S) - 1
BY FS_RemoveElement, FS_CardinalityType

(* A step that leaves the contexts, the references and the scan alone and  *)
(* neither begins nor ends the window of a fork keeps what is said of      *)
(* them.                                                                   *)
LEMMA QuietKeeps ==
  ASSUME IInv, UNCHANGED <<zoneVars, refcount, held, scanVars, killVars>>,
         \A p \in Proc : pc'[p] = "forked" <=> pc[p] = "forked"
  PROVE  (/\ NotFreedWhileHeld /\ RefInv /\ RefsMatch /\ FreeIsExact /\ CountInv
          /\ ScanReachesAll)'
<1>1. InUse' = InUse /\ \A c : Holders(c)' = Holders(c) /\ Forked(c)' = Forked(c)
  BY DEF InUse, Holders, Forked, zoneVars
<1> QED
  BY <1>1 DEF IInv, NotFreedWhileHeld, RefInv, RefsMatch, FreeIsExact, CountInv, ScanReachesAll,
     ScanHasZone, zoneVars, scanVars, killVars

(* An application starts. *)
LEMMA StartKeeps == ASSUME IInv, NEW p \in Proc, Start(p) PROVE IInv'
<1>1. TypeOK'
  BY DEF IInv, TypeOK, Start, Goto, zoneVars, scanVars, killVars
<1>2. (ZoneLockInv /\ ScLockInv /\ HeldInv)'
  BY DEF IInv, TypeOK, ZoneLockInv, ScLockInv, HeldInv, Start, Goto, HasZone, HasSc,
     ScanHasZone, zoneVars, scanVars
<1>3. (/\ NotFreedWhileHeld /\ RefInv /\ RefsMatch /\ FreeIsExact /\ CountInv
       /\ ScanReachesAll)'
  BY QuietKeeps DEF IInv, TypeOK, Start, Goto
<1> QED BY <1>1, <1>2, <1>3 DEF IInv

(* Attach takes the zone lock. *)
LEMMA AttachLockKeeps == ASSUME IInv, NEW p \in Proc, AttachLock(p) PROVE IInv'
<1>1. TypeOK'
  BY DEF IInv, TypeOK, AttachLock, Goto, zoneVars, scanVars, killVars
<1>2. (ZoneLockInv /\ ScLockInv /\ HeldInv)'
  BY DEF IInv, TypeOK, ZoneLockInv, ScLockInv, HeldInv, AttachLock, Goto, HasZone, HasSc,
     ScanHasZone, zoneVars, scanVars
<1>3. (/\ NotFreedWhileHeld /\ RefInv /\ RefsMatch /\ FreeIsExact /\ CountInv
       /\ ScanReachesAll)'
  BY QuietKeeps DEF IInv, TypeOK, AttachLock, Goto
<1> QED BY <1>1, <1>2, <1>3 DEF IInv

(* No context is free: attach gives the lock back. *)
LEMMA AttachFailsKeeps == ASSUME IInv, NEW p \in Proc, AttachFails(p) PROVE IInv'
<1>1. TypeOK'
  BY DEF IInv, TypeOK, AttachFails, Goto, zoneVars, scanVars, killVars
<1>2. (ZoneLockInv /\ ScLockInv /\ HeldInv)'
  BY DEF IInv, TypeOK, ZoneLockInv, ScLockInv, HeldInv, AttachFails, Goto, HasZone, HasSc,
     ScanHasZone, zoneVars, scanVars
<1>3. (/\ NotFreedWhileHeld /\ RefInv /\ RefsMatch /\ FreeIsExact /\ CountInv
       /\ ScanReachesAll)'
  BY QuietKeeps DEF IInv, TypeOK, AttachFails, Goto
<1> QED BY <1>1, <1>2, <1>3 DEF IInv

(* A fork begins: the parent takes sc->lock. *)
LEMMA ForkLockKeeps == ASSUME IInv, NEW p \in Proc, ForkLock(p) PROVE IInv'
<1>1. held[p] \in Context /\ sclock \in [Context -> BOOLEAN]
  BY CountFacts DEF IInv, TypeOK, HeldInv, ForkLock
<1>2. (TypeOK /\ ZoneLockInv /\ HeldInv)'
  BY <1>1 DEF IInv, TypeOK, ZoneLockInv, HeldInv, ForkLock, Goto, HasZone, ScanHasZone,
     zoneVars, scanVars, killVars
<1>3. ScLockInv'
  BY <1>1 DEF IInv, TypeOK, ScLockInv, ForkLock, Goto, HasSc
<1>4. (/\ NotFreedWhileHeld /\ RefInv /\ RefsMatch /\ FreeIsExact /\ CountInv
       /\ ScanReachesAll)'
  BY QuietKeeps DEF IInv, TypeOK, ForkLock, Goto
<1> QED BY <1>2, <1>3, <1>4 DEF IInv

(* fork fails: the parent gives sc->lock back. *)
LEMMA ForkFailsKeeps == ASSUME IInv, NEW p \in Proc, ForkFails(p) PROVE IInv'
<1>1. held[p] \in Context /\ sclock \in [Context -> BOOLEAN]
  BY CountFacts DEF IInv, TypeOK, HeldInv, ForkFails
<1>2. (TypeOK /\ ZoneLockInv /\ HeldInv)'
  BY <1>1 DEF IInv, TypeOK, ZoneLockInv, HeldInv, ForkFails, Goto, HasZone, ScanHasZone,
     zoneVars, scanVars, killVars
<1>3. ScLockInv'
  BY <1>1 DEF IInv, TypeOK, ScLockInv, ForkFails, Goto, HasSc
<1>4. (/\ NotFreedWhileHeld /\ RefInv /\ RefsMatch /\ FreeIsExact /\ CountInv
       /\ ScanReachesAll)'
  BY QuietKeeps DEF IInv, TypeOK, ForkFails, Goto
<1> QED BY <1>2, <1>3, <1>4 DEF IInv

(* A process begins to exit. *)
LEMMA ExitKeeps == ASSUME IInv, NEW p \in Proc, Exit(p) PROVE IInv'
<1>1. TypeOK'
  BY DEF IInv, TypeOK, Exit, Goto, zoneVars, scanVars, killVars
<1>2. (ZoneLockInv /\ ScLockInv /\ HeldInv)'
  BY DEF IInv, TypeOK, ZoneLockInv, ScLockInv, HeldInv, Exit, Goto, HasZone, HasSc,
     ScanHasZone, zoneVars, scanVars
<1>3. (/\ NotFreedWhileHeld /\ RefInv /\ RefsMatch /\ FreeIsExact /\ CountInv
       /\ ScanReachesAll)'
  BY QuietKeeps DEF IInv, TypeOK, Exit, Goto
<1> QED BY <1>1, <1>2, <1>3 DEF IInv

(* Detach takes the zone lock. *)
LEMMA DetachZoneLockKeeps == ASSUME IInv, NEW p \in Proc, DetachZoneLock(p) PROVE IInv'
<1>1. TypeOK'
  BY DEF IInv, TypeOK, DetachZoneLock, Goto, zoneVars, scanVars, killVars
<1>2. (ZoneLockInv /\ ScLockInv /\ HeldInv)'
  BY DEF IInv, TypeOK, ZoneLockInv, ScLockInv, HeldInv, DetachZoneLock, Goto, HasZone, HasSc,
     ScanHasZone, zoneVars, scanVars
<1>3. (/\ NotFreedWhileHeld /\ RefInv /\ RefsMatch /\ FreeIsExact /\ CountInv
       /\ ScanReachesAll)'
  BY QuietKeeps DEF IInv, TypeOK, DetachZoneLock, Goto
<1> QED BY <1>1, <1>2, <1>3 DEF IInv

(* ... and sc->lock, which no fork holds then. *)
LEMMA DetachScLockKeeps == ASSUME IInv, NEW p \in Proc, DetachScLock(p) PROVE IInv'
<1>1. held[p] \in Context /\ sclock \in [Context -> BOOLEAN]
  BY CountFacts DEF IInv, TypeOK, HeldInv, DetachScLock
<1>2. (TypeOK /\ ZoneLockInv /\ HeldInv)'
  BY <1>1 DEF IInv, TypeOK, ZoneLockInv, HeldInv, DetachScLock, Goto, HasZone, ScanHasZone,
     zoneVars, scanVars, killVars
<1>3. ScLockInv'
  BY <1>1 DEF IInv, TypeOK, ScLockInv, DetachScLock, ScLockFree, Goto, HasSc
<1>4. (/\ NotFreedWhileHeld /\ RefInv /\ RefsMatch /\ FreeIsExact /\ CountInv
       /\ ScanReachesAll)'
  BY QuietKeeps DEF IInv, TypeOK, DetachScLock, Goto
<1> QED BY <1>2, <1>3, <1>4 DEF IInv

(* Attach takes a context nobody holds and nobody has lost a reference to. *)
LEMMA AttachKeeps == ASSUME IInv, NEW p \in Proc, Attach(p) PROVE IInv'
<1>1. PICK c \in Context :
        /\ inuse[c] = 0
        /\ inuse' = [inuse EXCEPT ![c] = 1] /\ sclock' = [sclock EXCEPT ![c] = FALSE]
        /\ refcount' = [refcount EXCEPT ![c] = 1]
        /\ free' = free - 1 /\ idx' = c + 1 /\ held' = [held EXCEPT ![p] = c]
  <2>1. PICK i \in 0 .. Count - 1 :
          LET c == (idx + i) % Count IN
          /\ Nearest(i)
          /\ inuse' = [inuse EXCEPT ![c] = 1] /\ sclock' = [sclock EXCEPT ![c] = FALSE]
          /\ refcount' = [refcount EXCEPT ![c] = 1]
          /\ free' = FreeAfterAttach(free) /\ idx' = c + 1 /\ held' = [held EXCEPT ![p] = c]
    BY DEF Attach
  <2>2. (idx + i) % Count \in Context
    BY SearchInZone DEF IInv, TypeOK
  <2> QED BY <2>1, <2>2 DEF Nearest, FreeAfterAttach
<1>2. /\ pc[p] = "attach" /\ free # 0 /\ zlock' = FALSE /\ pc' = [pc EXCEPT ![p] = "run"]
      /\ UNCHANGED <<scanVars, killVars>> /\ held[p] = NoContext
  BY DEF IInv, HeldInv, Attach, Goto
<1>3. \A q \in Proc : held[q] # c
  BY <1>1, CountFacts DEF IInv, NotFreedWhileHeld
<1>4. TypeOK'
  <2>1. free' \in 0 .. Count /\ idx' \in 0 .. Count
    BY <1>1, <1>2, CountFacts DEF IInv, TypeOK, Context
  <2> QED BY <1>1, <1>2, <2>1 DEF IInv, TypeOK, scanVars, killVars
<1>5. ~ScanHasZone /\ UNCHANGED <<fpc, tmp, served>> /\ (ZoneLockInv /\ HeldInv)'
  BY <1>1, <1>2, CountFacts DEF IInv, TypeOK, ZoneLockInv, HeldInv, HasZone, ScanHasZone, scanVars
<1>6. ScLockInv'
  BY <1>1, <1>2, <1>3 DEF IInv, TypeOK, ScLockInv, HasSc
<1>7. (NotFreedWhileHeld /\ RefInv)'
  BY <1>1, <1>2, <1>3 DEF IInv, TypeOK, NotFreedWhileHeld, RefInv, killVars
<1>8. RefsMatch'
  <2>1. Holders(c)' = {p} /\ Forked(c)' = {} /\ orphan'[c] = 0
    BY <1>1, <1>2, <1>3 DEF IInv, TypeOK, Holders, Forked, RefInv, killVars
  <2>2. ASSUME NEW d \in Context, d # c
        PROVE  Holders(d)' = Holders(d) /\ Forked(d)' = Forked(d)
    BY <1>1, <1>2, <2>2, CountFacts DEF IInv, TypeOK, Holders, Forked
  <2>3. Cardinality(Holders(c)') = 1 /\ Cardinality(Forked(c)') = 0
    BY <2>1, FS_Singleton, FS_EmptySet
  <2>4. ASSUME NEW d \in InUse', d # c
        PROVE  refcount'[d] = Cardinality(Holders(d)') - Cardinality(Forked(d)') + orphan'[d]
    BY <1>1, <1>2, <2>2, <2>4 DEF IInv, TypeOK, RefsMatch, InUse, killVars
  <2>5. refcount'[c] = Cardinality(Holders(c)') - Cardinality(Forked(c)') + orphan'[c]
    BY <1>1, <2>1, <2>3 DEF IInv, TypeOK
  <2> QED BY <2>4, <2>5 DEF RefsMatch
<1>9. FreeIsExact'
  <2>1. InUse' = InUse \cup {c} /\ c \notin InUse
    BY <1>1 DEF IInv, TypeOK, InUse
  <2> QED
    BY <1>1, <2>1, CountFacts, FiniteSets, AddOne DEF IInv, TypeOK, FreeIsExact
<1>10. (CountInv /\ ScanReachesAll)'
  BY <1>5 DEF IInv, CountInv, ScanReachesAll, ScanHasZone
<1> QED BY <1>4, <1>5, <1>6, <1>7, <1>8, <1>9, <1>10 DEF IInv

(* A child has its parent's context; its reference is not counted yet. *)
LEMMA ForkKeeps == ASSUME IInv, NEW p \in Proc, NEW q \in Proc, Fork(p, q) PROVE IInv'
<1>1. PICK c \in Context : c = held[p]
  BY CountFacts DEF IInv, TypeOK, HeldInv, Fork
<1>2. /\ p # q /\ held[q] = NoContext /\ NoContext # c
      /\ pc[p] = "forking" /\ pc[q] = "gone"
      /\ pc' = [pc EXCEPT ![p] = "forked", ![q] = "run"] /\ held' = [held EXCEPT ![q] = c]
      /\ UNCHANGED <<zlock, free, idx, inuse, sclock, refcount, fpc, tmp, served, orphan, kills>>
  BY <1>1, CountFacts DEF Fork, zoneVars, scanVars, killVars
<1>3. (TypeOK /\ ZoneLockInv /\ HeldInv)'
  BY <1>2 DEF IInv, TypeOK, ZoneLockInv, HeldInv, HasZone, ScanHasZone
<1>4. ScLockInv'
  BY <1>1, <1>2 DEF IInv, TypeOK, ScLockInv, HasSc
<1>5. (NotFreedWhileHeld /\ RefInv)'
  BY <1>1, <1>2 DEF IInv, TypeOK, NotFreedWhileHeld, RefInv
<1>6. RefsMatch'
  <2>1. /\ Holders(c)' = Holders(c) \cup {q} /\ q \notin Holders(c)
        /\ Forked(c)' = Forked(c) \cup {p} /\ p \notin Forked(c)
    BY <1>1, <1>2 DEF IInv, TypeOK, Holders, Forked
  <2>2. ASSUME NEW d \in Context, d # c
        PROVE  Holders(d)' = Holders(d) /\ Forked(d)' = Forked(d)
    BY <1>1, <1>2, <2>2, CountFacts DEF IInv, TypeOK, Holders, Forked
  <2>3. Cardinality(Holders(c)') - Cardinality(Forked(c)')
          = Cardinality(Holders(c)) - Cardinality(Forked(c))
    BY <2>1, FiniteSets, AddOne
  <2> QED BY <1>2, <2>2, <2>3 DEF IInv, RefsMatch, InUse
<1>7. (FreeIsExact /\ CountInv /\ ScanReachesAll)'
  BY <1>2 DEF IInv, FreeIsExact, CountInv, ScanReachesAll, ScanHasZone, InUse
<1> QED BY <1>3, <1>4, <1>5, <1>6, <1>7 DEF IInv

(* The parent counts the child before it gives sc->lock back. *)
LEMMA ForkDoneKeeps == ASSUME IInv, NEW p \in Proc, ForkDone(p) PROVE IInv'
<1>1. PICK c \in Context : c = held[p]
  BY CountFacts DEF IInv, TypeOK, HeldInv, ForkDone
<1>2. /\ pc[p] = "forked" /\ pc' = [pc EXCEPT ![p] = "run"]
      /\ refcount' = [refcount EXCEPT ![c] = @ + 1] /\ sclock' = [sclock EXCEPT ![c] = FALSE]
      /\ UNCHANGED <<zlock, free, idx, inuse, held, fpc, tmp, served, orphan, kills>>
  BY <1>1 DEF ForkDone, RefsAfterFork, Goto, zoneVars, scanVars, killVars
<1>3. (TypeOK /\ ZoneLockInv /\ HeldInv)'
  BY <1>2 DEF IInv, TypeOK, ZoneLockInv, HeldInv, HasZone, ScanHasZone
<1>4. ScLockInv'
  BY <1>1, <1>2 DEF IInv, TypeOK, ScLockInv, HasSc
<1>5. (NotFreedWhileHeld /\ RefInv)'
  BY <1>1, <1>2 DEF IInv, TypeOK, NotFreedWhileHeld, RefInv
<1>6. RefsMatch'
  <2>1. /\ Forked(c)' = Forked(c) \ {p} /\ p \in Forked(c)
        /\ \A d : Holders(d)' = Holders(d)
    BY <1>1, <1>2 DEF IInv, TypeOK, Holders, Forked
  <2>2. ASSUME NEW d \in Context, d # c PROVE Forked(d)' = Forked(d)
    BY <1>1, <1>2, <2>2 DEF IInv, TypeOK, Forked
  <2>3. Cardinality(Forked(c)') = Cardinality(Forked(c)) - 1
    BY <2>1, FiniteSets, RemoveOne
  <2>4. ASSUME NEW d \in InUse', d # c
        PROVE  refcount'[d] = Cardinality(Holders(d)') - Cardinality(Forked(d)') + orphan'[d]
    BY <1>2, <2>1, <2>2, <2>4 DEF IInv, TypeOK, RefsMatch, InUse
  <2>5. ASSUME c \in InUse'
        PROVE  refcount'[c] = Cardinality(Holders(c)') - Cardinality(Forked(c)') + orphan'[c]
    BY <1>2, <2>1, <2>3, <2>5, FiniteSets DEF IInv, TypeOK, RefsMatch, InUse
  <2> QED BY <2>4, <2>5 DEF RefsMatch
<1>7. (FreeIsExact /\ CountInv /\ ScanReachesAll)'
  BY <1>2 DEF IInv, FreeIsExact, CountInv, ScanReachesAll, ScanHasZone, InUse
<1> QED BY <1>3, <1>4, <1>5, <1>6, <1>7 DEF IInv

(* A process that detaches holds sc->lock, so no child is uncounted; it is *)
(* the only one left if refcount <= 1.                                     *)
LEMMA DetachSeesAll ==
  ASSUME IInv, NEW p \in Proc, pc[p] = "detach", NEW c \in Context, c = held[p]
  PROVE  /\ inuse[c] = 1 /\ Forked(c) = {} /\ p \in Holders(c)
         /\ refcount[c] = Cardinality(Holders(c)) + orphan[c]
         /\ LastReference(c) => Holders(c) = {p} /\ orphan[c] = 0 /\ refcount[c] = 1
<1>1. inuse[c] = 1 /\ c \in InUse /\ refcount[c] >= 1 /\ p \in Holders(c)
  BY CountFacts DEF IInv, NotFreedWhileHeld, RefInv, InUse, Holders
<1>2. Forked(c) = {}
  BY DEF IInv, ScLockInv, HasSc, Forked
<1>3. refcount[c] = Cardinality(Holders(c)) + orphan[c]
  BY <1>1, <1>2, FS_EmptySet, FiniteSets DEF IInv, TypeOK, RefsMatch
<1>4. Cardinality(Holders(c)) \in Nat \ {0}
  BY <1>1, FiniteSets, FS_EmptySet
<1>5. ASSUME LastReference(c) PROVE Holders(c) = {p} /\ orphan[c] = 0 /\ refcount[c] = 1
  <2>1. Cardinality(Holders(c)) = 1 /\ orphan[c] = 0 /\ refcount[c] = 1
    BY <1>1, <1>3, <1>4, <1>5 DEF IInv, TypeOK, LastReference
  <2>2. PICK x : Holders(c) = {x}
    BY <2>1, FiniteSets, FS_Singleton
  <2> QED BY <1>1, <2>1, <2>2
<1> QED BY <1>1, <1>2, <1>3, <1>5

(* Detach gives the context back when the last reference goes. *)
LEMMA DetachKeeps == ASSUME IInv, NEW p \in Proc, Detach(p) PROVE IInv'
<1>1. PICK c \in Context : c = held[p]
  BY CountFacts DEF IInv, TypeOK, HeldInv, Detach
<1>2. /\ pc[p] = "detach" /\ pc' = [pc EXCEPT ![p] = "gone"]
      /\ held' = [held EXCEPT ![p] = NoContext]
      /\ sclock' = [sclock EXCEPT ![c] = FALSE] /\ zlock' = FALSE
      /\ UNCHANGED <<fpc, tmp, served, orphan, kills>>
  BY <1>1 DEF Detach, Goto, scanVars, killVars
<1>3. /\ inuse[c] = 1 /\ Forked(c) = {} /\ p \in Holders(c)
      /\ refcount[c] = Cardinality(Holders(c)) + orphan[c]
      /\ LastReference(c) => Holders(c) = {p} /\ orphan[c] = 0 /\ refcount[c] = 1
  BY <1>1, <1>2, DetachSeesAll
<1>4. IF LastReference(c)
      THEN /\ refcount' = refcount /\ inuse' = [inuse EXCEPT ![c] = 0]
           /\ free' = free + 1 /\ idx' = c
      ELSE /\ refcount' = [refcount EXCEPT ![c] = @ - 1]
           /\ UNCHANGED <<free, idx, inuse>>
  BY <1>1, <1>3 DEF Detach, zoneVars
<1>5. c \in InUse /\ Cardinality(InUse) \in Nat \ {0} /\ free < Count
  BY <1>3, FiniteSets, FS_EmptySet, CountFacts DEF IInv, TypeOK, FreeIsExact, InUse
<1>6. TypeOK'
  <2>1. free' \in 0 .. Count /\ idx' \in 0 .. Count
    <3>1. c \in 0 .. Count /\ Count \in Nat /\ free \in 0 .. Count /\ idx \in 0 .. Count
      BY CountFacts DEF IInv, TypeOK, Context
    <3> QED BY <1>4, <1>5, <3>1
  <2>2. refcount' \in [Context -> Nat]
    BY <1>4 DEF IInv, TypeOK, LastReference
  <2> QED BY <1>2, <1>4, <2>1, <2>2 DEF IInv, TypeOK
<1>7. ~ScanHasZone /\ (ZoneLockInv /\ HeldInv)'
  BY <1>2 DEF IInv, TypeOK, ZoneLockInv, HeldInv, HasZone, ScanHasZone
<1>8. ScLockInv'
  BY <1>1, <1>2, CountFacts DEF IInv, TypeOK, ScLockInv, HasSc
<1>9. NotFreedWhileHeld'
  BY <1>1, <1>2, <1>3, <1>4, CountFacts DEF IInv, TypeOK, NotFreedWhileHeld, Holders
<1>10. RefInv'
  BY <1>2, <1>3, <1>4 DEF IInv, TypeOK, RefInv, LastReference
<1>11. RefsMatch'
  <2>1. Holders(c)' = Holders(c) \ {p} /\ Forked(c)' = {}
    BY <1>1, <1>2, <1>3, CountFacts DEF IInv, TypeOK, Holders, Forked
  <2>2. ASSUME NEW d \in Context, d # c
        PROVE  Holders(d)' = Holders(d) /\ Forked(d)' = Forked(d)
    BY <1>1, <1>2, <2>2, CountFacts DEF IInv, TypeOK, Holders, Forked
  <2>3. Cardinality(Holders(c)') = Cardinality(Holders(c)) - 1
    BY <1>3, <2>1, FiniteSets, RemoveOne
  <2>4. ASSUME NEW d \in InUse', d # c
        PROVE  refcount'[d] = Cardinality(Holders(d)') - Cardinality(Forked(d)') + orphan'[d]
    BY <1>2, <1>4, <2>2, <2>4 DEF IInv, TypeOK, RefsMatch, InUse
  <2>5. ASSUME c \in InUse'
        PROVE  refcount'[c] = Cardinality(Holders(c)') - Cardinality(Forked(c)') + orphan'[c]
    BY <1>2, <1>3, <1>4, <2>1, <2>3, <2>5, FiniteSets, FS_EmptySet DEF IInv, TypeOK, InUse
  <2> QED BY <2>4, <2>5 DEF RefsMatch
<1>12. FreeIsExact'
  <2>1. CASE LastReference(c)
    <3>1. InUse' = InUse \ {c}
      BY <1>4, <2>1 DEF IInv, TypeOK, InUse
    <3> QED
      BY <1>4, <1>5, <2>1, <3>1, FiniteSets, RemoveOne, CountFacts
         DEF IInv, TypeOK, FreeIsExact
  <2>2. CASE ~LastReference(c)
    BY <1>4, <2>2 DEF IInv, FreeIsExact, InUse
  <2> QED BY <2>1, <2>2
<1>13. (CountInv /\ ScanReachesAll)'
  BY <1>2, <1>7 DEF IInv, CountInv, ScanReachesAll, ScanHasZone
<1> QED BY <1>6, <1>7, <1>8, <1>9, <1>10, <1>11, <1>12, <1>13 DEF IInv

(* A killed process leaves its reference behind. *)
LEMMA KillKeeps == ASSUME IInv, NEW p \in Proc, Kill(p) PROVE IInv'
<1>1. PICK c \in Context : c = held[p]
  BY CountFacts DEF IInv, TypeOK, HeldInv, Kill
<1>2. /\ pc[p] = "run" /\ pc' = [pc EXCEPT ![p] = "gone"]
      /\ held' = [held EXCEPT ![p] = NoContext]
      /\ orphan' = [orphan EXCEPT ![c] = @ + 1] /\ kills' = kills + 1
      /\ UNCHANGED <<zlock, free, idx, inuse, sclock, refcount, fpc, tmp, served>>
  BY <1>1 DEF Kill, Goto, zoneVars, scanVars
<1>3. TypeOK'
  BY <1>2 DEF IInv, TypeOK
<1>4. (ZoneLockInv /\ HeldInv)'
  BY <1>2 DEF IInv, TypeOK, ZoneLockInv, HeldInv, HasZone, ScanHasZone
<1>5. ScLockInv'
  BY <1>1, <1>2, CountFacts DEF IInv, TypeOK, ScLockInv, HasSc
<1>6. inuse[c] = 1 /\ NotFreedWhileHeld'
  BY <1>1, <1>2, CountFacts DEF IInv, TypeOK, NotFreedWhileHeld
<1>7. RefInv'
  BY <1>2, <1>6 DEF IInv, TypeOK, RefInv
<1>8. RefsMatch'
  <2>1. /\ Holders(c)' = Holders(c) \ {p} /\ p \in Holders(c)
        /\ Forked(c)' = Forked(c)
    BY <1>1, <1>2, CountFacts DEF IInv, TypeOK, Holders, Forked
  <2>2. ASSUME NEW d \in Context, d # c
        PROVE  Holders(d)' = Holders(d) /\ Forked(d)' = Forked(d)
    BY <1>1, <1>2, <2>2, CountFacts DEF IInv, TypeOK, Holders, Forked
  <2>3. Cardinality(Holders(c)') = Cardinality(Holders(c)) - 1
    BY <2>1, FiniteSets, RemoveOne
  <2>4. ASSUME NEW d \in InUse', d # c
        PROVE  refcount'[d] = Cardinality(Holders(d)') - Cardinality(Forked(d)') + orphan'[d]
    BY <1>2, <2>2, <2>4 DEF IInv, TypeOK, RefsMatch, InUse
  <2>5. ASSUME c \in InUse'
        PROVE  refcount'[c] = Cardinality(Holders(c)') - Cardinality(Forked(c)') + orphan'[c]
    BY <1>2, <2>1, <2>3, <2>5, FiniteSets DEF IInv, TypeOK, RefsMatch, InUse
  <2> QED BY <2>4, <2>5 DEF RefsMatch
<1>9. (FreeIsExact /\ CountInv /\ ScanReachesAll)'
  BY <1>2 DEF IInv, FreeIsExact, CountInv, ScanReachesAll, ScanHasZone, InUse
<1> QED BY <1>3, <1>4, <1>5, <1>6, <1>7, <1>8, <1>9 DEF IInv

(* A loop that stops after the n-th attached context, n being the number   *)
(* of attached contexts, has seen them all.                                *)
LEMMA ReachesAll == Reached(Cardinality(InUse)) = InUse
<1>1. ASSUME NEW c \in InUse
      PROVE  Cardinality({d \in InUse : d < c}) < Cardinality(InUse)
  <2> DEFINE before == {d \in InUse : d < c}
  <2>1. before \in SUBSET InUse /\ c \notin before
    BY <1>1, CountFacts DEF InUse
  <2>2. /\ IsFiniteSet(before) /\ Cardinality(before) <= Cardinality(InUse)
        /\ Cardinality(InUse) = Cardinality(before) => InUse = before
    BY <2>1, FiniteSets, FS_Subset
  <2>3. Cardinality(before) \in Nat
    BY <2>2, FS_CardinalityType
  <2> QED BY <1>1, <2>1, <2>2, <2>3, FiniteSets
<1> QED BY <1>1 DEF Reached

(* The scan changes neither contexts nor references. *)
LEMMA ScanKeeps == ASSUME IInv, Scan PROVE IInv'
<1>1. UNCHANGED <<free, idx, inuse, sclock, refcount, pc, held, orphan, kills>>
  BY DEF Scan, ScanLock, ScanPass, ScanEnd, zoneVars, procVars, killVars
<1>2. InUse' = InUse /\ \A c : Holders(c)' = Holders(c) /\ Forked(c)' = Forked(c)
  BY <1>1 DEF InUse, Holders, Forked
<1>3. (/\ ScLockInv /\ HeldInv /\ NotFreedWhileHeld /\ RefInv /\ RefsMatch /\ FreeIsExact)'
  BY <1>1, <1>2 DEF IInv, ScLockInv, HeldInv, NotFreedWhileHeld, RefInv, RefsMatch,
     FreeIsExact, HasSc
<1>4. CASE ScanLock
  <2>1. Count - free = Cardinality(InUse) /\ Count - free \in 0 .. Count
    BY FiniteSets, CountFacts DEF IInv, TypeOK, FreeIsExact
  <2>2. TypeOK'
    BY <1>1, <1>4, <2>1 DEF IInv, TypeOK, ScanLock
  <2>3. ZoneLockInv'
    BY <1>1, <1>4 DEF IInv, TypeOK, ZoneLockInv, ScanLock, HasZone, ScanHasZone
  <2>4. (CountInv /\ ScanReachesAll)'
    BY <1>2, <1>4, <2>1 DEF IInv, CountInv, ScanReachesAll, ScanLock, ScanHasZone
  <2> QED BY <1>3, <2>2, <2>3, <2>4 DEF IInv
<1>5. CASE ScanPass
  <2>1. TypeOK'
    BY <1>1, <1>5 DEF IInv, TypeOK, ScanPass, Reached, InUse
  <2>2. ZoneLockInv'
    BY <1>1, <1>5 DEF IInv, TypeOK, ZoneLockInv, ScanPass, HasZone, ScanHasZone
  <2>3. (CountInv /\ ScanReachesAll)'
    BY <1>2, <1>5, ReachesAll DEF IInv, CountInv, ScanReachesAll, ScanPass, ScanHasZone
  <2> QED BY <1>3, <2>1, <2>2, <2>3 DEF IInv
<1>6. CASE ScanEnd
  <2>1. TypeOK'
    BY <1>1, <1>6 DEF IInv, TypeOK, ScanEnd
  <2>2. ZoneLockInv'
    BY <1>1, <1>6 DEF IInv, TypeOK, ZoneLockInv, ScanEnd, HasZone, ScanHasZone
  <2>3. (CountInv /\ ScanReachesAll)'
    BY <1>2, <1>6 DEF IInv, CountInv, ScanReachesAll, ScanEnd, ScanHasZone, WindowOpens
  <2> QED BY <1>3, <2>1, <2>2, <2>3 DEF IInv
<1> QED BY <1>4, <1>5, <1>6 DEF Scan

(* ff_create_so_memzone leaves an empty zone. *)
LEMMA InitHolds == ASSUME Init PROVE IInv
<1>1. TypeOK
  <2>1. Count \in 0 .. Count /\ 0 \in 0 .. Count
    BY CountFacts
  <2> QED BY <2>1 DEF Init, TypeOK
<1>2. InUse = {} /\ Cardinality(InUse) = 0
  BY FS_EmptySet DEF Init, InUse
<1>3. FreeIsExact /\ RefsMatch
  BY <1>2, CountFacts DEF Init, FreeIsExact, RefsMatch
<1> QED
  BY <1>1, <1>2, <1>3 DEF Init, IInv, ZoneLockInv, ScLockInv, HeldInv, NotFreedWhileHeld, RefInv,
     CountInv, ScanReachesAll, HasZone, ScanHasZone, HasSc

-----------------------------------------------------------------------------
(* The inductive invariant holds in every reachable state. *)
THEOREM Inductive == Spec => []IInv
<1>1. Init => IInv
  BY InitHolds
<1>2. IInv /\ [Next]_vars => IInv'
  <2> SUFFICES ASSUME IInv, [Next]_vars PROVE IInv'
    OBVIOUS
  <2>1. ASSUME NEW p \in Proc, Process(p) PROVE IInv'
    BY <2>1, StartKeeps, AttachLockKeeps, AttachKeeps, AttachFailsKeeps, ForkLockKeeps,
       ForkKeeps, ForkFailsKeeps, ForkDoneKeeps, ExitKeeps, DetachZoneLockKeeps,
       DetachScLockKeeps, DetachKeeps, KillKeeps DEF Process
  <2>2. CASE UNCHANGED vars
    <3>1. InUse' = InUse /\ \A c : Holders(c)' = Holders(c) /\ Forked(c)' = Forked(c)
      BY <2>2 DEF InUse, Holders, Forked, vars, zoneVars, procVars
    <3> QED
      BY <2>2, <3>1 DEF IInv, TypeOK, ZoneLockInv, ScLockInv, HeldInv, NotFreedWhileHeld, RefInv,
         RefsMatch, FreeIsExact, CountInv, ScanReachesAll, HasZone, ScanHasZone, HasSc, vars,
         zoneVars, procVars, scanVars, killVars
  <2> QED BY <2>1, <2>2, ScanKeeps DEF Next
<1> QED BY <1>1, <1>2, PTL DEF Spec

(* Every variable keeps its type: zone->free stays within the zone's size, *)
(* so the assertion count >= free of ff_handle_each_context holds.         *)
THEOREM TypeCorrect == Spec => []TypeOK
BY Inductive, PTL DEF IInv

(* zone->free is exact in every reachable state. *)
THEOREM FreeStaysExact == Spec => []FreeIsExact
BY Inductive, PTL DEF IInv

(* A context that some process uses is never freed under it, even in the   *)
(* window between fork and refcount++.                                     *)
THEOREM NeverFreedWhileHeld == Spec => []NotFreedWhileHeld
BY Inductive, PTL DEF IInv

(* refcount is the number of processes that hold the context, less those   *)
(* not yet counted, plus what killed processes left.                       *)
THEOREM RefsStayExact == Spec => []RefsMatch
BY Inductive, PTL DEF IInv

(* A context stays in use only for a process that holds it or a process    *)
(* that was killed: refcount counts one of them.                           *)
THEOREM AlwaysReclaimed == Spec => []Reclaimed
<1>1. IInv => Reclaimed
  <2> SUFFICES ASSUME IInv, NEW c \in InUse, Holders(c) = {} PROVE orphan[c] > 0
    BY DEF Reclaimed
  <2>1. Forked(c) = {}
    BY DEF Holders, Forked
  <2>2. c \in Context /\ refcount[c] >= 1
    BY DEF IInv, RefInv, InUse
  <2>3. Cardinality(Holders(c)) = 0 /\ Cardinality(Forked(c)) = 0
    BY <2>1, FS_EmptySet
  <2>4. refcount[c] = 0 - 0 + orphan[c] /\ orphan[c] \in Nat
    BY <2>2, <2>3 DEF IInv, TypeOK, RefsMatch
  <2> QED BY <2>2, <2>4
<1> QED BY <1>1, Inductive, PTL

(* A pass that does not begin with an empty zone looks at every attached   *)
(* context.                                                                *)
THEOREM ScanAlwaysReachesAll == Spec => []ScanReachesAll
BY Inductive, PTL DEF IInv
=============================================================================

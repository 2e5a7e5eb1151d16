---------------------------- MODULE CoexistProof ----------------------------
(***************************************************************************)
(* Proofs about Coexist, for any descriptor tables, event arrays, filters, *)
(* calls and number of calls.                                              *)
(*                                                                         *)
(* The argument: every host descriptor is the application's own (kheld),   *)
(* attached to one F-Stack descriptor, or nobody's (spoilt: left behind,   *)
(* number 0, or made for what is no kqueue), and it is only one of these   *)
(* unless it is nobody's and attached; so a close takes exactly what       *)
(* belongs to it.  The file of a host half is open nowhere    *)
(* else but in descriptors left behind (DualFile), so that a registration  *)
(* made for it goes with it (RegInv).                                      *)
(***************************************************************************)
EXTENDS Coexist, FiniteSetTheorems, WellFoundedInduction, TLAPS

(* A table of host descriptors. *)
HTable == [HFd -> Id \union {0, Stdin}]

Types ==
  /\ ff \in [FFd -> Id \union {0}] /\ hf \in HTable
  /\ fst \in [Id -> State] /\ hst \in [Id -> State]
  /\ map \in [FFd -> HFd] /\ pairs \subseteq [kq: FFd, ep: HFd \ {0}]
  /\ kheld \subseteq HFd /\ spoilt \subseteq HFd /\ hreg \subseteq Reg
  /\ told \in [FFd -> {"new", "bound", "listen"}]

(* What is attached, held or left behind is open, and attached once. *)
HostInv ==
  /\ \A h \in kheld \union spoilt : hf[h] \in Id
  /\ kheld \intersect spoilt = {}
  /\ \A f \in FFd : \A h \in Attached(f) : hf[h] \in Id /\ h \notin kheld
  /\ \A f, g \in FFd : f # g => Attached(f) \intersect Attached(g) = {}

(* The file of a host half has no other descriptor but those left behind.  *)
DualFile ==
  \A f \in FFd : Dual(f) =>
    \A y \in HFd : hf[y] = hf[map[f]] => y = map[f] \/ y \in spoilt

(* The registrations made for F-Stack descriptors, and whose file it is.   *)
FReg == {r \in hreg : r.app.stk = "f"}

RegInv ==
  \A r \in FReg :
    /\ r.app.fd \in FFd /\ r.h # 0
    /\ \E y \in HFd : hf[y] = r.file
    /\ \A y \in HFd : hf[y] = r.file => y \in spoilt \/ (y = r.h /\ map[r.app.fd] = r.h)

(* The file of a kqueue, which its host epoll shares, is no host half's. *)
KqInv ==
  \A i \in Id : fst[i] = "kq" =>
    /\ \A f \in FFd : Dual(f) => hf[map[f]] # i
    /\ \A r \in FReg : r.file # i

(* A file F-Stack gives out is as new; so is what was said of a descriptor.*)
FreshInv == \A i \in Id : (\A f \in FFd : ff[f] # i) => fst[i] = "new"
ToldInv == \A f \in FFd : ff[f] = 0 => told[f] = "new"

(* The inductive invariant. *)
IInv ==
  /\ Types /\ HostInv /\ PairsMatch /\ NoLeak /\ DualFile /\ RegInv /\ KqInv
  /\ FreshInv /\ ToldInv /\ ListensInBoth

-----------------------------------------------------------------------------
(* Both tables give the lowest number that is free. *)
LEMMA LeastIn == ASSUME NEW S \in SUBSET Nat, S # {} PROVE Least(S) \in S
<1> DEFINE T == {0 .. x : x \in S}
<1>1. T \subseteq FiniteSubsetsOf(Nat)
  <2>1. \A x \in S : 0 .. x \in SUBSET Nat /\ IsFiniteSet(0 .. x)
    BY FS_Interval
  <2> QED BY <2>1 DEF FiniteSubsetsOf
<1>2. PICK I \in T : \A J \in T : ~ (<<J, I>> \in StrictSubsetOrdering(Nat))
  <2>1. T # {} OBVIOUS
  <2> HIDE DEF T
  <2> QED BY <1>1, <2>1, FS_StrictSubsetOrderingWellFounded, WFMin
<1>3. PICK x \in S : I = 0 .. x
  OBVIOUS
<1>4. ASSUME NEW y \in S PROVE x <= y
  <2>1. ~ (<<0 .. y, 0 .. x>> \in StrictSubsetOrdering(Nat))
    BY <1>2, <1>3
  <2>2. 0 .. y \in SUBSET Nat /\ 0 .. x \in SUBSET Nat
    OBVIOUS
  <2>3. ~(0 .. y \subseteq 0 .. x /\ 0 .. y # 0 .. x)
    BY <2>1, <2>2 DEF StrictSubsetOrdering
  <2>4. y < x => 0 .. y \subseteq 0 .. x /\ x \in 0 .. x /\ x \notin 0 .. y
    OBVIOUS
  <2> QED BY <2>3, <2>4
<1> QED BY <1>4 DEF Least

(* There is a file for every descriptor: as long as a descriptor is free,  *)
(* so is a file.                                                           *)
LEMMA IdLeft ==
  ASSUME ff \in [FFd -> Id \union {0}], hf \in HTable, FreeF # {} \/ FreeH # {}
  PROVE  FreeId # {}
<1> SUFFICES ASSUME FreeId = {} PROVE FALSE OBVIOUS
<1> DEFINE Slot == (0 - NbFFd) .. NbHFd
           At(s) == IF s < 0 THEN ff[0 - 1 - s] ELSE hf[s]
<1>1. NbFFd \in Nat \ {0} /\ NbHFd \in Nat BY CoexistAssumption
<1>2. PICK e \in Slot : At(e) = 0
  <2>1. CASE FreeF # {}
    <3>1. PICK f \in FFd : ff[f] = 0 BY <2>1 DEF FreeF
    <3>2. 0 - 1 - f \in Slot /\ 0 - 1 - f < 0 /\ 0 - 1 - (0 - 1 - f) = f BY <1>1 DEF FFd
    <3> QED BY <3>1, <3>2
  <2>2. CASE FreeH # {}
    <3>1. PICK h \in HFd : hf[h] = 0 BY <2>2 DEF FreeH
    <3>2. h \in Slot /\ ~(h < 0) BY <1>1 DEF HFd
    <3> QED BY <3>1, <3>2
  <2> QED BY <2>1, <2>2
<1>3. \A i \in Id : \E s \in Slot \ {e} : At(s) = i
  <2> SUFFICES ASSUME NEW i \in Id PROVE \E s \in Slot \ {e} : At(s) = i OBVIOUS
  <2>1. i # 0 BY <1>1 DEF Id
  <2>2. (\E f \in FFd : ff[f] = i) \/ (\E h \in HFd : hf[h] = i) BY DEF FreeId
  <2>3. CASE \E f \in FFd : ff[f] = i
    <3>1. PICK f \in FFd : ff[f] = i BY <2>3
    <3>2. 0 - 1 - f \in Slot /\ 0 - 1 - f < 0 /\ 0 - 1 - (0 - 1 - f) = f BY <1>1 DEF FFd
    <3>3. At(0 - 1 - f) = i BY <3>1, <3>2
    <3> QED BY <1>2, <2>1, <3>2, <3>3
  <2>4. CASE \E h \in HFd : hf[h] = i
    <3>1. PICK h \in HFd : hf[h] = i BY <2>4
    <3>2. h \in Slot /\ ~(h < 0) BY <1>1 DEF HFd
    <3>3. At(h) = i BY <3>1, <3>2
    <3> QED BY <1>2, <2>1, <3>2, <3>3
  <2> QED BY <2>2, <2>3, <2>4
<1> DEFINE Holder == [i \in Id |-> CHOOSE s \in Slot \ {e} : At(s) = i]
<1>4. Holder \in [Id -> Slot \ {e}] /\ \A i \in Id : At(Holder[i]) = i
  BY <1>3
<1>5. IsFiniteSet(Id) /\ Cardinality(Id) = NbFFd + NbHFd + 1
  BY <1>1, FS_Interval DEF Id
<1>6. IsFiniteSet(Slot) /\ Cardinality(Slot) = NbFFd + NbHFd + 1
  BY <1>1, FS_Interval
<1>7. IsFiniteSet(Slot \ {e}) /\ Cardinality(Slot \ {e}) = NbFFd + NbHFd
  <2> HIDE DEF Slot
  <2> QED BY <1>1, <1>2, <1>6, FS_RemoveElement
<1>8. \E i, j \in Id : i # j /\ Holder[i] = Holder[j]
  <2> HIDE DEF Holder, Slot
  <2>1. Cardinality(Slot \ {e}) < Cardinality(Id) BY <1>1, <1>5, <1>7
  <2> QED BY <1>4, <1>5, <1>7, <2>1, FS_PigeonHole
<1> QED BY <1>4, <1>8

-----------------------------------------------------------------------------
LEMMA Zero ==
  /\ 0 \notin Id /\ Stdin \notin Id /\ Stdin # 0 /\ 0 \in HFd
  /\ Id \subseteq Nat /\ HFd \subseteq Nat /\ FFd \subseteq Nat
BY CoexistAssumption DEF Id, HFd, FFd, Stdin

LEMMA AttachedIs ==
  ASSUME NEW f, NEW h
  PROVE  /\ h \in Attached(f) <=> (h = map[f] /\ h # 0) \/ \E p \in pairs : p.kq = f /\ p.ep = h
         /\ h \in Attached(f)' <=> (h = map'[f] /\ h # 0) \/ \E p \in pairs' : p.kq = f /\ p.ep = h
BY DEF Attached

LEMMA AttachedIn ==
  ASSUME Types PROVE \A f \in FFd : Attached(f) \subseteq HFd /\ 0 \notin Attached(f)
BY AttachedIs DEF Types

LEMMA SameAttached ==
  ASSUME NEW f, map'[f] = map[f], UNCHANGED pairs PROVE Attached(f)' = Attached(f)
BY DEF Attached

(* What the tables give out was free, and a new file is in neither. *)
LEMMA NewIsFree ==
  ASSUME Types
  PROVE  /\ FreeF # {} => NewF \in FFd /\ ff[NewF] = 0
         /\ FreeH # {} => NewH \in HFd /\ hf[NewH] = 0 /\ hf[NewH] \notin Id
         /\ FreeF # {} \/ FreeH # {} =>
              NewId \in Id /\ (\A f \in FFd : ff[f] # NewId) /\ (\A h \in HFd : hf[h] # NewId)
<1>1. FreeF \in SUBSET Nat /\ FreeH \in SUBSET Nat /\ FreeId \in SUBSET Nat
  BY Zero DEF FreeF, FreeH, FreeId
<1>2. FreeF # {} => NewF \in FreeF
  BY <1>1, LeastIn DEF NewF
<1>3. FreeH # {} => NewH \in FreeH
  BY <1>1, LeastIn DEF NewH
<1>4. FreeF # {} \/ FreeH # {} => NewId \in FreeId
  BY <1>1, LeastIn, IdLeft DEF NewId, Types
<1> QED BY <1>2, <1>3, <1>4, Zero DEF FreeF, FreeH, FreeId

-----------------------------------------------------------------------------
(* Steps that open descriptors and close none. *)

FGrow == \A f \in FFd : ff[f] # 0 => ff'[f] = ff[f]
HGrow == \A h \in HFd : hf[h] \in Id => hf'[h] = hf[h]

(* File i is no host half's, and nothing is registered for it. *)
Apart(i) ==
  /\ \A f \in FFd : Dual(f) => hf[map[f]] # i
  /\ \A r \in FReg : r.file # i

(* A free F-Stack descriptor gets a host half with a new file. *)
NewHalf(f) ==
  /\ ff[f] = 0 /\ map'[f] \in HFd /\ hf[map'[f]] \notin Id /\ hf'[map'[f]] \in Id
  /\ \A h \in HFd : hf[h] # hf'[map'[f]]
  /\ \A h \in HFd : hf'[h] = hf'[map'[f]] => h = map'[f]
  /\ fst'[hf'[map'[f]]] # "kq"

MapGrow == \A f \in FFd : map'[f] = map[f] \/ NewHalf(f) \/ (ff[f] = 0 /\ map'[f] = 0)

FileGrow == \A y \in HFd : hf[y] \notin Id /\ hf'[y] \in Id => y \in spoilt' \/ Apart(hf'[y])

RegGrow ==
  \A r \in FReg' :
    \/ r \in FReg
    \/ r.app.fd \in FFd /\ Dual(r.app.fd) /\ r.h = map[r.app.fd] /\ r.file = hf[r.h]

StateGrow ==
  /\ \A f \in FFd : ff[f] # 0 => fst'[ff[f]] = fst[ff[f]]
  /\ \A h \in HFd : hf[h] \in Id => hst'[hf[h]] = hst[hf[h]]
  /\ \A i \in Id : fst'[i] = fst[i] \/ ((\E f \in FFd : ff'[f] = i) /\ \A h \in HFd : hf'[h] # i)

(* The map's entries are descriptors, and open. *)
LEMMA DualFacts ==
  ASSUME IInv, NEW f \in FFd, Dual(f)
  PROVE  /\ map[f] \in HFd /\ map[f] \in Attached(f) /\ map[f] \notin kheld
         /\ hf[map[f]] \in Id
         /\ ff[f] = 0 => map[f] \in spoilt
<1>1. map[f] \in HFd /\ map[f] \in Attached(f)
  BY AttachedIs DEF IInv, Types, Dual
<1>2. hf[map[f]] \in Id /\ map[f] \notin kheld
  BY <1>1 DEF IInv, HostInv
<1>3. ff[f] = 0 => map[f] \in spoilt
  BY <1>1 DEF IInv, PairsMatch
<1> QED BY <1>1, <1>2, <1>3

LEMMA FRegFacts ==
  ASSUME IInv, NEW r \in FReg
  PROVE  r \in Reg /\ r.file \in Id /\ r.h \in HFd /\ r.h # 0 /\ r.app.fd \in FFd
<1>1. r \in Reg /\ r.app.fd \in FFd /\ r.h # 0
  BY DEF IInv, Types, FReg, RegInv
<1> QED BY <1>1 DEF Reg

(* Files that are new, and those of the descriptors the application holds. *)
LEMMA FreshApart == ASSUME IInv, NEW i, \A h \in HFd : hf[h] # i PROVE Apart(i)
<1>1. \A f \in FFd : Dual(f) => hf[map[f]] # i
  BY DualFacts
<1>2. \A r \in FReg : r.file # i
  BY DEF IInv, RegInv
<1> QED BY <1>1, <1>2 DEF Apart

LEMMA HeldApart == ASSUME IInv, NEW h \in kheld PROVE Apart(hf[h])
<1>1. h \in HFd /\ h \notin spoilt /\ hf[h] \in Id /\ \A f \in FFd : h \notin Attached(f)
  BY DEF IInv, Types, HostInv
<1>2. ASSUME NEW f \in FFd, Dual(f) PROVE hf[map[f]] # hf[h]
  <2>1. h # map[f] BY <1>1, <1>2, DualFacts
  <2> QED BY <1>1, <1>2, <2>1 DEF IInv, DualFile
<1>3. ASSUME NEW r \in FReg PROVE r.file # hf[h]
  <2>1. r.app.fd \in FFd /\ r.h # 0 BY FRegFacts
  <2>2. h = map[r.app.fd] => h = 0 BY <1>1, <2>1, AttachedIs
  <2> QED BY <1>1, <2>1, <2>2 DEF IInv, RegInv
<1> QED BY <1>2, <1>3 DEF Apart

LEMMA GrowKeeps ==
  ASSUME IInv, (Types /\ HostInv /\ PairsMatch /\ NoLeak)', FGrow, HGrow, MapGrow, FileGrow,
         RegGrow, StateGrow, spoilt \subseteq spoilt', told' = told
  PROVE  IInv'
<1>1. ASSUME NEW f \in FFd, Dual(f), map'[f] = map[f] PROVE hf'[map'[f]] = hf[map[f]]
  BY <1>1, DualFacts DEF HGrow
<1>2. DualFile'
  <2> SUFFICES ASSUME NEW f \in FFd, Dual(f)', NEW y \in HFd, hf'[y] = hf'[map'[f]]
               PROVE  y = map'[f] \/ y \in spoilt'
    BY DEF DualFile
  <2>1. CASE NewHalf(f)
    BY <2>1 DEF NewHalf
  <2>2. CASE map'[f] = map[f]
    <3>1. Dual(f) /\ hf'[y] = hf[map[f]] /\ hf'[y] \in Id
      BY <1>1, <2>2, DualFacts DEF Dual
    <3>2. CASE hf[y] \in Id
      BY <2>2, <3>1, <3>2 DEF IInv, DualFile, HGrow
    <3>3. CASE hf[y] \notin Id
      BY <3>1, <3>3 DEF FileGrow, Apart
    <3> QED BY <3>2, <3>3
  <2> QED BY <2>1, <2>2 DEF MapGrow, Dual
<1>3. RegInv'
  <2> SUFFICES ASSUME NEW r \in FReg'
               PROVE  /\ r.app.fd \in FFd /\ r.h # 0
                      /\ \E y \in HFd : hf'[y] = r.file
                      /\ \A y \in HFd : hf'[y] = r.file =>
                           y \in spoilt' \/ (y = r.h /\ map'[r.app.fd] = r.h)
    BY DEF RegInv
  <2>1. CASE r \in FReg
    <3>1. /\ r.app.fd \in FFd /\ r.file \in Id /\ r.h # 0 /\ \E y \in HFd : hf[y] = r.file
          /\ \A y \in HFd : hf[y] = r.file => y \in spoilt \/ (y = r.h /\ map[r.app.fd] = r.h)
      BY <2>1, FRegFacts DEF IInv, RegInv
    <3>2. \E y \in HFd : hf'[y] = r.file
      BY <3>1 DEF HGrow
    <3>3. ASSUME NEW y \in HFd, hf'[y] = r.file, y \notin spoilt'
          PROVE  y = r.h /\ map'[r.app.fd] = r.h
      <4>1. hf[y] = r.file
        BY <2>1, <3>1, <3>3 DEF FileGrow, Apart, HGrow
      <4>2. y = r.h /\ map[r.app.fd] = r.h /\ y \notin spoilt
        BY <3>1, <3>3, <4>1
      <4>3. ff[r.app.fd] # 0
        BY <3>1, <4>2, DualFacts DEF Dual
      <4> QED BY <3>1, <4>2, <4>3 DEF MapGrow, NewHalf
    <3> QED BY <3>1, <3>2, <3>3
  <2>2. CASE r.app.fd \in FFd /\ Dual(r.app.fd) /\ r.h = map[r.app.fd] /\ r.file = hf[r.h]
    <3>1. r.h \in HFd /\ hf[r.h] \in Id /\ hf'[r.h] = r.file
      BY <2>2, DualFacts DEF HGrow
    <3>2. ASSUME NEW y \in HFd, hf'[y] = r.file, y \notin spoilt'
          PROVE  y = r.h /\ map'[r.app.fd] = r.h
      <4>1. hf[y] = r.file
        BY <2>2, <3>1, <3>2 DEF FileGrow, Apart, HGrow
      <4>2. y = r.h /\ y \notin spoilt
        BY <2>2, <3>2, <4>1 DEF IInv, DualFile
      <4>3. ff[r.app.fd] # 0
        BY <2>2, <4>2, DualFacts
      <4> QED BY <2>2, <4>2, <4>3 DEF MapGrow, NewHalf
    <3>3. r.h # 0
      BY <2>2 DEF Dual
    <3> QED BY <2>2, <3>1, <3>2, <3>3
  <2> QED BY <2>1, <2>2 DEF RegGrow
<1>4. KqInv'
  <2> SUFFICES ASSUME NEW i \in Id, fst'[i] = "kq"
               PROVE  /\ \A f \in FFd : Dual(f)' => hf'[map'[f]] # i
                      /\ \A r \in FReg' : r.file # i
    BY DEF KqInv
  <2>1. ASSUME NEW f \in FFd, Dual(f)' PROVE hf'[map'[f]] # i
    <3>1. CASE NewHalf(f)
      BY <3>1 DEF NewHalf
    <3>4. map'[f] # 0
      BY <2>1 DEF Dual
    <3>2. CASE map'[f] = map[f] /\ fst[i] = "kq"
      BY <1>1, <2>1, <3>2 DEF IInv, KqInv, Dual
    <3>3. CASE map'[f] = map[f] /\ \A h \in HFd : hf'[h] # i
      BY <2>1, <3>3, DualFacts DEF Dual
    <3> QED BY <3>1, <3>2, <3>3, <3>4 DEF MapGrow, StateGrow
  <2>2. ASSUME NEW r \in FReg' PROVE r.file # i
    <3>1. CASE \A h \in HFd : hf'[h] # i
      BY <1>3, <2>2, <3>1 DEF RegInv
    <3>2. CASE fst[i] = "kq"
      BY <2>2, <3>2 DEF IInv, KqInv, RegGrow
    <3> QED BY <3>1, <3>2 DEF StateGrow
  <2> QED BY <2>1, <2>2
<1>5. FreshInv'
  <2> SUFFICES ASSUME NEW i \in Id, \A f \in FFd : ff'[f] # i PROVE fst'[i] = "new"
    BY DEF FreshInv
  <2>1. \A f \in FFd : ff[f] # i
    BY Zero DEF FGrow
  <2> QED BY <2>1 DEF IInv, FreshInv, StateGrow
<1>6. ToldInv'
  BY DEF IInv, ToldInv, FGrow
<1>7. ListensInBoth'
  <2> SUFFICES ASSUME NEW f \in FFd, (Dual(f) /\ IsSock(f))', map'[f] \notin spoilt', told'[f] = "listen"
               PROVE  fst'[ff'[f]] = "listen" /\ hst'[hf'[map'[f]]] = "listen"
    BY DEF ListensInBoth, Host
  <2>1. ff[f] # 0 /\ ff'[f] = ff[f]
    BY DEF IInv, ToldInv, FGrow
  <2>2. map'[f] = map[f] /\ Dual(f) /\ map[f] \notin spoilt
    BY <2>1 DEF MapGrow, NewHalf, Dual
  <2>3. IsSock(f) /\ fst'[ff'[f]] = fst[ff[f]]
    BY <2>1 DEF IsSock, StateGrow
  <2>4. hst'[hf'[map'[f]]] = hst[hf[map[f]]]
    BY <1>1, <2>2, DualFacts DEF StateGrow
  <2> QED BY <2>2, <2>3, <2>4 DEF IInv, ListensInBoth, Host
<1> QED BY <1>2, <1>3, <1>4, <1>5, <1>6, <1>7 DEF IInv

(* Where the new host descriptor x goes, if there is one: to the           *)
(* application, to nobody, or to F-Stack descriptor n.                     *)
HSame == \A h \in HFd : hf'[h] = hf[h] \/ {hf[h], hf'[h]} \intersect Id = {}

LEMMA HostSame ==
  ASSUME IInv, FGrow, \A f \in FFd : Attached(f)' = Attached(f), HSame, UNCHANGED <<kheld, spoilt>>
  PROVE  (HostInv /\ PairsMatch /\ NoLeak)'
<1>1. /\ \A h \in HFd : hf[h] \in Id => hf'[h] = hf[h]
      /\ \A h \in HFd : hf'[h] \in Id => hf[h] \in Id
      /\ kheld \subseteq HFd /\ spoilt \subseteq HFd /\ \A f \in FFd : Attached(f) \subseteq HFd
  BY AttachedIn DEF HSame, IInv, Types
<1>2. HostInv'
  BY <1>1 DEF IInv, HostInv
<1>3. PairsMatch'
  <2> SUFFICES ASSUME NEW f \in FFd, NEW h \in Attached(f), h \notin spoilt
               PROVE  ff'[f] # 0 /\ hf'[h] = ff'[f]
    BY DEF PairsMatch
  <2>1. ff[f] # 0 /\ hf[h] = ff[f] /\ hf[h] \in Id /\ h \in HFd
    BY <1>1 DEF IInv, PairsMatch, HostInv
  <2> QED BY <1>1, <2>1 DEF FGrow
<1>4. NoLeak'
  BY <1>1 DEF IInv, NoLeak, Opened, Reached, FGrow
<1> QED BY <1>2, <1>3, <1>4

Taken(x) ==
  \/ kheld' = kheld \union {x} /\ spoilt' = spoilt
  \/ spoilt' = spoilt \union {x} /\ kheld' = kheld

LEMMA HostTaken ==
  ASSUME IInv, FGrow, NEW x \in HFd, hf[x] \notin Id, hf'[x] \in Id, \A h \in HFd \ {x} : hf'[h] = hf[h],
         Taken(x), \A f \in FFd : Attached(f)' \subseteq Attached(f),
         \A f \in FFd : Attached(f) \ Attached(f)' \subseteq spoilt
  PROVE  (HostInv /\ PairsMatch /\ NoLeak)'
<1>1. /\ x \notin kheld /\ x \notin spoilt /\ \A f \in FFd : x \notin Attached(f)
      /\ kheld \subseteq HFd /\ spoilt \subseteq HFd
  BY DEF IInv, HostInv, Types
<1>2. \A f \in FFd : Attached(f) \subseteq HFd
  BY AttachedIn DEF IInv
<1>3. HostInv'
  <2>1. \A h \in kheld' \union spoilt' : hf'[h] \in Id
    BY <1>1 DEF IInv, HostInv, Taken
  <2>2. kheld' \intersect spoilt' = {}
    BY <1>1 DEF IInv, HostInv, Taken
  <2>3. \A f \in FFd : \A h \in Attached(f)' : hf'[h] \in Id /\ h \notin kheld'
    BY <1>1, <1>2 DEF IInv, HostInv, Taken
  <2>4. \A f, g \in FFd : f # g => Attached(f)' \intersect Attached(g)' = {}
    BY DEF IInv, HostInv
  <2> QED BY <2>1, <2>2, <2>3, <2>4 DEF HostInv
<1>4. PairsMatch'
  <2> SUFFICES ASSUME NEW f \in FFd, NEW h \in Attached(f)', h \notin spoilt'
               PROVE  ff'[f] # 0 /\ hf'[h] = ff'[f]
    BY DEF PairsMatch
  <2>1. h \in Attached(f) /\ h \notin spoilt /\ h \in HFd \ {x}
    BY <1>1, <1>2 DEF Taken
  <2> QED BY <2>1 DEF IInv, PairsMatch, FGrow
<1>5. NoLeak'
  <2> SUFFICES ASSUME NEW h \in HFd, hf'[h] \in Id, h \notin spoilt' PROVE Reached(h)'
    BY DEF NoLeak, Opened
  <2>1. CASE h = x
    BY <2>1 DEF Taken, Reached
  <2>2. CASE h # x
    <3>1. h \notin spoilt /\ (h \in kheld \/ \E f \in FFd : ff[f] # 0 /\ h \in Attached(f))
      BY <2>2 DEF IInv, NoLeak, Opened, Reached, Taken
    <3>2. CASE h \in kheld
      BY <3>2 DEF Reached, Taken
    <3>3. ASSUME NEW f \in FFd, ff[f] # 0, h \in Attached(f) PROVE Reached(h)'
      <4>1. ff'[f] # 0 /\ h \in Attached(f)' BY <3>1, <3>3 DEF FGrow
      <4> QED BY <4>1 DEF Reached
    <3> QED BY <3>1, <3>2, <3>3
  <2> QED BY <2>1, <2>2
<1> QED BY <1>3, <1>4, <1>5

LEMMA HostAttached ==
  ASSUME IInv, FGrow, NEW x \in HFd, hf[x] \notin Id, hf'[x] \in Id, \A h \in HFd \ {x} : hf'[h] = hf[h],
         kheld' = kheld, spoilt \subseteq spoilt', spoilt' \subseteq spoilt \union {x},
         NEW n \in FFd, \A f \in FFd \ {n} : Attached(f)' = Attached(f),
         x \in Attached(n)', Attached(n)' \subseteq Attached(n) \union {x},
         Attached(n) \ Attached(n)' \subseteq spoilt,
         x \in spoilt' \/ (ff'[n] # 0 /\ hf'[x] = ff'[n])
  PROVE  (HostInv /\ PairsMatch /\ NoLeak)'
<1>1. /\ x \notin kheld /\ x \notin spoilt /\ \A f \in FFd : x \notin Attached(f)
      /\ kheld \subseteq HFd /\ spoilt \subseteq HFd
  BY DEF IInv, HostInv, Types
<1>2. \A f \in FFd : Attached(f) \subseteq HFd
  BY AttachedIn DEF IInv
<1>3. \A f \in FFd : Attached(f)' \subseteq Attached(f) \union {x} /\ (f # n => x \notin Attached(f)')
  BY <1>1
<1>4. HostInv'
  <2>1. \A h \in kheld' \union spoilt' : hf'[h] \in Id
    BY <1>1 DEF IInv, HostInv
  <2>2. kheld' \intersect spoilt' = {}
    BY <1>1 DEF IInv, HostInv
  <2>3. \A f \in FFd : \A h \in Attached(f)' : hf'[h] \in Id /\ h \notin kheld'
    BY <1>1, <1>2, <1>3 DEF IInv, HostInv
  <2>4. \A f, g \in FFd : f # g => Attached(f)' \intersect Attached(g)' = {}
    BY <1>3 DEF IInv, HostInv
  <2> QED BY <2>1, <2>2, <2>3, <2>4 DEF HostInv
<1>5. PairsMatch'
  <2> SUFFICES ASSUME NEW f \in FFd, NEW h \in Attached(f)', h \notin spoilt'
               PROVE  ff'[f] # 0 /\ hf'[h] = ff'[f]
    BY DEF PairsMatch
  <2>1. CASE h = x
    BY <1>3, <2>1
  <2>2. CASE h # x
    <3>1. h \in Attached(f) /\ h \notin spoilt /\ h \in HFd \ {x}
      BY <1>2, <1>3, <2>2
    <3> QED BY <3>1 DEF IInv, PairsMatch, FGrow
  <2> QED BY <2>1, <2>2
<1>6. NoLeak'
  <2> SUFFICES ASSUME NEW h \in HFd, hf'[h] \in Id, h \notin spoilt' PROVE Reached(h)'
    BY DEF NoLeak, Opened
  <2>1. CASE h = x
    BY <2>1 DEF Reached
  <2>2. CASE h # x
    <3>1. h \notin spoilt /\ (h \in kheld \/ \E f \in FFd : ff[f] # 0 /\ h \in Attached(f))
      BY <2>2 DEF IInv, NoLeak, Opened, Reached
    <3>2. CASE h \in kheld
      BY <3>2 DEF Reached
    <3>3. CASE \E f \in FFd : ff[f] # 0 /\ h \in Attached(f)
      <4>1. PICK f \in FFd : ff[f] # 0 /\ h \in Attached(f) BY <3>3
      <4>2. ff'[f] # 0 /\ h \in Attached(f)' BY <3>1, <4>1 DEF FGrow
      <4> QED BY <4>2 DEF Reached
    <3> QED BY <3>1, <3>2, <3>3
  <2> QED BY <2>1, <2>2
<1> QED BY <1>4, <1>5, <1>6

(* Calls and arrivals that change neither descriptors nor states. *)
LEMMA QuietKeeps ==
  ASSUME IInv, UNCHANGED <<ff, fst, hf, hst, hreg, kheld, map, pairs, told, spoilt>>
  PROVE  IInv'
<1>1. \A f \in FFd : Attached(f)' = Attached(f)
  BY SameAttached
<1>2. Types'
  BY DEF IInv, Types
<1>3. FGrow /\ HGrow /\ MapGrow /\ FileGrow /\ RegGrow /\ StateGrow
  BY DEF FGrow, HGrow, MapGrow, FileGrow, RegGrow, FReg, StateGrow
<1>4. (HostInv /\ PairsMatch /\ NoLeak)'
  BY <1>1, <1>3, HostSame DEF HSame
<1> QED BY <1>2, <1>3, <1>4, GrowKeeps

(* A new descriptor of F-Stack: of a file that is open, or of a new one. *)
LEMMA OpenF ==
  ASSUME IInv, NEW n \in FFd, NEW i \in Id, ff[n] = 0, ff' = [ff EXCEPT ![n] = i],
         UNCHANGED <<hf, hst, hreg, kheld, map, pairs, told, spoilt>>,
         \/ fst' = fst
         \/ /\ (\A f \in FFd : ff[f] # i) /\ (\A h \in HFd : hf[h] # i)
            /\ \E s \in State : fst' = [fst EXCEPT ![i] = s]
  PROVE  IInv'
<1>1. ff' \in [FFd -> Id \union {0}] /\ ff'[n] = i /\ \A f \in FFd \ {n} : ff'[f] = ff[f]
  BY DEF IInv, Types
<1>2. fst' \in [Id -> State] /\ \A j \in Id \ {i} : fst'[j] = fst[j]
  BY DEF IInv, Types
<1>3. Types'
  BY <1>1, <1>2 DEF IInv, Types
<1>4. FGrow /\ HGrow /\ MapGrow /\ FileGrow
  BY <1>1 DEF FGrow, HGrow, MapGrow, FileGrow
<1>8. HSame
  BY DEF HSame
<1>5. (HostInv /\ PairsMatch /\ NoLeak)'
  <2>1. \A f \in FFd : Attached(f)' = Attached(f)
    BY SameAttached
  <2> QED BY <1>4, <1>8, <2>1, HostSame
<1>6. RegGrow
  BY DEF RegGrow, FReg
<1>7. StateGrow
  <2>1. ASSUME NEW f \in FFd, ff[f] # 0 PROVE fst'[ff[f]] = fst[ff[f]]
    <3>1. ff[f] \in Id BY <2>1 DEF IInv, Types
    <3> QED BY <1>2, <2>1, <3>1
  <2>2. \A j \in Id : fst'[j] = fst[j] \/ ((\E f \in FFd : ff'[f] = j) /\ \A h \in HFd : hf'[h] # j)
    BY <1>1, <1>2
  <2> QED BY <2>1, <2>2 DEF StateGrow
<1> QED BY <1>3, <1>4, <1>5, <1>6, <1>7, GrowKeeps

(* A new descriptor of the host that is not attached to anything. *)
LEMMA OpenH ==
  ASSUME IInv, NEW x \in HFd, NEW i \in Id, hf[x] \notin Id, hf' = [hf EXCEPT ![x] = i], Taken(x),
         x \in spoilt' \/ Apart(i), FGrow, ff' \in [FFd -> Id \union {0}],
         UNCHANGED <<fst, hreg, map, pairs, told>>,
         \/ hst' = hst
         \/ (\A h \in HFd : hf[h] # i) /\ \E s \in State : hst' = [hst EXCEPT ![i] = s]
  PROVE  IInv'
<1>1. hf' \in HTable /\ hf'[x] = i /\ \A h \in HFd \ {x} : hf'[h] = hf[h]
  BY DEF IInv, Types, HTable
<1>2. hst' \in [Id -> State] /\ \A j \in Id \ {i} : hst'[j] = hst[j]
  BY DEF IInv, Types
<1>3. Types'
  BY <1>1, <1>2 DEF IInv, Types, Taken
<1>4. HGrow /\ MapGrow /\ FileGrow
  BY <1>1 DEF HGrow, MapGrow, FileGrow
<1>5. (HostInv /\ PairsMatch /\ NoLeak)'
  <2>1. \A f \in FFd : Attached(f)' = Attached(f)
    BY SameAttached
  <2>2. hf'[x] \in Id BY <1>1
  <2> QED BY <1>1, <2>1, <2>2, HostTaken
<1>6. RegGrow
  BY DEF RegGrow, FReg
<1>7. StateGrow
  <2>1. ASSUME NEW h \in HFd, hf[h] \in Id PROVE hst'[hf[h]] = hst[hf[h]]
    BY <1>2, <2>1
  <2> QED BY <2>1 DEF StateGrow
<1>8. spoilt \subseteq spoilt' /\ told' = told
  BY DEF Taken
<1> QED BY <1>3, <1>4, <1>5, <1>6, <1>7, <1>8, GrowKeeps

-----------------------------------------------------------------------------
(* Making descriptors. *)

LEMMA SocketKernelKeeps == ASSUME IInv, SocketKernel PROVE IInv'
<1>1. PICK x \in HFd, i \in Id : x = NewH /\ i = NewId /\ hf[x] \notin Id /\ \A h \in HFd : hf[h] # i
  BY NewIsFree DEF SocketKernel, IInv
<1>2. /\ hf' = [hf EXCEPT ![x] = i] /\ Taken(x) /\ UNCHANGED <<ff, fst, hst, hreg, map, pairs, told>>
  BY <1>1 DEF SocketKernel, Taken, fVars, history
<1>3. Apart(i) /\ FGrow /\ ff' \in [FFd -> Id \union {0}]
  BY <1>1, <1>2, FreshApart DEF FGrow, IInv, Types
<1> QED BY <1>1, <1>2, <1>3, OpenH

LEMMA SocketFstackKeeps == ASSUME IInv, SocketFstack PROVE IInv'
<1>1. PICK n \in FFd, i \in Id : n = NewF /\ i = NewId /\ ff[n] = 0
  BY NewIsFree DEF SocketFstack, IInv
<1>2. ff' = [ff EXCEPT ![n] = i] /\ UNCHANGED <<hf, hst, hreg, kheld, map, pairs, told, spoilt, fst>>
  BY <1>1 DEF SocketFstack, hVars, history
<1> QED BY <1>1, <1>2, OpenF

LEMMA KqueueKeeps == ASSUME IInv, Kqueue PROVE IInv'
<1>1. PICK n \in FFd, i \in Id : /\ n = NewF /\ i = NewId /\ ff[n] = 0
                                 /\ (\A f \in FFd : ff[f] # i) /\ (\A h \in HFd : hf[h] # i)
  BY NewIsFree DEF Kqueue, IInv
<1>2. ff' = [ff EXCEPT ![n] = i] /\ UNCHANGED <<hf, hst, hreg, kheld, map, pairs, told, spoilt>>
  BY <1>1 DEF Kqueue, hVars, history
<1>3. \E s \in State : fst' = [fst EXCEPT ![i] = s]
  BY <1>1 DEF Kqueue, State
<1> QED BY <1>1, <1>2, <1>3, OpenF

LEMMA DupKeeps == ASSUME IInv, NEW f \in FFd, Dup(f) PROVE IInv'
<1>1. PICK n \in FFd, i \in Id : n = NewF /\ i = ff[f] /\ ff[n] = 0
  BY NewIsFree DEF Dup, IInv, Types
<1>2. ff' = [ff EXCEPT ![n] = i] /\ UNCHANGED <<hf, hst, hreg, kheld, map, pairs, told, spoilt, fst>>
  BY <1>1 DEF Dup, hVars, history
<1> QED BY <1>1, <1>2, OpenF

LEMMA HeldOpen == ASSUME IInv, NEW h \in kheld PROVE h \in HFd /\ hf[h] \in Id
BY DEF IInv, Types, HostInv

LEMMA DupKernelKeeps == ASSUME IInv, NEW h \in HFd, DupKernel(h) PROVE IInv'
<1>1. h \in kheld /\ FreeH # {}
  BY DEF DupKernel
<1>2. PICK x \in HFd, i \in Id : x = NewH /\ i = hf[h] /\ hf[x] \notin Id
  BY <1>1, NewIsFree, HeldOpen DEF IInv
<1>3. /\ hf' = [hf EXCEPT ![x] = i] /\ Taken(x) /\ UNCHANGED <<ff, fst, hst, hreg, map, pairs, told>>
  BY <1>2 DEF DupKernel, Taken, fVars, history
<1>4. Apart(i) /\ FGrow /\ ff' \in [FFd -> Id \union {0}]
  BY <1>1, <1>2, <1>3, HeldApart DEF FGrow, IInv, Types
<1> QED BY <1>2, <1>3, <1>4, OpenH

LEMMA FcntlDupKernelKeeps == ASSUME IInv, NEW h \in HFd, FcntlDupKernel(h) PROVE IInv'
<1>1. h \in kheld /\ FreeH # {}
  BY DEF FcntlDupKernel
<1>2. PICK x \in HFd, i \in Id : x = NewH /\ i = hf[h] /\ hf[x] \notin Id
  BY <1>1, NewIsFree, HeldOpen DEF IInv
<1>3. /\ hf' = [hf EXCEPT ![x] = i] /\ Taken(x) /\ x \in spoilt'
      /\ UNCHANGED <<ff, fst, hst, hreg, map, pairs, told>>
  BY <1>2 DEF FcntlDupKernel, Taken, fVars, history
<1>4. FGrow /\ ff' \in [FFd -> Id \union {0}]
  BY <1>3 DEF FGrow, IInv, Types
<1> QED BY <1>2, <1>3, <1>4, OpenH

LEMMA FcntlDupKeeps == ASSUME IInv, NEW f \in FFd, FcntlDup(f) PROVE IInv'
<1>1. /\ ff' = IF ff[f] # 0 /\ FreeF # {} THEN [ff EXCEPT ![NewF] = ff[f]] ELSE ff
      /\ UNCHANGED <<fst, hst, hreg, kheld, map, pairs, told>>
  BY DEF FcntlDup, history
<1>2. (ff[f] # 0 /\ FreeF # {}) \/ ff' = ff
  BY <1>1
<1>3. CASE Dual(f) /\ FreeH # {}
  <2>1. PICK x \in HFd, j \in Id : x = NewH /\ j = Host(f) /\ hf[x] \notin Id
    BY <1>3, NewIsFree, DualFacts DEF IInv, Host
  <2>2. hf' = [hf EXCEPT ![x] = j] /\ Taken(x) /\ x \in spoilt'
    BY <1>1, <1>3, <2>1 DEF FcntlDup, Taken
  <2>3. FreeF # {} => NewF \in FFd /\ ff[NewF] = 0
    BY NewIsFree DEF IInv
  <2>4. FGrow /\ ff' \in [FFd -> Id \union {0}]
    BY <1>1, <2>3 DEF FGrow, IInv, Types
  <2> QED BY <1>1, <2>1, <2>2, <2>4, OpenH
<1>4. CASE ~(Dual(f) /\ FreeH # {})
  <2>1. UNCHANGED <<hf, spoilt>>
    BY <1>4 DEF FcntlDup
  <2>2. CASE ff' = ff
    BY <1>1, <2>1, <2>2, QuietKeeps
  <2>3. CASE ff[f] # 0 /\ FreeF # {}
    <3>1. PICK n \in FFd, i \in Id : n = NewF /\ i = ff[f] /\ ff[n] = 0
      BY <2>3, NewIsFree DEF IInv, Types
    <3>2. ff' = [ff EXCEPT ![n] = i]
      BY <1>1, <2>3, <3>1
    <3> QED BY <1>1, <2>1, <3>1, <3>2, OpenF
  <2> QED BY <1>2, <2>2, <2>3
<1> QED BY <1>3, <1>4

(* The process closes its standard input. *)
LEMMA CloseStdinKeeps == ASSUME IInv, CloseStdin PROVE IInv'
<1>1. /\ hf[0] = Stdin /\ hf' = [hf EXCEPT ![0] = 0]
      /\ UNCHANGED <<ff, fst, hst, hreg, kheld, map, pairs, told, spoilt>>
  BY DEF CloseStdin, fVars, history
<1>2. hf' \in HTable /\ hf'[0] = 0 /\ \A h \in HFd \ {0} : hf'[h] = hf[h]
  BY <1>1, Zero DEF IInv, Types, HTable
<1>3. HSame
  BY <1>1, <1>2, Zero DEF HSame
<1>4. Types'
  BY <1>1, <1>2 DEF IInv, Types
<1>5. FGrow /\ HGrow /\ MapGrow /\ FileGrow
  BY <1>1, <1>2, Zero DEF FGrow, HGrow, MapGrow, FileGrow
<1>6. RegGrow /\ StateGrow
  BY <1>1 DEF RegGrow, FReg, StateGrow
<1>7. \A f \in FFd : Attached(f)' = Attached(f)
  BY <1>1, SameAttached
<1>8. (HostInv /\ PairsMatch /\ NoLeak)'
  BY <1>1, <1>3, <1>5, <1>7, HostSame
<1> QED BY <1>1, <1>4, <1>5, <1>6, <1>8, GrowKeeps

(* A socket of both stacks: both halves get one new file. *)
LEMMA SocketDualKeeps == ASSUME IInv, SocketDual PROVE IInv'
<1>1. PICK n \in FFd, i \in Id : /\ n = NewF /\ i = NewId /\ ff[n] = 0
                                 /\ (\A f \in FFd : ff[f] # i) /\ (\A h \in HFd : hf[h] # i)
  BY NewIsFree DEF SocketDual, IInv
<1>2. ff' = [ff EXCEPT ![n] = i] /\ UNCHANGED <<fst, hst, hreg, kheld, pairs, told>>
  BY <1>1 DEF SocketDual, history
<1>3. CASE FreeH = {}
  <2>1. UNCHANGED <<hf, map, spoilt>>
    BY <1>3 DEF SocketDual
  <2> QED BY <1>1, <1>2, <2>1, OpenF
<1>4. CASE FreeH # {}
  <2>1. PICK x \in HFd : x = NewH /\ hf[x] \notin Id
    BY <1>4, NewIsFree DEF IInv
  <2>2. /\ hf' = [hf EXCEPT ![x] = i] /\ map' = [map EXCEPT ![n] = x]
        /\ spoilt' = spoilt \union ({x} \cap {0})
    BY <1>1, <1>4, <2>1 DEF SocketDual
  <2>3. /\ ff' \in [FFd -> Id \union {0}] /\ ff'[n] = i /\ \A f \in FFd \ {n} : ff'[f] = ff[f]
        /\ hf' \in HTable /\ hf'[x] = i /\ \A h \in HFd \ {x} : hf'[h] = hf[h]
        /\ map' \in [FFd -> HFd] /\ map'[n] = x /\ \A f \in FFd \ {n} : map'[f] = map[f]
    BY <1>2, <2>2 DEF IInv, Types, HTable
  <2>4. i # 0 /\ fst[i] = "new" /\ hf'[x] \in Id
    BY <1>1, <2>3, Zero DEF IInv, FreshInv
  <2>5. Types'
    BY <1>2, <2>2, <2>3, Zero DEF IInv, Types
  <2>6. FGrow /\ HGrow
    BY <1>1, <2>1, <2>3 DEF FGrow, HGrow
  <2>7. NewHalf(n)
    BY <1>1, <1>2, <2>1, <2>3, <2>4 DEF NewHalf
  <2>8. MapGrow
    BY <2>3, <2>7 DEF MapGrow
  <2>9. FileGrow
    BY <1>1, <2>3, FreshApart DEF FileGrow
  <2>10. RegGrow /\ StateGrow
    BY <1>2 DEF RegGrow, FReg, StateGrow
  <2>11. (HostInv /\ PairsMatch /\ NoLeak)'
    <3>1. \A f \in FFd \ {n} : Attached(f)' = Attached(f)
      BY <1>2, <2>3, SameAttached
    <3>2. Attached(n) \subseteq spoilt
      BY <1>1 DEF IInv, PairsMatch
    <3>3. CASE x = 0
      <4>1. Attached(n)' \subseteq Attached(n)
        BY <1>2, <2>3, <3>3, AttachedIs
      <4>2. Taken(x)
        BY <1>2, <2>2, <3>3 DEF Taken
      <4> QED BY <2>1, <2>3, <2>4, <2>6, <3>1, <3>2, <4>1, <4>2, HostTaken
    <3>4. CASE x # 0
      <4>1. x \in Attached(n)' /\ Attached(n)' \subseteq Attached(n) \union {x}
        BY <1>2, <2>3, <3>4, AttachedIs
      <4>2. Attached(n) \ Attached(n)' \subseteq spoilt
        BY <3>2
      <4>3. spoilt' = spoilt
        BY <2>2, <3>4
      <4> QED BY <1>2, <2>1, <2>3, <2>4, <2>6, <3>1, <4>1, <4>2, <4>3, HostAttached
    <3> QED BY <3>3, <3>4
  <2>12. spoilt \subseteq spoilt' /\ told' = told
    BY <1>2, <2>2
  <2> QED BY <2>5, <2>6, <2>8, <2>9, <2>10, <2>11, <2>12, GrowKeeps
<1> QED BY <1>3, <1>4

(* A connection is accepted from the host. *)
LEMMA HostAcceptKeeps ==
  ASSUME IInv, NEW h \in HFd, HostAccept(h), UNCHANGED <<map, pairs, told, spoilt>> PROVE IInv'
<1>1. PICK x \in HFd, i \in Id : x = NewH /\ i = NewId /\ hf[x] \notin Id /\ \A y \in HFd : hf[y] # i
  BY NewIsFree DEF HostAccept, IInv
<1>2. /\ hf' = [hf EXCEPT ![x] = i] /\ Taken(x) /\ UNCHANGED <<ff, fst, hreg>>
      /\ hst' = [hst EXCEPT ![i] = "conn"]
  BY <1>1 DEF HostAccept, Taken, fVars
<1>3. "conn" \in State
  BY DEF State
<1>4. Apart(i) /\ FGrow /\ ff' \in [FFd -> Id \union {0}]
  BY <1>1, <1>2, FreshApart DEF FGrow, IInv, Types
<1> QED BY <1>1, <1>2, <1>3, <1>4, OpenH

LEMMA AcceptKeeps == ASSUME IInv, NEW f \in FFd, Accept(f) PROVE IInv'
<1>1. UNCHANGED <<map, pairs, told, spoilt>>
  BY DEF Accept, history
<1>2. CASE Dual(f) /\ HostAccept(map[f])
  BY <1>1, <1>2, DualFacts, HostAcceptKeeps
<1>3. CASE /\ FreeF # {} /\ ff' = [ff EXCEPT ![NewF] = NewId]
           /\ fst' = [fst EXCEPT ![NewId] = "conn"] /\ UNCHANGED hVars
  <2>1. PICK n \in FFd, i \in Id : /\ n = NewF /\ i = NewId /\ ff[n] = 0
                                   /\ (\A g \in FFd : ff[g] # i) /\ (\A h \in HFd : hf[h] # i)
    BY <1>3, NewIsFree DEF IInv
  <2>2. ff' = [ff EXCEPT ![n] = i] /\ UNCHANGED <<hf, hst, hreg, kheld>>
    BY <1>3, <2>1 DEF hVars
  <2>3. \E s \in State : fst' = [fst EXCEPT ![i] = s]
    BY <1>3, <2>1 DEF State
  <2> QED BY <1>1, <2>1, <2>2, <2>3, OpenF
<1> QED BY <1>2, <1>3 DEF Accept

LEMMA AcceptKernelKeeps == ASSUME IInv, NEW h \in HFd, AcceptKernel(h) PROVE IInv'
BY HostAcceptKeeps DEF AcceptKernel, history

-----------------------------------------------------------------------------
(* Two host halves have two files, unless one was left behind. *)
LEMMA HalvesApart ==
  ASSUME IInv, NEW f \in FFd, NEW g \in FFd, f # g, Dual(f), Dual(g), map[g] \notin spoilt
  PROVE  hf[map[f]] # hf[map[g]]
<1>1. map[f] # map[g]
  BY DualFacts DEF IInv, HostInv
<1>2. map[f] \in HFd /\ map[g] \in HFd
  BY DualFacts
<1> QED BY <1>1, <1>2 DEF IInv, DualFile

(* Calls that change only the state of sockets. *)
LEMMA StateStep ==
  ASSUME IInv, UNCHANGED <<ff, hf, hreg, kheld, map, pairs, spoilt>>,
         fst' \in [Id -> State], hst' \in [Id -> State],
         told' \in [FFd -> {"new", "bound", "listen"}],
         \A i \in Id : fst'[i] = "kq" => fst[i] = "kq",
         \A i \in Id : fst'[i] = fst[i] \/ \E f \in FFd : ff[f] = i,
         \A f \in FFd : ff[f] = 0 => told'[f] = told[f], ListensInBoth'
  PROVE  IInv'
<1>1. \A f \in FFd : Attached(f)' = Attached(f)
  BY SameAttached
<1>2. Types'
  BY DEF IInv, Types
<1>3. (HostInv /\ PairsMatch /\ NoLeak)'
  BY <1>1, HostSame DEF FGrow, HSame
<1>4. (DualFile /\ RegInv)'
  BY DEF IInv, DualFile, RegInv, FReg, Dual
<1>5. KqInv'
  BY DEF IInv, KqInv, FReg, Dual
<1>6. (FreshInv /\ ToldInv)'
  BY DEF IInv, FreshInv, ToldInv
<1> QED BY <1>2, <1>3, <1>4, <1>5, <1>6 DEF IInv

(* bind, listen and connect of the host half leave other halves alone. *)
LEMMA HostToFacts ==
  ASSUME IInv, NEW f \in FFd, NEW s \in State, NEW ok, HostTo(f, s, ok)
  PROVE  /\ hst' \in [Id -> State]
         /\ Dual(f) /\ ok => hst'[hf[map[f]]] = s
         /\ \A g \in FFd \ {f} : Dual(g) /\ map[g] \notin spoilt => hst'[hf[map[g]]] = hst[hf[map[g]]]
<1>1. CASE ~(Dual(f) /\ ok)
  BY <1>1 DEF HostTo, IInv, Types
<1>2. CASE Dual(f) /\ ok
  <2>1. PICK i \in Id : i = hf[map[f]]
    BY <1>2, DualFacts
  <2>2. hst' = [hst EXCEPT ![i] = s]
    BY <1>2, <2>1 DEF HostTo, Host
  <2>3. hst' \in [Id -> State] /\ hst'[i] = s /\ \A j \in Id \ {i} : hst'[j] = hst[j]
    BY <2>2 DEF IInv, Types
  <2>4. ASSUME NEW g \in FFd \ {f}, Dual(g), map[g] \notin spoilt
        PROVE  hf[map[g]] \in Id \ {i}
    BY <1>2, <2>1, <2>4, HalvesApart, DualFacts
  <2> QED BY <2>1, <2>3, <2>4
<1> QED BY <1>1, <1>2

LEMMA BindKeeps == ASSUME IInv, NEW f \in FFd, Bind(f) PROVE IInv'
<1>1. PICK ok \in BOOLEAN : /\ HostTo(f, "bound", ok)
                            /\ told' = IF ReturnsZero(f, ok) THEN [told EXCEPT ![f] = "bound"] ELSE told
  BY DEF Bind
<1>2. /\ ff[f] \in Id /\ ff[f] # 0 /\ fst[ff[f]] = "new" /\ fst' = [fst EXCEPT ![ff[f]] = "bound"]
      /\ UNCHANGED <<ff, hf, hreg, kheld, map, pairs, spoilt>>
  BY DEF Bind, IsSock, IInv, Types
<1>3. /\ fst' \in [Id -> State] /\ fst'[ff[f]] = "bound" /\ \A i \in Id \ {ff[f]} : fst'[i] = fst[i]
      /\ told' \in [FFd -> {"new", "bound", "listen"}] /\ told'[f] \in {"bound", told[f]}
      /\ \A g \in FFd \ {f} : told'[g] = told[g]
  BY <1>1, <1>2 DEF IInv, Types, State
<1>4. /\ hst' \in [Id -> State]
      /\ \A g \in FFd \ {f} : Dual(g) /\ map[g] \notin spoilt => hst'[hf[map[g]]] = hst[hf[map[g]]]
  BY <1>1, HostToFacts DEF State
<1>5. ListensInBoth'
  <2> SUFFICES ASSUME NEW g \in FFd, (Dual(g) /\ IsSock(g))', map[g] \notin spoilt, told'[g] = "listen"
               PROVE  fst'[ff[g]] = "listen" /\ hst'[hf[map[g]]] = "listen"
    BY <1>2 DEF ListensInBoth, Host
  <2>1. Dual(g) /\ ff[g] \in Id /\ ff[g] # 0 /\ told[g] = "listen"
    BY <1>2, <1>3 DEF Dual, IsSock, IInv, Types
  <2>2. IsSock(g)
    BY <1>2, <1>3, <2>1 DEF IsSock
  <2>3. fst[ff[g]] = "listen" /\ hst[hf[map[g]]] = "listen"
    BY <2>1, <2>2 DEF IInv, ListensInBoth, Host
  <2>4. ff[g] # ff[f] /\ g # f
    BY <1>2, <2>3
  <2> QED BY <1>3, <1>4, <2>1, <2>3, <2>4
<1>6. /\ \A i \in Id : fst'[i] = "kq" => fst[i] = "kq"
      /\ \A i \in Id : fst'[i] = fst[i] \/ \E g \in FFd : ff[g] = i
      /\ \A g \in FFd : ff[g] = 0 => told'[g] = told[g]
  BY <1>2, <1>3
<1> QED BY <1>2, <1>3, <1>4, <1>5, <1>6, StateStep

LEMMA ListenKeeps == ASSUME IInv, NEW f \in FFd, Listen(f) PROVE IInv'
<1>1. PICK ok \in BOOLEAN : /\ HostTo(f, "listen", ok)
                            /\ told' = IF ReturnsZero(f, ok) /\ told[f] = "bound"
                                       THEN [told EXCEPT ![f] = "listen"] ELSE told
  BY DEF Listen
<1>2. /\ ff[f] \in Id /\ ff[f] # 0 /\ fst[ff[f]] = "bound" /\ fst' = [fst EXCEPT ![ff[f]] = "listen"]
      /\ UNCHANGED <<ff, hf, hreg, kheld, map, pairs, spoilt>>
  BY DEF Listen, IsSock, IInv, Types
<1>3. /\ fst' \in [Id -> State] /\ fst'[ff[f]] = "listen" /\ \A i \in Id \ {ff[f]} : fst'[i] = fst[i]
      /\ told' \in [FFd -> {"new", "bound", "listen"}]
      /\ \A g \in FFd \ {f} : told'[g] = told[g]
      /\ told'[f] = "listen" => told[f] = "listen" \/ ReturnsZero(f, ok)
  BY <1>1, <1>2 DEF IInv, Types, State
<1>4. /\ hst' \in [Id -> State]
      /\ Dual(f) /\ ok => hst'[hf[map[f]]] = "listen"
      /\ \A g \in FFd \ {f} : Dual(g) /\ map[g] \notin spoilt => hst'[hf[map[g]]] = hst[hf[map[g]]]
  BY <1>1, HostToFacts DEF State
<1>5. ListensInBoth'
  <2> SUFFICES ASSUME NEW g \in FFd, (Dual(g) /\ IsSock(g))', map[g] \notin spoilt, told'[g] = "listen"
               PROVE  fst'[ff[g]] = "listen" /\ hst'[hf[map[g]]] = "listen"
    BY <1>2 DEF ListensInBoth, Host
  <2>1. Dual(g) /\ ff[g] \in Id /\ ff[g] # 0
    BY <1>2 DEF Dual, IsSock, IInv, Types
  <2>2. IsSock(g)
    BY <1>2, <1>3, <2>1 DEF IsSock
  <2>3. told[g] = "listen" => fst[ff[g]] = "listen" /\ hst[hf[map[g]]] = "listen"
    BY <2>1, <2>2 DEF IInv, ListensInBoth, Host
  <2>4. CASE g = f
    BY <1>2, <1>3, <1>4, <2>1, <2>3, <2>4 DEF ReturnsZero
  <2>5. CASE g # f
    BY <1>3, <1>4, <2>1, <2>3, <2>5
  <2> QED BY <2>4, <2>5
<1>6. /\ \A i \in Id : fst'[i] = "kq" => fst[i] = "kq"
      /\ \A i \in Id : fst'[i] = fst[i] \/ \E g \in FFd : ff[g] = i
      /\ \A g \in FFd : ff[g] = 0 => told'[g] = told[g]
  BY <1>2, <1>3
<1> QED BY <1>2, <1>3, <1>4, <1>5, <1>6, StateStep

LEMMA ConnectKeeps == ASSUME IInv, NEW f \in FFd, Connect(f) PROVE IInv'
<1>1. PICK ok \in BOOLEAN, fOk \in BOOLEAN :
        /\ HostTo(f, "conn", ok)
        /\ fst' = IF fOk /\ ff[f] # 0 THEN [fst EXCEPT ![ff[f]] = "conn"] ELSE fst
  BY DEF Connect
<1>2. /\ ff[f] # 0 => ff[f] \in Id /\ fst[ff[f]] = "new"
      /\ UNCHANGED <<ff, hf, hreg, kheld, map, pairs, spoilt, told>>
  BY DEF Connect, IsSock, IInv, Types, history
<1>3. /\ fst' \in [Id -> State] /\ (ff[f] # 0 => fst'[ff[f]] \in {"new", "conn"})
      /\ \A i \in Id \ {ff[f]} : fst'[i] = fst[i]
  BY <1>1, <1>2 DEF IInv, Types, State
<1>4. /\ hst' \in [Id -> State]
      /\ \A g \in FFd \ {f} : Dual(g) /\ map[g] \notin spoilt => hst'[hf[map[g]]] = hst[hf[map[g]]]
  BY <1>1, HostToFacts DEF State
<1>5. ListensInBoth'
  <2> SUFFICES ASSUME NEW g \in FFd, (Dual(g) /\ IsSock(g))', map[g] \notin spoilt, told[g] = "listen"
               PROVE  fst'[ff[g]] = "listen" /\ hst'[hf[map[g]]] = "listen"
    BY <1>2 DEF ListensInBoth, Host
  <2>1. Dual(g) /\ ff[g] \in Id /\ ff[g] # 0
    BY <1>2 DEF Dual, IsSock, IInv, Types
  <2>2. IsSock(g)
    BY <1>2, <1>3, <2>1 DEF IsSock
  <2>3. fst[ff[g]] = "listen" /\ hst[hf[map[g]]] = "listen"
    BY <2>1, <2>2 DEF IInv, ListensInBoth, Host
  <2>4. ff[g] # ff[f] /\ g # f
    BY <1>2, <2>1, <2>3
  <2> QED BY <1>3, <1>4, <2>1, <2>3, <2>4
<1>6. told' \in [FFd -> {"new", "bound", "listen"}] /\ \A g \in FFd : ff[g] = 0 => told'[g] = told[g]
  BY <1>2 DEF IInv, Types
<1>7. /\ \A i \in Id : fst'[i] = "kq" => fst[i] = "kq"
      /\ \A i \in Id : fst'[i] = fst[i] \/ \E g \in FFd : ff[g] = i
  <2>1. ff[f] \in Id => ff[f] # 0 BY Zero
  <2> QED BY <1>2, <1>3, <2>1
<1> QED BY <1>2, <1>3, <1>4, <1>5, <1>6, <1>7, StateStep

LEMMA KernelToKeeps ==
  ASSUME IInv, NEW h \in HFd, NEW s \in {"bound", "listen", "conn"}, KernelTo(h, s) PROVE IInv'
<1>1. /\ h \in kheld /\ hst' = [hst EXCEPT ![hf[h]] = s]
      /\ UNCHANGED <<ff, fst, hf, hreg, kheld, map, pairs, spoilt, told>>
  BY DEF KernelTo, fVars, history
<1>2. hf[h] \in Id /\ Apart(hf[h])
  BY <1>1, HeldOpen, HeldApart
<1>3. hst' \in [Id -> State] /\ \A i \in Id \ {hf[h]} : hst'[i] = hst[i]
  BY <1>1, <1>2 DEF IInv, Types, State
<1>4. ListensInBoth'
  <2> SUFFICES ASSUME NEW g \in FFd, (Dual(g) /\ IsSock(g))', map[g] \notin spoilt, told[g] = "listen"
               PROVE  fst[ff[g]] = "listen" /\ hst'[hf[map[g]]] = "listen"
    BY <1>1 DEF ListensInBoth, Host
  <2>1. Dual(g) /\ IsSock(g)
    BY <1>1 DEF Dual, IsSock
  <2>2. hf[map[g]] \in Id \ {hf[h]}
    BY <1>2, <2>1, DualFacts DEF Apart
  <2> QED BY <1>3, <2>1, <2>2 DEF IInv, ListensInBoth, Host
<1>5. /\ fst' \in [Id -> State] /\ told' \in [FFd -> {"new", "bound", "listen"}]
      /\ \A i \in Id : fst'[i] = fst[i]
  BY <1>1 DEF IInv, Types
<1> QED BY <1>1, <1>3, <1>4, <1>5, StateStep

-----------------------------------------------------------------------------
(* Steps that close descriptors or make them refer to another file. *)

(* What Tables does, descriptor by descriptor and file by file. *)
Shrunk(cut) ==
  /\ fst' \in [Id -> State] /\ hst' \in [Id -> State]
  /\ told' \in [FFd -> {"new", "bound", "listen"}] /\ hreg' \subseteq hreg
  /\ \A f \in FFd : ff'[f] # 0 => fst'[ff'[f]] = fst[ff'[f]]
  /\ \A h \in HFd : hf'[h] \in Id => hst'[hf'[h]] = hst[hf'[h]]
  /\ \A i \in Id : fst'[i] = "new" \/ (fst'[i] = fst[i] /\ \E f \in FFd : ff'[f] = i)
  /\ \A r \in hreg' : \E y \in HFd : hf'[y] = r.file
  /\ \A f \in FFd : told'[f] = IF f \in cut THEN "new" ELSE told[f]
  /\ \A h : h \in kheld' <=> h \in kheld /\ hf'[h] \in Id

LEMMA TablesFacts ==
  ASSUME IInv, NEW ff1 \in [FFd -> Id \union {0}], NEW hf1 \in HTable, NEW cut,
         \A h \in kheld : hf1[h] # 0 => hf1[h] \in Id, Tables(ff1, hf1, cut)
  PROVE  ff' = ff1 /\ hf' = hf1 /\ Shrunk(cut)
<1>1. ff' = ff1 /\ hf' = hf1
  BY DEF Tables
<1>2. PICK openF, openH :
        /\ openF = {ff1[f] : f \in FFd} /\ openH = {hf1[h] : h \in HFd}
        /\ fst' = [i \in Id |-> IF i \in openF THEN fst[i] ELSE "new"]
        /\ hst' = [i \in Id |-> IF i \in openH THEN hst[i] ELSE "new"]
        /\ hreg' = {r \in hreg : r.file \in openH /\ hf1[r.ep] # 0}
        /\ told' = [f \in FFd |-> IF f \in cut THEN "new" ELSE told[f]]
        /\ kheld' = {h \in kheld : hf1[h] # 0}
  BY Zenon DEF Tables
<1>3. fst' \in [Id -> State] /\ \A i \in Id : fst'[i] = IF i \in openF THEN fst[i] ELSE "new"
  BY <1>2 DEF IInv, Types, State
<1>4. hst' \in [Id -> State] /\ \A i \in Id : hst'[i] = IF i \in openH THEN hst[i] ELSE "new"
  BY <1>2 DEF IInv, Types, State
<1>5. (\A f \in FFd : ff1[f] \in openF) /\ (\A h \in HFd : hf1[h] \in openH)
  BY <1>2
<1>6. \A f \in FFd : ff'[f] # 0 => fst'[ff'[f]] = fst[ff'[f]]
  <2> TAKE f \in FFd
  <2>1. ff1[f] # 0 => ff1[f] \in Id OBVIOUS
  <2> QED BY <1>1, <1>3, <1>5, <2>1
<1>7. \A h \in HFd : hf'[h] \in Id => hst'[hf'[h]] = hst[hf'[h]]
  BY <1>1, <1>4, <1>5
<1>8. \A i \in Id : fst'[i] = "new" \/ (fst'[i] = fst[i] /\ \E f \in FFd : ff'[f] = i)
  BY <1>1, <1>2, <1>3
<1>9. hreg' \subseteq hreg /\ \A r \in hreg' : \E y \in HFd : hf'[y] = r.file
  BY <1>1, <1>2
<1>10. /\ told' \in [FFd -> {"new", "bound", "listen"}]
       /\ \A f \in FFd : told'[f] = IF f \in cut THEN "new" ELSE told[f]
  BY <1>2 DEF IInv, Types
<1>11. \A h : h \in kheld' <=> h \in kheld /\ hf'[h] \in Id
  BY <1>1, <1>2, Zero
<1> QED BY <1>1, <1>3, <1>4, <1>6, <1>7, <1>8, <1>9, <1>10, <1>11 DEF Shrunk

(* Descriptors that stay open keep their file, or take one that is apart;  *)
(* those left behind stay so, and the map forgets what is closed.          *)
Kept(cut) ==
  /\ \A y \in HFd : hf'[y] \in Id => hf'[y] = hf[y] \/ Apart(hf'[y])
  /\ \A y \in spoilt : hf'[y] \in Id => y \in spoilt'
  /\ \A f \in FFd : map'[f] # 0 => map'[f] = map[f] /\ hf'[map[f]] = hf[map[f]]
  /\ \A f \in FFd : map'[f] # map[f] => hf'[map[f]] \notin Id
  /\ \A f \in FFd : f \in cut \/ ff'[f] = ff[f]

LEMMA ShrinkKeeps ==
  ASSUME IInv, NEW cut, Shrunk(cut), Kept(cut), (HostInv /\ PairsMatch /\ NoLeak)',
         ff' \in [FFd -> Id \union {0}], hf' \in HTable,
         map' \in [FFd -> HFd], pairs' \subseteq pairs, spoilt' \subseteq HFd
  PROVE  IInv'
<1>1. Types'
  <2>1. kheld' \subseteq kheld BY DEF Shrunk
  <2> QED BY <2>1 DEF IInv, Types, Shrunk
<1>2. ASSUME NEW f \in FFd, Dual(f)'
      PROVE  /\ Dual(f) /\ map'[f] = map[f] /\ map[f] \in HFd
             /\ hf'[map'[f]] = hf[map[f]] /\ hf[map[f]] \in Id
  <2>1. map'[f] = map[f] /\ hf'[map[f]] = hf[map[f]] /\ Dual(f)
    BY <1>2 DEF Kept, Dual
  <2> QED BY <2>1, DualFacts
<1>3. DualFile'
  <2> SUFFICES ASSUME NEW f \in FFd, Dual(f)', NEW y \in HFd, hf'[y] = hf'[map'[f]]
               PROVE  y = map'[f] \/ y \in spoilt'
    BY DEF DualFile
  <2>1. Dual(f) /\ map'[f] = map[f] /\ hf'[y] = hf[map[f]] /\ hf'[y] \in Id
    BY <1>2
  <2>2. hf[y] = hf[map[f]]
    BY <2>1 DEF Kept, Apart
  <2> QED BY <2>1, <2>2 DEF IInv, DualFile, Kept
<1>4. FReg' \subseteq FReg
  BY DEF FReg, Shrunk
<1>5. RegInv'
  <2> SUFFICES ASSUME NEW r \in FReg'
               PROVE  /\ r.app.fd \in FFd /\ r.h # 0
                      /\ \E y \in HFd : hf'[y] = r.file
                      /\ \A y \in HFd : hf'[y] = r.file =>
                           y \in spoilt' \/ (y = r.h /\ map'[r.app.fd] = r.h)
    BY DEF RegInv
  <2>1. r \in FReg /\ r.app.fd \in FFd /\ r.file \in Id /\ r.h # 0
    BY <1>4, FRegFacts
  <2>2. \E y \in HFd : hf'[y] = r.file
    BY DEF FReg, Shrunk
  <2>3. ASSUME NEW y \in HFd, hf'[y] = r.file, y \notin spoilt'
        PROVE  y = r.h /\ map'[r.app.fd] = r.h
    <3>1. hf[y] = r.file /\ y \notin spoilt
      BY <2>1, <2>3 DEF Kept, Apart
    <3>2. y = r.h /\ map[r.app.fd] = r.h
      BY <2>1, <3>1 DEF IInv, RegInv
    <3> QED BY <2>1, <2>3, <3>2 DEF Kept
  <2> QED BY <2>1, <2>2, <2>3
<1>6. KqInv'
  <2> SUFFICES ASSUME NEW i \in Id, fst'[i] = "kq"
               PROVE  /\ \A f \in FFd : Dual(f)' => hf'[map'[f]] # i
                      /\ \A r \in FReg' : r.file # i
    BY DEF KqInv
  <2>1. fst[i] = "kq"
    BY DEF Shrunk
  <2> QED BY <1>2, <1>4, <2>1 DEF IInv, KqInv
<1>7. FreshInv'
  BY DEF FreshInv, Shrunk
<1>8. ToldInv'
  BY DEF IInv, ToldInv, Shrunk, Kept
<1>9. ListensInBoth'
  <2> SUFFICES ASSUME NEW f \in FFd, (Dual(f) /\ IsSock(f))', map'[f] \notin spoilt', told'[f] = "listen"
               PROVE  fst'[ff'[f]] = "listen" /\ hst'[hf'[map'[f]]] = "listen"
    BY DEF ListensInBoth, Host
  <2>1. told[f] = "listen" /\ ff'[f] = ff[f]
    BY DEF Shrunk, Kept
  <2>2. Dual(f) /\ map'[f] = map[f] /\ map[f] \in HFd /\ hf'[map'[f]] = hf[map[f]] /\ hf[map[f]] \in Id
    BY <1>2
  <2>3. map[f] \notin spoilt
    BY <2>2 DEF Kept
  <2>4. fst'[ff'[f]] = fst[ff[f]] /\ IsSock(f)
    BY <2>1 DEF IsSock, Shrunk
  <2>5. hst'[hf'[map'[f]]] = hst[hf[map[f]]]
    BY <2>2 DEF Shrunk
  <2> QED BY <2>1, <2>2, <2>3, <2>4, <2>5 DEF IInv, ListensInBoth, Host
<1> QED BY <1>1, <1>3, <1>5, <1>6, <1>7, <1>8, <1>9 DEF IInv

(* F-Stack descriptor g changes, and what was attached to it stays. *)
LEMMA LeftBehind ==
  ASSUME IInv, NEW g \in FFd, \A f \in FFd \ {g} : ff'[f] = ff[f], Shrunk({g}), hf' = hf,
         ff' \in [FFd -> Id \union {0}], UNCHANGED <<map, pairs>>,
         spoilt' = spoilt \union Attached(g)
  PROVE  IInv'
<1>1. \A f \in FFd : Attached(f)' = Attached(f)
  BY SameAttached
<1>2. Attached(g) \subseteq HFd
  BY AttachedIn DEF IInv
<1>3. kheld' = kheld
  <2>1. \A h \in kheld : hf[h] \in Id
    BY DEF IInv, HostInv
  <2>2. \A h : h \in kheld' <=> h \in kheld /\ hf'[h] \in Id
    BY DEF Shrunk
  <2> QED BY <2>1, <2>2
<1>4. HostInv'
  <2>1. \A h \in kheld \union spoilt : hf[h] \in Id
    BY DEF IInv, HostInv
  <2>2. \A f \in FFd : \A h \in Attached(f) : hf[h] \in Id /\ h \notin kheld
    BY DEF IInv, HostInv
  <2>3. \A h \in kheld' \union spoilt' : hf'[h] \in Id
    BY <1>3, <2>1, <2>2
  <2>4. kheld' \intersect spoilt' = {}
    BY <1>3, <2>2 DEF IInv, HostInv
  <2>5. \A f, x \in FFd : f # x => Attached(f)' \intersect Attached(x)' = {}
    BY <1>1 DEF IInv, HostInv
  <2> QED BY <1>1, <1>3, <2>2, <2>3, <2>4, <2>5 DEF HostInv
<1>5. PairsMatch'
  BY <1>1 DEF IInv, PairsMatch
<1>6. NoLeak'
  <2> SUFFICES ASSUME NEW h \in HFd, hf[h] \in Id PROVE Reached(h)' \/ h \in spoilt'
    BY DEF NoLeak, Opened
  <2>1. h \in spoilt \/ h \in kheld \/ \E f \in FFd : ff[f] # 0 /\ h \in Attached(f)
    BY DEF IInv, NoLeak, Opened, Reached
  <2>2. ASSUME NEW f \in FFd, ff[f] # 0, h \in Attached(f) PROVE Reached(h)' \/ h \in spoilt'
    <3>1. CASE f = g BY <2>2, <3>1
    <3>2. CASE f # g BY <1>1, <2>2, <3>2 DEF Reached
    <3> QED BY <3>1, <3>2
  <2> QED BY <1>3, <2>1, <2>2 DEF Reached
<1>7. Kept({g})
  <2>1. \A f \in FFd : map'[f] = map[f] OBVIOUS
  <2> QED BY <2>1 DEF Kept
<1>8. /\ hf' \in HTable /\ map' \in [FFd -> HFd]
      /\ pairs' \subseteq pairs /\ spoilt' \subseteq HFd
  BY <1>2 DEF IInv, Types
<1> QED BY <1>4, <1>5, <1>6, <1>7, <1>8, ShrinkKeeps

LEMMA Dup2Keeps == ASSUME IInv, NEW f \in FFd, NEW g \in FFd, Dup2(f, g) PROVE IInv'
<1>1. /\ Tables([ff EXCEPT ![g] = ff[f]], hf, {g}) /\ UNCHANGED <<map, pairs>>
      /\ spoilt' = spoilt \union Attached(g)
  BY Zenon DEF Dup2
<1>2. /\ [ff EXCEPT ![g] = ff[f]] \in [FFd -> Id \union {0}] /\ hf \in HTable
      /\ \A h \in kheld : hf[h] \in Id
  BY DEF IInv, Types, HostInv
<1>3. ff' = [ff EXCEPT ![g] = ff[f]] /\ hf' = hf /\ Shrunk({g})
  BY <1>1, <1>2, TablesFacts
<1>4. \A x \in FFd \ {g} : ff'[x] = ff[x]
  BY <1>3 DEF IInv, Types
<1> QED BY <1>1, <1>2, <1>3, <1>4, LeftBehind

LEMMA CloseErrorKeeps == ASSUME IInv, NEW g \in FFd, CloseError(g) PROVE IInv'
<1>1. /\ Tables([ff EXCEPT ![g] = 0], hf, {g}) /\ UNCHANGED <<map, pairs>>
      /\ spoilt' = spoilt \union Attached(g)
  BY Zenon DEF CloseError
<1>2. /\ [ff EXCEPT ![g] = 0] \in [FFd -> Id \union {0}] /\ hf \in HTable
      /\ \A h \in kheld : hf[h] \in Id
  BY DEF IInv, Types, HostInv
<1>3. ff' = [ff EXCEPT ![g] = 0] /\ hf' = hf /\ Shrunk({g})
  BY <1>1, <1>2, TablesFacts
<1>4. \A x \in FFd \ {g} : ff'[x] = ff[x]
  BY <1>3 DEF IInv, Types
<1> QED BY <1>1, <1>2, <1>3, <1>4, LeftBehind

(* A descriptor the application holds changes. *)
LEMMA HeldChanges ==
  ASSUME IInv, NEW n \in kheld, \A h \in HFd \ {n} : hf'[h] = hf[h], Shrunk({}), ff' = ff,
         hf' \in HTable, hf'[n] \in Id => Apart(hf'[n]), UNCHANGED <<map, pairs>>,
         spoilt' = spoilt \ {n} \/ spoilt' = spoilt
  PROVE  IInv'
<1>1. \A f \in FFd : Attached(f)' = Attached(f)
  BY SameAttached
<1>2. /\ n \notin spoilt /\ spoilt' = spoilt /\ \A f \in FFd : n \notin Attached(f)
      /\ spoilt \subseteq HFd /\ kheld \subseteq HFd
  <2>1. n \notin spoilt /\ \A f \in FFd : n \notin Attached(f)
    BY DEF IInv, HostInv
  <2>2. spoilt' = spoilt
    BY <2>1
  <2> QED BY <2>1, <2>2 DEF IInv, Types
<1>3. \A f \in FFd : Attached(f) \subseteq HFd
  BY AttachedIn DEF IInv
<1>4. \A h : h \in kheld' <=> h \in kheld /\ hf'[h] \in Id
  BY DEF Shrunk
<1>5. HostInv'
  <2>1. \A h \in kheld' \union spoilt' : hf'[h] \in Id
    <3>1. \A h \in spoilt : hf[h] \in Id /\ h \in HFd \ {n}
      BY <1>2 DEF IInv, HostInv
    <3> QED BY <1>2, <1>4, <3>1
  <2>2. kheld' \intersect spoilt' = {}
    BY <1>2, <1>4 DEF IInv, HostInv
  <2>3. \A f \in FFd : \A h \in Attached(f) : hf[h] \in Id /\ h \notin kheld
    BY DEF IInv, HostInv
  <2>4. \A f \in FFd : \A h \in Attached(f) : hf'[h] \in Id /\ h \notin kheld'
    BY <1>2, <1>3, <1>4, <2>3
  <2>5. \A f, x \in FFd : f # x => Attached(f)' \intersect Attached(x)' = {}
    BY <1>1 DEF IInv, HostInv
  <2> QED BY <1>1, <2>1, <2>2, <2>4, <2>5 DEF HostInv
<1>6. PairsMatch'
  BY <1>1, <1>2, <1>3 DEF IInv, PairsMatch
<1>7. NoLeak'
  <2> SUFFICES ASSUME NEW h \in HFd, hf'[h] \in Id PROVE Reached(h)' \/ h \in spoilt
    BY <1>2 DEF NoLeak, Opened
  <2>1. CASE h = n
    BY <1>4, <2>1 DEF Reached
  <2>2. CASE h # n
    BY <1>1, <1>4, <2>2 DEF IInv, NoLeak, Opened, Reached
  <2> QED BY <2>1, <2>2
<1>8. Kept({})
  <2>1. \A f \in FFd : map[f] # 0 => map[f] \in HFd \ {n}
    BY <1>2, DualFacts DEF Dual
  <2> QED BY <1>2, <2>1 DEF Kept
<1>9. /\ ff' \in [FFd -> Id \union {0}] /\ map' \in [FFd -> HFd]
      /\ pairs' \subseteq pairs /\ spoilt' \subseteq HFd
  BY <1>2 DEF IInv, Types
<1> QED BY <1>5, <1>6, <1>7, <1>8, <1>9, ShrinkKeeps

LEMMA Dup2KernelKeeps == ASSUME IInv, NEW h \in HFd, NEW n \in HFd, Dup2Kernel(h, n) PROVE IInv'
<1>1. /\ Tables(ff, [hf EXCEPT ![n] = hf[h]], {}) /\ UNCHANGED <<map, pairs, spoilt>>
      /\ h \in kheld /\ n \in kheld
  BY Zenon DEF Dup2Kernel
<1>2. /\ [hf EXCEPT ![n] = hf[h]] \in HTable /\ ff \in [FFd -> Id \union {0}]
      /\ \A x \in kheld : [hf EXCEPT ![n] = hf[h]][x] \in Id
  BY <1>1 DEF IInv, Types, HTable, HostInv
<1>3. ff' = ff /\ hf' = [hf EXCEPT ![n] = hf[h]] /\ Shrunk({})
  BY <1>1, <1>2, TablesFacts
<1>4. hf'[n] = hf[h] /\ \A x \in HFd \ {n} : hf'[x] = hf[x]
  BY <1>3 DEF IInv, Types, HTable
<1> QED BY <1>1, <1>2, <1>3, <1>4, HeldApart, HeldChanges

LEMMA CloseKernelKeeps == ASSUME IInv, NEW h \in HFd, CloseKernel(h) PROVE IInv'
<1>1. /\ Tables(ff, HfWithout({h}), {}) /\ UNCHANGED <<map, pairs>> /\ spoilt' = spoilt \ {h}
      /\ h \in kheld
  BY Zenon DEF CloseKernel
<1>2. /\ HfWithout({h}) \in HTable /\ ff \in [FFd -> Id \union {0}]
      /\ \A x \in kheld : HfWithout({h})[x] # 0 => HfWithout({h})[x] \in Id
  BY DEF IInv, Types, HTable, HostInv, HfWithout
<1>3. ff' = ff /\ hf' = HfWithout({h}) /\ Shrunk({})
  BY <1>1, <1>2, TablesFacts
<1>4. hf'[h] \notin Id /\ \A x \in HFd \ {h} : hf'[x] = hf[x]
  BY <1>3, Zero DEF HfWithout
<1> QED BY <1>1, <1>2, <1>3, <1>4, HeldChanges

LEMMA CloseKeeps == ASSUME IInv, NEW f \in FFd, Close(f) PROVE IInv'
<1>1. /\ Tables([ff EXCEPT ![f] = 0], HfWithout(Attached(f)), {f})
      /\ map' = [map EXCEPT ![f] = 0] /\ pairs' = {p \in pairs : p.kq # f}
      /\ spoilt' = spoilt \ Attached(f)
  BY Zenon DEF Close, ClosedWith, MapWithout
<1>2. /\ [ff EXCEPT ![f] = 0] \in [FFd -> Id \union {0}] /\ HfWithout(Attached(f)) \in HTable
      /\ \A x \in kheld : HfWithout(Attached(f))[x] # 0 => HfWithout(Attached(f))[x] \in Id
  BY DEF IInv, Types, HTable, HostInv, HfWithout
<1>3. ff' = [ff EXCEPT ![f] = 0] /\ hf' = HfWithout(Attached(f)) /\ Shrunk({f})
  BY <1>1, <1>2, TablesFacts
<1>4. \A g \in FFd \ {f} : ff'[g] = ff[g]
  BY <1>3 DEF IInv, Types
<1>5. \A h \in HFd : hf'[h] = IF h \in Attached(f) THEN 0 ELSE hf[h]
  BY <1>3 DEF HfWithout
<1>6. /\ map' \in [FFd -> HFd] /\ map'[f] = 0 /\ \A g \in FFd \ {f} : map'[g] = map[g]
  BY <1>1, Zero DEF IInv, Types
<1>7. \A g \in FFd : Attached(g) \subseteq HFd
  BY AttachedIn DEF IInv
<1>8. Attached(f)' = {} /\ \A g \in FFd \ {f} : Attached(g)' = Attached(g)
  <2>1. \A h : h \notin Attached(f)'
    BY <1>1, <1>6, AttachedIs
  <2>2. ASSUME NEW g \in FFd \ {f} PROVE \A h : h \in Attached(g)' <=> h \in Attached(g)
    BY <1>1, <1>6, AttachedIs
  <2> QED BY <2>1, <2>2
<1>9. /\ \A h \in Attached(f) : h \notin kheld /\ \A g \in FFd \ {f} : h \notin Attached(g)
      /\ kheld \subseteq HFd /\ spoilt \subseteq HFd
  BY DEF IInv, HostInv, Types
<1>10. kheld' = kheld
  <2>1. \A h \in kheld : hf[h] \in Id
    BY DEF IInv, HostInv
  <2>2. \A h \in kheld : hf'[h] \in Id
    BY <1>5, <1>9, <2>1
  <2>3. \A h : h \in kheld' <=> h \in kheld /\ hf'[h] \in Id
    BY <1>3 DEF Shrunk
  <2> QED BY <2>2, <2>3
<1>11. HostInv'
  <2>1. \A h \in kheld' \union spoilt' : hf'[h] \in Id
    BY <1>1, <1>5, <1>9, <1>10 DEF IInv, HostInv
  <2>2. kheld' \intersect spoilt' = {}
    BY <1>1, <1>10 DEF IInv, HostInv
  <2>3. \A g \in FFd : \A h \in Attached(g)' : hf'[h] \in Id /\ h \notin kheld'
    BY <1>5, <1>7, <1>8, <1>9, <1>10 DEF IInv, HostInv
  <2>4. \A g, x \in FFd : g # x => Attached(g)' \intersect Attached(x)' = {}
    BY <1>8 DEF IInv, HostInv
  <2> QED BY <2>1, <2>2, <2>3, <2>4 DEF HostInv
<1>12. PairsMatch'
  <2> SUFFICES ASSUME NEW g \in FFd, NEW h \in Attached(g)', h \notin spoilt'
               PROVE  ff'[g] # 0 /\ hf'[h] = ff'[g]
    BY DEF PairsMatch
  <2>1. g # f /\ h \in Attached(g) /\ h \notin Attached(f) /\ h \notin spoilt /\ h \in HFd
    BY <1>1, <1>7, <1>8, <1>9
  <2> QED BY <1>4, <1>5, <2>1 DEF IInv, PairsMatch
<1>13. NoLeak'
  <2> SUFFICES ASSUME NEW h \in HFd, hf'[h] \in Id PROVE Reached(h)' \/ h \in spoilt'
    BY DEF NoLeak, Opened
  <2>1. h \notin Attached(f) /\ hf[h] \in Id
    BY <1>5, Zero
  <2>2. h \in spoilt \/ h \in kheld \/ \E g \in FFd \ {f} : ff[g] # 0 /\ h \in Attached(g)
    BY <2>1 DEF IInv, NoLeak, Opened, Reached
  <2>3. ASSUME NEW g \in FFd \ {f}, ff[g] # 0, h \in Attached(g) PROVE Reached(h)'
    BY <1>4, <1>8, <2>3 DEF Reached
  <2> QED BY <1>1, <1>10, <2>1, <2>2, <2>3 DEF Reached
<1>14. Kept({f})
  <2>1. \A y \in HFd : hf'[y] \in Id => hf'[y] = hf[y]
    BY <1>5, Zero
  <2>2. \A y \in spoilt : hf'[y] \in Id => y \in spoilt'
    BY <1>1, <1>5, <1>9, Zero
  <2>3. ASSUME NEW g \in FFd, map'[g] # 0 PROVE map'[g] = map[g] /\ hf'[map[g]] = hf[map[g]]
    <3>1. g # f /\ map'[g] = map[g] /\ map[g] # 0 BY <1>6, <2>3
    <3>2. map[g] \in HFd /\ map[g] \in Attached(g) BY <3>1, DualFacts DEF Dual
    <3> QED BY <1>5, <1>9, <3>1, <3>2
  <2>4. ASSUME NEW g \in FFd, map'[g] # map[g] PROVE hf'[map[g]] \notin Id
    <3>1. g = f /\ map[f] # 0 BY <1>6, <2>4
    <3>2. map[f] \in HFd /\ map[f] \in Attached(f) BY <3>1, DualFacts DEF Dual
    <3> QED BY <1>5, <3>1, <3>2, Zero
  <2>5. \A g \in FFd : g \in {f} \/ ff'[g] = ff[g]
    BY <1>4
  <2> QED BY <2>1, <2>2, <2>3, <2>4, <2>5 DEF Kept
<1>15. pairs' \subseteq pairs /\ spoilt' \subseteq HFd
  BY <1>1, <1>9
<1> QED BY <1>2, <1>3, <1>6, <1>11, <1>12, <1>13, <1>14, <1>15, ShrinkKeeps

-----------------------------------------------------------------------------
(* Registrations. *)

(* A registration is one the host epolls had or the one asked for. *)
LEMMA CtlAdds ==
  ASSUME NEW op, NEW ep, NEW h, NEW app, NEW mask, NEW r \in EpollCtlHost(op, ep, h, app, mask)
  PROVE  r \in hreg \/ r = Entry(ep, h, app, mask)
BY DEF EpollCtlHost

(* One that may be asked for: of a host half, or of a held descriptor. *)
Asked(r) ==
  /\ r \in Reg
  /\ r.app.stk = "f" =>
       r.app.fd \in FFd /\ Dual(r.app.fd) /\ r.h = map[r.app.fd] /\ r.file = hf[r.h]

LEMMA AskedF ==
  ASSUME IInv, NEW f \in FFd, Dual(f), NEW ep \in HFd, NEW mask \in SUBSET Filter
  PROVE  Asked(Entry(ep, map[f], Fd(f), mask))
<1>1. map[f] \in HFd /\ hf[map[f]] \in Id
  BY DualFacts
<1>2. Fd(f) \in App
  BY DEF Fd, App
<1>3. Entry(ep, map[f], Fd(f), mask) \in Reg
  BY <1>1, <1>2 DEF Entry, Reg
<1> QED BY <1>3 DEF Asked, Entry, Fd

LEMMA AskedK ==
  ASSUME IInv, NEW h \in kheld, NEW ep \in HFd, NEW mask \in SUBSET Filter
  PROVE  Asked(Entry(ep, h, KFd(h), mask))
<1>1. h \in HFd /\ hf[h] \in Id
  BY HeldOpen
<1>2. KFd(h) \in App
  BY <1>1 DEF KFd, App
<1>3. Entry(ep, h, KFd(h), mask) \in Reg
  BY <1>1, <1>2 DEF Entry, Reg
<1> QED BY <1>3 DEF Asked, Entry, KFd

LEMMA WithHostEpKeeps ==
  ASSUME IInv, NEW k \in FFd, NEW create, NEW change, WithHostEp(k, create, change),
         \A ep \in HFd : \A r \in change[ep] : r \in hreg \/ Asked(r),
         UNCHANGED <<ff, fst, hst, kheld, map, told>>
  PROVE  IInv'
<1>1. FGrow /\ MapGrow
  BY DEF FGrow, MapGrow
<1>2. StateGrow
  BY DEF StateGrow
<1>3. ASSUME \A r \in hreg' : r \in hreg \/ Asked(r) PROVE hreg' \subseteq Reg /\ RegGrow
  <2>1. hreg' \subseteq Reg
    BY <1>3 DEF IInv, Types, Asked
  <2>2. RegGrow
    BY <1>3 DEF RegGrow, FReg, Asked
  <2> QED BY <2>1, <2>2
<1>4. CASE create /\ Creates(k)
  <2>1. PICK x \in HFd : x = NewH /\ hf[x] \notin Id
    BY <1>4, NewIsFree DEF IInv, Creates
  <2>2. PICK i \in Id : i = (IF IsKq(k) THEN ff[k] ELSE NewId) /\ Apart(i)
    <3>1. CASE IsKq(k)
      <4>1. ff[k] \in Id /\ fst[ff[k]] = "kq"
        BY <3>1 DEF IsKq, IInv, Types
      <4> QED BY <3>1, <4>1 DEF IInv, KqInv, Apart
    <3>2. CASE ~IsKq(k)
      <4>1. NewId \in Id /\ \A h \in HFd : hf[h] # NewId
        BY <1>4, NewIsFree DEF IInv, Creates
      <4> QED BY <3>2, <4>1, FreshApart
    <3> QED BY <3>1, <3>2
  <2>3. /\ hf' = [hf EXCEPT ![x] = i]
        /\ spoilt' = IF x = 0 \/ ~IsKq(k) THEN spoilt \union {x} ELSE spoilt
        /\ IF x = 0 THEN UNCHANGED <<pairs, hreg>>
           ELSE pairs' = pairs \union {[kq |-> k, ep |-> x]} /\ hreg' = change[x]
    BY <1>4, <2>1, <2>2 DEF WithHostEp
  <2>4. hf' \in HTable /\ hf'[x] = i /\ hf'[x] \in Id /\ \A h \in HFd \ {x} : hf'[h] = hf[h]
    BY <2>3 DEF IInv, Types, HTable
  <2>5. HGrow /\ FileGrow
    BY <2>1, <2>2, <2>4 DEF HGrow, FileGrow
  <2>6. hreg' \subseteq Reg /\ RegGrow
    <3>1. \A r \in hreg' : r \in hreg \/ Asked(r) BY <2>3
    <3> QED BY <1>3, <3>1
  <2>7. spoilt \subseteq spoilt' /\ spoilt' \subseteq spoilt \union {x} /\ spoilt' \subseteq HFd
    BY <2>3 DEF IInv, Types
  <2>8. pairs' \subseteq [kq: FFd, ep: HFd \ {0}]
    BY <2>3 DEF IInv, Types
  <2>9. Types'
    BY <2>4, <2>6, <2>7, <2>8 DEF IInv, Types
  <2>10. (HostInv /\ PairsMatch /\ NoLeak)'
    <3>1. CASE x = 0
      <4>1. Taken(x)
        BY <2>3, <3>1 DEF Taken
      <4>2. \A f \in FFd : Attached(f)' = Attached(f)
        BY <2>3, <3>1, SameAttached
      <4> QED BY <1>1, <2>1, <2>4, <4>1, <4>2, HostTaken
    <3>2. CASE x # 0
      <4>1. PICK q : q.kq = k /\ q.ep = x /\ pairs' = pairs \union {q}
        BY <2>3, <3>2
      <4>2. \A f \in FFd \ {k} : \A h : h \in Attached(f)' <=> h \in Attached(f)
        BY <4>1, AttachedIs
      <4>3. \A h : (\E p \in pairs' : p.kq = k /\ p.ep = h)
                     <=> (\E p \in pairs : p.kq = k /\ p.ep = h) \/ h = x
        BY <4>1, Zenon
      <4>4. \A h : h \in Attached(k)' <=> h \in Attached(k) \/ h = x
        BY <3>2, <4>3, AttachedIs
      <4>5. /\ \A f \in FFd \ {k} : Attached(f)' = Attached(f)
            /\ x \in Attached(k)' /\ Attached(k)' \subseteq Attached(k) \union {x}
            /\ Attached(k) \ Attached(k)' \subseteq spoilt
        BY <4>2, <4>4
      <4>6. x \in spoilt' \/ (ff'[k] # 0 /\ hf'[x] = ff'[k])
        BY <2>2, <2>3, <2>4 DEF IsKq
      <4> QED BY <1>1, <2>1, <2>4, <2>7, <4>5, <4>6, HostAttached
    <3> QED BY <3>1, <3>2
  <2> QED BY <1>1, <1>2, <2>5, <2>6, <2>7, <2>9, <2>10, GrowKeeps
<1>5. CASE ~(create /\ Creates(k))
  <2>1. /\ hreg' = IF HostEps(k) = {} THEN hreg ELSE change[Least(HostEps(k))]
        /\ UNCHANGED <<hf, pairs, spoilt>>
    BY <1>5 DEF WithHostEp
  <2>2. HostEps(k) \subseteq HFd
    BY DEF HostEps, IInv, Types
  <2>3. HostEps(k) # {} => Least(HostEps(k)) \in HFd
    BY <2>2, LeastIn, Zero
  <2>4. \A r \in hreg' : r \in hreg \/ Asked(r)
    BY <2>1, <2>3
  <2>5. hreg' \subseteq Reg /\ RegGrow
    BY <1>3, <2>4
  <2>6. Types'
    BY <2>1, <2>5 DEF IInv, Types
  <2>7. HGrow /\ FileGrow
    BY <2>1 DEF HGrow, FileGrow
  <2>8. (HostInv /\ PairsMatch /\ NoLeak)'
    <3>1. \A f \in FFd : Attached(f)' = Attached(f)
      BY <2>1, SameAttached
    <3> QED BY <1>1, <2>1, <3>1, HostSame DEF HSame
  <2> QED BY <1>1, <1>2, <2>1, <2>5, <2>6, <2>7, <2>8, GrowKeeps
<1> QED BY <1>4, <1>5

LEMMA EpollCtlKeeps ==
  ASSUME IInv, NEW k \in FFd, NEW f \in FFd, NEW op, NEW mask \in SUBSET Filter,
         EpollCtl(k, f, op, mask)
  PROVE  IInv'
<1> DEFINE change == [ep \in HFd |-> EpollCtlHost(op, ep, map[f], Fd(f), mask)]
<1>1. /\ UNCHANGED <<ff, fst, hst, kheld, map, told>>
      /\ IF Dual(f) THEN WithHostEp(k, op # "del", change) ELSE UNCHANGED <<hf, pairs, hreg, spoilt>>
  BY Zenon DEF EpollCtl
<1>2. CASE ~Dual(f)
  BY <1>1, <1>2, QuietKeeps
<1>3. CASE Dual(f)
  <2>1. \A ep \in HFd : \A r \in change[ep] : r \in hreg \/ Asked(r)
    BY <1>3, CtlAdds, AskedF
  <2>2. WithHostEp(k, op # "del", change)
    BY <1>1, <1>3
  <2> HIDE DEF change
  <2> QED BY <1>1, <2>1, <2>2, WithHostEpKeeps
<1> QED BY <1>2, <1>3

LEMMA KeventKeeps ==
  ASSUME IInv, NEW k \in FFd, NEW f \in FFd, NEW op, NEW flt \in Filter, NEW wait,
         Kevent(k, f, op, flt, wait)
  PROVE  IInv'
<1> DEFINE change == [ep \in HFd |-> KqueueCtlHost(op, ep, map[f], Fd(f), flt)]
<1>1. /\ UNCHANGED <<ff, fst, hst, kheld, map, told>>
      /\ IF Dual(f) THEN WithHostEp(k, op = "add", change) ELSE UNCHANGED <<hf, pairs, hreg, spoilt>>
  BY Zenon DEF Kevent
<1>2. CASE ~Dual(f)
  BY <1>1, <1>2, QuietKeeps
<1>3. CASE Dual(f)
  <2>1. \A ep \in HFd : \A r \in change[ep] : r \in hreg \/ Asked(r)
    BY <1>3, CtlAdds, AskedF DEF KqueueCtlHost
  <2>2. WithHostEp(k, op = "add", change)
    BY <1>1, <1>3
  <2> HIDE DEF change
  <2> QED BY <1>1, <2>1, <2>2, WithHostEpKeeps
<1> QED BY <1>2, <1>3

LEMMA EpollCtlKernelKeeps ==
  ASSUME IInv, NEW k \in FFd, NEW h \in HFd, NEW op, NEW mask \in SUBSET Filter,
         EpollCtlKernel(k, h, op, mask)
  PROVE  IInv'
<1> DEFINE change == [ep \in HFd |-> EpollCtlHost(op, ep, h, KFd(h), mask)]
<1>1. /\ h \in kheld /\ UNCHANGED <<ff, fst, hst, kheld, map, told>>
      /\ WithHostEp(k, op # "del", change)
  BY Zenon DEF EpollCtlKernel, PassesKernel, fVars, history
<1>2. \A ep \in HFd : \A r \in change[ep] : r \in hreg \/ Asked(r)
  BY <1>1, CtlAdds, AskedK
<1> HIDE DEF change
<1> QED BY <1>1, <1>2, WithHostEpKeeps

LEMMA KeventKernelKeeps ==
  ASSUME IInv, NEW k \in FFd, NEW h \in HFd, NEW op, NEW flt \in Filter,
         KeventKernel(k, h, op, flt)
  PROVE  IInv'
<1> DEFINE change == [ep \in HFd |-> KqueueCtlHost(op, ep, h, KFd(h), flt)]
<1>1. /\ h \in kheld /\ UNCHANGED <<ff, fst, hst, kheld, map, told>>
      /\ WithHostEp(k, op = "add", change)
  BY Zenon DEF KeventKernel, PassesKernel, fVars, history
<1>2. \A ep \in HFd : \A r \in change[ep] : r \in hreg \/ Asked(r)
  BY <1>1, CtlAdds, AskedK DEF KqueueCtlHost
<1> HIDE DEF change
<1> QED BY <1>1, <1>2, WithHostEpKeeps

-----------------------------------------------------------------------------
LEMMA InitHolds == ASSUME Init PROVE IInv
<1>1. Types
  BY Zero DEF Init, Types, HTable, State
<1>2. \A f \in FFd : Attached(f) = {}
  BY DEF Init, Attached
<1>3. HostInv /\ PairsMatch /\ NoLeak
  BY <1>2, Zero DEF Init, HostInv, PairsMatch, NoLeak, Opened
<1>4. DualFile /\ RegInv /\ KqInv /\ FreshInv /\ ToldInv /\ ListensInBoth
  BY DEF Init, DualFile, RegInv, KqInv, FReg, FreshInv, ToldInv, ListensInBoth, Dual
<1> QED BY <1>1, <1>3, <1>4 DEF IInv

LEMMA NextKeeps == ASSUME IInv, [Next]_vars PROVE IInv'
<1>1. CASE UNCHANGED vars
  BY <1>1, QuietKeeps DEF vars, fVars, hVars, history
<1>2. CASE SocketKernel \/ SocketFstack \/ SocketDual \/ Kqueue \/ CloseStdin
  BY <1>2, SocketKernelKeeps, SocketFstackKeeps, SocketDualKeeps, KqueueKeeps, CloseStdinKeeps
<1>3. ASSUME NEW f \in FFd,
             \/ Dup(f) \/ FcntlDup(f) \/ Close(f) \/ CloseError(f)
             \/ Bind(f) \/ Listen(f) \/ Connect(f) \/ Accept(f)
      PROVE  IInv'
  BY <1>3, DupKeeps, FcntlDupKeeps, CloseKeeps, CloseErrorKeeps, BindKeeps, ListenKeeps,
     ConnectKeeps, AcceptKeeps
<1>4. ASSUME NEW f \in FFd, Recv(f) \/ Wait(f) PROVE IInv'
  <2>1. UNCHANGED <<ff, fst, hf, hst, hreg, kheld, map, pairs, told, spoilt>>
    BY <1>4, Zenon DEF Recv, Wait, fVars, hVars, history
  <2> QED BY <2>1, QuietKeeps
<1>5. ASSUME NEW f \in FFd, NEW g \in FFd, Dup2(f, g) PROVE IInv'
  BY <1>5, Dup2Keeps
<1>6. ASSUME NEW h \in HFd,
             \/ DupKernel(h) \/ FcntlDupKernel(h) \/ CloseKernel(h) \/ AcceptKernel(h)
             \/ \E s \in {"bound", "listen", "conn"} : KernelTo(h, s)
      PROVE  IInv'
  BY <1>6, DupKernelKeeps, FcntlDupKernelKeeps, CloseKernelKeeps, AcceptKernelKeeps, KernelToKeeps
<1>7. ASSUME NEW h \in HFd, RecvKernel(h) PROVE IInv'
  <2>1. UNCHANGED <<ff, fst, hf, hst, hreg, kheld, map, pairs, told, spoilt>>
    BY <1>7, Zenon DEF RecvKernel, fVars, hVars, history
  <2> QED BY <2>1, QuietKeeps
<1>8. ASSUME NEW h \in HFd, NEW n \in HFd, Dup2Kernel(h, n) PROVE IInv'
  BY <1>8, Dup2KernelKeeps
<1>9. ASSUME NEW side, NEW i, Arrive(side, i) PROVE IInv'
  <2>1. UNCHANGED <<ff, fst, hf, hst, hreg, kheld, map, pairs, told, spoilt>>
    BY <1>9, Zenon DEF Arrive, fVars, hVars, history
  <2> QED BY <2>1, QuietKeeps
<1>10. ASSUME NEW k \in FFd, NEW op, NEW mask \in SUBSET Filter \ {{}},
              \/ \E f \in FFd : EpollCtl(k, f, op, mask)
              \/ \E h \in HFd : EpollCtlKernel(k, h, op, mask)
       PROVE  IInv'
  BY <1>10, EpollCtlKeeps, EpollCtlKernelKeeps
<1>11. ASSUME NEW k \in FFd, NEW op, NEW flt \in Filter,
              \/ \E f \in FFd, wait \in BOOLEAN : Kevent(k, f, op, flt, wait)
              \/ \E h \in HFd : KeventKernel(k, h, op, flt)
       PROVE  IInv'
  BY <1>11, KeventKeeps, KeventKernelKeeps
<1> QED BY <1>1, <1>2, <1>3, <1>4, <1>5, <1>6, <1>7, <1>8, <1>9, <1>10, <1>11, Zenon DEF Next

-----------------------------------------------------------------------------
(* The inductive invariant holds in every state of every execution of the  *)
(* native API over both stacks.                                            *)
THEOREM Inductive == Spec => []IInv
BY InitHolds, NextKeeps, PTL DEF Spec

(* ff_native_fd_map and ff_epoll_pairs never join two different sockets or *)
(* a kqueue with another's epoll, whatever is duplicated, closed, reused   *)
(* and half-failing in whatever order; with the exceptions NoLeak names.   *)
THEOREM PairsAlwaysMatch == Spec => []PairsMatch
<1>1. IInv => PairsMatch BY DEF IInv
<1> QED BY <1>1, Inductive, PTL

(* Every host descriptor this code opened can still be reached from a      *)
(* descriptor the application can close, so that ff_close and              *)
(* ff_epoll_close_pair leak none; except those a failed close, a dup2 or   *)
(* an F_DUPFD has left behind, number 0, which is stored as a pair and     *)
(* read as none, and the host epoll of a number that is no kqueue.         *)
THEOREM NothingLeaks == Spec => []NoLeak
<1>1. IInv => NoLeak BY DEF IInv
<1> QED BY <1>1, Inductive, PTL

(* A registration of a host epoll is of the host half its F-Stack          *)
(* descriptor has now: ff_epoll_wait reports nothing for a descriptor that *)
(* is closed or reused by then; with the exceptions NoGhostEvent names.    *)
THEOREM NoGhosts == Spec => []NoGhostEvent
<1>1. ASSUME IInv PROVE NoGhostEvent
  <2> SUFFICES ASSUME NEW r \in hreg, r.app.stk = "f",
                      r.file \notin {hf[h] : h \in spoilt}
               PROVE  hf[r.h] = r.file /\ map[r.app.fd] = r.h
    BY DEF NoGhostEvent
  <2>1. r \in FReg
    BY DEF FReg
  <2>2. PICK y \in HFd : hf[y] = r.file
    BY <1>1, <2>1 DEF IInv, RegInv
  <2>3. y \notin spoilt
    BY <2>2
  <2> QED BY <1>1, <2>1, <2>2, <2>3 DEF IInv, RegInv
<1> QED BY <1>1, Inductive, PTL

(* When ff_bind and then ff_listen have returned 0 for a dual-stack        *)
(* descriptor, it listens in both stacks, and goes on doing so until it is *)
(* closed or its host half is left behind.                                 *)
THEOREM BothListen == Spec => []ListensInBoth
<1>1. IInv => ListensInBoth BY DEF IInv
<1> QED BY <1>1, Inductive, PTL

-----------------------------------------------------------------------------
(* The other variables: what a step does to each of them. *)

PairsStep == pairs' \subseteq pairs \/ (SlotFree /\ \E p : pairs' = pairs \union {p})
RegStep   == \E r : hreg' \subseteq hreg \union {r}
CallsStep == Count \/ calls' = calls
ReadyStep ==
  ready' \subseteq ready \/ \E s \in {"f", "h"}, i \in Id : ready' = ready \union {<<s, i>>}
GotStep ==
  got' = got \/ got' = {} \/ \E hs \in SUBSET hreg', fs \in SUBSET FFd : got' = Events(hs, fs)

Notes == [Id -> [FFd -> SUBSET Filter]]
Wishes == [FFd -> [FFd -> SUBSET Filter]]
NoteStep == (knote \in Notes => knote' \in Notes) /\ (asked \in Wishes => asked' \in Wishes)

Others == PairsStep /\ RegStep /\ CallsStep /\ ReadyStep /\ GotStep /\ NoteStep /\ room' = room

LEMMA CalmOthers ==
  ASSUME CallsStep, ready' \subseteq ready, got' = {} \/ got' = got,
         UNCHANGED <<pairs, hreg, knote, asked, room>>
  PROVE  Others
BY DEF Others, PairsStep, RegStep, ReadyStep, GotStep, NoteStep

LEMMA TablesOthers ==
  ASSUME NEW ff1, NEW hf1, NEW cut, Tables(ff1, hf1, cut), Return, pairs' \subseteq pairs
  PROVE  Others
<1>1. PICK openF, openH :
        /\ ready' = {x \in ready : IF x[1] = "f" THEN x[2] \in openF ELSE x[2] \in openH}
        /\ knote' = [i \in Id |-> [f \in FFd |-> IF i \in openF /\ f \notin cut THEN knote[i][f] ELSE {}]]
        /\ asked' = [k \in FFd |-> [f \in FFd |-> IF {k, f} \cap cut = {} THEN asked[k][f] ELSE {}]]
        /\ hreg' = {r \in hreg : r.file \in openH /\ hf1[r.ep] # 0}
  BY Zenon DEF Tables
<1>2. ready' \subseteq ready /\ hreg' \subseteq hreg
  BY <1>1
<1>3. PairsStep /\ RegStep /\ ReadyStep
  BY <1>2 DEF PairsStep, RegStep, ReadyStep
<1>4. CallsStep /\ GotStep /\ room' = room
  BY DEF CallsStep, GotStep, Return, Count
<1>5. NoteStep
  BY <1>1 DEF NoteStep, Notes, Wishes
<1> QED BY <1>3, <1>4, <1>5 DEF Others

(* epoll_ctl of the host adds at most one registration, and a pair only if *)
(* there is a slot for it.                                                 *)
LEMMA WithHostEpOthers ==
  ASSUME NEW k, NEW create, NEW change, WithHostEp(k, create, change), IInv,
         \A ep \in HFd : \E r : change[ep] \subseteq hreg \union {r}
  PROVE  PairsStep /\ RegStep
<1>1. CASE create /\ Creates(k)
  <2>1. NewH \in HFd
    BY <1>1, NewIsFree DEF IInv, Creates
  <2>2. CASE NewH = 0
    BY <1>1, <2>2 DEF WithHostEp, PairsStep, RegStep
  <2>3. CASE NewH # 0
    <3>1. pairs' = pairs \union {[kq |-> k, ep |-> NewH]} /\ hreg' = change[NewH] /\ SlotFree
      BY <1>1, <2>3 DEF WithHostEp, Creates
    <3> QED BY <2>1, <3>1 DEF PairsStep, RegStep
  <2> QED BY <2>2, <2>3
<1>2. CASE ~(create /\ Creates(k))
  <2>1. /\ hreg' = IF HostEps(k) = {} THEN hreg ELSE change[Least(HostEps(k))]
        /\ pairs' = pairs
    BY <1>2 DEF WithHostEp
  <2>2. HostEps(k) \subseteq HFd
    BY DEF HostEps, IInv, Types
  <2>3. HostEps(k) # {} => Least(HostEps(k)) \in HFd
    BY <2>2, LeastIn, Zero
  <2> QED BY <2>1, <2>3 DEF PairsStep, RegStep
<1> QED BY <1>1, <1>2

LEMMA CtlAddsOne ==
  ASSUME NEW op, NEW ep, NEW h, NEW app, NEW mask
  PROVE  \E r : EpollCtlHost(op, ep, h, app, mask) \subseteq hreg \union {r}
<1>1. EpollCtlHost(op, ep, h, app, mask) \subseteq hreg \union {Entry(ep, h, app, mask)}
  BY CtlAdds
<1> QED BY <1>1

(* A change of one entry of the knotes or of the wishes. *)
LEMMA NoteType ==
  ASSUME NEW i \in Id, NEW f \in FFd, NEW S \in SUBSET Filter, knote \in Notes
  PROVE  [knote EXCEPT ![i][f] = S] \in Notes
BY DEF Notes

LEMMA WishType ==
  ASSUME NEW k, NEW f \in FFd, NEW S \in SUBSET Filter, asked \in Wishes
  PROVE  AskedBy(k, f, S) \in Wishes
<1>1. \A a \in FFd : [asked[a] EXCEPT ![f] = IF a = k THEN S ELSE {}] \in [FFd -> SUBSET Filter]
  BY DEF Wishes
<1> QED BY <1>1 DEF AskedBy, Wishes

LEMMA EpollCtlOthers ==
  ASSUME IInv, NEW k \in FFd, NEW f \in FFd, NEW op, NEW mask \in SUBSET Filter,
         EpollCtl(k, f, op, mask)
  PROVE  Others
<1> DEFINE change == [ep \in HFd |-> EpollCtlHost(op, ep, map[f], Fd(f), mask)]
           now == IF op = "del" \/ (op = "mod" /\ knote[ff[k]][f] = {}) THEN {} ELSE mask
<1>1. /\ Return /\ UNCHANGED ready
      /\ IF Dual(f) THEN WithHostEp(k, op # "del", change) ELSE UNCHANGED <<hf, pairs, hreg, spoilt>>
      /\ IF Found(k, f) THEN knote' = [knote EXCEPT ![ff[k]][f] = now] /\ asked' = AskedBy(k, f, now)
         ELSE UNCHANGED <<knote, asked>>
  BY Zenon DEF EpollCtl
<1>2. PairsStep /\ RegStep
  <2>1. CASE ~Dual(f)
    BY <1>1, <2>1 DEF PairsStep, RegStep
  <2>2. CASE Dual(f)
    <3>1. \A ep \in HFd : \E r : change[ep] \subseteq hreg \union {r}
      BY CtlAddsOne
    <3>2. WithHostEp(k, op # "del", change) BY <1>1, <2>2
    <3> HIDE DEF change
    <3> QED BY <3>1, <3>2, WithHostEpOthers
  <2> QED BY <2>1, <2>2
<1>3. CallsStep /\ ReadyStep /\ GotStep /\ room' = room
  BY <1>1 DEF CallsStep, ReadyStep, GotStep, Return, Count
<1>4. NoteStep
  <2>1. Found(k, f) => ff[k] \in Id
    BY DEF Found, IsKq, IInv, Types
  <2>2. now \in SUBSET Filter
    OBVIOUS
  <2> HIDE DEF now
  <2> QED BY <1>1, <2>1, <2>2, NoteType, WishType DEF NoteStep
<1> QED BY <1>2, <1>3, <1>4 DEF Others

LEMMA EpollCtlKernelOthers ==
  ASSUME IInv, NEW k \in FFd, NEW h \in HFd, NEW op, NEW mask, EpollCtlKernel(k, h, op, mask)
  PROVE  Others
<1> DEFINE change == [ep \in HFd |-> EpollCtlHost(op, ep, h, KFd(h), mask)]
<1>1. WithHostEp(k, op # "del", change) /\ Return /\ UNCHANGED <<ready, knote, asked>>
  BY Zenon DEF EpollCtlKernel, fVars, history
<1>2. \A ep \in HFd : \E r : change[ep] \subseteq hreg \union {r}
  BY CtlAddsOne
<1>3. PairsStep /\ RegStep
  <2> HIDE DEF change
  <2> QED BY <1>1, <1>2, WithHostEpOthers
<1> QED BY <1>1, <1>3 DEF Others, CallsStep, ReadyStep, GotStep, NoteStep, Return, Count

LEMMA KeventKernelOthers ==
  ASSUME IInv, NEW k \in FFd, NEW h \in HFd, NEW op, NEW flt, KeventKernel(k, h, op, flt)
  PROVE  Others
<1> DEFINE change == [ep \in HFd |-> KqueueCtlHost(op, ep, h, KFd(h), flt)]
<1>1. WithHostEp(k, op = "add", change) /\ Return /\ UNCHANGED <<ready, knote, asked>>
  BY Zenon DEF KeventKernel, fVars, history
<1>2. \A ep \in HFd : \E r : change[ep] \subseteq hreg \union {r}
  BY CtlAddsOne DEF KqueueCtlHost
<1>3. PairsStep /\ RegStep
  <2> HIDE DEF change
  <2> QED BY <1>1, <1>2, WithHostEpOthers
<1> QED BY <1>1, <1>3 DEF Others, CallsStep, ReadyStep, GotStep, NoteStep, Return, Count

(* As many as fit of what is ready are some of it. *)
LEMMA SomeIn == ASSUME NEW S, NEW n, NEW T \in Some(S, n) PROVE T \subseteq S
BY DEF Some

(* What Kevent does beside the registrations. *)
KnAfter(k, f, op, flt) ==
  IF Found(k, f) /\ (op = "add" \/ flt \in knote[ff[k]][f])
  THEN [knote EXCEPT ![ff[k]][f] = KnoteChange(@, op, flt)] ELSE knote

LEMMA KeventIs ==
  ASSUME NEW k, NEW f, NEW op, NEW flt, NEW wait \in BOOLEAN, Kevent(k, f, op, flt, wait)
  PROVE  \E n \in {0, room} : \E hs \in Some(ReadyIn(hreg', pairs', k), n) :
           /\ knote' = IF n > 0 /\ Full(hs, n) THEN knote ELSE KnAfter(k, f, op, flt)
           /\ \/ got' = Events(hs, {})
              \/ \E m : \E fs \in Some(FReady(k, KnAfter(k, f, op, flt)), m) : got' = Events(hs, fs)
<1> DEFINE N == IF wait THEN room ELSE 0
<1>1. N \in {0, room}
  OBVIOUS
<1>2. \E hs \in Some(ReadyIn(hreg', pairs', k), N) :
        /\ knote' = IF N > 0 /\ Full(hs, N) THEN knote ELSE KnAfter(k, f, op, flt)
        /\ \/ got' = Events(hs, {})
           \/ \E fs \in Some(FReady(k, KnAfter(k, f, op, flt)), N - Cardinality(hs)) : got' = Events(hs, fs)
  BY Zenon DEF Kevent, KnAfter
<1> HIDE DEF N
<1> QED BY <1>1, <1>2, Zenon

LEMMA KeventOthers ==
  ASSUME IInv, NEW k \in FFd, NEW f \in FFd, NEW op \in {"add", "del"}, NEW flt \in Filter,
         NEW wait \in BOOLEAN, Kevent(k, f, op, flt, wait)
  PROVE  Others
<1> DEFINE change == [ep \in HFd |-> KqueueCtlHost(op, ep, map[f], Fd(f), flt)]
           kn1 == KnAfter(k, f, op, flt)
           now == IF op = "add" THEN {flt} ELSE {}
<1>1. /\ Count /\ UNCHANGED ready
      /\ IF Dual(f) THEN WithHostEp(k, op = "add", change) ELSE UNCHANGED <<hf, pairs, hreg, spoilt>>
      /\ asked' = IF Found(k, f) THEN AskedBy(k, f, now) ELSE asked
  BY Zenon DEF Kevent
<1>2. PairsStep /\ RegStep
  <2>1. CASE ~Dual(f)
    BY <1>1, <2>1 DEF PairsStep, RegStep
  <2>2. CASE Dual(f)
    <3>1. \A ep \in HFd : \E r : change[ep] \subseteq hreg \union {r}
      BY CtlAddsOne DEF KqueueCtlHost
    <3>2. WithHostEp(k, op = "add", change) BY <1>1, <2>2
    <3> HIDE DEF change
    <3> QED BY <3>1, <3>2, WithHostEpOthers
  <2> QED BY <2>1, <2>2
<1>3. CallsStep /\ ReadyStep /\ room' = room
  BY <1>1 DEF CallsStep, ReadyStep, Count
<1>4. PICK n \in {0, room} : \E hs \in Some(ReadyIn(hreg', pairs', k), n) :
        /\ knote' \in {knote, kn1}
        /\ \/ got' = Events(hs, {})
           \/ \E m : \E fs \in Some(FReady(k, kn1), m) : got' = Events(hs, fs)
  BY KeventIs
<1>5. kn1 \in Notes \/ knote \notin Notes
  <2> SUFFICES ASSUME knote \in Notes PROVE kn1 \in Notes OBVIOUS
  <2>1. CASE kn1 = knote
    BY <2>1
  <2>2. CASE Found(k, f) /\ kn1 = [knote EXCEPT ![ff[k]][f] = KnoteChange(@, op, flt)]
    <3>1. ff[k] \in Id
      BY <2>2 DEF Found, IsKq, IInv, Types
    <3>2. knote[ff[k]][f] \in SUBSET Filter
      BY <3>1 DEF Notes
    <3>3. KnoteChange(knote[ff[k]][f], op, flt) \in SUBSET Filter
      BY <3>2 DEF KnoteChange
    <3>4. kn1 = [knote EXCEPT ![ff[k]][f] = KnoteChange(knote[ff[k]][f], op, flt)]
      BY <2>2, <3>1 DEF Notes
    <3> HIDE DEF kn1
    <3> QED BY <3>1, <3>3, <3>4, NoteType
  <2> QED BY <2>1, <2>2 DEF KnAfter
<1> HIDE DEF kn1
<1>6. GotStep
  <2>1. ReadyIn(hreg', pairs', k) \subseteq hreg' /\ FReady(k, kn1) \subseteq FFd
    BY DEF ReadyIn, FReady
  <2>2. PICK hs \in Some(ReadyIn(hreg', pairs', k), n) :
          \/ got' = Events(hs, {})
          \/ \E m : \E fs \in Some(FReady(k, kn1), m) : got' = Events(hs, fs)
    BY <1>4
  <2>3. hs \in SUBSET hreg' /\ {} \in SUBSET FFd
    BY <2>1, SomeIn
  <2>4. \A m : \A fs \in Some(FReady(k, kn1), m) : fs \in SUBSET FFd
    BY <2>1, SomeIn
  <2> QED BY <2>2, <2>3, <2>4, Zenon DEF GotStep
<1>7. NoteStep
  <2>1. now \in SUBSET Filter
    OBVIOUS
  <2>2. knote' \in {knote, kn1}
    BY <1>4
  <2> HIDE DEF now
  <2> QED BY <1>1, <1>5, <2>1, <2>2, WishType DEF NoteStep
<1> QED BY <1>2, <1>3, <1>6, <1>7 DEF Others

LEMMA NextOthers == ASSUME IInv, [Next]_vars PROVE Others
<1>1. CASE UNCHANGED vars
  BY <1>1, CalmOthers DEF vars, fVars, hVars, history, CallsStep
<1>2. CASE SocketKernel \/ SocketFstack \/ SocketDual \/ Kqueue \/ CloseStdin
  BY <1>2, CalmOthers DEF SocketKernel, SocketFstack, SocketDual, Kqueue, CloseStdin, fVars, hVars,
     history, Return, Count, CallsStep
<1>3. ASSUME NEW f \in FFd, Dup(f) \/ FcntlDup(f) \/ Bind(f) \/ Listen(f) \/ Connect(f) PROVE Others
  BY <1>3, CalmOthers DEF Dup, FcntlDup, Bind, Listen, Connect, fVars, hVars, history, Return, Count, CallsStep
<1>4. ASSUME NEW f \in FFd, Accept(f) \/ Recv(f) PROVE Others
  BY <1>4, CalmOthers DEF Accept, HostAccept, Recv, fVars, hVars, history, Return, Count, CallsStep
<1>5. ASSUME NEW f \in FFd, Close(f) PROVE Others
  <2>1. Tables([ff EXCEPT ![f] = 0], HfWithout(ClosedWith(f)), {f}) /\ Return
    BY <1>5, Zenon DEF Close
  <2>2. pairs' \subseteq pairs BY <1>5 DEF Close
  <2> QED BY <2>1, <2>2, TablesOthers
<1>6. ASSUME NEW f \in FFd, CloseError(f) PROVE Others
  <2>1. Tables([ff EXCEPT ![f] = 0], hf, {f}) /\ Return /\ pairs' = pairs
    BY <1>6, Zenon DEF CloseError
  <2> QED BY <2>1, TablesOthers
<1>7. ASSUME NEW f \in FFd, NEW g \in FFd, Dup2(f, g) PROVE Others
  <2>1. Tables([ff EXCEPT ![g] = ff[f]], hf, {g}) /\ Return /\ pairs' = pairs
    BY <1>7, Zenon DEF Dup2
  <2> QED BY <2>1, TablesOthers
<1>8. ASSUME NEW f \in FFd, Wait(f) PROVE Others
  <2>1. UNCHANGED <<knote, asked, hreg, pairs, ready, calls, room>>
    BY <1>8, Zenon DEF Wait, fVars, hVars, history
  <2>2. \E hs \in SUBSET hreg, fs \in SUBSET FFd : got' = Events(hs, fs)
    <3>1. HostReady(f) \subseteq hreg /\ FReady(f, knote) \subseteq FFd
      BY DEF HostReady, ReadyIn, FReady
    <3>2. PICK hs \in Some(HostReady(f), room) :
            got' = Events(hs, {}) \/ \E fs \in Some(FReady(f, knote), room - Cardinality(hs)) :
                                       got' = Events(hs, fs)
      BY <1>8, Zenon DEF Wait
    <3>3. hs \in SUBSET hreg /\ {} \in SUBSET FFd
      BY <3>1, SomeIn
    <3>4. \A n : \A fs \in Some(FReady(f, knote), n) : fs \in SUBSET FFd
      BY <3>1, SomeIn
    <3> QED BY <3>2, <3>3, <3>4, Zenon
  <2>3. GotStep
    BY <2>1, <2>2, Zenon DEF GotStep
  <2> QED BY <2>1, <2>3 DEF Others, PairsStep, RegStep, CallsStep, ReadyStep, NoteStep
<1>9. ASSUME NEW h \in HFd, \/ DupKernel(h) \/ FcntlDupKernel(h) \/ RecvKernel(h)
                            \/ \E s \in {"bound", "listen", "conn"} : KernelTo(h, s)
      PROVE  Others
  BY <1>9, CalmOthers DEF DupKernel, FcntlDupKernel, RecvKernel, KernelTo, fVars, hVars, history, Return,
     Count, CallsStep
<1>10. ASSUME NEW h \in HFd, AcceptKernel(h) PROVE Others
  BY <1>10, CalmOthers DEF AcceptKernel, HostAccept, fVars, hVars, history, Return, Count, CallsStep
<1>11. ASSUME NEW h \in HFd, CloseKernel(h) PROVE Others
  <2>1. Tables(ff, HfWithout({h}), {}) /\ Return /\ pairs' = pairs
    BY <1>11, Zenon DEF CloseKernel
  <2> QED BY <2>1, TablesOthers
<1>12. ASSUME NEW h \in HFd, NEW n \in HFd, Dup2Kernel(h, n) PROVE Others
  <2>1. Tables(ff, [hf EXCEPT ![n] = hf[h]], {}) /\ Return /\ pairs' = pairs
    BY <1>12, Zenon DEF Dup2Kernel
  <2> QED BY <2>1, TablesOthers
<1>13. ASSUME NEW s \in {"f", "h"}, NEW i \in Id, Arrive(s, i) PROVE Others
  <2>1. /\ ready' = ready \union {<<s, i>>} /\ UNCHANGED <<knote, asked, hreg, pairs, got, calls, room>>
    BY <1>13, Zenon DEF Arrive, fVars, hVars, history
  <2> QED BY <2>1 DEF Others, PairsStep, RegStep, CallsStep, ReadyStep, GotStep, NoteStep
<1>14. ASSUME NEW k \in FFd, NEW op, NEW mask \in SUBSET Filter \ {{}},
              \/ \E f \in FFd : EpollCtl(k, f, op, mask)
              \/ \E h \in HFd : EpollCtlKernel(k, h, op, mask)
       PROVE  Others
  BY <1>14, EpollCtlOthers, EpollCtlKernelOthers
<1>15. ASSUME NEW k \in FFd, NEW op \in {"add", "del"}, NEW flt \in Filter,
              \/ \E f \in FFd, wait \in BOOLEAN : Kevent(k, f, op, flt, wait)
              \/ \E h \in HFd : KeventKernel(k, h, op, flt)
       PROVE  Others
  BY <1>15, KeventOthers, KeventKernelOthers
<1> QED BY <1>1, <1>2, <1>3, <1>4, <1>5, <1>6, <1>7, <1>8, <1>9, <1>10, <1>11, <1>12, <1>13,
           <1>14, <1>15, Zenon DEF Next

-----------------------------------------------------------------------------
(* With IInv, the type invariant; sets the code counts are finite. *)
Rest ==
  /\ knote \in Notes /\ asked \in Wishes /\ room \in 1 .. MaxEvents
  /\ IsFiniteSet(pairs) /\ Cardinality(pairs) <= MaxPairs /\ IsFiniteSet(hreg)
  /\ calls \in 0 .. MaxCalls
  /\ ready \subseteq {"f", "h"} \X Id /\ got \subseteq {"f", "h"} \X App

LEMMA RestKeeps == ASSUME IInv, IInv', Rest, Others PROVE Rest'
<1>1. (knote \in Notes)' /\ (asked \in Wishes)' /\ room' = room
  BY DEF Rest, Others, NoteStep, Notes, Wishes
<1>2. (IsFiniteSet(pairs) /\ Cardinality(pairs) <= MaxPairs)'
  <2>1. IsFiniteSet(pairs) /\ Cardinality(pairs) \in Nat /\ Cardinality(pairs) <= MaxPairs
        /\ MaxPairs \in Nat
    BY FS_CardinalityType, CoexistAssumption DEF Rest
  <2>2. CASE pairs' \subseteq pairs
    <3>1. IsFiniteSet(pairs') /\ Cardinality(pairs') <= Cardinality(pairs)
      BY <2>1, <2>2, FS_Subset
    <3>2. Cardinality(pairs') \in Nat BY <3>1, FS_CardinalityType
    <3> QED BY <2>1, <3>1, <3>2
  <2>3. CASE SlotFree /\ \E p : pairs' = pairs \union {p}
    <3>1. PICK p : pairs' = pairs \union {p} BY <2>3
    <3>2. /\ IsFiniteSet(pairs')
          /\ Cardinality(pairs') = Cardinality(pairs) \/ Cardinality(pairs') = Cardinality(pairs) + 1
      BY <2>1, <3>1, FS_AddElement
    <3> QED BY <2>1, <2>3, <3>2 DEF SlotFree
  <2> QED BY <2>2, <2>3 DEF Others, PairsStep
<1>3. IsFiniteSet(hreg')
  <2>1. PICK r : hreg' \subseteq hreg \union {r} BY DEF Others, RegStep
  <2>2. IsFiniteSet(hreg \union {r}) BY FS_AddElement DEF Rest
  <2> QED BY <2>1, <2>2, FS_Subset
<1>4. calls' \in 0 .. MaxCalls
  BY CoexistAssumption DEF Others, CallsStep, Count, Rest
<1>5. ready' \subseteq {"f", "h"} \X Id
  BY DEF Others, ReadyStep, Rest
<1>6. got' \subseteq {"f", "h"} \X App
  <2>1. CASE got' = got \/ got' = {}
    BY <2>1 DEF Rest
  <2>2. CASE \E hs \in SUBSET hreg', fs \in SUBSET FFd : got' = Events(hs, fs)
    <3>1. PICK hs \in SUBSET hreg', fs \in SUBSET FFd : got' = Events(hs, fs) BY <2>2
    <3>2. \A r \in hs : r.app \in App
      BY DEF IInv, Types, Reg
    <3>3. \A f \in fs : Fd(f) \in App
      BY DEF Fd, App
    <3> QED BY <3>1, <3>2, <3>3 DEF Events
  <2> QED BY <2>1, <2>2 DEF Others, GotStep
<1> QED BY <1>1, <1>2, <1>3, <1>4, <1>5, <1>6 DEF Rest, Notes, Wishes

(* Every variable keeps its type: no call writes the map, the pairs or the *)
(* registrations with a descriptor that is out of range, events carry only *)
(* descriptors the application knows, and ff_epoll_host_ep never fills     *)
(* more than the FF_EPOLL_COEXIST_MAX slots of ff_epoll_pairs.             *)
THEOREM TypesHold == Spec => [](TypeOK /\ Rest)
<1>1. Init => Rest
  <2> SUFFICES ASSUME Init PROVE Rest OBVIOUS
  <2>1. knote \in Notes /\ asked \in Wishes
    BY DEF Init, Notes, Wishes
  <2>2. IsFiniteSet({}) /\ Cardinality({}) = 0
    BY FS_EmptySet
  <2> QED BY <2>1, <2>2, CoexistAssumption DEF Init, Rest
<1>2. IInv /\ IInv' /\ [Next]_vars /\ Rest => Rest'
  BY NextOthers, RestKeeps
<1>3. IInv /\ Rest => TypeOK
  BY DEF IInv, Types, HTable, Rest, Notes, Wishes, TypeOK
<1> QED BY <1>1, <1>2, <1>3, Inductive, PTL DEF Spec

-----------------------------------------------------------------------------
(* What the application asked for is watched for. *)

WatchedFor(k, f) == knote[ff[k]][f] \union UNION {r.mask : r \in HostWatches(k, f)}

(* Nothing is asked of a closed descriptor, or through one; what is asked  *)
(* of a dual-stack descriptor is watched for by the kqueue or the host.    *)
Watched(k, f) ==
  asked[k][f] # {} =>
    /\ ff[k] # 0 /\ ff[f] # 0
    /\ IsKq(k) /\ Dual(f) => asked[k][f] \subseteq WatchedFor(k, f)

WatchInv == \A k, f \in FFd : Watched(k, f)

(* Nothing that f is watched for through k is lost in the step. *)
Still(k, f) ==
  /\ asked'[k][f] = asked[k][f] /\ ff'[k] = ff[k] /\ ff'[f] = ff[f]
  /\ fst'[ff[k]] = "kq" => fst[ff[k]] = "kq"
  /\ knote'[ff[k]][f] = knote[ff[k]][f]
  /\ Dual(f)' => Dual(f)
  /\ Dual(f) => HostWatches(k, f) \subseteq HostWatches(k, f)'

LEMMA StillWatched ==
  ASSUME NEW k \in FFd, NEW f \in FFd, Watched(k, f), Still(k, f) PROVE Watched(k, f)'
<1> SUFFICES ASSUME asked'[k][f] # {}
             PROVE  /\ ff'[k] # 0 /\ ff'[f] # 0
                    /\ IsKq(k)' /\ Dual(f)' => asked'[k][f] \subseteq WatchedFor(k, f)'
  BY DEF Watched
<1>1. ff[k] # 0 /\ ff[f] # 0 /\ (IsKq(k) /\ Dual(f) => asked[k][f] \subseteq WatchedFor(k, f))
  BY DEF Watched, Still
<1>2. IsKq(k)' /\ Dual(f)' => IsKq(k) /\ Dual(f)
  BY <1>1 DEF IsKq, Still
<1>3. Dual(f) => WatchedFor(k, f) \subseteq WatchedFor(k, f)'
  BY DEF Still, WatchedFor
<1> QED BY <1>1, <1>2, <1>3 DEF Still

(* The registrations of f with k stay if those of its half with k's host   *)
(* epolls do.                                                              *)
LEMMA RegsStay ==
  ASSUME NEW k, NEW f, HostEps(k) \subseteq HostEps(k)', map'[f] = map[f],
         hf'[map[f]] = hf[map[f]],
         \A r \in hreg : r.ep \in HostEps(k) /\ r.h = map[f] /\ r.file = hf[map[f]] => r \in hreg'
  PROVE  HostWatches(k, f) \subseteq HostWatches(k, f)'
BY DEF HostWatches, Host

(* Steps that open descriptors and change no registration. *)
CalmF == ff' = ff \/ (FreeF # {} /\ \E i : ff' = [ff EXCEPT ![NewF] = i])
CalmH ==
  \/ hf' = hf
  \/ FreeH # {} /\ \E i : hf' = [hf EXCEPT ![NewH] = i]
  \/ hf[0] = Stdin /\ hf' = [hf EXCEPT ![0] = 0]
CalmMap == map' = map \/ (FreeF # {} /\ \E x : map' = [map EXCEPT ![NewF] = x])
CalmState == \A i \in Id : fst'[i] = "kq" => fst[i] = "kq" \/ \A f \in FFd : ff[f] # i
Calm == CalmF /\ CalmH /\ CalmMap /\ CalmState /\ UNCHANGED <<pairs, hreg, knote, asked>>

LEMMA CalmWatched == ASSUME IInv, WatchInv, Calm PROVE WatchInv'
<1> SUFFICES ASSUME NEW k \in FFd, NEW f \in FFd PROVE Watched(k, f)'
  BY DEF WatchInv
<1>1. Watched(k, f)
  BY DEF WatchInv
<1>2. CASE asked[k][f] = {}
  BY <1>2 DEF Watched, Calm
<1>3. CASE asked[k][f] # {}
  <2>1. ff[k] # 0 /\ ff[f] # 0 /\ ff[k] \in Id
    BY <1>1, <1>3 DEF Watched, IInv, Types
  <2>2. FreeF # {} => NewF \in FFd /\ ff[NewF] = 0
    BY NewIsFree DEF IInv
  <2>3. ff'[k] = ff[k] /\ ff'[f] = ff[f]
    BY <2>1, <2>2 DEF Calm, CalmF, IInv, Types
  <2>4. map'[f] = map[f]
    BY <2>1, <2>2 DEF Calm, CalmMap, IInv, Types
  <2>5. Dual(f) => HostWatches(k, f) \subseteq HostWatches(k, f)'
    <3> SUFFICES ASSUME Dual(f) PROVE HostWatches(k, f) \subseteq HostWatches(k, f)'
      OBVIOUS
    <3>1. map[f] \in HFd /\ hf[map[f]] \in Id
      BY DualFacts
    <3>2. FreeH # {} => NewH \in HFd /\ hf[NewH] \notin Id
      BY NewIsFree DEF IInv
    <3>3. hf'[map[f]] = hf[map[f]]
      BY <3>1, <3>2, Zero DEF Calm, CalmH, IInv, Types, HTable
    <3>4. HostEps(k)' = HostEps(k) /\ hreg' = hreg
      BY DEF Calm, HostEps
    <3> QED BY <2>4, <3>3, <3>4, RegsStay
  <2>6. fst'[ff[k]] = "kq" => fst[ff[k]] = "kq"
    BY <2>1 DEF Calm, CalmState
  <2>7. Still(k, f)
    BY <2>3, <2>4, <2>5, <2>6 DEF Still, Dual, Calm
  <2> QED BY <1>1, <2>7, StillWatched
<1> QED BY <1>2, <1>3

(* Steps that close descriptors, but not those of g outside cut. *)
LEMMA TablesWatched ==
  ASSUME IInv, WatchInv, NEW ff1 \in [FFd -> Id \union {0}], NEW hf1 \in HTable, NEW cut,
         Tables(ff1, hf1, cut),
         \A g \in FFd \ cut : ff1[g] = ff[g] /\ map'[g] = map[g] /\ HostEps(g)' = HostEps(g),
         \A g \in FFd \ cut : \A h \in Attached(g) : hf1[h] = hf[h]
  PROVE  WatchInv'
<1> DEFINE openF == {ff1[f] : f \in FFd}
           openH == {hf1[h] : h \in HFd}
<1>a. fst' = [i \in Id |-> IF i \in openF THEN fst[i] ELSE "new"]
  BY Zenon DEF Tables
<1>b. knote' = [i \in Id |-> [f \in FFd |-> IF i \in openF /\ f \notin cut THEN knote[i][f] ELSE {}]]
  BY Zenon DEF Tables
<1>c. asked' = [k \in FFd |-> [f \in FFd |-> IF {k, f} \cap cut = {} THEN asked[k][f] ELSE {}]]
  BY Zenon DEF Tables
<1>d. hreg' = {r \in hreg : r.file \in openH /\ hf1[r.ep] # 0}
  BY Zenon DEF Tables
<1>e. (\A f \in FFd : ff1[f] \in openF) /\ (\A h \in HFd : hf1[h] \in openH)
  OBVIOUS
<1> HIDE DEF openF, openH
<1>1. /\ fst' = [i \in Id |-> IF i \in openF THEN fst[i] ELSE "new"]
      /\ knote' = [i \in Id |-> [f \in FFd |-> IF i \in openF /\ f \notin cut THEN knote[i][f] ELSE {}]]
      /\ asked' = [k \in FFd |-> [f \in FFd |-> IF {k, f} \cap cut = {} THEN asked[k][f] ELSE {}]]
      /\ hreg' = {r \in hreg : r.file \in openH /\ hf1[r.ep] # 0}
      /\ (\A f \in FFd : ff1[f] \in openF) /\ (\A h \in HFd : hf1[h] \in openH)
  BY <1>a, <1>b, <1>c, <1>d, <1>e
<1>5. ff' = ff1 /\ hf' = hf1
  BY DEF Tables
<1> SUFFICES ASSUME NEW k \in FFd, NEW f \in FFd PROVE Watched(k, f)'
  BY DEF WatchInv
<1>2. Watched(k, f)
  BY DEF WatchInv
<1>3. CASE {k, f} \cap cut # {} \/ asked[k][f] = {}
  <2>1. asked'[k][f] = {} BY <1>1, <1>3
  <2> QED BY <2>1 DEF Watched
<1>4. CASE {k, f} \cap cut = {} /\ asked[k][f] # {}
  <2>1. k \in FFd \ cut /\ f \in FFd \ cut /\ asked'[k][f] = asked[k][f]
    BY <1>1, <1>4
  <2>2. ff'[k] = ff[k] /\ ff'[f] = ff[f] /\ map'[f] = map[f] /\ HostEps(k)' = HostEps(k)
    BY <1>5, <2>1
  <2>3. ff[k] \in Id /\ ff[k] \in openF
    <3>1. ff[k] # 0 BY <1>2, <1>4 DEF Watched
    <3>2. ff[k] \in openF BY <1>1, <2>1
    <3> QED BY <3>1, <3>2 DEF IInv, Types
  <2>4. fst'[ff[k]] = fst[ff[k]] /\ knote'[ff[k]][f] = knote[ff[k]][f]
    BY <1>1, <2>1, <2>3
  <2>5. Dual(f) => HostWatches(k, f) \subseteq HostWatches(k, f)'
    <3> SUFFICES ASSUME Dual(f) PROVE HostWatches(k, f) \subseteq HostWatches(k, f)'
      OBVIOUS
    <3>1. map[f] \in HFd /\ map[f] \in Attached(f)
      BY DualFacts
    <3>2. hf'[map[f]] = hf[map[f]] /\ hf[map[f]] \in openH
      BY <1>1, <1>5, <2>1, <3>1
    <3>3. HostEps(k) \subseteq Attached(k)
      BY DEF HostEps, Attached
    <3>4. \A ep \in HostEps(k) : hf1[ep] # 0
      BY <2>1, <3>3, Zero DEF IInv, HostInv
    <3> QED BY <1>1, <2>2, <3>2, <3>4, RegsStay
  <2>6. Still(k, f)
    BY <2>1, <2>2, <2>4, <2>5 DEF Still, Dual
  <2> QED BY <1>2, <2>6, StillWatched
<1> QED BY <1>3, <1>4

LEMMA EpsSame ==
  ASSUME NEW g, {p \in pairs' : p.kq = g} = {p \in pairs : p.kq = g} PROVE HostEps(g)' = HostEps(g)
BY DEF HostEps

(* What was attached to g stays, or what belongs to another is closed. *)
LEMMA ClosingWatched ==
  ASSUME IInv, WatchInv, NEW f \in FFd, NEW g \in FFd, Dup2(f, g) \/ CloseError(g) \/ Close(g)
  PROVE  WatchInv'
<1>1. CASE Dup2(f, g)
  <2>1. Tables([ff EXCEPT ![g] = ff[f]], hf, {g}) /\ UNCHANGED <<map, pairs>>
    BY <1>1, Zenon DEF Dup2
  <2>2. [ff EXCEPT ![g] = ff[f]] \in [FFd -> Id \union {0}] /\ hf \in HTable
    BY DEF IInv, Types
  <2>3. \A x \in FFd \ {g} : [ff EXCEPT ![g] = ff[f]][x] = ff[x] /\ map'[x] = map[x]
    BY <2>1 DEF IInv, Types
  <2>4. \A x \in FFd \ {g} : HostEps(x)' = HostEps(x)
    BY <2>1, EpsSame
  <2> QED BY <2>1, <2>2, <2>3, <2>4, TablesWatched
<1>2. CASE CloseError(g)
  <2>1. Tables([ff EXCEPT ![g] = 0], hf, {g}) /\ UNCHANGED <<map, pairs>>
    BY <1>2, Zenon DEF CloseError
  <2>2. [ff EXCEPT ![g] = 0] \in [FFd -> Id \union {0}] /\ hf \in HTable
    BY DEF IInv, Types
  <2>3. \A x \in FFd \ {g} : [ff EXCEPT ![g] = 0][x] = ff[x] /\ map'[x] = map[x]
    BY <2>1 DEF IInv, Types
  <2>4. \A x \in FFd \ {g} : HostEps(x)' = HostEps(x)
    BY <2>1, EpsSame
  <2> QED BY <2>1, <2>2, <2>3, <2>4, TablesWatched
<1>3. CASE Close(g)
  <2>1. /\ Tables([ff EXCEPT ![g] = 0], HfWithout(Attached(g)), {g})
        /\ map' = [map EXCEPT ![g] = 0] /\ pairs' = {p \in pairs : p.kq # g}
    BY <1>3, Zenon DEF Close, ClosedWith, MapWithout
  <2>2. [ff EXCEPT ![g] = 0] \in [FFd -> Id \union {0}] /\ HfWithout(Attached(g)) \in HTable
    BY DEF IInv, Types, HTable, HfWithout
  <2>3. \A x \in FFd \ {g} : [ff EXCEPT ![g] = 0][x] = ff[x] /\ map'[x] = map[x]
    BY <2>1 DEF IInv, Types
  <2>4. \A x \in FFd \ {g} : HostEps(x)' = HostEps(x)
    BY <2>1, EpsSame
  <2>5. \A x \in FFd \ {g} : \A h \in Attached(x) : h \in HFd /\ h \notin Attached(g)
    BY AttachedIn DEF IInv, HostInv
  <2>6. \A x \in FFd \ {g} : \A h \in Attached(x) : HfWithout(Attached(g))[h] = hf[h]
    BY <2>5 DEF HfWithout
  <2> DEFINE ff1 == [ff EXCEPT ![g] = 0]
             hf1 == HfWithout(Attached(g))
  <2>7. /\ ff1 \in [FFd -> Id \union {0}] /\ hf1 \in HTable /\ Tables(ff1, hf1, {g})
        /\ \A x \in FFd \ {g} : ff1[x] = ff[x] /\ map'[x] = map[x] /\ HostEps(x)' = HostEps(x)
        /\ \A x \in FFd \ {g} : \A h \in Attached(x) : hf1[h] = hf[h]
    BY <2>1, <2>2, <2>3, <2>4, <2>6
  <2> HIDE DEF ff1, hf1
  <2> QED BY <2>7, TablesWatched
<1> QED BY <1>1, <1>2, <1>3

LEMMA ClosingKernelWatched ==
  ASSUME IInv, WatchInv, NEW h \in HFd, NEW n \in HFd, Dup2Kernel(h, n) \/ CloseKernel(n)
  PROVE  WatchInv'
<1>1. n \in kheld /\ UNCHANGED <<map, pairs>>
  BY Zenon DEF Dup2Kernel, CloseKernel
<1>2. \A g \in FFd \ {} : map'[g] = map[g] /\ HostEps(g)' = HostEps(g)
  BY <1>1, EpsSame
<1>3. \A g \in FFd \ {} : \A x \in Attached(g) : x \in HFd \ {n}
  BY <1>1, AttachedIn DEF IInv, HostInv
<1>4. CASE Dup2Kernel(h, n)
  <2>1. Tables(ff, [hf EXCEPT ![n] = hf[h]], {})
    BY <1>4, Zenon DEF Dup2Kernel
  <2>2. [hf EXCEPT ![n] = hf[h]] \in HTable /\ ff \in [FFd -> Id \union {0}]
    BY DEF IInv, Types, HTable
  <2>3. \A g \in FFd \ {} : \A x \in Attached(g) : [hf EXCEPT ![n] = hf[h]][x] = hf[x]
    BY <1>3 DEF IInv, Types, HTable
  <2> QED BY <1>2, <2>1, <2>2, <2>3, TablesWatched
<1>5. CASE CloseKernel(n)
  <2>1. Tables(ff, HfWithout({n}), {})
    BY <1>5, Zenon DEF CloseKernel
  <2>2. HfWithout({n}) \in HTable /\ ff \in [FFd -> Id \union {0}]
    BY DEF IInv, Types, HTable, HfWithout
  <2>3. \A g \in FFd \ {} : \A x \in Attached(g) : HfWithout({n})[x] = hf[x]
    BY <1>3 DEF HfWithout
  <2> QED BY <1>2, <2>1, <2>2, <2>3, TablesWatched
<1> QED BY <1>4, <1>5

(* epoll_ctl for k and host descriptor h: other registrations stay, and so *)
(* do the host epolls and the files of their descriptors.                  *)
OnlyOf(k, h) ==
  /\ \A r \in hreg : r \in hreg' \/ (r.h = h /\ r.ep \in HostEps(k)')
  /\ \A g \in FFd : HostEps(g) \subseteq HostEps(g)'
  /\ HGrow

LEMMA CtlOnlyOf ==
  ASSUME NEW op, NEW ep, NEW h, NEW app, NEW mask, NEW r \in hreg
  PROVE  r \in EpollCtlHost(op, ep, h, app, mask) \/ (r.h = h /\ r.ep = ep)
BY DEF EpollCtlHost, Registered

LEMMA WithHostEpOnlyOf ==
  ASSUME IInv, NEW k \in FFd, NEW h, NEW create, NEW change, WithHostEp(k, create, change),
         \A ep \in HFd : \A r \in hreg : r \in change[ep] \/ (r.h = h /\ r.ep = ep)
  PROVE  OnlyOf(k, h)
<1>1. CASE create /\ Creates(k)
  <2>1. PICK x \in HFd : x = NewH /\ hf[x] \notin Id
    BY <1>1, NewIsFree DEF IInv, Creates
  <2>2. PICK i : hf' = [hf EXCEPT ![x] = i]
    BY <1>1, <2>1 DEF WithHostEp
  <2>3. HGrow
    BY <2>1, <2>2 DEF HGrow, IInv, Types, HTable
  <2>4. CASE x = 0
    <3>1. UNCHANGED <<pairs, hreg>>
      BY <1>1, <2>1, <2>4 DEF WithHostEp
    <3>2. \A g : HostEps(g)' = HostEps(g)
      BY <3>1, EpsSame
    <3> QED BY <2>3, <3>1, <3>2 DEF OnlyOf
  <2>5. CASE x # 0
    <3>1. pairs' = pairs \union {[kq |-> k, ep |-> x]} /\ hreg' = change[x]
      BY <1>1, <2>1, <2>5 DEF WithHostEp
    <3>2. \A g : HostEps(g) \subseteq HostEps(g)'
      BY <3>1 DEF HostEps
    <3>3. x \in HostEps(k)'
      <4>1. PICK q : q.kq = k /\ q.ep = x /\ pairs' = pairs \union {q}
        BY <3>1
      <4> QED BY <4>1 DEF HostEps
    <3> QED BY <2>3, <3>1, <3>2, <3>3 DEF OnlyOf
  <2> QED BY <2>4, <2>5
<1>2. CASE ~(create /\ Creates(k))
  <2>1. /\ hreg' = IF HostEps(k) = {} THEN hreg ELSE change[Least(HostEps(k))]
        /\ UNCHANGED <<hf, pairs>>
    BY <1>2 DEF WithHostEp
  <2>2. HostEps(k) \subseteq HFd
    BY DEF HostEps, IInv, Types
  <2>3. HostEps(k) # {} => Least(HostEps(k)) \in HFd /\ Least(HostEps(k)) \in HostEps(k)
    BY <2>2, LeastIn, Zero
  <2>4. \A g : HostEps(g)' = HostEps(g)
    BY <2>1, EpsSame
  <2>5. HGrow
    BY <2>1 DEF HGrow
  <2>6. \A r \in hreg : r \in hreg' \/ (r.h = h /\ r.ep \in HostEps(k)')
    BY <2>1, <2>3, <2>4
  <2> QED BY <2>4, <2>5, <2>6 DEF OnlyOf
<1> QED BY <1>1, <1>2

LEMMA WithHostEpAdds ==
  ASSUME IInv, NEW k \in FFd, NEW change, WithHostEp(k, TRUE, change), HostEps(k)' # {}
  PROVE  \E ep \in HostEps(k)' : ep \in HFd /\ hreg' = change[ep]
<1>1. CASE Creates(k)
  <2>1. NewH \in HFd /\ HostEps(k) = {}
    BY <1>1, NewIsFree DEF IInv, Creates
  <2>2. CASE NewH = 0
    <3>1. UNCHANGED pairs
      BY <1>1, <2>2 DEF WithHostEp
    <3> QED BY <2>1, <3>1, EpsSame
  <2>3. CASE NewH # 0
    <3>1. pairs' = pairs \union {[kq |-> k, ep |-> NewH]} /\ hreg' = change[NewH]
      BY <1>1, <2>3 DEF WithHostEp
    <3>2. PICK q : q.kq = k /\ q.ep = NewH /\ pairs' = pairs \union {q}
      BY <3>1
    <3>3. NewH \in HostEps(k)'
      BY <3>2 DEF HostEps
    <3> QED BY <2>1, <3>1, <3>3
  <2> QED BY <2>2, <2>3
<1>2. CASE ~Creates(k)
  <2>1. /\ hreg' = IF HostEps(k) = {} THEN hreg ELSE change[Least(HostEps(k))]
        /\ UNCHANGED pairs
    BY <1>2 DEF WithHostEp
  <2>2. HostEps(k) \subseteq HFd
    BY DEF HostEps, IInv, Types
  <2>3. HostEps(k) # {} => Least(HostEps(k)) \in HFd /\ Least(HostEps(k)) \in HostEps(k)
    BY <2>2, LeastIn, Zero
  <2>4. HostEps(k)' = HostEps(k)
    BY <2>1, EpsSame
  <2> QED BY <2>1, <2>3, <2>4
<1> QED BY <1>1, <1>2

(* So what g is watched for through a stays, unless both are the same. *)
LEMMA OnlyOfStays ==
  ASSUME IInv, HostInv', NEW k \in FFd, NEW h, OnlyOf(k, h), map' = map,
         NEW a \in FFd, NEW g \in FFd, Dual(g), map[g] # h \/ a # k
  PROVE  HostWatches(a, g) \subseteq HostWatches(a, g)'
<1>1. map[g] \in HFd /\ hf[map[g]] \in Id
  BY DualFacts
<1>2. hf'[map[g]] = hf[map[g]]
  BY <1>1 DEF OnlyOf, HGrow
<1>3. HostEps(a)' \subseteq Attached(a)' /\ HostEps(k)' \subseteq Attached(k)'
  BY DEF HostEps, Attached
<1>4. a # k => HostEps(a) \intersect HostEps(k)' = {}
  BY <1>3 DEF OnlyOf, HostInv
<1>5. \A r \in hreg : r.ep \in HostEps(a) /\ r.h = map[g] => r \in hreg'
  BY <1>4 DEF OnlyOf
<1> QED BY <1>2, <1>5, RegsStay DEF OnlyOf

(* A change that only the host sees. *)
LEMMA KernelWatched ==
  ASSUME IInv, HostInv', WatchInv, NEW k \in FFd, NEW h \in kheld, OnlyOf(k, h),
         UNCHANGED <<ff, fst, map, knote, asked>>
  PROVE  WatchInv'
<1> SUFFICES ASSUME NEW a \in FFd, NEW g \in FFd PROVE Watched(a, g)'
  BY DEF WatchInv
<1>1. Dual(g) => map[g] # h
  BY DualFacts
<1>2. Dual(g) => HostWatches(a, g) \subseteq HostWatches(a, g)'
  BY <1>1, OnlyOfStays
<1>3. Still(a, g)
  BY <1>2 DEF Still, Dual
<1> QED BY <1>3, StillWatched DEF WatchInv

LEMMA EpollCtlKernelWatched ==
  ASSUME IInv, HostInv', WatchInv, NEW k \in FFd, NEW h \in HFd, NEW op, NEW mask,
         EpollCtlKernel(k, h, op, mask)
  PROVE  WatchInv'
<1> DEFINE change == [ep \in HFd |-> EpollCtlHost(op, ep, h, KFd(h), mask)]
<1>1. /\ h \in kheld /\ UNCHANGED <<ff, fst, map, knote, asked>>
      /\ WithHostEp(k, op # "del", change)
  BY Zenon DEF EpollCtlKernel, PassesKernel, fVars, history
<1>2. \A ep \in HFd : \A r \in hreg : r \in change[ep] \/ (r.h = h /\ r.ep = ep)
  BY CtlOnlyOf
<1> HIDE DEF change
<1>3. OnlyOf(k, h)
  BY <1>1, <1>2, WithHostEpOnlyOf
<1> QED BY <1>1, <1>3, KernelWatched

LEMMA KeventKernelWatched ==
  ASSUME IInv, HostInv', WatchInv, NEW k \in FFd, NEW h \in HFd, NEW op, NEW flt,
         KeventKernel(k, h, op, flt)
  PROVE  WatchInv'
<1> DEFINE change == [ep \in HFd |-> KqueueCtlHost(op, ep, h, KFd(h), flt)]
<1>1. /\ h \in kheld /\ UNCHANGED <<ff, fst, map, knote, asked>>
      /\ WithHostEp(k, op = "add", change)
  BY Zenon DEF KeventKernel, PassesKernel, fVars, history
<1>2. \A ep \in HFd : \A r \in hreg : r \in change[ep] \/ (r.h = h /\ r.ep = ep)
  BY CtlOnlyOf DEF KqueueCtlHost
<1> HIDE DEF change
<1>3. OnlyOf(k, h)
  BY <1>1, <1>2, WithHostEpOnlyOf
<1> QED BY <1>1, <1>3, KernelWatched

(* A change of what is asked of f through k: what is asked of others, or   *)
(* through others, is as before; a call about what is no kqueue and no     *)
(* socket changes nothing that was asked.                                  *)
LEMMA CtlWatched ==
  ASSUME IInv, HostInv', Rest, WatchInv, NEW k \in FFd, NEW f \in FFd, Passes(k, f),
         OnlyOf(k, map[f]), UNCHANGED <<ff, fst, map>>, NEW now \in SUBSET Filter, NEW new \in SUBSET Filter,
         knote' = IF Found(k, f) THEN [knote EXCEPT ![ff[k]][f] = new] ELSE knote,
         asked' = IF Found(k, f) THEN AskedBy(k, f, now) ELSE asked,
         Found(k, f) /\ Dual(f) => now \subseteq WatchedFor(k, f)'
  PROVE  WatchInv'
<1> SUFFICES ASSUME NEW a \in FFd, NEW g \in FFd PROVE Watched(a, g)'
  BY DEF WatchInv
<1>1. Watched(a, g)
  BY DEF WatchInv
<1>2. CASE asked'[a][g] = {}
  BY <1>2 DEF Watched
<1>3. CASE Found(k, f) /\ a = k /\ g = f
  <2>1. asked'[k][f] = now
    BY <1>3 DEF AskedBy, Rest, Wishes
  <2>2. ff'[k] # 0 /\ ff'[f] # 0 /\ (Dual(f)' => Dual(f))
    BY <1>3 DEF Found, IsKq, IsSock, Dual
  <2> QED BY <1>3, <2>1, <2>2 DEF Watched
<1>4. CASE asked'[a][g] # {} /\ ~(a = k /\ g = f)
  <2>1. Dual(g) => map[g] # map[f] \/ a # k
    <3> SUFFICES ASSUME Dual(g), a = k PROVE map[g] # map[f] OBVIOUS
    <3>1. g # f BY <1>4
    <3>2. map[g] \in Attached(g) /\ map[g] # 0 BY DualFacts DEF Dual
    <3>3. map[f] # 0 => map[f] \in Attached(f) BY DualFacts DEF Dual
    <3> QED BY <3>1, <3>2, <3>3 DEF IInv, HostInv
  <2>2. Dual(g) => HostWatches(a, g) \subseteq HostWatches(a, g)'
    BY <2>1, OnlyOfStays
  <2>3. asked'[a][g] = asked[a][g] /\ (g = f /\ Found(k, f) => ff[a] # ff[k])
    BY <1>4 DEF AskedBy, Rest, Wishes
  <2>4. ff[a] \in Id
    BY <1>1, <1>4, <2>3 DEF Watched, IInv, Types
  <2>5. knote'[ff[a]][g] = knote[ff[a]][g]
    <3>1. CASE ~Found(k, f)
      BY <3>1
    <3>2. CASE Found(k, f)
      <4>1. ff[k] \in Id BY <3>2 DEF Found, IsKq, IInv, Types
      <4> QED BY <2>3, <2>4, <3>2, <4>1 DEF Rest, Notes
    <3> QED BY <3>1, <3>2
  <2>6. Still(a, g)
    BY <2>2, <2>3, <2>5 DEF Still, Dual
  <2> QED BY <1>1, <2>6, StillWatched
<1>5. CASE asked'[a][g] # {} /\ a = k /\ g = f /\ ~Found(k, f)
  <2>1. asked[k][f] # {} /\ ff[k] # 0 /\ ff[f] # 0
    BY <1>1, <1>5 DEF Watched
  <2>2. ~IsKq(f)
    BY <1>5 DEF Passes
  <2>3. IsSock(f)
    BY <2>1, <2>2 DEF IsSock, IsKq
  <2>4. ~IsKq(k)'
    BY <1>5, <2>3 DEF Found, IsKq
  <2> QED BY <1>5, <2>1, <2>4 DEF Watched
<1> QED BY <1>2, <1>3, <1>4, <1>5

LEMMA NothingOf == ASSUME NEW k, NEW h, UNCHANGED <<hf, pairs, hreg>> PROVE OnlyOf(k, h)
<1>1. \A g : HostEps(g)' = HostEps(g)
  BY EpsSame
<1> QED BY <1>1 DEF OnlyOf, HGrow

LEMMA EpollCtlWatched ==
  ASSUME IInv, HostInv', Rest, WatchInv, NEW k \in FFd, NEW f \in FFd, NEW op,
         NEW mask \in SUBSET Filter, EpollCtl(k, f, op, mask)
  PROVE  WatchInv'
<1> DEFINE change == [ep \in HFd |-> EpollCtlHost(op, ep, map[f], Fd(f), mask)]
           now == IF op = "del" \/ (op = "mod" /\ knote[ff[k]][f] = {}) THEN {} ELSE mask
<1>1. /\ Passes(k, f) /\ UNCHANGED <<ff, fst, map>>
      /\ IF Dual(f) THEN WithHostEp(k, op # "del", change) ELSE UNCHANGED <<hf, pairs, hreg, spoilt>>
      /\ IF Found(k, f) THEN knote' = [knote EXCEPT ![ff[k]][f] = now] /\ asked' = AskedBy(k, f, now)
         ELSE UNCHANGED <<knote, asked>>
  BY Zenon DEF EpollCtl
<1>2. OnlyOf(k, map[f])
  <2>1. CASE ~Dual(f)
    BY <1>1, <2>1, NothingOf
  <2>2. CASE Dual(f)
    <3>1. \A ep \in HFd : \A r \in hreg : r \in change[ep] \/ (r.h = map[f] /\ r.ep = ep)
      BY CtlOnlyOf
    <3>2. WithHostEp(k, op # "del", change) BY <1>1, <2>2
    <3> HIDE DEF change
    <3> QED BY <3>1, <3>2, WithHostEpOnlyOf
  <2> QED BY <2>1, <2>2
<1>3. now \in SUBSET Filter
  OBVIOUS
<1> HIDE DEF now, change
<1>4. Found(k, f) => now \subseteq WatchedFor(k, f)'
  <2> SUFFICES ASSUME Found(k, f) PROVE now \subseteq WatchedFor(k, f)' OBVIOUS
  <2>1. ff'[k] = ff[k] /\ ff[k] \in Id BY <1>1 DEF Found, IsKq, IInv, Types
  <2>2. knote'[ff[k]][f] = now BY <1>1, <2>1 DEF Rest, Notes
  <2> QED BY <2>1, <2>2 DEF WatchedFor
<1> QED BY <1>1, <1>2, <1>3, <1>4, CtlWatched

(* Host events can fill the array only if the host has an epoll for k; it  *)
(* has the registration then.                                              *)
LEMMA FullHasEp ==
  ASSUME Rest, NEW k, NEW n \in {0, room}, NEW hs \in Some(ReadyIn(hreg', pairs', k), n),
         n > 0, Full(hs, n)
  PROVE  HostEps(k)' # {}
<1>1. hs # {}
  <2>1. n \in Nat BY DEF Rest
  <2> QED BY <2>1, FS_EmptySet DEF Full
<1>2. PICK r \in hs : TRUE BY <1>1
<1>3. r \in ReadyIn(hreg', pairs', k) BY <1>2, SomeIn
<1>4. [kq |-> k, ep |-> r.ep] \in pairs' BY <1>3 DEF ReadyIn
<1> QED BY <1>4 DEF HostEps

LEMMA AddEnters ==
  ASSUME NEW ep, NEW h, NEW app, NEW flt
  PROVE  Entry(ep, h, app, {flt}) \in KqueueCtlHost("add", ep, h, app, flt)
BY DEF KqueueCtlHost, EpollCtlHost

LEMMA KeventWatched ==
  ASSUME IInv, HostInv', Rest, WatchInv, NEW k \in FFd, NEW f \in FFd, NEW op \in {"add", "del"},
         NEW flt \in Filter, NEW wait \in BOOLEAN, Kevent(k, f, op, flt, wait)
  PROVE  WatchInv'
<1> DEFINE change == [ep \in HFd |-> KqueueCtlHost(op, ep, map[f], Fd(f), flt)]
           now == IF op = "add" THEN {flt} ELSE {}
           new == knote'[ff[k]][f]
<1>1. /\ Passes(k, f) /\ UNCHANGED <<ff, fst, map>>
      /\ IF Dual(f) THEN WithHostEp(k, op = "add", change) ELSE UNCHANGED <<hf, pairs, hreg, spoilt>>
      /\ asked' = IF Found(k, f) THEN AskedBy(k, f, now) ELSE asked
  BY Zenon DEF Kevent
<1>2. ASSUME Dual(f) PROVE OnlyOf(k, map[f])
  <2>1. \A ep \in HFd : \A r \in hreg : r \in change[ep] \/ (r.h = map[f] /\ r.ep = ep)
    BY CtlOnlyOf DEF KqueueCtlHost
  <2>2. WithHostEp(k, op = "add", change) BY <1>1, <1>2
  <2> HIDE DEF change
  <2> QED BY <2>1, <2>2, WithHostEpOnlyOf
<1>3. OnlyOf(k, map[f])
  BY <1>1, <1>2, NothingOf
<1>4. PICK n \in {0, room} : \E hs \in Some(ReadyIn(hreg', pairs', k), n) :
             knote' = IF n > 0 /\ Full(hs, n) THEN knote ELSE KnAfter(k, f, op, flt)
  BY KeventIs
<1>5. PICK hs \in Some(ReadyIn(hreg', pairs', k), n) :
             knote' = IF n > 0 /\ Full(hs, n) THEN knote ELSE KnAfter(k, f, op, flt)
  BY <1>4
<1>6. Found(k, f) => ff[k] \in Id /\ knote[ff[k]][f] \in SUBSET Filter
  BY DEF Found, IsKq, IInv, Types, Rest, Notes
<1>7. KnAfter(k, f, op, flt) = IF Found(k, f) /\ (op = "add" \/ flt \in knote[ff[k]][f])
        THEN [knote EXCEPT ![ff[k]][f] = KnoteChange(knote[ff[k]][f], op, flt)] ELSE knote
  BY <1>6 DEF KnAfter, Rest, Notes
<1>8. Found(k, f) => new \in SUBSET Filter /\ knote' = [knote EXCEPT ![ff[k]][f] = new]
  <2> SUFFICES ASSUME Found(k, f)
               PROVE  new \in SUBSET Filter /\ knote' = [knote EXCEPT ![ff[k]][f] = new]
    OBVIOUS
  <2>1. CASE knote' = knote
    BY <1>6, <2>1 DEF Rest, Notes
  <2>2. CASE knote' = [knote EXCEPT ![ff[k]][f] = KnoteChange(knote[ff[k]][f], op, flt)]
    <3>1. KnoteChange(knote[ff[k]][f], op, flt) \in SUBSET Filter
      BY <1>6 DEF KnoteChange
    <3>2. new = KnoteChange(knote[ff[k]][f], op, flt)
      BY <1>6, <2>2 DEF Rest, Notes
    <3> QED BY <2>2, <3>1, <3>2
  <2> QED BY <1>5, <1>7, <2>1, <2>2
<1>9. ~Found(k, f) => knote' = knote
  BY <1>5, <1>7
<1>10. now \in SUBSET Filter
  OBVIOUS
<1>11. ASSUME Found(k, f), Dual(f), op = "add" PROVE flt \in WatchedFor(k, f)'
  <2>1. CASE n > 0 /\ Full(hs, n)
    <3>1. HostEps(k)' # {}
      BY <2>1, FullHasEp
    <3>2. PICK ep \in HostEps(k)' : ep \in HFd /\ hreg' = change[ep]
      <4>1. WithHostEp(k, TRUE, change)
        BY <1>1, <1>11, Zenon
      <4> HIDE DEF change
      <4> QED BY <3>1, <4>1, WithHostEpAdds
    <3>3. Entry(ep, map[f], Fd(f), {flt}) \in hreg'
      BY <1>11, <3>2, AddEnters
    <3>4. map'[f] = map[f] /\ hf'[map[f]] = hf[map[f]]
      BY <1>1, <1>3, <1>11, DualFacts DEF OnlyOf, HGrow
    <3>5. Entry(ep, map[f], Fd(f), {flt}) \in HostWatches(k, f)'
      BY <3>2, <3>3, <3>4 DEF HostWatches, Host, Entry
    <3>6. flt \in Entry(ep, map[f], Fd(f), {flt}).mask
      BY DEF Entry
    <3> HIDE DEF change
    <3> QED BY <3>5, <3>6 DEF WatchedFor
  <2>2. CASE ~(n > 0 /\ Full(hs, n))
    <3>1. knote' = [knote EXCEPT ![ff[k]][f] = KnoteChange(knote[ff[k]][f], op, flt)]
      BY <1>5, <1>7, <1>11, <2>2
    <3>2. flt \in knote'[ff[k]][f]
      BY <1>6, <1>11, <3>1 DEF KnoteChange, Rest, Notes
    <3> QED BY <1>1, <3>2 DEF WatchedFor
  <2> QED BY <2>1, <2>2
<1>12. Found(k, f) /\ Dual(f) => now \subseteq WatchedFor(k, f)'
  BY <1>11
<1> HIDE DEF now, change, new
<1>13. PICK S \in SUBSET Filter : Found(k, f) => knote' = [knote EXCEPT ![ff[k]][f] = S]
  BY <1>8
<1>14. knote' = IF Found(k, f) THEN [knote EXCEPT ![ff[k]][f] = S] ELSE knote
  BY <1>9, <1>13
<1> QED BY <1>1, <1>3, <1>10, <1>12, <1>14, CtlWatched

LEMMA NextWatched == ASSUME IInv, IInv', Rest, WatchInv, [Next]_vars PROVE WatchInv'
<1>1. HostInv' BY DEF IInv
<1>2. fst \in [Id -> State] BY DEF IInv, Types
<1>3. CASE UNCHANGED vars
  BY <1>3, CalmWatched DEF vars, fVars, hVars, history, Calm, CalmF, CalmH, CalmMap, CalmState
<1>4. CASE SocketKernel \/ SocketFstack \/ SocketDual \/ CloseStdin
  <2>1. CalmF /\ UNCHANGED <<fst, pairs, hreg, knote, asked>>
    BY <1>4 DEF SocketKernel, SocketFstack, SocketDual, CloseStdin, fVars, hVars, history, CalmF
  <2>2. CalmH /\ CalmMap
    BY <1>4 DEF SocketKernel, SocketFstack, SocketDual, CloseStdin, hVars, CalmH, CalmMap
  <2> QED BY <2>1, <2>2, CalmWatched DEF Calm, CalmState
<1>5. CASE Kqueue
  <2>1. CalmF /\ FreeF # {} /\ fst' = [fst EXCEPT ![NewId] = "kq"] /\ UNCHANGED <<hf, map, pairs, hreg, knote, asked>>
    BY <1>5 DEF Kqueue, hVars, history, CalmF
  <2>2. NewId \in Id /\ \A f \in FFd : ff[f] # NewId
    BY <2>1, NewIsFree DEF IInv
  <2>3. CalmState
    BY <1>2, <2>1, <2>2 DEF CalmState
  <2> QED BY <2>1, <2>3, CalmWatched DEF Calm, CalmH, CalmMap
<1>6. ASSUME NEW f \in FFd, Dup(f) \/ FcntlDup(f) \/ Recv(f) \/ Wait(f) PROVE WatchInv'
  <2>1. UNCHANGED <<fst, map, pairs, hreg, knote, asked>>
    BY <1>6, Zenon DEF Dup, FcntlDup, Recv, Wait, fVars, hVars, history
  <2>2. CalmF
    BY <1>6, Zenon DEF Dup, FcntlDup, Recv, Wait, fVars, CalmF
  <2>3. CalmH
    BY <1>6, Zenon DEF Dup, FcntlDup, Recv, Wait, hVars, CalmH
  <2> QED BY <2>1, <2>2, <2>3, CalmWatched DEF Calm, CalmMap, CalmState
<1>7. ASSUME NEW f \in FFd, Bind(f) \/ Listen(f) \/ Connect(f) PROVE WatchInv'
  <2>1. UNCHANGED <<ff, hf, map, pairs, hreg, knote, asked>>
    BY <1>7, Zenon DEF Bind, Listen, Connect, history
  <2>2. PICK s \in {"bound", "listen", "conn"} : fst' = fst \/ fst' = [fst EXCEPT ![ff[f]] = s]
    BY <1>7 DEF Bind, Listen, Connect
  <2>3. CalmState
    BY <1>2, <2>2 DEF CalmState
  <2> QED BY <2>1, <2>3, CalmWatched DEF Calm, CalmF, CalmH, CalmMap
<1>8. ASSUME NEW f \in FFd, Accept(f) PROVE WatchInv'
  <2>1. UNCHANGED <<map, pairs, hreg, knote, asked>>
    BY <1>8, Zenon DEF Accept, HostAccept, fVars, hVars, history
  <2>2. CalmF /\ CalmH
    BY <1>8, Zenon DEF Accept, HostAccept, fVars, hVars, CalmF, CalmH
  <2>3. fst' = fst \/ fst' = [fst EXCEPT ![NewId] = "conn"]
    BY <1>8, Zenon DEF Accept, HostAccept, fVars
  <2>4. CalmState
    BY <1>2, <2>3 DEF CalmState
  <2> QED BY <2>1, <2>2, <2>4, CalmWatched DEF Calm, CalmMap
<1>9. ASSUME NEW h \in HFd,
             \/ DupKernel(h) \/ FcntlDupKernel(h) \/ RecvKernel(h) \/ AcceptKernel(h)
             \/ \E s \in {"bound", "listen", "conn"} : KernelTo(h, s)
      PROVE  WatchInv'
  <2>1. UNCHANGED <<ff, fst, map, pairs, hreg, knote, asked>>
    BY <1>9, Zenon DEF DupKernel, FcntlDupKernel, RecvKernel, AcceptKernel, HostAccept, KernelTo,
       fVars, hVars, history
  <2>2. CalmH
    BY <1>9, Zenon DEF DupKernel, FcntlDupKernel, RecvKernel, AcceptKernel, HostAccept, KernelTo,
       hVars, CalmH
  <2> QED BY <2>1, <2>2, CalmWatched DEF Calm, CalmF, CalmMap, CalmState
<1>10. ASSUME NEW f \in FFd, CloseError(f) \/ Close(f) PROVE WatchInv'
  BY <1>10, ClosingWatched
<1>11. ASSUME NEW f \in FFd, NEW g \in FFd, Dup2(f, g) PROVE WatchInv'
  BY <1>11, ClosingWatched
<1>12. ASSUME NEW h \in HFd, CloseKernel(h) \/ \E n \in HFd : Dup2Kernel(h, n) PROVE WatchInv'
  BY <1>12, ClosingKernelWatched
<1>13. ASSUME NEW s, NEW i, Arrive(s, i) PROVE WatchInv'
  <2>1. UNCHANGED <<ff, fst, hf, map, pairs, hreg, knote, asked>>
    BY <1>13, Zenon DEF Arrive, fVars, hVars, history
  <2> QED BY <2>1, CalmWatched DEF Calm, CalmF, CalmH, CalmMap, CalmState
<1>14. ASSUME NEW k \in FFd, NEW op, NEW mask \in SUBSET Filter \ {{}},
              \/ \E f \in FFd : EpollCtl(k, f, op, mask)
              \/ \E h \in HFd : EpollCtlKernel(k, h, op, mask)
       PROVE  WatchInv'
  BY <1>1, <1>14, EpollCtlWatched, EpollCtlKernelWatched
<1>15. ASSUME NEW k \in FFd, NEW op \in {"add", "del"}, NEW flt \in Filter,
              \/ \E f \in FFd, wait \in BOOLEAN : Kevent(k, f, op, flt, wait)
              \/ \E h \in HFd : KeventKernel(k, h, op, flt)
       PROVE  WatchInv'
  BY <1>1, <1>15, KeventWatched, KeventKernelWatched
<1> QED BY <1>3, <1>4, <1>5, <1>6, <1>7, <1>8, <1>9, <1>10, <1>11, <1>12, <1>13, <1>14, <1>15, Zenon
        DEF Next

(* ff_kevent does the host's part first and returns when its events fill   *)
(* the array, and ff_epoll_host_ep may have no host epoll to give; yet     *)
(* what the application last asked of a dual-stack descriptor is watched   *)
(* for by the kqueue or by its host epoll, in whatever order sockets and   *)
(* kqueues are registered, duplicated, closed and reused.                  *)
THEOREM WishesAreWatched == Spec => []DualWatched
<1>1. Init => WatchInv
  BY DEF Init, WatchInv, Watched
<1>2. WatchInv => DualWatched
  BY DEF WatchInv, Watched, WatchedFor, DualWatched
<1>3. IInv /\ IInv' /\ Rest /\ WatchInv /\ [Next]_vars => WatchInv'
  BY NextWatched
<1> QED BY <1>1, <1>2, <1>3, Inductive, TypesHold, PTL DEF Spec
=============================================================================

--------------------------- MODULE PacketPathProof ---------------------------
(***************************************************************************)
(* Proofs about PacketPath, for any queues, mbufs, ring and burst sizes,   *)
(* lengths of chains and number of frames.                                 *)
(*                                                                         *)
(* The module's properties are sums over all the places where an mbuf or a *)
(* frame can be, so the proofs are bookkeeping.  The first part counts     *)
(* packets in sequences (N), in one sequence per queue (M) and in sets (K, *)
(* S), and says how these numbers change when a packet is appended, taken  *)
(* or moved.  With it:                                                     *)
(*                                                                         *)
(*  - IInv, types and table sizes: a process handles a packet exactly when *)
(*    its burst is not empty, so what it takes off the burst exists;       *)
(*  - Own(m), the owners of the mbuf m, stays 1 in every step but one;     *)
(*  - Weight(f, d), what can still bring frame f to the destination d plus *)
(*    what did, never grows once f has arrived, although a broadcast       *)
(*    multiplies the packets that carry f.                                 *)
(***************************************************************************)
EXTENDS PacketPath, FiniteSetTheorems, TLAPS

-----------------------------------------------------------------------------
(* Counting in sequences: the entries of s that are in the set X. *)
In(s, X) == {i \in DOMAIN s : s[i] \in X}
N(s, X)  == Cardinality(In(s, X))
One(p, X) == IF p \in X THEN 1 ELSE 0

LEMMA DisjointUnion ==
  ASSUME NEW S, NEW T, IsFiniteSet(S), IsFiniteSet(T), S \intersect T = {}
  PROVE  Cardinality(S \union T) = Cardinality(S) + Cardinality(T)
<1>1. Cardinality(S \union T) = Cardinality(S) + Cardinality(T) - Cardinality(S \intersect T)
  BY FS_Union
<1>2. Cardinality(S \intersect T) = 0
  BY FS_EmptySet
<1>3. Cardinality(S) \in Nat /\ Cardinality(T) \in Nat
  BY FS_CardinalityType
<1> QED BY <1>1, <1>2, <1>3

LEMMA InFinite ==
  ASSUME NEW S, NEW s \in Seq(S), NEW X
  PROVE  IsFiniteSet(In(s, X)) /\ N(s, X) \in Nat
<1>1. IsFiniteSet(1 .. Len(s))
  BY FS_Interval
<1>2. In(s, X) \in SUBSET (1 .. Len(s))
  BY DEF In
<1>3. IsFiniteSet(In(s, X))
  BY <1>1, <1>2, FS_Subset
<1> QED BY <1>3, FS_CardinalityType DEF N

LEMMA NEmpty == ASSUME NEW X PROVE N(<<>>, X) = 0
<1>1. In(<<>>, X) = {}
  BY DEF In
<1> QED BY <1>1, FS_EmptySet DEF N

LEMMA NAppend ==
  ASSUME NEW S, NEW s \in Seq(S), NEW p \in S, NEW X
  PROVE  N(Append(s, p), X) = N(s, X) + One(p, X)
<1> DEFINE n == Len(s) + 1
<1>1. n \notin In(s, X)
  BY DEF In
<1>2. CASE p \in X
  <2>1. In(Append(s, p), X) = In(s, X) \union {n}
    BY <1>2 DEF In
  <2> QED BY <1>1, <1>2, <2>1, InFinite, FS_AddElement DEF N, One
<1>3. CASE p \notin X
  <2>1. In(Append(s, p), X) = In(s, X)
    BY <1>3 DEF In
  <2> QED BY <1>3, <2>1, InFinite DEF N, One
<1> QED BY <1>2, <1>3

LEMMA NSingle == ASSUME NEW S, NEW p \in S, NEW X PROVE N(<<p>>, X) = One(p, X)
<1>1. <<>> \in Seq(S) /\ Append(<<>>, p) = <<p>>
  OBVIOUS
<1>2. N(Append(<<>>, p), X) = N(<<>>, X) + One(p, X)
  BY <1>1, NAppend
<1> QED BY <1>1, <1>2, NEmpty DEF One

(* A set of numbers has as many members when all of them are shifted. *)
LEMMA Shifted ==
  ASSUME NEW k \in Nat, NEW A \in SUBSET Nat, IsFiniteSet(A)
  PROVE  Cardinality({i \in Nat : i - k \in A}) = Cardinality(A)
<1> DEFINE B == {i \in Nat : i - k \in A}
           h == [i \in A |-> i + k]
<1>1. h \in [A -> B]
  OBVIOUS
<1>2. \A i, j \in A : h[i] = h[j] => i = j
  OBVIOUS
<1>3. \A b \in B : \E i \in A : h[i] = b
  <2> TAKE b \in B
  <2>1. b - k \in A /\ h[b - k] = b OBVIOUS
  <2> QED BY <2>1
<1>4. h \in Bijection(A, B)
  <2> HIDE DEF h, B
  <2> QED BY <1>1, <1>2, <1>3 DEF Bijection, Injection, Surjection, IsInjective
<1> QED BY <1>4, FS_Bijection DEF ExistsBijection

(* The first k entries and the others. *)
LEMMA NSplit ==
  ASSUME NEW S, NEW s \in Seq(S), NEW k \in 0 .. Len(s), NEW X
  PROVE  /\ SubSeq(s, 1, k) \in Seq(S) /\ SubSeq(s, k + 1, Len(s)) \in Seq(S)
         /\ N(SubSeq(s, 1, k), X) + N(SubSeq(s, k + 1, Len(s)), X) = N(s, X)
<1> DEFINE u == SubSeq(s, 1, k)
           v == SubSeq(s, k + 1, Len(s))
           V == {i \in Nat : i - k \in In(v, X)}
<1>1. u \in Seq(S) /\ Len(u) = k /\ \A i \in 1 .. k : u[i] = s[i]
  OBVIOUS
<1>2. v \in Seq(S) /\ Len(v) = Len(s) - k /\ \A i \in 1 .. Len(s) - k : v[i] = s[i + k]
  OBVIOUS
<1> HIDE DEF u, v
<1>3. In(s, X) = In(u, X) \union V
  <2>1. \A i : i \in In(u, X) <=> i \in 1 .. k /\ s[i] \in X
    BY <1>1 DEF In
  <2>2. \A i : i \in In(v, X) <=> i \in 1 .. Len(s) - k /\ s[i + k] \in X
    BY <1>2 DEF In
  <2>3. \A i : i \in V <=> i \in k + 1 .. Len(s) /\ s[i] \in X
    BY <2>2
  <2>4. \A i : i \in In(s, X) <=> i \in 1 .. Len(s) /\ s[i] \in X
    BY DEF In
  <2>5. \A i : i \in 1 .. Len(s) <=> i \in 1 .. k \/ i \in k + 1 .. Len(s)
    OBVIOUS
  <2> HIDE DEF V
  <2> QED BY <2>1, <2>3, <2>4, <2>5
<1>4. In(u, X) \intersect V = {}
  BY <1>1 DEF In
<1>5. IsFiniteSet(In(u, X)) /\ IsFiniteSet(In(v, X)) /\ N(u, X) \in Nat /\ N(v, X) \in Nat
  BY <1>1, <1>2, InFinite
<1>6. In(v, X) \in SUBSET Nat
  BY <1>2 DEF In
<1>7. Cardinality(V) = N(v, X)
  BY <1>5, <1>6, Shifted DEF N
<1>8. IsFiniteSet(V)
  <2>1. V \subseteq In(s, X) BY <1>3
  <2> QED BY <2>1, InFinite, FS_Subset
<1>9. Cardinality(In(u, X) \union V) = Cardinality(In(u, X)) + Cardinality(V)
  <2> HIDE DEF V
  <2> QED BY <1>4, <1>5, <1>8, DisjointUnion
<1> QED BY <1>1, <1>2, <1>3, <1>7, <1>9 DEF N, u, v

LEMMA NTail ==
  ASSUME NEW S, NEW s \in Seq(S), s # <<>>, NEW X
  PROVE  Tail(s) \in Seq(S) /\ N(Tail(s), X) + One(Head(s), X) = N(s, X)
<1> DEFINE u == SubSeq(s, 1, 1)
           v == SubSeq(s, 1 + 1, Len(s))
<1>1. 1 \in 0 .. Len(s) /\ Head(s) \in S /\ Tail(s) \in Seq(S) /\ Len(Tail(s)) = Len(s) - 1
  OBVIOUS
<1>2. u \in Seq(S) /\ v \in Seq(S) /\ N(u, X) + N(v, X) = N(s, X)
  BY <1>1, NSplit
<1>3. Len(u) = 1 /\ u[1] = Head(s)
  BY <1>1
<1>4. Len(v) = Len(s) - 1 /\ \A i \in 1 .. Len(s) - 1 : v[i] = Tail(s)[i]
  BY <1>1
<1> HIDE DEF u, v
<1>5. In(u, X) = In(<<Head(s)>>, X)
  BY <1>2, <1>3 DEF In
<1>6. In(v, X) = In(Tail(s), X)
  BY <1>1, <1>2, <1>4 DEF In
<1>7. N(u, X) = One(Head(s), X)
  BY <1>1, <1>5, NSingle DEF N
<1>8. One(Head(s), X) \in Nat /\ N(Tail(s), X) \in Nat
  BY <1>1, InFinite DEF One
<1> QED BY <1>1, <1>2, <1>6, <1>7, <1>8 DEF N

-----------------------------------------------------------------------------
(* Counting in families of sets, one set for each queue. *)
Sum(A) == Cardinality(UNION {{q} \X A[q] : q \in Queue})

LEMMA QueueFinite == IsFiniteSet(Queue)
BY FS_Interval, PacketPathAssumption DEF Queue

Others(A, q) == UNION {{r} \X A[r] : r \in Queue \ {q}}

LEMMA SumParts ==
  ASSUME NEW A, \A r \in Queue : IsFiniteSet(A[r]), NEW q \in Queue
  PROVE  /\ IsFiniteSet(Others(A, q)) /\ Cardinality(Others(A, q)) \in Nat
         /\ Cardinality(A[q]) \in Nat
         /\ Sum(A) = Cardinality(Others(A, q)) + Cardinality(A[q])
<1>1. ASSUME NEW r \in Queue PROVE IsFiniteSet({r} \X A[r]) /\ Cardinality({r} \X A[r]) = Cardinality(A[r])
  <2>1. IsFiniteSet({r}) /\ Cardinality({r}) = 1 /\ Cardinality(A[r]) \in Nat
    BY FS_Singleton, FS_CardinalityType
  <2>2. Cardinality({r} \X A[r]) = 1 * Cardinality(A[r]) /\ IsFiniteSet({r} \X A[r])
    BY <2>1, FS_Product
  <2> QED BY <2>1, <2>2
<1>2. IsFiniteSet(Others(A, q))
  <2> DEFINE R == Queue \ {q}
             T == {{r} \X A[r] : r \in R}
             h == [r \in R |-> {r} \X A[r]]
  <2>1. IsFiniteSet(R)
    BY QueueFinite, FS_RemoveElement
  <2>2. h \in Surjection(R, T)
    BY DEF Surjection
  <2>3. IsFiniteSet(T)
    <3> HIDE DEF T, h, R
    <3> QED BY <2>1, <2>2, FS_Surjection
  <2>4. \A x \in T : IsFiniteSet(x)
    BY <1>1
  <2>5. IsFiniteSet(UNION T)
    <3> HIDE DEF T
    <3> QED BY <2>3, <2>4, FS_UNION
  <2> QED BY <2>5 DEF Others
<1>3. UNION {{r} \X A[r] : r \in Queue} = Others(A, q) \union ({q} \X A[q])
  BY DEF Others
<1>4. Others(A, q) \intersect ({q} \X A[q]) = {}
  BY DEF Others
<1>5. Cardinality(Others(A, q) \union ({q} \X A[q])) = Cardinality(Others(A, q)) + Cardinality({q} \X A[q])
  BY <1>1, <1>2, <1>4, DisjointUnion
<1>6. Cardinality(Others(A, q)) \in Nat /\ Cardinality(A[q]) \in Nat
  BY <1>2, FS_CardinalityType
<1> QED BY <1>1, <1>2, <1>3, <1>5, <1>6 DEF Sum

(* One set of the family changes. *)
LEMMA SumUpdate ==
  ASSUME NEW A, NEW B, \A r \in Queue : IsFiniteSet(A[r]) /\ IsFiniteSet(B[r]), NEW q \in Queue,
         \A r \in Queue \ {q} : B[r] = A[r]
  PROVE  /\ Sum(A) \in Nat /\ Sum(B) \in Nat
         /\ Cardinality(A[q]) \in Nat /\ Cardinality(B[q]) \in Nat
         /\ Cardinality(A[q]) <= Sum(A) /\ Cardinality(B[q]) <= Sum(B)
         /\ Sum(B) - Cardinality(B[q]) = Sum(A) - Cardinality(A[q])
<1>1. Others(B, q) = Others(A, q)
  BY DEF Others
<1>2. Cardinality(Others(A, q)) \in Nat /\ Cardinality(A[q]) \in Nat /\ Cardinality(B[q]) \in Nat
  BY SumParts
<1>3. Sum(A) = Cardinality(Others(A, q)) + Cardinality(A[q])
  BY SumParts
<1>4. Sum(B) = Cardinality(Others(A, q)) + Cardinality(B[q])
  BY <1>1, SumParts
<1> QED BY <1>2, <1>3, <1>4

-----------------------------------------------------------------------------
(* Packets in the sequences of all queues, and in sets. *)
Family == [Queue -> Seq(Packet)]
M(f, X) == Sum([q \in Queue |-> In(f[q], X)])

LEMMA FamilyUpdate ==
  ASSUME NEW f \in Family, NEW g \in Family, NEW q \in Queue, \A r \in Queue \ {q} : g[r] = f[r], NEW X
  PROVE  /\ M(f, X) \in Nat /\ M(g, X) \in Nat /\ N(f[q], X) \in Nat /\ N(g[q], X) \in Nat
         /\ N(f[q], X) <= M(f, X) /\ N(g[q], X) <= M(g, X)
         /\ M(g, X) - N(g[q], X) = M(f, X) - N(f[q], X)
<1> DEFINE A == [r \in Queue |-> In(f[r], X)]
           B == [r \in Queue |-> In(g[r], X)]
<1>1. \A r \in Queue : IsFiniteSet(In(f[r], X)) /\ IsFiniteSet(In(g[r], X))
  BY InFinite DEF Family
<1>2. \A r \in Queue : A[r] = In(f[r], X) /\ B[r] = In(g[r], X)
  OBVIOUS
<1>3. \A r \in Queue \ {q} : B[r] = A[r]
  BY <1>2
<1> HIDE DEF A, B
<1>4. /\ Sum(A) \in Nat /\ Sum(B) \in Nat
      /\ Cardinality(A[q]) \in Nat /\ Cardinality(B[q]) \in Nat
      /\ Cardinality(A[q]) <= Sum(A) /\ Cardinality(B[q]) <= Sum(B)
      /\ Sum(B) - Cardinality(B[q]) = Sum(A) - Cardinality(A[q])
  BY <1>1, <1>2, <1>3, SumUpdate
<1> QED BY <1>2, <1>4 DEF M, N, A, B

LEMMA MNat == ASSUME NEW f \in Family, NEW X PROVE M(f, X) \in Nat
<1>1. PICK q \in Queue : TRUE
  BY PacketPathAssumption DEF Queue
<1> QED BY <1>1, FamilyUpdate

(* The packets that contain the mbuf m. *)
With(m) == {p \in Packet : m \in Mbufs(p)}

LEMMA CountIs == ASSUME NEW s \in Seq(Packet), NEW m PROVE Count(m, s) = N(s, With(m))
<1>1. {i \in DOMAIN s : m \in Mbufs(s[i])} = In(s, With(m))
  BY DEF In, With
<1> QED BY <1>1 DEF Count, N

LEMMA FreedIs ==
  ASSUME NEW pl \in [Mbuf -> Nat], NEW s \in Seq(Packet)
  PROVE  /\ Freed(pl, s) \in [Mbuf -> Nat]
         /\ \A m \in Mbuf : Freed(pl, s)[m] = pl[m] + N(s, With(m))
<1>1. \A m \in Mbuf : Count(m, s) = N(s, With(m)) /\ N(s, With(m)) \in Nat
  BY CountIs, InFinite
<1> QED BY <1>1 DEF Freed

LEMMA FreedOne ==
  ASSUME NEW pl \in [Mbuf -> Nat], NEW p \in Packet
  PROVE  /\ Freed(pl, <<p>>) \in [Mbuf -> Nat]
         /\ \A m \in Mbuf : Freed(pl, <<p>>)[m] = pl[m] + One(p, With(m))
<1>1. <<p>> \in Seq(Packet)
  OBVIOUS
<1> QED BY <1>1, FreedIs, NSingle

(* A chain that is allocated, as a packet. *)
LEMMA AllocIs ==
  ASSUME NEW pl \in [Mbuf -> Nat], NEW c \in Allocs(pl), NEW n \in 0 .. MaxFrames
  PROVE  /\ [segs |-> c, id |-> n] \in Packet /\ Without(pl, c) \in [Mbuf -> Nat]
         /\ \A m \in Mbuf : Without(pl, c)[m] + One([segs |-> c, id |-> n], With(m)) = pl[m]
<1> DEFINE p == [segs |-> c, id |-> n]
<1>1. /\ c \in Chain /\ (\A i \in DOMAIN c : pl[c[i]] > 0)
      /\ \A i, j \in DOMAIN c : c[i] = c[j] => i = j
  BY DEF Allocs
<1>2. p \in Packet
  BY <1>1 DEF Packet
<1>3. ASSUME NEW m \in Mbuf
      PROVE  /\ Cardinality({i \in DOMAIN c : c[i] = m}) = One(p, With(m))
             /\ One(p, With(m)) \in Nat /\ One(p, With(m)) <= pl[m]
  <2>1. CASE \E i \in DOMAIN c : c[i] = m
    <3>1. PICK i \in DOMAIN c : c[i] = m BY <2>1
    <3>2. {j \in DOMAIN c : c[j] = m} = {i} BY <1>1, <3>1
    <3>3. p \in With(m) BY <1>2, <3>1 DEF With, Mbufs
    <3>4. pl[m] > 0 /\ pl[m] \in Nat BY <1>1, <3>1
    <3>5. Cardinality({j \in DOMAIN c : c[j] = m}) = 1 BY <3>2, FS_Singleton
    <3>6. One(p, With(m)) = 1 BY <3>3 DEF One
    <3> QED BY <3>4, <3>5, <3>6
  <2>2. CASE ~ \E i \in DOMAIN c : c[i] = m
    <3>1. {j \in DOMAIN c : c[j] = m} = {} BY <2>2
    <3>2. p \notin With(m) BY <2>2 DEF With, Mbufs
    <3> QED BY <3>1, <3>2, FS_EmptySet DEF One
  <2> QED BY <2>1, <2>2
<1> HIDE DEF p
<1>4. \A m \in Mbuf : Without(pl, c)[m] = pl[m] - One(p, With(m))
  BY <1>3 DEF Without
<1>5. Without(pl, c) \in [Mbuf -> Nat]
  BY <1>3 DEF Without
<1>6. \A m \in Mbuf : Without(pl, c)[m] + One(p, With(m)) = pl[m]
  <2> TAKE m \in Mbuf
  <2>1. pl[m] \in Nat /\ One(p, With(m)) \in Nat BY <1>3
  <2> QED BY <1>4, <2>1
<1> QED BY <1>2, <1>5, <1>6 DEF p

-----------------------------------------------------------------------------
(* Types and tables.  A process is busy while it is in process_packets. *)
Label == {"loop", "kniTx", "kniRx", "ring", "rx", "handle", "clone", "input", "user", "stopped"}
Busy  == {"handle", "clone", "input"}

Types ==
  /\ pool \in [Mbuf -> Nat] /\ nic \subseteq Packet /\ IsFiniteSet(nic)
  /\ rxq \in Family /\ dring \in Family /\ burst \in Family /\ tx \in Family /\ kni \in Seq(Packet)
  /\ fromRing \in [Queue -> BOOLEAN]
  /\ stack \in [Queue -> SUBSET Packet] /\ \A q \in Queue : IsFiniteSet(stack[q])
  /\ pc \in [Queue -> Label] /\ cursor \in [Queue -> 0 .. NbQueues]
  /\ frames \in 0 .. MaxFrames /\ arps \subseteq 1 .. MaxFrames
  /\ got \in [Queue \union {Kernel} -> [1 .. MaxFrames -> Nat]]

BurstInv == \A q \in Queue : pc[q] \in Busy <=> burst[q] # <<>>

(* The inductive invariant of the types and tables. *)
IInv == Types /\ BurstInv /\ TablesHold

LEMMA GotoIs ==
  ASSUME Types, NEW q \in Queue, NEW l \in Label, Goto(q, l)
  PROVE  pc' \in [Queue -> Label] /\ pc'[q] = l /\ \A r \in Queue \ {q} : pc'[r] = pc[r]
BY DEF Types, Goto

LEMMA BusyIs ==
  ASSUME IInv, NEW q \in Queue, pc[q] \in Busy
  PROVE  burst[q] \in Seq(Packet) /\ burst[q] # <<>> /\ Current(q) \in Packet
<1>1. burst[q] \in Seq(Packet) /\ burst[q] # <<>>
  BY DEF IInv, Types, Family, BurstInv
<1> QED BY <1>1 DEF Current

(* The bursts after the current packet of q is handled. *)
Advanced(q) ==
  /\ burst' \in Family /\ (\A r \in Queue \ {q} : burst'[r] = burst[r])
  /\ burst'[q] = Tail(burst[q]) /\ (\A X : N(burst'[q], X) + One(Current(q), X) = N(burst[q], X))
  /\ pc' \in [Queue -> Label] /\ (\A r \in Queue \ {q} : pc'[r] = pc[r])
  /\ pc'[q] \in {"handle", "rx", "user"}
  /\ BurstInv' /\ \A r \in Queue : Len(burst'[r]) <= Burst

LEMMA NextPacketIs ==
  ASSUME IInv, NEW q \in Queue, pc[q] \in Busy, NextPacket(q) PROVE Advanced(q)
<1>1. burst[q] \in Seq(Packet) /\ burst[q] # <<>> /\ burst \in Family
  BY BusyIs DEF IInv, Types
<1>2. /\ Tail(burst[q]) \in Seq(Packet) /\ Len(Tail(burst[q])) = Len(burst[q]) - 1
      /\ Len(burst[q]) \in Nat
  BY <1>1
<1>3. burst' = [burst EXCEPT ![q] = Tail(burst[q])]
  BY DEF NextPacket
<1>4. burst' \in Family /\ burst'[q] = Tail(burst[q]) /\ \A r \in Queue \ {q} : burst'[r] = burst[r]
  BY <1>1, <1>2, <1>3 DEF Family
<1>5. \A X : N(burst'[q], X) + One(Current(q), X) = N(burst[q], X)
  BY <1>1, <1>4, NTail DEF Current
<1>6. PICK l \in {"handle", "rx", "user"} : Goto(q, l) /\ (l = "handle" <=> More(q))
  <2>1. CASE More(q)
    BY <2>1 DEF NextPacket
  <2>2. CASE ~More(q) /\ fromRing[q]
    BY <2>2 DEF NextPacket
  <2>3. CASE ~More(q) /\ ~fromRing[q]
    BY <2>3 DEF NextPacket
  <2> QED BY <2>1, <2>2, <2>3
<1>7. pc' \in [Queue -> Label] /\ pc'[q] = l /\ \A r \in Queue \ {q} : pc'[r] = pc[r]
  BY <1>6, GotoIs DEF IInv, Label
<1>8. More(q) <=> Tail(burst[q]) # <<>>
  <2>1. \A t \in Seq(Packet) : t = <<>> <=> Len(t) = 0
    OBVIOUS
  <2>2. Tail(burst[q]) # <<>> <=> Len(Tail(burst[q])) # 0
    BY <1>2, <2>1
  <2>3. Len(Tail(burst[q])) \in Nat
    BY <1>2
  <2>4. \A n, t \in Nat : t = n - 1 => (n > 1 <=> t # 0)
    OBVIOUS
  <2>5. Len(burst[q]) > 1 <=> Len(Tail(burst[q])) # 0
    BY <1>2, <2>3, <2>4
  <2> QED BY <2>2, <2>5, Zenon DEF More
<1>9. BurstInv'
  BY <1>4, <1>6, <1>7, <1>8 DEF IInv, BurstInv, Busy
<1>10. \A r \in Queue : Len(burst'[r]) <= Burst
  <2>1. \A r \in Queue : Len(burst[r]) <= Burst /\ Burst \in Nat
    BY PacketPathAssumption DEF IInv, TablesHold
  <2>2. Len(burst'[q]) <= Burst
    BY <1>2, <1>4, <2>1
  <2> QED BY <1>4, <2>1, <2>2
<1> QED BY <1>4, <1>5, <1>6, <1>7, <1>9, <1>10 DEF Advanced

(* The bursts after one is taken from s. *)
LEMMA TakenIs ==
  ASSUME NEW s \in Seq(Packet)
  PROVE  /\ First(s) \in Seq(Packet) /\ Rest(s) \in Seq(Packet)
         /\ Len(First(s)) <= Burst /\ Len(Rest(s)) <= Len(s)
         /\ \A X : N(First(s), X) + N(Rest(s), X) = N(s, X)
<1>1. Taken(s) \in 0 .. Len(s) /\ Taken(s) <= Burst /\ Len(s) \in Nat
  BY PacketPathAssumption DEF Taken
<1>2. /\ First(s) \in Seq(Packet) /\ Rest(s) \in Seq(Packet)
      /\ \A X : N(First(s), X) + N(Rest(s), X) = N(s, X)
  BY <1>1, NSplit DEF First, Rest
<1>3. Len(First(s)) = Taken(s) /\ Len(Rest(s)) = Len(s) - Taken(s)
  BY <1>1 DEF First, Rest
<1> QED BY <1>1, <1>2, <1>3

LEMMA TakeBurstIs ==
  ASSUME IInv, NEW q \in Queue, pc[q] \notin Busy, NEW s \in Seq(Packet), NEW ring \in BOOLEAN,
         NEW empty \in {"rx", "user"}, TakeBurst(q, s, ring, empty)
  PROVE  /\ burst' \in Family /\ burst'[q] = First(s) /\ (\A r \in Queue \ {q} : burst'[r] = burst[r])
         /\ burst[q] = <<>>
         /\ fromRing' \in [Queue -> BOOLEAN] /\ fromRing'[q] = ring
         /\ \A r \in Queue \ {q} : fromRing'[r] = fromRing[r]
         /\ pc' \in [Queue -> Label] /\ pc'[q] \in {"handle", "rx", "user"}
         /\ \A r \in Queue \ {q} : pc'[r] = pc[r]
         /\ BurstInv' /\ \A r \in Queue : Len(burst'[r]) <= Burst
<1>1. burst' \in Family /\ burst'[q] = First(s) /\ \A r \in Queue \ {q} : burst'[r] = burst[r]
  BY TakenIs DEF TakeBurst, IInv, Types, Family
<1>2. /\ fromRing' \in [Queue -> BOOLEAN] /\ fromRing'[q] = ring
      /\ \A r \in Queue \ {q} : fromRing'[r] = fromRing[r]
  BY DEF TakeBurst, IInv, Types
<1>3. PICK l \in {"handle", "rx", "user"} : Goto(q, l) /\ (l = "handle" <=> First(s) # <<>>)
  BY DEF TakeBurst
<1>4. pc' \in [Queue -> Label] /\ pc'[q] = l /\ \A r \in Queue \ {q} : pc'[r] = pc[r]
  BY <1>3, GotoIs DEF IInv, Label
<1>5. BurstInv' /\ burst[q] = <<>>
  BY <1>1, <1>3, <1>4 DEF IInv, BurstInv, Busy
<1>6. \A r \in Queue : Len(burst'[r]) <= Burst
  BY <1>1, TakenIs DEF IInv, TablesHold
<1> QED BY <1>1, <1>2, <1>3, <1>4, <1>5, <1>6

(* Devices and rings take a packet or free it. *)
LEMMA TransmitTypes ==
  ASSUME Types, NEW s \in Seq(Packet), NEW r \in 0 .. Len(s), NEW pl \in [Mbuf -> Nat], Transmit(s, r, pl)
  PROVE  /\ pool' \in [Mbuf -> Nat] /\ nic' \subseteq Packet /\ IsFiniteSet(nic')
         /\ \A m \in Mbuf : pool'[m] = pl[m] + N(SubSeq(s, r + 1, Len(s)), With(m))
<1> DEFINE I == 1 .. r
           T == {s[i] : i \in I}
           h == [i \in I |-> s[i]]
<1>1. IsFiniteSet(I)
  BY FS_Interval
<1>2. h \in Surjection(I, T)
  BY DEF Surjection
<1>3. IsFiniteSet(T)
  <2> HIDE DEF I, T, h
  <2> QED BY <1>1, <1>2, FS_Surjection
<1>4. T \subseteq Packet
  OBVIOUS
<1>5. nic' = nic \union T
  BY DEF Transmit
<1>6. IsFiniteSet(nic') /\ nic' \subseteq Packet
  <2> HIDE DEF T
  <2> QED BY <1>3, <1>4, <1>5, FS_Union DEF Types
<1>7. SubSeq(s, r + 1, Len(s)) \in Seq(Packet)
  OBVIOUS
<1> QED BY <1>6, <1>7, FreedIs DEF Transmit

LEMMA EnqueueIs ==
  ASSUME NEW s \in Seq(Packet), NEW p \in Packet, NEW pl \in [Mbuf -> Nat]
  PROVE  /\ Enqueue(s, p) \in Seq(Packet) /\ PoolAfterEnqueue(s, p, pl) \in [Mbuf -> Nat]
         /\ Len(s) <= RingSize => Len(Enqueue(s, p)) <= RingSize
         /\ \A m \in Mbuf : N(Enqueue(s, p), With(m)) + PoolAfterEnqueue(s, p, pl)[m]
                              = N(s, With(m)) + pl[m] + One(p, With(m))
         /\ \A X : N(Enqueue(s, p), X) = N(s, X) \/ N(Enqueue(s, p), X) = N(s, X) + One(p, X)
<1>1. CASE Len(s) < RingSize
  <2>1. Enqueue(s, p) = Append(s, p) /\ PoolAfterEnqueue(s, p, pl) = pl
    BY <1>1 DEF Enqueue, PoolAfterEnqueue
  <2>2. \A X : N(Append(s, p), X) = N(s, X) + One(p, X)
    BY NAppend
  <2>3. Append(s, p) \in Seq(Packet) /\ Len(Append(s, p)) <= RingSize
    BY <1>1, PacketPathAssumption
  <2>4. \A m \in Mbuf : pl[m] \in Nat /\ N(s, With(m)) \in Nat /\ One(p, With(m)) \in Nat
    BY InFinite DEF One
  <2> QED BY <2>1, <2>2, <2>3, <2>4
<1>2. CASE ~(Len(s) < RingSize)
  <2>1. Enqueue(s, p) = s /\ PoolAfterEnqueue(s, p, pl) = Freed(pl, <<p>>)
    BY <1>2 DEF Enqueue, PoolAfterEnqueue
  <2>2. \A m \in Mbuf : pl[m] \in Nat /\ N(s, With(m)) \in Nat /\ One(p, With(m)) \in Nat
    BY InFinite DEF One
  <2> QED BY <2>1, <2>2, FreedOne
<1> QED BY <1>1, <1>2

DevTypes == pool \in [Mbuf -> Nat] /\ nic \subseteq Packet /\ IsFiniteSet(nic)
TxTypes  == tx \in Family /\ \A r \in Queue : Len(tx[r]) < Burst

LEMMA SendTypes ==
  ASSUME IInv, NEW q \in Queue, NEW p \in Packet, NEW pl \in [Mbuf -> Nat], SendSingle(q, p, pl)
  PROVE  DevTypes' /\ TxTypes' /\ \A r \in Queue \ {q} : tx'[r] = tx[r]
<1> DEFINE b == Append(tx[q], p)
<1>1. /\ tx[q] \in Seq(Packet) /\ b \in Seq(Packet) /\ Len(b) = Len(tx[q]) + 1 /\ Len(tx[q]) \in Nat
      /\ Len(tx[q]) < Burst /\ Burst \in Nat /\ Burst > 0
  BY PacketPathAssumption DEF IInv, Types, Family, TablesHold
<1>2. tx \in Family /\ \A r \in Queue : Len(tx[r]) < Burst
  BY DEF IInv, Types, TablesHold
<1>3. CASE Flush(Len(b))
  <2>1. PICK r \in 0 .. Len(b) : Transmit(b, r, pl)
    BY <1>3 DEF SendSingle
  <2>2. tx' = [tx EXCEPT ![q] = <<>>]
    BY <1>3 DEF SendSingle
  <2>3. DevTypes'
    <3> HIDE DEF b
    <3> QED BY <1>1, <2>1, TransmitTypes DEF DevTypes, IInv
  <2>4. tx' \in Family /\ tx'[q] = <<>> /\ \A x \in Queue \ {q} : tx'[x] = tx[x]
    BY <1>2, <2>2 DEF Family
  <2>5. Len(<<>>) = 0
    OBVIOUS
  <2> QED BY <1>1, <1>2, <2>3, <2>4, <2>5 DEF TxTypes
<1>4. CASE ~Flush(Len(b))
  <2>1. pool' = pl /\ nic' = nic /\ tx' = [tx EXCEPT ![q] = b]
    BY <1>4 DEF SendSingle
  <2>2. Len(b) < Burst
    BY <1>1, <1>4 DEF Flush
  <2> HIDE DEF b
  <2>3. tx' \in Family /\ tx'[q] = b /\ \A x \in Queue \ {q} : tx'[x] = tx[x]
    BY <1>1, <1>2, <2>1 DEF Family
  <2> QED BY <1>2, <2>1, <2>2, <2>3 DEF TxTypes, DevTypes, IInv, Types
<1> QED BY <1>3, <1>4

(* A packet of the stack's or of the kernel's own. *)
LEMMA AllocNew ==
  ASSUME Types, NEW c \in Allocs(pool)
  PROVE  /\ [segs |-> c, id |-> 0] \in Packet /\ Without(pool, c) \in [Mbuf -> Nat]
         /\ \A m \in Mbuf : Without(pool, c)[m] + One([segs |-> c, id |-> 0], With(m)) = pool[m]
<1>1. 0 \in 0 .. MaxFrames
  BY PacketPathAssumption
<1>2. pool \in [Mbuf -> Nat]
  BY DEF Types
<1> QED BY <1>1, <1>2, AllocIs

LEMMA ReceiveTypes == ASSUME IInv, NEW q \in Queue, Receive(q) PROVE IInv'
<1>1. frames' = frames + 1 /\ frames < MaxFrames /\ UNCHANGED <<nic, dring, kni, burst, fromRing, tx, stack, pc, cursor, arps, got>>
  BY Zenon DEF Receive, procVars
<1>2. frames + 1 \in 0 .. MaxFrames /\ frames' \in 0 .. MaxFrames
  BY <1>1, PacketPathAssumption DEF IInv, Types
<1>3. PICK c \in Allocs(pool) :
        /\ pool' = Without(pool, c)
        /\ rxq' = [rxq EXCEPT ![q] = Append(@, [segs |-> c, id |-> frames + 1])]
  BY DEF Receive
<1>4. [segs |-> c, id |-> frames + 1] \in Packet /\ pool' \in [Mbuf -> Nat]
  BY <1>2, <1>3, AllocIs DEF IInv, Types
<1>5. rxq' \in Family
  BY <1>3, <1>4 DEF IInv, Types, Family
<1> QED BY <1>1, <1>2, <1>4, <1>5 DEF IInv, Types, BurstInv, TablesHold

LEMMA TxDoneTypes == ASSUME IInv, TxDone PROVE IInv'
<1>1. UNCHANGED <<rxq, dring, kni, burst, fromRing, tx, stack, pc, cursor, frames, arps, got>>
  BY Zenon DEF TxDone, procVars
<1>2. PICK p \in nic : nic' = nic \ {p} /\ pool' = Freed(pool, <<p>>)
  BY DEF TxDone
<1>3. pool' \in [Mbuf -> Nat] /\ IsFiniteSet(nic') /\ nic' \subseteq Packet
  BY <1>2, FreedOne, FS_RemoveElement DEF IInv, Types
<1> QED BY <1>1, <1>3 DEF IInv, Types, BurstInv, TablesHold

LEMMA StackSendTypes == ASSUME IInv, NEW q \in Queue, StackSend(q) PROVE IInv'
<1>1. UNCHANGED <<rxq, dring, kni, burst, fromRing, stack, pc, cursor, frames, arps, got>>
  BY Zenon DEF StackSend
<1>2. PICK c \in Allocs(pool) : SendSingle(q, [segs |-> c, id |-> 0], Without(pool, c))
  BY DEF StackSend
<1>3. [segs |-> c, id |-> 0] \in Packet /\ Without(pool, c) \in [Mbuf -> Nat]
  BY AllocNew DEF IInv
<1>4. DevTypes' /\ TxTypes'
  BY <1>2, <1>3, SendTypes
<1> QED BY <1>1, <1>4 DEF IInv, Types, BurstInv, TablesHold, DevTypes, TxTypes

LEMMA StackFreeTypes == ASSUME IInv, NEW q \in Queue, StackFree(q) PROVE IInv'
<1>1. UNCHANGED <<nic, rxq, dring, kni, burst, fromRing, tx, pc, cursor, frames, arps, got>>
  BY Zenon DEF StackFree
<1>2. PICK p \in stack[q] : stack' = [stack EXCEPT ![q] = @ \ {p}] /\ pool' = Freed(pool, <<p>>)
  BY DEF StackFree
<1>3. p \in Packet
  BY DEF IInv, Types
<1>4. pool' \in [Mbuf -> Nat]
  BY <1>2, <1>3, FreedOne DEF IInv, Types
<1>5. /\ stack' \in [Queue -> SUBSET Packet] /\ stack'[q] = stack[q] \ {p}
      /\ \A r \in Queue \ {q} : stack'[r] = stack[r]
  BY <1>2 DEF IInv, Types
<1>6. \A r \in Queue : IsFiniteSet(stack'[r])
  <2>1. \A r \in Queue : IsFiniteSet(stack[r])
    BY DEF IInv, Types
  <2>2. IsFiniteSet(stack'[q])
    BY <1>5, <2>1, FS_RemoveElement
  <2> QED BY <1>5, <2>1, <2>2
<1> QED BY <1>1, <1>4, <1>5, <1>6 DEF IInv, Types, BurstInv, TablesHold

(* The steps of the loop that leave the bursts alone. *)
Idle == {"loop", "kniTx", "kniRx", "ring", "rx", "user", "stopped"}

LEMMA IdleGoto ==
  ASSUME IInv, NEW q \in Queue, pc[q] \notin Busy, NEW l \in Idle, Goto(q, l), burst' = burst
  PROVE  pc' \in [Queue -> Label] /\ BurstInv'
<1>1. pc' \in [Queue -> Label] /\ pc'[q] = l /\ \A r \in Queue \ {q} : pc'[r] = pc[r]
  BY GotoIs DEF IInv, Label, Idle
<1> QED BY <1>1 DEF IInv, BurstInv, Busy, Idle

LEMMA DrainTypes == ASSUME IInv, NEW q \in Queue, Drain(q) PROVE IInv'
<1>1. /\ pc[q] = "loop" /\ Goto(q, AfterDrain(q)) /\ tx' = [tx EXCEPT ![q] = <<>>]
      /\ UNCHANGED <<rxq, dring, kni, burst, fromRing, stack, cursor, frames, arps, got>>
  BY Zenon DEF Drain
<1>2. PICK r \in 0 .. Len(tx[q]) : Transmit(tx[q], r, pool)
  BY Zenon DEF Drain
<1>3. DevTypes'
  BY <1>2, TransmitTypes DEF IInv, Types, Family, DevTypes
<1>4. tx' \in Family /\ tx'[q] = <<>> /\ \A x \in Queue \ {q} : tx'[x] = tx[x]
  BY <1>1 DEF IInv, Types, Family
<1>5. TxTypes'
  <2>1. Len(<<>>) < Burst BY PacketPathAssumption
  <2> QED BY <1>4, <2>1 DEF TxTypes, IInv, TablesHold
<1>6. AfterDrain(q) \in Idle /\ pc[q] \notin Busy
  BY <1>1 DEF AfterDrain, Idle, Busy
<1>7. pc' \in [Queue -> Label] /\ BurstInv'
  BY <1>1, <1>6, IdleGoto
<1> QED BY <1>1, <1>3, <1>5, <1>7 DEF IInv, Types, TablesHold, DevTypes, TxTypes

LEMMA PassTypes == ASSUME IInv, NEW q \in Queue, NoDrain(q) \/ Stop(q) \/ UserDone(q) PROVE IInv'
<1>1. /\ pc[q] \in {"loop", "user"} /\ (Goto(q, AfterDrain(q)) \/ Goto(q, "stopped") \/ Goto(q, "loop"))
      /\ UNCHANGED <<pool, nic, tx, rxq, dring, kni, burst, fromRing, stack, cursor, frames, arps, got>>
  BY DEF NoDrain, Stop, UserDone, poolVars
<1>2. AfterDrain(q) \in Idle /\ "stopped" \in Idle /\ "loop" \in Idle /\ pc[q] \notin Busy
  BY <1>1 DEF AfterDrain, Idle, Busy
<1>3. pc' \in [Queue -> Label] /\ BurstInv'
  BY <1>1, <1>2, IdleGoto
<1> QED BY <1>1, <1>3 DEF IInv, Types, TablesHold

LEMMA KniTxTypes == ASSUME IInv, NEW q \in Queue, KniTx(q) PROVE IInv'
<1> DEFINE s == First(kni)
<1>1. /\ pc[q] = "kniTx" /\ Goto(q, "kniRx") /\ kni' = Rest(kni)
      /\ UNCHANGED <<rxq, dring, burst, fromRing, tx, stack, cursor, frames, arps>>
  BY Zenon DEF KniTx
<1>2. PICK r \in 0 .. Len(s) :
        /\ Transmit(s, r, pool)
        /\ got' = [got EXCEPT ![Kernel] = [f \in 1 .. MaxFrames |->
                     @[f] + Cardinality({i \in 1 .. r : s[i].id = f})]]
  BY Zenon DEF KniTx
<1>3. s \in Seq(Packet) /\ Rest(kni) \in Seq(Packet)
  BY TakenIs DEF IInv, Types
<1> HIDE DEF s
<1>4. DevTypes'
  <2>1. Types /\ pool \in [Mbuf -> Nat]
    BY DEF IInv, Types
  <2> QED BY <1>2, <1>3, <2>1, TransmitTypes DEF DevTypes
<1>5. \A f : Cardinality({i \in 1 .. r : s[i].id = f}) \in Nat
  <2> TAKE f
  <2>1. IsFiniteSet(1 .. r) /\ {i \in 1 .. r : s[i].id = f} \in SUBSET (1 .. r)
    BY FS_Interval
  <2> QED BY <2>1, FS_Subset, FS_CardinalityType
<1>6. got' \in [Queue \union {Kernel} -> [1 .. MaxFrames -> Nat]]
  <2> DEFINE g == [f \in 1 .. MaxFrames |-> got[Kernel][f] + Cardinality({i \in 1 .. r : s[i].id = f})]
  <2>1. got \in [Queue \union {Kernel} -> [1 .. MaxFrames -> Nat]]
    BY DEF IInv, Types
  <2>2. g \in [1 .. MaxFrames -> Nat]
    <3>1. ASSUME NEW f \in 1 .. MaxFrames
          PROVE  got[Kernel][f] + Cardinality({i \in 1 .. r : s[i].id = f}) \in Nat
      <4> DEFINE c == Cardinality({i \in 1 .. r : s[i].id = f})
      <4>1. c \in Nat BY <1>5
      <4>2. got[Kernel][f] \in Nat BY <2>1
      <4> HIDE DEF c
      <4>3. got[Kernel][f] + c \in Nat BY <4>1, <4>2
      <4> QED BY <4>3 DEF c
    <3> QED BY <3>1
  <2>3. got' = [got EXCEPT ![Kernel] = g]
    BY <1>2
  <2> HIDE DEF g
  <2> QED BY <2>1, <2>2, <2>3
<1>7. "kniRx" \in Idle /\ pc[q] \notin Busy
  BY <1>1 DEF Idle, Busy
<1>8. pc' \in [Queue -> Label] /\ BurstInv'
  BY <1>1, <1>7, IdleGoto
<1> QED BY <1>1, <1>3, <1>4, <1>6, <1>8 DEF IInv, Types, TablesHold, DevTypes

LEMMA KniRxTypes == ASSUME IInv, NEW q \in Queue, KniRx(q) PROVE IInv'
<1>1. /\ pc[q] = "kniRx" /\ Goto(q, "ring")
      /\ UNCHANGED <<rxq, dring, kni, burst, fromRing, tx, stack, cursor, frames, arps, got>>
  BY Zenon DEF KniRx
<1>2. DevTypes'
  <2>1. CASE UNCHANGED poolVars
    BY <2>1 DEF poolVars, DevTypes, IInv, Types
  <2>2. CASE \E c \in Allocs(pool) : Transmit(<<[segs |-> c, id |-> 0]>>, 1, Without(pool, c))
    <3>1. PICK c \in Allocs(pool) : Transmit(<<[segs |-> c, id |-> 0]>>, 1, Without(pool, c)) BY <2>2
    <3>2. [segs |-> c, id |-> 0] \in Packet /\ Without(pool, c) \in [Mbuf -> Nat]
      BY AllocNew DEF IInv
    <3>3. <<[segs |-> c, id |-> 0]>> \in Seq(Packet) /\ 1 \in 0 .. Len(<<[segs |-> c, id |-> 0]>>)
      BY <3>2
    <3> QED BY <3>1, <3>2, <3>3, TransmitTypes DEF IInv, DevTypes
  <2> QED BY <2>1, <2>2, Zenon DEF KniRx
<1>3. "ring" \in Idle /\ pc[q] \notin Busy
  BY <1>1 DEF Idle, Busy
<1>4. pc' \in [Queue -> Label] /\ BurstInv'
  BY <1>1, <1>3, IdleGoto
<1> QED BY <1>1, <1>2, <1>4 DEF IInv, Types, TablesHold, DevTypes

LEMMA RingBurstTypes == ASSUME IInv, NEW q \in Queue, RingBurst(q) PROVE IInv'
<1>1. /\ pc[q] = "ring" /\ TakeBurst(q, dring[q], TRUE, "rx") /\ dring' = [dring EXCEPT ![q] = Rest(@)]
      /\ UNCHANGED <<pool, nic, rxq, kni, tx, stack, cursor, frames, arps, got>>
  BY Zenon DEF RingBurst, poolVars
<1>2. dring[q] \in Seq(Packet) /\ pc[q] \notin Busy
  BY <1>1 DEF IInv, Types, Family, Busy
<1>3. /\ burst' \in Family /\ fromRing' \in [Queue -> BOOLEAN] /\ pc' \in [Queue -> Label]
      /\ BurstInv' /\ \A r \in Queue : Len(burst'[r]) <= Burst
  BY <1>1, <1>2, TakeBurstIs
<1>4. Rest(dring[q]) \in Seq(Packet) /\ Len(Rest(dring[q])) <= Len(dring[q])
  BY <1>2, TakenIs
<1>5. dring' \in Family /\ dring'[q] = Rest(dring[q]) /\ \A r \in Queue \ {q} : dring'[r] = dring[r]
  BY <1>1, <1>4 DEF IInv, Types, Family
<1>6. \A r \in Queue : Len(dring'[r]) <= RingSize
  <2>1. \A r \in Queue : Len(dring[r]) <= RingSize /\ RingSize \in Nat
    BY PacketPathAssumption DEF IInv, TablesHold
  <2>2. Len(dring[q]) \in Nat /\ Len(Rest(dring[q])) \in Nat
    BY <1>2, <1>4
  <2>3. Len(dring'[q]) <= RingSize
    BY <1>4, <1>5, <2>1, <2>2
  <2> QED BY <1>5, <2>1, <2>3
<1> QED BY <1>1, <1>3, <1>5, <1>6 DEF IInv, Types, TablesHold

LEMMA RxBurstTypes == ASSUME IInv, NEW q \in Queue, RxBurst(q) PROVE IInv'
<1>1. /\ pc[q] = "rx" /\ TakeBurst(q, rxq[q], FALSE, "user") /\ rxq' = [rxq EXCEPT ![q] = Rest(@)]
      /\ UNCHANGED <<pool, nic, dring, kni, tx, stack, cursor, frames, arps, got>>
  BY Zenon DEF RxBurst, poolVars
<1>2. rxq[q] \in Seq(Packet) /\ pc[q] \notin Busy
  BY <1>1 DEF IInv, Types, Family, Busy
<1>3. /\ burst' \in Family /\ fromRing' \in [Queue -> BOOLEAN] /\ pc' \in [Queue -> Label]
      /\ BurstInv' /\ \A r \in Queue : Len(burst'[r]) <= Burst
  BY <1>1, <1>2, TakeBurstIs
<1>4. rxq' \in Family
  BY <1>1, <1>2, TakenIs DEF IInv, Types, Family
<1> QED BY <1>1, <1>3, <1>4 DEF IInv, Types, TablesHold

-----------------------------------------------------------------------------
(* process_packets *)
LEMMA RespondTypes == ASSUME IInv, NEW q \in Queue, Respond(q) PROVE IInv'
<1>1. /\ pc[q] = "handle" /\ SendSingle(q, Current(q), pool) /\ NextPacket(q)
      /\ UNCHANGED <<rxq, dring, kni, fromRing, stack, cursor, frames, arps, got>>
  BY Zenon DEF Respond
<1>2. pc[q] \in Busy /\ pool \in [Mbuf -> Nat]
  BY <1>1 DEF Busy, IInv, Types
<1>3. Current(q) \in Packet /\ Advanced(q)
  BY <1>1, <1>2, BusyIs, NextPacketIs
<1>4. DevTypes' /\ TxTypes'
  BY <1>1, <1>2, <1>3, SendTypes
<1> QED BY <1>1, <1>3, <1>4 DEF IInv, Types, TablesHold, DevTypes, TxTypes, Advanced

LEMMA DropTypes == ASSUME IInv, NEW q \in Queue, Refuse(q) \/ InputDrops(q) PROVE IInv'
<1>1. /\ pc[q] \in {"handle", "input"} /\ pool' = Freed(pool, <<Current(q)>>) /\ NextPacket(q)
      /\ UNCHANGED <<nic, rxq, dring, kni, fromRing, tx, stack, cursor, frames, arps, got>>
  BY DEF Refuse, InputDrops
<1>2. pc[q] \in Busy /\ pool \in [Mbuf -> Nat]
  BY <1>1 DEF Busy, IInv, Types
<1>3. Current(q) \in Packet /\ Advanced(q)
  BY <1>1, <1>2, BusyIs, NextPacketIs
<1>4. pool' \in [Mbuf -> Nat]
  BY <1>1, <1>2, <1>3, FreedOne
<1> QED BY <1>1, <1>3, <1>4 DEF IInv, Types, TablesHold, Advanced

(* A packet is offered to the dispatch ring of j. *)
LEMMA RingTypes ==
  ASSUME IInv, NEW j \in Queue, NEW p \in Packet, NEW pl \in [Mbuf -> Nat],
         dring' = [dring EXCEPT ![j] = Enqueue(@, p)], pool' = PoolAfterEnqueue(dring[j], p, pl)
  PROVE  /\ pool' \in [Mbuf -> Nat] /\ dring' \in Family
         /\ dring'[j] = Enqueue(dring[j], p) /\ (\A r \in Queue \ {j} : dring'[r] = dring[r])
         /\ \A r \in Queue : Len(dring'[r]) <= RingSize
<1>1. dring \in Family /\ dring[j] \in Seq(Packet) /\ \A r \in Queue : Len(dring[r]) <= RingSize
  BY DEF IInv, Types, Family, TablesHold
<1>2. /\ Enqueue(dring[j], p) \in Seq(Packet) /\ pool' \in [Mbuf -> Nat]
      /\ Len(Enqueue(dring[j], p)) <= RingSize
  BY <1>1, EnqueueIs
<1>3. dring' \in Family /\ dring'[j] = Enqueue(dring[j], p) /\ \A r \in Queue \ {j} : dring'[r] = dring[r]
  BY <1>1, <1>2 DEF Family
<1> QED BY <1>1, <1>2, <1>3

LEMMA ForwardTypes == ASSUME IInv, NEW q \in Queue, NEW j \in Queue, Forward(q, j) PROVE IInv'
<1>1. /\ pc[q] = "handle" /\ NextPacket(q) /\ dring' = [dring EXCEPT ![j] = Enqueue(@, Current(q))]
      /\ pool' = PoolAfterEnqueue(dring[j], Current(q), pool)
      /\ UNCHANGED <<nic, rxq, kni, fromRing, tx, stack, cursor, frames, arps, got>>
  BY Zenon DEF Forward
<1>2. pc[q] \in Busy /\ pool \in [Mbuf -> Nat]
  BY <1>1 DEF Busy, IInv, Types
<1>3. Current(q) \in Packet /\ Advanced(q)
  BY <1>1, <1>2, BusyIs, NextPacketIs
<1>4. pool' \in [Mbuf -> Nat] /\ dring' \in Family /\ \A r \in Queue : Len(dring'[r]) <= RingSize
  BY <1>1, <1>2, <1>3, RingTypes
<1> QED BY <1>1, <1>3, <1>4 DEF IInv, Types, TablesHold, Advanced

(* The steps that keep the packet. *)
LEMMA BusyGoto ==
  ASSUME IInv, NEW q \in Queue, pc[q] \in Busy, NEW l \in Busy, Goto(q, l), burst' = burst
  PROVE  pc' \in [Queue -> Label] /\ BurstInv'
<1>1. l \in Label
  BY DEF Busy, Label
<1>2. pc' \in [Queue -> Label] /\ pc'[q] = l /\ \A r \in Queue \ {q} : pc'[r] = pc[r]
  BY <1>1, GotoIs DEF IInv
<1> QED BY <1>2 DEF IInv, BurstInv

LEMMA KeepTypes == ASSUME IInv, NEW q \in Queue, Keep(q) PROVE IInv'
<1>1. /\ pc[q] = "handle" /\ (Goto(q, "clone") \/ Goto(q, "input"))
      /\ cursor' = cursor \/ cursor' = [cursor EXCEPT ![q] = BroadcastFrom(q)]
      /\ UNCHANGED <<pool, nic, rxq, dring, kni, burst, fromRing, tx, stack, frames, arps, got>>
  BY DEF Keep, poolVars
<1>2. pc' \in [Queue -> Label] /\ BurstInv'
  BY <1>1, BusyGoto DEF Busy
<1>3. BroadcastFrom(q) \in 0 .. NbQueues
  BY PacketPathAssumption DEF BroadcastFrom
<1>4. cursor' \in [Queue -> 0 .. NbQueues]
  BY <1>1, <1>3 DEF IInv, Types
<1> QED BY <1>1, <1>2, <1>4 DEF IInv, Types, TablesHold

LEMMA ToKernelTypes == ASSUME IInv, NEW q \in Queue, ToKernel(q) PROVE IInv'
<1>1. /\ pc[q] = "handle" /\ NextPacket(q)
      /\ \/ kni' = Enqueue(kni, Current(q)) /\ pool' = PoolAfterEnqueue(kni, Current(q), pool)
         \/ kni' = kni /\ pool' = Freed(pool, <<Current(q)>>)
      /\ UNCHANGED <<nic, rxq, dring, fromRing, tx, stack, cursor, frames, arps, got>>
  BY Zenon DEF ToKernel
<1>2. pc[q] \in Busy /\ pool \in [Mbuf -> Nat] /\ kni \in Seq(Packet)
  BY <1>1 DEF Busy, IInv, Types
<1>3. Current(q) \in Packet /\ Advanced(q)
  BY <1>1, <1>2, BusyIs, NextPacketIs
<1>4. pool' \in [Mbuf -> Nat] /\ kni' \in Seq(Packet)
  BY <1>1, <1>2, <1>3, EnqueueIs, FreedOne
<1> QED BY <1>1, <1>3, <1>4 DEF IInv, Types, TablesHold, Advanced

(* A clone of the current packet. *)
LEMMA CloneIs ==
  ASSUME IInv, NEW q \in Queue, pc[q] \in Busy, NEW c \in Clones(q)
  PROVE  /\ [Current(q) EXCEPT !.segs = c] \in Packet /\ Without(pool, c) \in [Mbuf -> Nat]
         /\ [Current(q) EXCEPT !.segs = c].id = Current(q).id
         /\ \A m \in Mbuf : Without(pool, c)[m] + One([Current(q) EXCEPT !.segs = c], With(m)) = pool[m]
<1>1. Current(q) \in Packet /\ c \in Allocs(pool) /\ pool \in [Mbuf -> Nat]
  BY BusyIs DEF Clones, IInv, Types
<1>2. Current(q).id \in 0 .. MaxFrames /\ [Current(q) EXCEPT !.segs = c] = [segs |-> c, id |-> Current(q).id]
  BY <1>1 DEF Packet
<1> QED BY <1>1, <1>2, AllocIs

LEMMA CloneToTypes == ASSUME IInv, NEW q \in Queue, CloneTo(q) PROVE IInv'
<1> DEFINE j == cursor[q]
<1>1. /\ pc[q] = "clone" /\ j < NbQueues /\ cursor' = [cursor EXCEPT ![q] = j + 1]
      /\ UNCHANGED <<nic, rxq, kni, burst, fromRing, tx, stack, pc, frames, arps, got>>
  BY Zenon DEF CloneTo
<1>2. pc[q] \in Busy /\ j \in Queue /\ j + 1 \in 0 .. NbQueues
  BY <1>1, PacketPathAssumption DEF Busy, IInv, Types, Queue
<1>3. cursor' \in [Queue -> 0 .. NbQueues]
  BY <1>1, <1>2 DEF IInv, Types
<1>4. pool' \in [Mbuf -> Nat] /\ dring' \in Family /\ \A r \in Queue : Len(dring'[r]) <= RingSize
  <2>1. CASE UNCHANGED <<pool, dring>>
    BY <2>1 DEF IInv, Types, TablesHold
  <2>2. CASE \E c \in Clones(q) :
             /\ dring' = [dring EXCEPT ![j] = Enqueue(@, [Current(q) EXCEPT !.segs = c])]
             /\ pool' = PoolAfterEnqueue(dring[j], [Current(q) EXCEPT !.segs = c], Without(pool, c))
    BY <1>2, <2>2, CloneIs, RingTypes
  <2> QED BY <2>1, <2>2 DEF CloneTo
<1> QED BY <1>1, <1>3, <1>4 DEF IInv, Types, BurstInv, TablesHold

LEMMA CloneToKernelTypes == ASSUME IInv, NEW q \in Queue, CloneToKernel(q) PROVE IInv'
<1>1. /\ pc[q] = "clone" /\ Goto(q, "input")
      /\ UNCHANGED <<nic, rxq, dring, burst, fromRing, tx, stack, cursor, frames, arps, got>>
  BY Zenon DEF CloneToKernel
<1>2. pc[q] \in Busy /\ "input" \in Busy
  BY <1>1 DEF Busy
<1>3. pc' \in [Queue -> Label] /\ BurstInv'
  BY <1>1, <1>2, BusyGoto
<1>4. pool' \in [Mbuf -> Nat] /\ kni' \in Seq(Packet)
  <2>1. CASE UNCHANGED <<pool, kni>>
    BY <2>1 DEF IInv, Types
  <2>2. CASE \E c \in Clones(q) :
             /\ kni' = Enqueue(kni, [Current(q) EXCEPT !.segs = c])
             /\ pool' = PoolAfterEnqueue(kni, [Current(q) EXCEPT !.segs = c], Without(pool, c))
    <3>1. kni \in Seq(Packet) BY DEF IInv, Types
    <3> QED BY <1>2, <2>2, <3>1, CloneIs, EnqueueIs
  <2> QED BY <2>1, <2>2 DEF CloneToKernel
<1> QED BY <1>1, <1>3, <1>4 DEF IInv, Types, TablesHold

LEMMA InputTypes == ASSUME IInv, NEW q \in Queue, Input(q) PROVE IInv'
<1>1. /\ pc[q] = "input" /\ NextPacket(q) /\ stack' = [stack EXCEPT ![q] = @ \cup {Current(q)}]
      /\ got' = [got EXCEPT ![q][Current(q).id] = @ + 1]
      /\ UNCHANGED <<pool, nic, rxq, dring, kni, fromRing, tx, cursor, frames, arps>>
  BY Zenon DEF Input, poolVars
<1>2. pc[q] \in Busy
  BY <1>1 DEF Busy
<1>3. Current(q) \in Packet /\ Advanced(q)
  BY <1>1, <1>2, BusyIs, NextPacketIs
<1>4. /\ stack' \in [Queue -> SUBSET Packet] /\ stack'[q] = stack[q] \union {Current(q)}
      /\ \A r \in Queue \ {q} : stack'[r] = stack[r]
  BY <1>1, <1>3 DEF IInv, Types
<1>5. \A r \in Queue : IsFiniteSet(stack'[r])
  <2>1. \A r \in Queue : IsFiniteSet(stack[r])
    BY DEF IInv, Types
  <2>2. IsFiniteSet(stack'[q])
    BY <1>4, <2>1, FS_AddElement
  <2> QED BY <1>4, <2>1, <2>2
<1>6. got' \in [Queue \union {Kernel} -> [1 .. MaxFrames -> Nat]]
  <2> DEFINE g == [got[q] EXCEPT ![Current(q).id] = @ + 1]
  <2>1. got \in [Queue \union {Kernel} -> [1 .. MaxFrames -> Nat]]
    BY DEF IInv, Types
  <2>2. g \in [1 .. MaxFrames -> Nat]
    <3> DEFINE h == got[q]
               n == Current(q).id
    <3>1. h \in [1 .. MaxFrames -> Nat]
      BY <2>1
    <3> HIDE DEF h, n
    <3>2. CASE n \in 1 .. MaxFrames
      <4>1. h[n] + 1 \in Nat BY <3>1, <3>2
      <4> QED BY <3>1, <4>1 DEF h, n
    <3>3. CASE n \notin 1 .. MaxFrames
      <4>1. [h EXCEPT ![n] = @ + 1] = h BY <3>1, <3>3
      <4> QED BY <3>1, <4>1 DEF h, n
    <3> QED BY <3>2, <3>3
  <2>3. got' = [got EXCEPT ![q] = g]
    BY <1>1
  <2> HIDE DEF g
  <2> QED BY <2>1, <2>2, <2>3
<1> QED BY <1>1, <1>3, <1>4, <1>5, <1>6 DEF IInv, Types, TablesHold, Advanced

LEMMA InputPartialTypes == ASSUME IInv, NEW q \in Queue, InputPartial(q) PROVE IInv'
<1> DEFINE s == Current(q).segs
<1>1. /\ pc[q] = "input" /\ NextPacket(q)
      /\ UNCHANGED <<nic, rxq, dring, kni, fromRing, tx, stack, cursor, frames, arps, got>>
  BY Zenon DEF InputPartial
<1>2. PICK k \in DOMAIN s \ {1} :
        pool' = [m \in Mbuf |-> pool[m] + Cardinality({i \in 1 .. k - 1 : s[i] = m})
                                        + (IF s[1] = m THEN 1 ELSE 0)]
  BY Zenon DEF InputPartial
<1>3. pc[q] \in Busy
  BY <1>1 DEF Busy
<1>4. Current(q) \in Packet /\ Advanced(q)
  BY <1>1, <1>3, BusyIs, NextPacketIs
<1>5. k \in Nat
  BY <1>4 DEF Packet, Chain
<1> HIDE DEF s
<1>6. ASSUME NEW m \in Mbuf
      PROVE  pool[m] + Cardinality({i \in 1 .. k - 1 : s[i] = m}) + (IF s[1] = m THEN 1 ELSE 0) \in Nat
  <2> DEFINE h == k - 1
  <2>0. h \in Int BY <1>5
  <2> HIDE DEF h
  <2>a. IsFiniteSet(1 .. h) /\ {i \in 1 .. h : s[i] = m} \in SUBSET (1 .. h)
    BY <2>0, FS_Interval
  <2>1. IsFiniteSet(1 .. k - 1) /\ {i \in 1 .. k - 1 : s[i] = m} \in SUBSET (1 .. k - 1)
    BY <2>a DEF h
  <2>2. Cardinality({i \in 1 .. k - 1 : s[i] = m}) \in Nat
    BY <2>1, FS_Subset, FS_CardinalityType
  <2>3. pool[m] \in Nat
    BY DEF IInv, Types
  <2> QED BY <2>2, <2>3
<1>7. pool' \in [Mbuf -> Nat]
  BY <1>2, <1>6
<1> QED BY <1>1, <1>4, <1>7 DEF IInv, Types, TablesHold, Advanced

-----------------------------------------------------------------------------
LEMMA InitHolds == ASSUME Init PROVE IInv
<1>1. frames \in 0 .. MaxFrames
  BY PacketPathAssumption DEF Init
<1>2. cursor \in [Queue -> 0 .. NbQueues]
  BY PacketPathAssumption DEF Init
<1>3. \A q \in Queue : IsFiniteSet(stack[q])
  BY FS_EmptySet DEF Init
<1>4. Types
  BY <1>1, <1>2, <1>3, FS_EmptySet DEF Init, Types, Family, Label
<1>5. BurstInv
  BY DEF Init, BurstInv, Busy
<1>6. TablesHold
  BY PacketPathAssumption DEF Init, TablesHold
<1> QED BY <1>4, <1>5, <1>6 DEF IInv

LEMMA NextKeeps == ASSUME IInv, [Next]_vars PROVE IInv'
<1>1. CASE UNCHANGED vars
  BY <1>1 DEF vars, poolVars, procVars, IInv, Types, BurstInv, TablesHold
<1>2. ASSUME NEW q \in Queue, Handle(q) PROVE IInv'
  BY <1>2, RespondTypes, DropTypes, ForwardTypes, KeepTypes, ToKernelTypes, CloneToTypes, CloneToKernelTypes,
     InputTypes, InputPartialTypes DEF Handle
<1>3. ASSUME NEW q \in Queue, Loop(q) PROVE IInv'
  BY <1>2, <1>3, DrainTypes, PassTypes, KniTxTypes, KniRxTypes, RingBurstTypes, RxBurstTypes DEF Loop
<1> QED BY <1>1, <1>3, TxDoneTypes, ReceiveTypes, PassTypes, StackSendTypes, StackFreeTypes DEF Next

LEMMA IInvTypeOK == ASSUME IInv PROVE TypeOK
BY DEF IInv, Types, BurstInv, TypeOK, Family, Label, Busy

LEMMA IInvHolds == Spec => []IInv
<1>1. Init => IInv
  BY InitHolds
<1>2. IInv /\ [Next]_vars => IInv'
  BY NextKeeps
<1> QED BY <1>1, <1>2, PTL DEF Spec

(* Type correctness of the pool, the queues, the rings, the tables and the *)
(* loops of all processes.                                                 *)
THEOREM TypesHold == Spec => []TypeOK
<1>1. IInv => TypeOK
  BY IInvTypeOK
<1> QED BY <1>1, IInvHolds, PTL

(* The mbuf tables of main_loop and of qconf->tx_mbufs, of MAX_PKT_BURST    *)
(* entries, are never written past their end, and a dispatch ring never     *)
(* holds more than its size: send_single_packet flushes a full batch before *)
(* it returns, and a burst is taken only when the last one is handled.      *)
THEOREM TablesAlwaysHold == Spec => []TablesHold
<1>1. IInv => TablesHold
  BY DEF IInv
<1> QED BY <1>1, IInvHolds, PTL

-----------------------------------------------------------------------------
(* Owners of an mbuf. *)
K(A, X) == Cardinality(A \intersect X)
S(st, X) == Sum([q \in Queue |-> st[q] \intersect X])

(* The mbuf m on its way in; in the pool or on its way out; with a stack. *)
Inside(m)  == M(rxq, With(m)) + M(dring, With(m)) + M(burst, With(m)) + N(kni, With(m))
Outside(m) == pool[m] + M(tx, With(m)) + K(nic, With(m))
Above(m)   == S(stack, With(m))

Own(m) == Inside(m) + Outside(m) + Above(m)

LEMMA PlacesAre ==
  ASSUME NEW f \in Family, NEW m PROVE Cardinality(Places(m, f)) = M(f, With(m))
<1> DEFINE A == [q \in Queue |-> In(f[q], With(m))]
<1>1. \A q \in Queue : A[q] = {i \in DOMAIN f[q] : m \in Mbufs(f[q][i])}
  BY DEF Family, In, With
<1>2. UNION {{q} \X A[q] : q \in Queue} = Places(m, f)
  BY <1>1 DEF Places
<1> QED BY <1>2 DEF M, Sum

(* Every term of the sum is a number. *)
LEMMA KNat == ASSUME NEW A, IsFiniteSet(A), NEW X PROVE IsFiniteSet(A \intersect X) /\ K(A, X) \in Nat
<1>1. A \intersect X \in SUBSET A
  OBVIOUS
<1> QED BY <1>1, FS_Subset, FS_CardinalityType DEF K

Finites == {A \in SUBSET Packet : IsFiniteSet(A)}

LEMMA SSet ==
  ASSUME NEW st \in [Queue -> Finites], NEW q \in Queue, NEW A \in Finites, NEW X
  PROVE  /\ S(st, X) \in Nat /\ S([st EXCEPT ![q] = A], X) \in Nat /\ K(st[q], X) \in Nat /\ K(A, X) \in Nat
         /\ K(st[q], X) <= S(st, X)
         /\ S([st EXCEPT ![q] = A], X) + K(st[q], X) = S(st, X) + K(A, X)
<1> DEFINE g == [st EXCEPT ![q] = A]
           U == [r \in Queue |-> st[r] \intersect X]
           V == [r \in Queue |-> g[r] \intersect X]
<1>1. g \in [Queue -> Finites] /\ g[q] = A /\ \A r \in Queue \ {q} : g[r] = st[r]
  OBVIOUS
<1> HIDE DEF g
<1>2. \A r \in Queue : IsFiniteSet(st[r]) /\ IsFiniteSet(g[r])
  BY <1>1 DEF Finites
<1>3. \A r \in Queue : U[r] = st[r] \intersect X /\ V[r] = g[r] \intersect X
  OBVIOUS
<1>4. \A r \in Queue : IsFiniteSet(U[r]) /\ IsFiniteSet(V[r])
  BY <1>2, <1>3, KNat
<1>5. \A r \in Queue \ {q} : V[r] = U[r]
  BY <1>1, <1>3
<1> HIDE DEF U, V
<1>6. /\ Sum(U) \in Nat /\ Sum(V) \in Nat
      /\ Cardinality(U[q]) \in Nat /\ Cardinality(V[q]) \in Nat
      /\ Cardinality(U[q]) <= Sum(U) /\ Cardinality(V[q]) <= Sum(V)
      /\ Sum(V) - Cardinality(V[q]) = Sum(U) - Cardinality(U[q])
  BY <1>4, <1>5, SumUpdate
<1>7. Cardinality(U[q]) = K(st[q], X) /\ Cardinality(V[q]) = K(A, X)
  BY <1>1, <1>3 DEF K
<1>8. Sum(U) = S(st, X) /\ Sum(V) = S(g, X)
  BY DEF S, U, V
<1> QED BY <1>6, <1>7, <1>8 DEF g

LEMMA MSet ==
  ASSUME NEW f \in Family, NEW q \in Queue, NEW s \in Seq(Packet), NEW X
  PROVE  /\ M(f, X) \in Nat /\ M([f EXCEPT ![q] = s], X) \in Nat /\ N(f[q], X) \in Nat /\ N(s, X) \in Nat
         /\ N(f[q], X) <= M(f, X)
         /\ M([f EXCEPT ![q] = s], X) + N(f[q], X) = M(f, X) + N(s, X)
<1> DEFINE g == [f EXCEPT ![q] = s]
<1>1. g \in Family /\ g[q] = s /\ \A r \in Queue \ {q} : g[r] = f[r]
  BY DEF Family
<1> HIDE DEF g
<1>2. /\ M(f, X) \in Nat /\ M(g, X) \in Nat /\ N(f[q], X) \in Nat /\ N(g[q], X) \in Nat
      /\ N(f[q], X) <= M(f, X)
      /\ M(g, X) - N(g[q], X) = M(f, X) - N(f[q], X)
  BY <1>1, FamilyUpdate
<1> QED BY <1>1, <1>2 DEF g

LEMMA OwnNat ==
  ASSUME IInv, NEW m \in Mbuf
  PROVE  /\ pool[m] \in Nat /\ M(rxq, With(m)) \in Nat /\ M(dring, With(m)) \in Nat
         /\ M(burst, With(m)) \in Nat /\ M(tx, With(m)) \in Nat /\ N(kni, With(m)) \in Nat
         /\ K(nic, With(m)) \in Nat /\ S(stack, With(m)) \in Nat
         /\ stack \in [Queue -> Finites] /\ Inside(m) \in Nat /\ Outside(m) \in Nat /\ Above(m) \in Nat
<1>1. /\ pool[m] \in Nat /\ rxq \in Family /\ dring \in Family /\ burst \in Family /\ tx \in Family
      /\ kni \in Seq(Packet) /\ IsFiniteSet(nic) /\ stack \in [Queue -> Finites]
  BY DEF IInv, Types, Finites
<1>2. PICK q \in Queue : TRUE
  BY PacketPathAssumption DEF Queue
<1>3. stack[q] \in Finites
  BY <1>1
<1>4. S(stack, With(m)) \in Nat
  BY <1>1, <1>3, SSet
<1>5. /\ M(rxq, With(m)) \in Nat /\ M(dring, With(m)) \in Nat
      /\ M(burst, With(m)) \in Nat /\ M(tx, With(m)) \in Nat /\ N(kni, With(m)) \in Nat /\ K(nic, With(m)) \in Nat
  BY <1>1, MNat, KNat, InFinite
<1>6. Inside(m) \in Nat
  BY <1>5 DEF Inside
<1>7. Outside(m) \in Nat
  BY <1>1, <1>5 DEF Outside
<1>8. Above(m) \in Nat
  BY <1>4 DEF Above
<1> QED BY <1>1, <1>4, <1>5, <1>6, <1>7, <1>8

LEMMA ConservedIs == ASSUME IInv PROVE Conserved <=> \A m \in Mbuf : Own(m) = 1
<1>1. /\ rxq \in Family /\ dring \in Family /\ burst \in Family /\ tx \in Family /\ kni \in Seq(Packet)
      /\ nic \subseteq Packet /\ stack \in [Queue -> SUBSET Packet]
  BY DEF IInv, Types
<1>2. ASSUME NEW m \in Mbuf
      PROVE  Own(m) = pool[m] + Cardinality(Places(m, rxq)) + Cardinality(Places(m, dring))
            + Cardinality(Places(m, burst)) + Cardinality(Places(m, tx))
            + Count(m, kni) + Cardinality({p \in nic : m \in Mbufs(p)})
            + Cardinality(UNION {{q} \X {p \in stack[q] : m \in Mbufs(p)} : q \in Queue})
  <2>1. Count(m, kni) = N(kni, With(m))
    BY <1>1, CountIs
  <2>2. {p \in nic : m \in Mbufs(p)} = nic \intersect With(m)
    BY <1>1 DEF With
  <2>3. UNION {{q} \X {p \in stack[q] : m \in Mbufs(p)} : q \in Queue}
          = UNION {{q} \X [r \in Queue |-> stack[r] \intersect With(m)][q] : q \in Queue}
    <3>1. \A q \in Queue : {p \in stack[q] : m \in Mbufs(p)} = [r \in Queue |-> stack[r] \intersect With(m)][q]
      BY <1>1 DEF With
    <3> QED BY <3>1
  <2>4. Own(m) = (M(rxq, With(m)) + M(dring, With(m)) + M(burst, With(m)) + Count(m, kni))
          + (pool[m] + M(tx, With(m)) + Cardinality({p \in nic : m \in Mbufs(p)}))
          + Cardinality(UNION {{q} \X {p \in stack[q] : m \in Mbufs(p)} : q \in Queue})
    BY <2>1, <2>2, <2>3 DEF Own, Inside, Outside, Above, K, S, Sum
  <2> DEFINE a == pool[m]  b == M(rxq, With(m))  c == M(dring, With(m))  d == M(burst, With(m))
             e == M(tx, With(m))  f == Count(m, kni)  g == Cardinality({p \in nic : m \in Mbufs(p)})
             h == Cardinality(UNION {{q} \X {p \in stack[q] : m \in Mbufs(p)} : q \in Queue})
  <2>5. a \in Nat /\ b \in Nat /\ c \in Nat /\ d \in Nat /\ e \in Nat /\ f \in Nat /\ g \in Nat /\ h \in Nat
    BY <2>1, <2>2, <2>3, OwnNat DEF K, S, Sum
  <2>6. (b + c + d + f) + (a + e + g) + h = a + b + c + d + e + f + g + h
    <3> HIDE DEF a, b, c, d, e, f, g, h
    <3> QED BY <2>5
  <2> QED BY <1>1, <2>4, <2>6, PlacesAre
<1> QED BY <1>2 DEF Conserved

LEMMA OneNat == ASSUME NEW p, NEW X PROVE One(p, X) \in Nat
BY DEF One

(* A device takes what it accepts; the rest is freed. *)
LEMMA TransmitOwns ==
  ASSUME Types, NEW s \in Seq(Packet), NEW r \in 0 .. Len(s), NEW pl \in [Mbuf -> Nat], Transmit(s, r, pl),
         NEW m \in Mbuf, N(s, With(m)) + K(nic, With(m)) <= 1
  PROVE  pool'[m] + K(nic', With(m)) = pl[m] + N(s, With(m)) + K(nic, With(m))
<1> DEFINE w == With(m)
           u == SubSeq(s, 1, r)
           v == SubSeq(s, r + 1, Len(s))
           T == {s[i] : i \in 1 .. r}
<1>1. u \in Seq(Packet) /\ v \in Seq(Packet) /\ N(u, w) + N(v, w) = N(s, w)
  BY NSplit
<1>2. N(u, w) \in Nat /\ N(v, w) \in Nat /\ N(s, w) \in Nat /\ IsFiniteSet(In(u, w))
  BY <1>1, InFinite
<1>3. nic' = nic \union T
  BY DEF Transmit
<1>4. pool'[m] = pl[m] + N(v, w)
  BY TransmitTypes
<1>5. IsFiniteSet(nic) /\ IsFiniteSet(nic \intersect w) /\ K(nic, w) \in Nat /\ pl[m] \in Nat
  BY KNat DEF Types
<1>6. Len(u) = r /\ \A i \in 1 .. r : u[i] = s[i]
  OBVIOUS
<1>7. N(s, w) + K(nic, w) <= 1
  OBVIOUS
<1>8. \A i : i \in In(u, w) <=> i \in 1 .. r /\ s[i] \in w
  <2> HIDE DEF u, w
  <2> QED BY <1>1, <1>6 DEF In
<1>9. nic' \intersect w = (nic \intersect w) \union (T \intersect w)
  BY <1>3
<1>10. K(nic', w) = K(nic, w) + N(u, w)
  <2> HIDE DEF w, u, v
  <2>1. CASE N(u, w) = 0
    <3>1. In(u, w) = {} BY <1>2, <2>1, FS_EmptySet DEF N
    <3>2. T \intersect w = {} BY <1>8, <3>1
    <3>3. nic' \intersect w = nic \intersect w BY <1>9, <3>2
    <3>4. K(nic', w) = K(nic, w) BY <3>3 DEF K
    <3> QED BY <1>5, <2>1, <3>4
  <2>2. CASE N(u, w) # 0
    <3>1. N(u, w) = 1 /\ K(nic, w) = 0 BY <1>1, <1>2, <1>5, <1>7, <2>2
    <3>2. nic \intersect w = {} BY <1>5, <3>1, FS_EmptySet DEF K
    <3>3. PICK i : In(u, w) = {i} BY <1>2, <3>1, FS_Singleton DEF N
    <3>4. T \intersect w = {s[i]} BY <1>8, <3>3
    <3>5. nic' \intersect w = {s[i]} BY <1>9, <3>2, <3>4
    <3>6. K(nic', w) = 1 BY <3>5, FS_Singleton DEF K
    <3> QED BY <3>1, <3>6
  <2> QED BY <2>1, <2>2
<1> HIDE DEF w, u, v
<1>11. pool'[m] + K(nic', w) = pl[m] + N(s, w) + K(nic, w)
  BY <1>1, <1>2, <1>4, <1>5, <1>10
<1> QED BY <1>11 DEF w

LEMMA SendOwns ==
  ASSUME IInv, NEW q \in Queue, NEW p \in Packet, NEW pl \in [Mbuf -> Nat], SendSingle(q, p, pl),
         NEW m \in Mbuf, N(tx[q], With(m)) + One(p, With(m)) + K(nic, With(m)) <= 1
  PROVE  /\ M(tx', With(m)) \in Nat /\ K(nic', With(m)) \in Nat /\ pool'[m] \in Nat
         /\ pool'[m] + M(tx', With(m)) + K(nic', With(m))
              = pl[m] + M(tx, With(m)) + One(p, With(m)) + K(nic, With(m))
<1> DEFINE b == Append(tx[q], p)
           w == With(m)
<1>1. tx \in Family /\ tx[q] \in Seq(Packet) /\ b \in Seq(Packet) /\ <<>> \in Seq(Packet)
  BY DEF IInv, Types, Family
<1>2. N(b, w) = N(tx[q], w) + One(p, w) /\ N(<<>>, w) = 0
  BY <1>1, NAppend, NEmpty
<1>3. /\ K(nic, w) \in Nat /\ M(tx, w) \in Nat /\ N(tx[q], w) \in Nat /\ One(p, w) \in Nat /\ pl[m] \in Nat
  BY <1>1, OwnNat, InFinite, OneNat
<1>4. DevTypes' /\ tx' \in Family
  BY SendTypes DEF TxTypes
<1>5. pool'[m] \in Nat /\ K(nic', w) \in Nat /\ M(tx', w) \in Nat
  BY <1>4, KNat, MNat DEF DevTypes
<1>6. N(tx[q], w) + One(p, w) + K(nic, w) <= 1
  OBVIOUS
<1> HIDE DEF w
<1>7. CASE Flush(Len(b))
  <2>1. PICK r \in 0 .. Len(b) : Transmit(b, r, pl)
    BY <1>7 DEF SendSingle
  <2>2. tx' = [tx EXCEPT ![q] = <<>>]
    BY <1>7 DEF SendSingle
  <2> HIDE DEF b
  <2>3. N(b, w) + K(nic, w) <= 1
    BY <1>2, <1>3, <1>6
  <2>4. pool'[m] + K(nic', w) = pl[m] + N(b, w) + K(nic, w)
    BY <1>1, <2>1, <2>3, TransmitOwns DEF IInv, w
  <2>5. M(tx', w) + N(tx[q], w) = M(tx, w) + N(<<>>, w)
    BY <1>1, <2>2, MSet
  <2>6. pool'[m] + M(tx', w) + K(nic', w) = pl[m] + M(tx, w) + One(p, w) + K(nic, w)
    <3>1. M(tx', w) + N(tx[q], w) = M(tx, w)
      BY <1>2, <1>3, <2>5
    <3>2. pool'[m] + K(nic', w) = pl[m] + (N(tx[q], w) + One(p, w)) + K(nic, w)
      BY <1>2, <2>4
    <3>3. M(tx, w) = M(tx', w) + N(tx[q], w)
      BY <3>1
    <3>4. pl[m] + M(tx, w) + One(p, w) + K(nic, w) = (pl[m] + (N(tx[q], w) + One(p, w)) + K(nic, w)) + M(tx', w)
      BY <1>3, <1>5, <3>3
    <3>5. pl[m] + M(tx, w) + One(p, w) + K(nic, w) = (pool'[m] + K(nic', w)) + M(tx', w)
      BY <3>2, <3>4
    <3> QED BY <1>5, <3>5
  <2> QED BY <1>5, <2>6 DEF w
<1>8. CASE ~Flush(Len(b))
  <2>1. pool' = pl /\ nic' = nic /\ tx' = [tx EXCEPT ![q] = b]
    BY <1>8 DEF SendSingle
  <2> HIDE DEF b
  <2>2. M(tx', w) + N(tx[q], w) = M(tx, w) + N(b, w)
    BY <1>1, <2>1, MSet
  <2>3. pool'[m] + M(tx', w) + K(nic', w) = pl[m] + M(tx, w) + One(p, w) + K(nic, w)
    <3>1. M(tx', w) + N(tx[q], w) = M(tx, w) + (N(tx[q], w) + One(p, w))
      BY <1>2, <2>2
    <3>2. M(tx', w) = M(tx, w) + One(p, w)
      BY <1>3, <1>5, <3>1
    <3>3. pool'[m] = pl[m] /\ K(nic', w) = K(nic, w)
      BY <2>1
    <3> QED BY <1>3, <1>5, <3>2, <3>3
  <2> QED BY <1>5, <2>3 DEF w
<1> QED BY <1>7, <1>8

LEMMA KRemove ==
  ASSUME NEW A, IsFiniteSet(A), NEW p \in A, NEW X
  PROVE  K(A, X) = K(A \ {p}, X) + One(p, X) /\ K(A \ {p}, X) \in Nat
<1>1. IsFiniteSet(A \intersect X) /\ K(A, X) \in Nat
  BY KNat
<1>2. CASE p \in X
  <2>1. (A \ {p}) \intersect X = (A \intersect X) \ {p} /\ p \in A \intersect X
    BY <1>2
  <2>2. Cardinality((A \intersect X) \ {p}) = Cardinality(A \intersect X) - 1
    BY <1>1, <2>1, FS_RemoveElement
  <2>3. IsFiniteSet((A \intersect X) \ {p})
    BY <1>1, FS_RemoveElement
  <2>4. K(A \ {p}, X) = K(A, X) - 1 /\ K(A \ {p}, X) \in Nat
    BY <2>1, <2>2, <2>3, FS_CardinalityType DEF K
  <2>5. One(p, X) = 1
    BY <1>2 DEF One
  <2> QED BY <1>1, <2>4, <2>5
<1>3. CASE p \notin X
  <2>1. (A \ {p}) \intersect X = A \intersect X
    BY <1>3
  <2>2. K(A \ {p}, X) = K(A, X)
    BY <2>1 DEF K
  <2> QED BY <1>1, <1>3, <2>2 DEF One
<1> QED BY <1>2, <1>3

LEMMA KAdd ==
  ASSUME NEW A, IsFiniteSet(A), NEW p, p \notin A, NEW X
  PROVE  K(A \union {p}, X) = K(A, X) + One(p, X) /\ K(A \union {p}, X) \in Nat
<1>1. IsFiniteSet(A \union {p}) /\ (A \union {p}) \ {p} = A
  BY FS_AddElement
<1>2. p \in A \union {p}
  OBVIOUS
<1> DEFINE B == A \union {p}
<1>3. IsFiniteSet(B) /\ p \in B /\ B \ {p} = A
  BY <1>1, <1>2
<1> HIDE DEF B
<1>4. K(B, X) = K(B \ {p}, X) + One(p, X)
  BY <1>3, KRemove
<1>5. K(B, X) \in Nat
  BY <1>3, KNat
<1> QED BY <1>3, <1>4, <1>5 DEF B

(* What an mbuf with one owner is not in. *)
LEMMA OwnedOnce ==
  ASSUME IInv, NEW m \in Mbuf, Own(m) = 1
  PROVE  /\ pool[m] + M(tx, With(m)) + K(nic, With(m)) <= 1 /\ M(burst, With(m)) + M(tx, With(m)) + K(nic, With(m)) <= 1
         /\ N(kni, With(m)) + K(nic, With(m)) <= 1 /\ M(burst, With(m)) + S(stack, With(m)) <= 1
<1>1. Inside(m) \in Nat /\ Outside(m) \in Nat /\ Above(m) \in Nat
  BY OwnNat
<1>2. Inside(m) <= 1 /\ Outside(m) <= 1 /\ Inside(m) + Outside(m) <= 1 /\ Inside(m) + Above(m) <= 1
  BY <1>1 DEF Own
<1>3. M(burst, With(m)) <= Inside(m) /\ N(kni, With(m)) <= Inside(m)
  BY OwnNat DEF Inside
<1>4. M(tx, With(m)) + K(nic, With(m)) <= Outside(m) /\ K(nic, With(m)) <= Outside(m)
  BY OwnNat DEF Outside
<1>5. M(tx, With(m)) + K(nic, With(m)) \in Nat
  BY OwnNat
<1>6. pool[m] + M(tx, With(m)) + K(nic, With(m)) <= 1
  BY <1>2 DEF Outside
<1>7. M(burst, With(m)) + (M(tx, With(m)) + K(nic, With(m))) <= 1
  BY <1>1, <1>2, <1>3, <1>4, <1>5, OwnNat
<1>8. M(burst, With(m)) + M(tx, With(m)) + K(nic, With(m)) <= 1
  BY <1>7, OwnNat
<1>9. N(kni, With(m)) + K(nic, With(m)) <= 1
  BY <1>1, <1>2, <1>3, <1>4, OwnNat
<1>10. M(burst, With(m)) + S(stack, With(m)) <= 1
  BY <1>1, <1>2, <1>3, OwnNat DEF Above
<1> QED BY <1>6, <1>8, <1>9, <1>10

-----------------------------------------------------------------------------
(* Each step keeps the number of owners of each mbuf. *)
Kept(m) == Own(m)' = 1

LEMMA ReceiveOwns == ASSUME IInv, NEW q \in Queue, Receive(q), NEW m \in Mbuf, Own(m) = 1 PROVE Kept(m)
<1> DEFINE w == With(m)
<1>1. UNCHANGED <<nic, dring, kni, burst, tx, stack>> /\ frames < MaxFrames
  BY Zenon DEF Receive, procVars
<1>2. PICK c \in Allocs(pool) :
        /\ pool' = Without(pool, c)
        /\ rxq' = [rxq EXCEPT ![q] = Append(@, [segs |-> c, id |-> frames + 1])]
  BY DEF Receive
<1> DEFINE p == [segs |-> c, id |-> frames + 1]
<1>3. pool \in [Mbuf -> Nat] /\ rxq \in Family /\ rxq[q] \in Seq(Packet) /\ frames + 1 \in 0 .. MaxFrames
  BY <1>1, PacketPathAssumption DEF IInv, Types, Family
<1>4. p \in Packet /\ pool' \in [Mbuf -> Nat] /\ pool'[m] + One(p, w) = pool[m]
  BY <1>2, <1>3, AllocIs
<1>5. rxq' = [rxq EXCEPT ![q] = Append(rxq[q], p)]
  BY <1>2
<1> HIDE DEF p, w
<1>6. N(Append(rxq[q], p), w) = N(rxq[q], w) + One(p, w) /\ Append(rxq[q], p) \in Seq(Packet)
  BY <1>3, <1>4, NAppend
<1>7. /\ M(rxq', w) + N(rxq[q], w) = M(rxq, w) + N(Append(rxq[q], p), w)
      /\ N(rxq[q], w) \in Nat /\ M(rxq', w) \in Nat /\ M(rxq, w) \in Nat
  BY <1>3, <1>5, <1>6, MSet
<1>8. M(rxq', w) = M(rxq, w) + One(p, w) /\ One(p, w) \in Nat
  BY <1>6, <1>7, OneNat
<1>9. Inside(m)' = Inside(m) + One(p, w)
  BY <1>1, <1>7, <1>8, OwnNat DEF Inside, w
<1>10. Outside(m)' + One(p, w) = Outside(m) /\ Outside(m)' \in Nat
  <2>1. pool[m] \in Nat /\ pool'[m] \in Nat /\ M(tx, w) \in Nat /\ K(nic, w) \in Nat
    BY <1>3, <1>4, OwnNat DEF w
  <2>2. pool'[m] + M(tx, w) + K(nic, w) + One(p, w) = (pool'[m] + One(p, w)) + M(tx, w) + K(nic, w)
    BY <1>8, <2>1
  <2>3. pool'[m] + M(tx, w) + K(nic, w) \in Nat
    BY <2>1
  <2> QED BY <1>1, <1>4, <2>2, <2>3 DEF Outside, w
<1> QED BY <1>1, <1>8, <1>9, <1>10, OwnNat DEF Own, Above, Kept

LEMMA TxDoneOwns == ASSUME IInv, TxDone, NEW m \in Mbuf, Own(m) = 1 PROVE Kept(m)
<1> DEFINE w == With(m)
<1>1. UNCHANGED <<rxq, dring, kni, burst, tx, stack>>
  BY Zenon DEF TxDone, procVars
<1>2. PICK p \in nic : nic' = nic \ {p} /\ pool' = Freed(pool, <<p>>)
  BY DEF TxDone
<1>3. pool \in [Mbuf -> Nat] /\ p \in Packet /\ IsFiniteSet(nic)
  BY DEF IInv, Types
<1>4. pool'[m] = pool[m] + One(p, w) /\ One(p, w) \in Nat /\ pool[m] \in Nat
  BY <1>2, <1>3, FreedOne, OneNat
<1>5. K(nic, w) = K(nic', w) + One(p, w) /\ K(nic', w) \in Nat
  BY <1>2, <1>3, KRemove
<1> HIDE DEF w
<1>6. Outside(m)' = Outside(m)
  BY <1>1, <1>4, <1>5, OwnNat DEF Outside, w
<1> QED BY <1>1, <1>6 DEF Own, Inside, Above, Kept

LEMMA StackSendOwns == ASSUME IInv, NEW q \in Queue, StackSend(q), NEW m \in Mbuf, Own(m) = 1 PROVE Kept(m)
<1> DEFINE w == With(m)
<1>1. UNCHANGED <<rxq, dring, kni, burst, stack>>
  BY Zenon DEF StackSend
<1>2. PICK c \in Allocs(pool) : SendSingle(q, [segs |-> c, id |-> 0], Without(pool, c))
  BY DEF StackSend
<1> DEFINE p == [segs |-> c, id |-> 0]
           pl == Without(pool, c)
<1>3. p \in Packet /\ pl \in [Mbuf -> Nat] /\ pl[m] + One(p, w) = pool[m]
  BY AllocNew DEF IInv
<1>4. SendSingle(q, p, pl)
  BY <1>2
<1> HIDE DEF p, pl
<1>5. One(p, w) \in Nat /\ pl[m] \in Nat
  BY <1>3, OneNat
<1>6. tx \in Family /\ N(tx[q], w) \in Nat /\ N(tx[q], w) <= M(tx, w)
  BY MSet DEF IInv, Types, Family
<1>7. N(tx[q], w) + One(p, w) + K(nic, w) <= 1
  BY <1>3, <1>5, <1>6, OwnedOnce, OwnNat
<1>8. /\ M(tx', w) \in Nat /\ K(nic', w) \in Nat /\ pool'[m] \in Nat
      /\ pool'[m] + M(tx', w) + K(nic', w) = pl[m] + M(tx, w) + One(p, w) + K(nic, w)
  BY <1>3, <1>4, <1>7, SendOwns
<1> HIDE DEF w
<1>9. Outside(m)' = Outside(m)
  <2>1. pl[m] + M(tx, w) + One(p, w) + K(nic, w) = pool[m] + M(tx, w) + K(nic, w)
    BY <1>3, <1>5, OwnNat DEF w
  <2> QED BY <1>8, <2>1 DEF Outside, w
<1> QED BY <1>1, <1>9 DEF Own, Inside, Above, Kept

LEMMA StackFreeOwns == ASSUME IInv, NEW q \in Queue, StackFree(q), NEW m \in Mbuf, Own(m) = 1 PROVE Kept(m)
<1> DEFINE w == With(m)
<1>1. UNCHANGED <<nic, rxq, dring, kni, burst, tx>>
  BY Zenon DEF StackFree
<1>2. PICK p \in stack[q] : stack' = [stack EXCEPT ![q] = @ \ {p}] /\ pool' = Freed(pool, <<p>>)
  BY DEF StackFree
<1>3. pool \in [Mbuf -> Nat] /\ p \in Packet /\ IsFiniteSet(stack[q]) /\ stack[q] \subseteq Packet
  BY DEF IInv, Types
<1>4. pool'[m] = pool[m] + One(p, w) /\ One(p, w) \in Nat /\ pool[m] \in Nat
  BY <1>2, <1>3, FreedOne, OneNat
<1>5. K(stack[q], w) = K(stack[q] \ {p}, w) + One(p, w) /\ K(stack[q] \ {p}, w) \in Nat
  BY <1>3, KRemove
<1>6. stack[q] \ {p} \in Finites /\ stack \in [Queue -> Finites]
  BY <1>3, OwnNat, FS_RemoveElement DEF Finites
<1>7. stack' = [stack EXCEPT ![q] = stack[q] \ {p}]
  BY <1>2
<1>8. /\ S(stack, w) \in Nat /\ S(stack', w) \in Nat /\ K(stack[q], w) \in Nat
      /\ S(stack', w) + K(stack[q], w) = S(stack, w) + K(stack[q] \ {p}, w)
  BY <1>6, <1>7, SSet
<1> HIDE DEF w
<1>9. S(stack, w) = S(stack', w) + One(p, w)
  BY <1>4, <1>5, <1>8
<1>10. Outside(m)' = Outside(m) + One(p, w)
  BY <1>1, <1>4, OwnNat DEF Outside, w
<1>11. Above(m) = Above(m)' + One(p, w) /\ Above(m)' \in Nat
  BY <1>8, <1>9 DEF Above, w
<1>12. Inside(m)' = Inside(m)
  BY <1>1 DEF Inside
<1> QED BY <1>4, <1>10, <1>11, <1>12, OwnNat DEF Own, Kept

LEMMA DrainOwns == ASSUME IInv, NEW q \in Queue, Drain(q), NEW m \in Mbuf, Own(m) = 1 PROVE Kept(m)
<1> DEFINE w == With(m)
<1>1. tx' = [tx EXCEPT ![q] = <<>>] /\ UNCHANGED <<rxq, dring, kni, burst, stack>>
  BY Zenon DEF Drain
<1>2. PICK r \in 0 .. Len(tx[q]) : Transmit(tx[q], r, pool)
  BY Zenon DEF Drain
<1>3. Types /\ pool \in [Mbuf -> Nat] /\ tx \in Family /\ tx[q] \in Seq(Packet) /\ <<>> \in Seq(Packet)
  BY DEF IInv, Types, Family
<1>4. /\ M(tx, w) \in Nat /\ M(tx', w) \in Nat /\ N(tx[q], w) \in Nat /\ N(tx[q], w) <= M(tx, w)
      /\ M(tx', w) + N(tx[q], w) = M(tx, w) + N(<<>>, w)
  BY <1>1, <1>3, MSet
<1>5. M(tx', w) + N(tx[q], w) = M(tx, w)
  BY <1>4, NEmpty
<1>6. N(tx[q], w) + K(nic, w) <= 1
  <2> DEFINE c == pool[m]  t == M(tx, w)  k == K(nic, w)  n == N(tx[q], w)
  <2>1. c \in Nat /\ t \in Nat /\ k \in Nat
    BY OwnNat
  <2>2. n \in Nat /\ n <= t
    BY <1>4
  <2>3. c + t + k <= 1
    BY OwnedOnce
  <2> HIDE DEF c, t, k, n
  <2>4. n + k <= 1
    BY <2>1, <2>2, <2>3
  <2> QED BY <2>4 DEF k, n
<1>7. pool'[m] + K(nic', w) = pool[m] + N(tx[q], w) + K(nic, w)
  BY <1>2, <1>3, <1>6, TransmitOwns
<1>8. pool'[m] \in Nat /\ K(nic', w) \in Nat
  BY <1>2, <1>3, TransmitTypes, KNat
<1> HIDE DEF w
<1>9. pool[m] \in Nat /\ K(nic, w) \in Nat
  BY OwnNat DEF w
<1>10. Outside(m)' = Outside(m)
  <2>1. pool'[m] + M(tx', w) + K(nic', w) = (pool'[m] + K(nic', w)) + M(tx', w)
    BY <1>4, <1>8
  <2>2. (pool[m] + N(tx[q], w) + K(nic, w)) + M(tx', w) = pool[m] + M(tx, w) + K(nic, w)
    BY <1>4, <1>5, <1>9
  <2> QED BY <1>7, <2>1, <2>2 DEF Outside, w
<1> QED BY <1>1, <1>10 DEF Own, Inside, Above, Kept

LEMMA PassOwns ==
  ASSUME NEW q \in Queue, NoDrain(q) \/ Stop(q) \/ UserDone(q) \/ Keep(q), NEW m \in Mbuf, Own(m) = 1 PROVE Kept(m)
<1>1. UNCHANGED <<pool, nic, tx, rxq, dring, kni, burst, stack>>
  BY DEF NoDrain, Stop, UserDone, Keep, poolVars
<1> QED BY <1>1 DEF Own, Inside, Outside, Above, Kept

LEMMA KniTxOwns == ASSUME IInv, NEW q \in Queue, KniTx(q), NEW m \in Mbuf, Own(m) = 1 PROVE Kept(m)
<1> DEFINE w == With(m)
           s == First(kni)
<1>1. kni' = Rest(kni) /\ UNCHANGED <<rxq, dring, burst, tx, stack>>
  BY Zenon DEF KniTx
<1>2. PICK r \in 0 .. Len(s) : Transmit(s, r, pool)
  BY Zenon DEF KniTx
<1>3. Types /\ pool \in [Mbuf -> Nat] /\ kni \in Seq(Packet)
  BY DEF IInv, Types
<1>4. s \in Seq(Packet) /\ Rest(kni) \in Seq(Packet) /\ N(s, w) + N(Rest(kni), w) = N(kni, w)
  BY <1>3, TakenIs
<1> HIDE DEF s
<1>5. N(s, w) \in Nat /\ N(kni', w) \in Nat /\ N(s, w) + N(kni', w) = N(kni, w)
  BY <1>1, <1>4, InFinite
<1>6. N(s, w) + K(nic, w) <= 1
  <2>1. N(kni, w) + K(nic, w) <= 1 /\ N(kni, w) \in Nat /\ K(nic, w) \in Nat
    BY OwnedOnce, OwnNat
  <2> HIDE DEF w
  <2> QED BY <1>5, <2>1
<1>7. pool'[m] + K(nic', w) = pool[m] + N(s, w) + K(nic, w)
  BY <1>2, <1>3, <1>4, <1>6, TransmitOwns
<1>8. pool'[m] \in Nat /\ K(nic', w) \in Nat
  BY <1>2, <1>3, <1>4, TransmitTypes, KNat
<1> HIDE DEF w
<1>9. pool[m] \in Nat /\ K(nic, w) \in Nat
  BY OwnNat DEF w
<1>10. Outside(m)' = Outside(m) + N(s, w)
  <2>1. pool'[m] + M(tx, w) + K(nic', w) = (pool'[m] + K(nic', w)) + M(tx, w)
    BY <1>8, OwnNat DEF w
  <2>2. (pool[m] + N(s, w) + K(nic, w)) + M(tx, w) = (pool[m] + M(tx, w) + K(nic, w)) + N(s, w)
    <3>1. M(tx, w) \in Nat BY OwnNat DEF w
    <3> QED BY <1>5, <1>9, <3>1
  <2> QED BY <1>1, <1>7, <2>1, <2>2 DEF Outside, w
<1>11. Inside(m)' + N(s, w) = Inside(m) /\ Inside(m)' \in Nat
  <2> DEFINE a == M(rxq, w) + M(dring, w) + M(burst, w)
  <2>1. a \in Nat /\ Inside(m) = a + N(kni, w) /\ Inside(m)' = a + N(kni', w)
    BY <1>1, OwnNat DEF Inside, w
  <2> HIDE DEF a
  <2>2. (a + N(kni', w)) + N(s, w) = a + (N(s, w) + N(kni', w)) /\ a + N(kni', w) \in Nat
    BY <1>5, <2>1
  <2> QED BY <1>5, <2>1, <2>2
<1>12. Above(m)' = Above(m)
  BY <1>1 DEF Above
<1> QED
  <2> DEFINE i == Inside(m)  i1 == Inside(m)'  o == Outside(m)  u == Above(m)  n == N(s, w)
  <2>1. i \in Nat /\ i1 \in Nat /\ o \in Nat /\ u \in Nat /\ n \in Nat
    BY <1>5, <1>11, OwnNat
  <2>2. i + o + u = 1 /\ i1 + n = i
    BY <1>11 DEF Own
  <2>3. Own(m)' = i1 + (o + n) + u
    BY <1>10, <1>12 DEF Own
  <2> HIDE DEF i, i1, o, u, n
  <2>4. i1 + (o + n) + u = 1
    BY <2>1, <2>2
  <2> QED BY <2>3, <2>4 DEF Kept

LEMMA KniRxOwns == ASSUME IInv, NEW q \in Queue, KniRx(q), NEW m \in Mbuf, Own(m) = 1 PROVE Kept(m)
<1> DEFINE w == With(m)
<1>1. UNCHANGED <<rxq, dring, kni, burst, tx, stack>>
  BY Zenon DEF KniRx
<1>2. CASE UNCHANGED poolVars
  BY <1>1, <1>2 DEF poolVars, Own, Inside, Outside, Above, Kept
<1>3. CASE \E c \in Allocs(pool) : Transmit(<<[segs |-> c, id |-> 0]>>, 1, Without(pool, c))
  <2>1. PICK c \in Allocs(pool) : Transmit(<<[segs |-> c, id |-> 0]>>, 1, Without(pool, c))
    BY <1>3
  <2> DEFINE p == [segs |-> c, id |-> 0]
             pl == Without(pool, c)
  <2>2. Types /\ p \in Packet /\ pl \in [Mbuf -> Nat] /\ pl[m] + One(p, w) = pool[m]
    BY AllocNew DEF IInv
  <2>3. Transmit(<<p>>, 1, pl)
    BY <2>1
  <2> HIDE DEF p, pl
  <2>4. <<p>> \in Seq(Packet) /\ 1 \in 0 .. Len(<<p>>) /\ N(<<p>>, w) = One(p, w) /\ One(p, w) \in Nat /\ pl[m] \in Nat
    BY <2>2, NSingle, OneNat
  <2>5. N(<<p>>, w) + K(nic, w) <= 1
    BY <2>2, <2>4, OwnedOnce, OwnNat
  <2>6. pool'[m] + K(nic', w) = pl[m] + N(<<p>>, w) + K(nic, w)
    BY <2>2, <2>3, <2>4, <2>5, TransmitOwns
  <2>7. pool'[m] \in Nat /\ K(nic', w) \in Nat
    BY <2>2, <2>3, <2>4, TransmitTypes, KNat
  <2> HIDE DEF w
  <2>8. Outside(m)' = Outside(m)
    <3>1. pool'[m] + K(nic', w) = pool[m] + K(nic, w)
      BY <2>2, <2>4, <2>6, OwnNat DEF w
    <3>2. pool'[m] + M(tx, w) + K(nic', w) = (pool'[m] + K(nic', w)) + M(tx, w)
      BY <2>7, OwnNat DEF w
    <3>3. pool[m] + M(tx, w) + K(nic, w) = (pool[m] + K(nic, w)) + M(tx, w)
      BY OwnNat DEF w
    <3> QED BY <1>1, <3>1, <3>2, <3>3 DEF Outside, w
  <2> QED BY <1>1, <2>8 DEF Own, Inside, Above, Kept
<1> QED BY <1>2, <1>3, Zenon DEF KniRx

(* A burst moves from a ring or a queue to the process. *)
LEMMA BurstOwns ==
  ASSUME IInv, NEW q \in Queue, pc[q] \notin Busy, NEW f \in Family, NEW ring \in BOOLEAN, NEW empty \in {"rx", "user"},
         TakeBurst(q, f[q], ring, empty), NEW X
  PROVE  /\ M(burst', X) \in Nat /\ M(burst, X) \in Nat /\ M(f, X) \in Nat /\ M([f EXCEPT ![q] = Rest(f[q])], X) \in Nat
         /\ M(burst', X) + M([f EXCEPT ![q] = Rest(f[q])], X) = M(burst, X) + M(f, X)
<1>1. f[q] \in Seq(Packet) /\ burst \in Family
  BY DEF Family, IInv, Types
<1>2. /\ First(f[q]) \in Seq(Packet) /\ Rest(f[q]) \in Seq(Packet)
      /\ N(First(f[q]), X) + N(Rest(f[q]), X) = N(f[q], X)
  BY <1>1, TakenIs
<1>3. burst[q] = <<>>
  BY <1>1, TakeBurstIs
<1>4. burst' \in Family /\ burst'[q] = First(f[q]) /\ \A r \in Queue \ {q} : burst'[r] = burst[r]
  BY <1>1, TakeBurstIs
<1>5. /\ M(burst', X) \in Nat /\ M(burst, X) \in Nat /\ N(First(f[q]), X) \in Nat
      /\ M(burst', X) + N(burst[q], X) = M(burst, X) + N(First(f[q]), X)
  <2> DEFINE b == M(burst, X)  b1 == M(burst', X)  n == N(burst[q], X)  n1 == N(burst'[q], X)
  <2>1. b \in Nat /\ b1 \in Nat /\ n \in Nat /\ n1 \in Nat /\ b1 - n1 = b - n
    BY <1>1, <1>4, FamilyUpdate
  <2>2. n1 = N(First(f[q]), X)
    BY <1>4
  <2> HIDE DEF b, b1, n, n1
  <2>3. b1 + n = b + n1
    BY <2>1
  <2> QED BY <2>1, <2>2, <2>3 DEF b, b1, n
<1>6. N(burst[q], X) = 0
  BY <1>3, NEmpty
<1>7. /\ M(f, X) \in Nat /\ M([f EXCEPT ![q] = Rest(f[q])], X) \in Nat /\ N(f[q], X) \in Nat /\ N(Rest(f[q]), X) \in Nat
      /\ M([f EXCEPT ![q] = Rest(f[q])], X) + N(f[q], X) = M(f, X) + N(Rest(f[q]), X)
  BY <1>1, <1>2, MSet
<1>8. M(burst', X) = M(burst, X) + N(First(f[q]), X)
  BY <1>5, <1>6
<1>9. M([f EXCEPT ![q] = Rest(f[q])], X) + N(First(f[q]), X) = M(f, X)
  <2> DEFINE a == M(f, X)  a1 == M([f EXCEPT ![q] = Rest(f[q])], X)
             n == N(f[q], X)  y == N(Rest(f[q]), X)  x == N(First(f[q]), X)
  <2>1. a \in Nat /\ a1 \in Nat /\ n \in Nat /\ y \in Nat /\ a1 + n = a + y
    BY <1>7
  <2>2. x \in Nat /\ x + y = n
    BY <1>2, <1>5
  <2> HIDE DEF a, a1, n, y, x
  <2>3. a1 + x = a
    BY <2>1, <2>2
  <2> QED BY <2>3 DEF a, a1, x
<1> QED BY <1>5, <1>7, <1>8, <1>9

LEMMA RingBurstOwns == ASSUME IInv, NEW q \in Queue, RingBurst(q), NEW m \in Mbuf, Own(m) = 1 PROVE Kept(m)
<1> DEFINE w == With(m)
<1>1. /\ pc[q] = "ring" /\ TakeBurst(q, dring[q], TRUE, "rx") /\ dring' = [dring EXCEPT ![q] = Rest(dring[q])]
      /\ UNCHANGED <<pool, nic, rxq, kni, tx, stack>>
  BY DEF RingBurst, poolVars
<1>2. pc[q] \notin Busy /\ dring \in Family
  BY <1>1 DEF Busy, IInv, Types
<1>3. M(burst', w) \in Nat /\ M(dring', w) \in Nat /\ M(burst', w) + M(dring', w) = M(burst, w) + M(dring, w)
  BY <1>1, <1>2, BurstOwns
<1>4. Inside(m)' = Inside(m)
  BY <1>1, <1>3, OwnNat DEF Inside
<1> QED BY <1>1, <1>4 DEF Own, Outside, Above, Kept

LEMMA RxBurstOwns == ASSUME IInv, NEW q \in Queue, RxBurst(q), NEW m \in Mbuf, Own(m) = 1 PROVE Kept(m)
<1> DEFINE w == With(m)
<1>1. /\ pc[q] = "rx" /\ TakeBurst(q, rxq[q], FALSE, "user") /\ rxq' = [rxq EXCEPT ![q] = Rest(rxq[q])]
      /\ UNCHANGED <<pool, nic, dring, kni, tx, stack>>
  BY DEF RxBurst, poolVars
<1>2. pc[q] \notin Busy /\ rxq \in Family
  BY <1>1 DEF Busy, IInv, Types
<1>3. M(burst', w) \in Nat /\ M(rxq', w) \in Nat /\ M(burst', w) + M(rxq', w) = M(burst, w) + M(rxq, w)
  BY <1>1, <1>2, BurstOwns
<1>4. Inside(m)' = Inside(m)
  BY <1>1, <1>3, OwnNat DEF Inside
<1> QED BY <1>1, <1>4 DEF Own, Outside, Above, Kept

(* A packet is offered to a ring, which takes it or frees it. *)
LEMMA RingOwns ==
  ASSUME IInv, NEW j \in Queue, NEW p \in Packet, NEW pl \in [Mbuf -> Nat],
         dring' = [dring EXCEPT ![j] = Enqueue(@, p)], pool' = PoolAfterEnqueue(dring[j], p, pl), NEW m \in Mbuf
  PROVE  /\ M(dring', With(m)) \in Nat /\ pool'[m] \in Nat
         /\ M(dring', With(m)) + pool'[m] = M(dring, With(m)) + pl[m] + One(p, With(m))
<1> DEFINE w == With(m)
           e == Enqueue(dring[j], p)
<1>1. dring \in Family /\ dring[j] \in Seq(Packet) /\ dring' = [dring EXCEPT ![j] = e]
  BY DEF IInv, Types, Family
<1>0. e \in Seq(Packet)
  BY <1>1, EnqueueIs
<1>2. pool'[m] \in Nat /\ N(e, w) + pool'[m] = N(dring[j], w) + pl[m] + One(p, w)
  BY <1>1, EnqueueIs
<1> HIDE DEF e
<1>3. /\ M(dring, w) \in Nat /\ M(dring', w) \in Nat /\ N(dring[j], w) \in Nat /\ N(e, w) \in Nat
      /\ M(dring', w) + N(dring[j], w) = M(dring, w) + N(e, w)
  <2> DEFINE g == [dring EXCEPT ![j] = e]
  <2>1. /\ M(dring, w) \in Nat /\ M(g, w) \in Nat /\ N(dring[j], w) \in Nat /\ N(e, w) \in Nat
        /\ M(g, w) + N(dring[j], w) = M(dring, w) + N(e, w)
    <3>1. dring \in Family
      BY <1>1
    <3> QED BY <1>0, <3>1, MSet
  <2>2. dring' = g
    BY <1>1
  <2> HIDE DEF g
  <2> QED BY <2>1, <2>2, Zenon
<1>4. One(p, w) \in Nat /\ pl[m] \in Nat
  BY OneNat
<1>5. M(dring', w) + pool'[m] = M(dring, w) + pl[m] + One(p, w)
  <2> DEFINE a == M(dring, w)  a1 == M(dring', w)  b == N(dring[j], w)  b1 == N(e, w)  c == pl[m]  c1 == pool'[m]
             n == One(p, w)
  <2>1. a \in Nat /\ a1 \in Nat /\ b \in Nat /\ b1 \in Nat /\ c \in Nat /\ c1 \in Nat /\ n \in Nat
    BY <1>2, <1>3, <1>4
  <2>2. a1 + b = a + b1 /\ b1 + c1 = b + c + n
    BY <1>2, <1>3
  <2>3. a1 + c1 = a + c + n
    <3> HIDE DEF a, a1, b, b1, c, c1, n
    <3> QED BY <2>1, <2>2
  <2> QED BY <2>3
<1> QED BY <1>2, <1>3, <1>5

LEMMA KniOwns ==
  ASSUME IInv, NEW p \in Packet, NEW pl \in [Mbuf -> Nat],
         kni' = Enqueue(kni, p), pool' = PoolAfterEnqueue(kni, p, pl), NEW m \in Mbuf
  PROVE  /\ N(kni', With(m)) \in Nat /\ pool'[m] \in Nat
         /\ N(kni', With(m)) + pool'[m] = N(kni, With(m)) + pl[m] + One(p, With(m))
<1>1. kni \in Seq(Packet)
  BY DEF IInv, Types
<1> QED BY <1>1, EnqueueIs, InFinite

LEMMA AdvancedOwns ==
  ASSUME IInv, NEW q \in Queue, pc[q] \in Busy, NextPacket(q), NEW X
  PROVE  /\ M(burst', X) \in Nat /\ M(burst, X) \in Nat /\ One(Current(q), X) \in Nat /\ One(Current(q), X) <= M(burst, X)
         /\ M(burst', X) + One(Current(q), X) = M(burst, X)
<1>1. burst \in Family /\ Advanced(q)
  BY NextPacketIs DEF IInv, Types
<1>2. /\ burst' \in Family /\ (\A r \in Queue \ {q} : burst'[r] = burst[r])
      /\ N(burst'[q], X) + One(Current(q), X) = N(burst[q], X)
  BY <1>1 DEF Advanced
<1>3. /\ M(burst, X) \in Nat /\ M(burst', X) \in Nat /\ N(burst[q], X) \in Nat /\ N(burst'[q], X) \in Nat
      /\ M(burst', X) - N(burst'[q], X) = M(burst, X) - N(burst[q], X)
  BY <1>1, <1>2, FamilyUpdate
<1>4. One(Current(q), X) \in Nat
  BY OneNat
<1>5. M(burst', X) + One(Current(q), X) = M(burst, X)
  <2> DEFINE a == M(burst, X)  a1 == M(burst', X)  b == N(burst[q], X)  b1 == N(burst'[q], X)  n == One(Current(q), X)
  <2>1. a \in Nat /\ a1 \in Nat /\ b \in Nat /\ b1 \in Nat /\ n \in Nat
    BY <1>3, <1>4
  <2>2. b1 + n = b /\ a1 - b1 = a - b
    BY <1>2, <1>3
  <2>3. a1 + n = a
    <3> HIDE DEF a, a1, b, b1, n
    <3> QED BY <2>1, <2>2
  <2> QED BY <2>3
<1> QED BY <1>3, <1>4, <1>5

(* The current packet leaves the burst, which changes nothing else inside, *)
(* and its mbufs appear outside.                                           *)
LEMMA LeavesOwns ==
  ASSUME IInv, NEW q \in Queue, pc[q] \in Busy, NextPacket(q), UNCHANGED <<rxq, dring, kni, stack>>,
         NEW m \in Mbuf, Own(m) = 1, Outside(m)' = Outside(m) + One(Current(q), With(m))
  PROVE  Kept(m)
<1> DEFINE w == With(m)
           x == One(Current(q), w)
<1>1. M(burst', w) \in Nat /\ x \in Nat /\ M(burst', w) + x = M(burst, w)
  BY AdvancedOwns
<1>2. Inside(m)' + x = Inside(m) /\ Inside(m)' \in Nat
  <2> DEFINE a == M(rxq, w) + M(dring, w)
             b == N(kni, w)
  <2>1. a \in Nat /\ b \in Nat /\ Inside(m) = a + M(burst, w) + b /\ Inside(m)' = a + M(burst', w) + b
    BY OwnNat DEF Inside
  <2> HIDE DEF a, b, x, w
  <2>2. (a + M(burst', w) + b) + x = a + (M(burst', w) + x) + b /\ a + M(burst', w) + b \in Nat
    BY <1>1, <2>1
  <2> QED BY <1>1, <2>1, <2>2
<1>3. Above(m)' = Above(m)
  BY DEF Above
<1>4. Outside(m)' = Outside(m) + x
  OBVIOUS
<1> HIDE DEF x, w
<1> QED BY <1>1, <1>2, <1>3, <1>4, OwnNat DEF Own, Kept

LEMMA RespondOwns == ASSUME IInv, NEW q \in Queue, Respond(q), NEW m \in Mbuf, Own(m) = 1 PROVE Kept(m)
<1> DEFINE w == With(m)
           p == Current(q)
<1>1. /\ pc[q] = "handle" /\ SendSingle(q, p, pool) /\ NextPacket(q)
      /\ UNCHANGED <<rxq, dring, kni, stack>>
  BY Zenon DEF Respond
<1>2. pc[q] \in Busy /\ pool \in [Mbuf -> Nat] /\ tx \in Family
  BY <1>1 DEF Busy, IInv, Types
<1>3. p \in Packet
  BY <1>2, BusyIs
<1>4. One(p, w) \in Nat /\ One(p, w) <= M(burst, w)
  BY <1>1, <1>2, AdvancedOwns
<1>5. tx[q] \in Seq(Packet) /\ N(tx[q], w) \in Nat /\ N(tx[q], w) <= M(tx, w)
  BY <1>2, MSet DEF Family
<1> HIDE DEF p
<1>6. N(tx[q], w) + One(p, w) + K(nic, w) <= 1
  <2>1. M(burst, w) + M(tx, w) + K(nic, w) <= 1 /\ M(burst, w) \in Nat /\ M(tx, w) \in Nat /\ K(nic, w) \in Nat
    BY OwnedOnce, OwnNat
  <2> HIDE DEF w
  <2> QED BY <1>4, <1>5, <2>1
<1>7. pool'[m] + M(tx', w) + K(nic', w) = pool[m] + M(tx, w) + One(p, w) + K(nic, w)
  BY <1>1, <1>2, <1>3, <1>6, SendOwns
<1>8. Outside(m)' = Outside(m) + One(p, w)
  <2>1. pool[m] \in Nat /\ M(tx, w) \in Nat /\ K(nic, w) \in Nat
    BY OwnNat
  <2> HIDE DEF w
  <2>2. pool[m] + M(tx, w) + One(p, w) + K(nic, w) = (pool[m] + M(tx, w) + K(nic, w)) + One(p, w)
    BY <1>4, <2>1
  <2> QED BY <1>7, <2>2 DEF Outside, w
<1> QED BY <1>1, <1>2, <1>8, LeavesOwns DEF p

LEMMA DropOwns ==
  ASSUME IInv, NEW q \in Queue, Refuse(q) \/ InputDrops(q), NEW m \in Mbuf, Own(m) = 1 PROVE Kept(m)
<1> DEFINE w == With(m)
           p == Current(q)
<1>1. /\ pc[q] \in {"handle", "input"} /\ pool' = Freed(pool, <<p>>) /\ NextPacket(q)
      /\ UNCHANGED <<nic, rxq, dring, kni, tx, stack>>
  BY DEF Refuse, InputDrops
<1>2. pc[q] \in Busy /\ pool \in [Mbuf -> Nat]
  BY <1>1 DEF Busy, IInv, Types
<1>3. p \in Packet
  BY <1>2, BusyIs
<1>4. pool'[m] = pool[m] + One(p, w) /\ One(p, w) \in Nat
  BY <1>1, <1>2, <1>3, FreedOne, OneNat
<1>5. Outside(m)' = Outside(m) + One(p, w)
  <2>1. pool[m] \in Nat /\ M(tx, w) \in Nat /\ K(nic, w) \in Nat
    BY OwnNat
  <2> HIDE DEF w, p
  <2>2. (pool[m] + One(p, w)) + M(tx, w) + K(nic, w) = (pool[m] + M(tx, w) + K(nic, w)) + One(p, w)
    BY <1>4, <2>1
  <2> QED BY <1>1, <1>4, <2>2 DEF Outside, w
<1> QED BY <1>1, <1>2, <1>5, LeavesOwns

(* The pool, the rings and the bursts exchange mbufs. *)
LEMMA Settle ==
  ASSUME IInv, NEW m \in Mbuf, Own(m) = 1, UNCHANGED <<rxq, nic, tx, stack>>,
         pool'[m] \in Nat, M(dring', With(m)) \in Nat, M(burst', With(m)) \in Nat, N(kni', With(m)) \in Nat,
         M(dring', With(m)) + M(burst', With(m)) + N(kni', With(m)) + pool'[m]
           = M(dring, With(m)) + M(burst, With(m)) + N(kni, With(m)) + pool[m]
  PROVE  Kept(m)
<1> DEFINE w == With(m)
           a == M(rxq, w)  b == M(tx, w)  c == K(nic, w)  d == Above(m)
           r == M(dring, w)  r1 == M(dring', w)  u == M(burst, w)  u1 == M(burst', w)
           n == N(kni, w)  n1 == N(kni', w)  p == pool[m]  p1 == pool'[m]
<1>1. a \in Nat /\ b \in Nat /\ c \in Nat /\ d \in Nat /\ r \in Nat /\ u \in Nat /\ n \in Nat /\ p \in Nat
  BY OwnNat
<1>2. r1 \in Nat /\ u1 \in Nat /\ n1 \in Nat /\ p1 \in Nat /\ r1 + u1 + n1 + p1 = r + u + n + p
  OBVIOUS
<1>3. (a + r + u + n) + (p + b + c) + d = 1
  BY DEF Own, Inside, Outside
<1>4. Own(m)' = (a + r1 + u1 + n1) + (p1 + b + c) + d
  BY DEF Own, Inside, Outside, Above
<1>5. (a + r1 + u1 + n1) + (p1 + b + c) + d = 1
  <2> HIDE DEF a, b, c, d, r, r1, u, u1, n, n1, p, p1
  <2> QED BY <1>1, <1>2, <1>3
<1> QED BY <1>4, <1>5 DEF Kept

LEMMA ForwardOwns ==
  ASSUME IInv, NEW q \in Queue, NEW j \in Queue, Forward(q, j), NEW m \in Mbuf, Own(m) = 1 PROVE Kept(m)
<1> DEFINE w == With(m)
           x == One(Current(q), w)
<1>1. /\ pc[q] = "handle" /\ NextPacket(q) /\ dring' = [dring EXCEPT ![j] = Enqueue(@, Current(q))]
      /\ pool' = PoolAfterEnqueue(dring[j], Current(q), pool) /\ UNCHANGED <<nic, rxq, kni, tx, stack>>
  BY Zenon DEF Forward
<1>2. pc[q] \in Busy /\ pool \in [Mbuf -> Nat]
  BY <1>1 DEF Busy, IInv, Types
<1>3. Current(q) \in Packet
  BY <1>2, BusyIs
<1>4. M(dring', w) \in Nat /\ pool'[m] \in Nat /\ M(dring', w) + pool'[m] = M(dring, w) + pool[m] + x
  BY <1>1, <1>2, <1>3, RingOwns
<1>5. M(burst', w) \in Nat /\ x \in Nat /\ M(burst', w) + x = M(burst, w)
  BY <1>1, <1>2, AdvancedOwns
<1>6. M(dring, w) \in Nat /\ pool[m] \in Nat /\ N(kni, w) \in Nat /\ kni' = kni
  BY <1>1, OwnNat
<1>7. M(dring', w) + M(burst', w) + N(kni', w) + pool'[m] = M(dring, w) + M(burst, w) + N(kni, w) + pool[m]
  <2> DEFINE u1 == M(burst', w)  r == M(dring, w)  r1 == M(dring', w)  n == N(kni, w)
             p == pool[m]  p1 == pool'[m]
  <2>1. r \in Nat /\ r1 \in Nat /\ u1 \in Nat /\ n \in Nat /\ p \in Nat /\ p1 \in Nat /\ x \in Nat /\ r1 + p1 = r + p + x
    BY <1>4, <1>5, <1>6
  <2>2. r1 + u1 + n + p1 = r + (u1 + x) + n + p
    <3> HIDE DEF u1, r, r1, n, p, p1, x
    <3> QED BY <2>1
  <2> QED BY <1>5, <1>6, <2>2
<1> QED BY <1>1, <1>4, <1>5, <1>6, <1>7, Settle

LEMMA ToKernelOwns == ASSUME IInv, NEW q \in Queue, ToKernel(q), NEW m \in Mbuf, Own(m) = 1 PROVE Kept(m)
<1> DEFINE w == With(m)
           x == One(Current(q), w)
<1>1. /\ pc[q] = "handle" /\ NextPacket(q)
      /\ \/ kni' = Enqueue(kni, Current(q)) /\ pool' = PoolAfterEnqueue(kni, Current(q), pool)
         \/ kni' = kni /\ pool' = Freed(pool, <<Current(q)>>)
      /\ UNCHANGED <<nic, rxq, dring, tx, stack>>
  BY Zenon DEF ToKernel
<1>2. pc[q] \in Busy /\ pool \in [Mbuf -> Nat]
  BY <1>1 DEF Busy, IInv, Types
<1>3. Current(q) \in Packet
  BY <1>2, BusyIs
<1>4. M(dring, w) \in Nat /\ pool[m] \in Nat /\ N(kni, w) \in Nat /\ dring' = dring
  BY <1>1, OwnNat
<1>5. M(burst', w) \in Nat /\ x \in Nat /\ M(burst', w) + x = M(burst, w)
  BY <1>1, <1>2, AdvancedOwns
<1>6. N(kni', w) \in Nat /\ pool'[m] \in Nat /\ N(kni', w) + pool'[m] = N(kni, w) + pool[m] + x
  <2>1. CASE kni' = Enqueue(kni, Current(q)) /\ pool' = PoolAfterEnqueue(kni, Current(q), pool)
    BY <1>2, <1>3, <2>1, KniOwns
  <2>2. CASE kni' = kni /\ pool' = Freed(pool, <<Current(q)>>)
    <3>1. pool'[m] = pool[m] + x
      BY <1>2, <1>3, <2>2, FreedOne
    <3> HIDE DEF x
    <3> QED BY <1>4, <1>5, <2>2, <3>1
  <2> QED BY <1>1, <2>1, <2>2
<1>7. M(dring', w) + M(burst', w) + N(kni', w) + pool'[m] = M(dring, w) + M(burst, w) + N(kni, w) + pool[m]
  <2> DEFINE u1 == M(burst', w)  r == M(dring, w)  n == N(kni, w)  n1 == N(kni', w)
             p == pool[m]  p1 == pool'[m]
  <2>1. r \in Nat /\ n1 \in Nat /\ u1 \in Nat /\ n \in Nat /\ p \in Nat /\ p1 \in Nat /\ x \in Nat /\ n1 + p1 = n + p + x
    BY <1>4, <1>5, <1>6
  <2>2. r + u1 + n1 + p1 = r + (u1 + x) + n + p
    <3> HIDE DEF u1, r, n, n1, p, p1, x
    <3> QED BY <2>1
  <2> QED BY <1>4, <1>5, <2>2
<1> QED BY <1>1, <1>4, <1>5, <1>6, <1>7, Settle

LEMMA CloneToOwns == ASSUME IInv, NEW q \in Queue, CloneTo(q), NEW m \in Mbuf, Own(m) = 1 PROVE Kept(m)
<1> DEFINE w == With(m)
           j == cursor[q]
<1>1. pc[q] = "clone" /\ j < NbQueues /\ UNCHANGED <<nic, rxq, kni, burst, tx, stack>>
  BY Zenon DEF CloneTo
<1>2. pc[q] \in Busy /\ j \in Queue
  BY <1>1, PacketPathAssumption DEF Busy, IInv, Types, Queue
<1>3. CASE UNCHANGED <<pool, dring>>
  BY <1>1, <1>3 DEF Own, Inside, Outside, Above, Kept
<1>4. CASE \E c \in Clones(q) :
             /\ dring' = [dring EXCEPT ![j] = Enqueue(@, [Current(q) EXCEPT !.segs = c])]
             /\ pool' = PoolAfterEnqueue(dring[j], [Current(q) EXCEPT !.segs = c], Without(pool, c))
  <2>1. PICK c \in Clones(q) :
             /\ dring' = [dring EXCEPT ![j] = Enqueue(@, [Current(q) EXCEPT !.segs = c])]
             /\ pool' = PoolAfterEnqueue(dring[j], [Current(q) EXCEPT !.segs = c], Without(pool, c))
    BY <1>4
  <2> DEFINE p == [Current(q) EXCEPT !.segs = c]
             pl == Without(pool, c)
  <2>2. p \in Packet /\ pl \in [Mbuf -> Nat] /\ pl[m] + One(p, w) = pool[m]
    BY <1>2, CloneIs
  <2>3. dring' = [dring EXCEPT ![j] = Enqueue(@, p)] /\ pool' = PoolAfterEnqueue(dring[j], p, pl)
    BY <2>1
  <2> HIDE DEF p, pl, j
  <2>4. M(dring', w) \in Nat /\ pool'[m] \in Nat /\ M(dring', w) + pool'[m] = M(dring, w) + pl[m] + One(p, w)
    BY <1>2, <2>2, <2>3, RingOwns
  <2>5. M(dring, w) \in Nat /\ pool[m] \in Nat /\ pl[m] \in Nat /\ One(p, w) \in Nat
    BY <2>2, OwnNat, OneNat
  <2>6. M(burst, w) \in Nat /\ N(kni, w) \in Nat /\ burst' = burst /\ kni' = kni
    BY <1>1, OwnNat
  <2>7. M(dring', w) + M(burst', w) + N(kni', w) + pool'[m] = M(dring, w) + M(burst, w) + N(kni, w) + pool[m]
    <3> DEFINE u == M(burst, w)  r == M(dring, w)  r1 == M(dring', w)  n == N(kni, w)
               a == pool[m]  a1 == pool'[m]
    <3>1. M(dring, w) + pl[m] + One(p, w) = M(dring, w) + pool[m]
      BY <2>2, <2>5
    <3>2. r \in Nat /\ r1 \in Nat /\ u \in Nat /\ n \in Nat /\ a \in Nat /\ a1 \in Nat /\ r1 + a1 = r + a
      BY <2>4, <2>5, <2>6, <3>1
    <3>3. r1 + u + n + a1 = r + u + n + a
      <4> HIDE DEF u, r, r1, n, a, a1
      <4> QED BY <3>2
    <3> QED BY <2>6, <3>3
  <2> QED BY <1>1, <2>4, <2>6, <2>7, Settle
<1> QED BY <1>3, <1>4 DEF CloneTo

LEMMA CloneToKernelOwns == ASSUME IInv, NEW q \in Queue, CloneToKernel(q), NEW m \in Mbuf, Own(m) = 1 PROVE Kept(m)
<1> DEFINE w == With(m)
<1>1. pc[q] = "clone" /\ UNCHANGED <<nic, rxq, dring, burst, tx, stack>>
  BY Zenon DEF CloneToKernel
<1>2. pc[q] \in Busy /\ kni \in Seq(Packet)
  BY <1>1 DEF Busy, IInv, Types
<1>3. CASE UNCHANGED <<pool, kni>>
  BY <1>1, <1>3 DEF Own, Inside, Outside, Above, Kept
<1>4. CASE \E c \in Clones(q) :
             /\ kni' = Enqueue(kni, [Current(q) EXCEPT !.segs = c])
             /\ pool' = PoolAfterEnqueue(kni, [Current(q) EXCEPT !.segs = c], Without(pool, c))
  <2>1. PICK c \in Clones(q) :
             /\ kni' = Enqueue(kni, [Current(q) EXCEPT !.segs = c])
             /\ pool' = PoolAfterEnqueue(kni, [Current(q) EXCEPT !.segs = c], Without(pool, c))
    BY <1>4
  <2> DEFINE p == [Current(q) EXCEPT !.segs = c]
             pl == Without(pool, c)
  <2>2. p \in Packet /\ pl \in [Mbuf -> Nat] /\ pl[m] + One(p, w) = pool[m]
    BY <1>2, CloneIs
  <2>3. kni' = Enqueue(kni, p) /\ pool' = PoolAfterEnqueue(kni, p, pl)
    BY <2>1
  <2> HIDE DEF p, pl
  <2>4. N(kni', w) \in Nat /\ pool'[m] \in Nat /\ N(kni', w) + pool'[m] = N(kni, w) + pl[m] + One(p, w)
    BY <2>2, <2>3, KniOwns
  <2>5. N(kni, w) \in Nat /\ pool[m] \in Nat /\ pl[m] \in Nat /\ One(p, w) \in Nat
    BY <2>2, OwnNat, OneNat
  <2>6. M(burst, w) \in Nat /\ M(dring, w) \in Nat /\ burst' = burst /\ dring' = dring
    BY <1>1, OwnNat
  <2>7. M(dring', w) + M(burst', w) + N(kni', w) + pool'[m] = M(dring, w) + M(burst, w) + N(kni, w) + pool[m]
    <3> DEFINE u == M(burst, w)  r == M(dring, w)  n == N(kni, w)  n1 == N(kni', w)
               a == pool[m]  a1 == pool'[m]
    <3>1. N(kni, w) + pl[m] + One(p, w) = N(kni, w) + pool[m]
      BY <2>2, <2>5
    <3>2. r \in Nat /\ n1 \in Nat /\ u \in Nat /\ n \in Nat /\ a \in Nat /\ a1 \in Nat /\ n1 + a1 = n + a
      BY <2>4, <2>5, <2>6, <3>1
    <3>3. r + u + n1 + a1 = r + u + n + a
      <4> HIDE DEF u, r, n, n1, a, a1
      <4> QED BY <3>2
    <3> QED BY <2>6, <3>3
  <2> QED BY <1>1, <2>4, <2>6, <2>7, Settle
<1> QED BY <1>3, <1>4 DEF CloneToKernel

LEMMA InputOwns == ASSUME IInv, NEW q \in Queue, Input(q), NEW m \in Mbuf, Own(m) = 1 PROVE Kept(m)
<1> DEFINE w == With(m)
           p == Current(q)
           x == One(p, w)
<1>1. /\ pc[q] = "input" /\ NextPacket(q) /\ stack' = [stack EXCEPT ![q] = stack[q] \union {p}]
      /\ UNCHANGED <<pool, nic, rxq, dring, kni, tx>>
  BY DEF Input, poolVars
<1>2. pc[q] \in Busy
  BY <1>1 DEF Busy
<1>3. p \in Packet /\ stack \in [Queue -> Finites] /\ stack[q] \in Finites
  BY <1>2, BusyIs, OwnNat
<1>4. M(burst', w) \in Nat /\ x \in Nat /\ x <= M(burst, w) /\ M(burst', w) + x = M(burst, w)
  BY <1>1, <1>2, AdvancedOwns
<1> HIDE DEF p
<1>5. stack[q] \union {p} \in Finites
  BY <1>3, FS_AddElement DEF Finites
<1>6. /\ S(stack, w) \in Nat /\ S(stack', w) \in Nat /\ K(stack[q], w) \in Nat /\ K(stack[q], w) <= S(stack, w)
      /\ S(stack', w) + K(stack[q], w) = S(stack, w) + K(stack[q] \union {p}, w)
  <2> DEFINE A == stack[q] \union {p}
             g == [stack EXCEPT ![q] = A]
  <2>0. A \in Finites
    BY <1>5
  <2>2. stack' = g
    BY <1>1
  <2> HIDE DEF A
  <2>1. /\ S(stack, w) \in Nat /\ S(g, w) \in Nat /\ K(stack[q], w) \in Nat /\ K(stack[q], w) <= S(stack, w)
        /\ S(g, w) + K(stack[q], w) = S(stack, w) + K(A, w)
    BY <1>3, <2>0, SSet
  <2> HIDE DEF g
  <2> QED BY <2>1, <2>2, Zenon DEF A
<1>7. K(stack[q] \union {p}, w) = K(stack[q], w) + x
  <2>1. CASE p \notin stack[q]
    BY <1>3, <2>1, KAdd DEF Finites
  <2>2. CASE p \in stack[q]
    <3>1. K(stack[q], w) = K(stack[q] \ {p}, w) + x /\ K(stack[q] \ {p}, w) \in Nat
      BY <1>3, <2>2, KRemove DEF Finites
    <3>2. M(burst, w) + S(stack, w) <= 1 /\ M(burst, w) \in Nat
      BY OwnedOnce, OwnNat
    <3>3. x = 0
      <4> HIDE DEF x, w
      <4> QED BY <1>4, <1>6, <3>1, <3>2
    <3>4. stack[q] \union {p} = stack[q]
      BY <2>2
    <3> HIDE DEF x
    <3>5. K(stack[q], w) \in Nat
      BY <1>6
    <3>6. K(stack[q] \union {p}, w) = K(stack[q], w)
      BY <3>4
    <3> QED BY <3>3, <3>5, <3>6
  <2> QED BY <2>1, <2>2
<1>8. Above(m)' = Above(m) + x
  <2> DEFINE a == S(stack, w)  a1 == S(stack', w)  k == K(stack[q], w)
  <2>1. Above(m) = a /\ Above(m)' = a1
    BY DEF Above
  <2>2. a \in Nat /\ a1 \in Nat /\ k \in Nat /\ a1 + k = a + (k + x) /\ x \in Nat
    BY <1>4, <1>6, <1>7
  <2> HIDE DEF a, a1, k, x
  <2>3. a1 = a + x
    BY <2>2
  <2> QED BY <2>1, <2>3
<1>9. Inside(m)' + x = Inside(m) /\ Inside(m)' \in Nat
  <2> DEFINE a == M(rxq, w) + M(dring, w)
             b == N(kni, w)
  <2>1. a \in Nat /\ b \in Nat /\ Inside(m) = a + M(burst, w) + b /\ Inside(m)' = a + M(burst', w) + b
    BY <1>1, OwnNat DEF Inside
  <2> HIDE DEF a, b, x, w
  <2>2. (a + M(burst', w) + b) + x = a + (M(burst', w) + x) + b /\ a + M(burst', w) + b \in Nat
    BY <1>4, <2>1
  <2> QED BY <1>4, <2>1, <2>2
<1>10. Outside(m)' = Outside(m)
  BY <1>1 DEF Outside
<1> HIDE DEF x, w
<1> QED BY <1>4, <1>8, <1>9, <1>10, OwnNat DEF Own, Kept

-----------------------------------------------------------------------------
(* ff_veth_input gets no mbuf for a later segment of the chain and returns. *)
Broken == \E q \in Queue : InputPartial(q)

LEMMA SumEmpty == ASSUME NEW A, \A q \in Queue : A[q] = {} PROVE Sum(A) = 0
<1>1. UNION {{q} \X A[q] : q \in Queue} = {}
  OBVIOUS
<1> QED BY <1>1, FS_EmptySet DEF Sum

LEMMA MEmpty == ASSUME NEW f, f = [q \in Queue |-> <<>>], NEW X PROVE M(f, X) = 0
<1> DEFINE A == [q \in Queue |-> In(f[q], X)]
<1>1. \A q \in Queue : A[q] = {}
  BY DEF In
<1> HIDE DEF A
<1>2. Sum(A) = 0
  BY <1>1, SumEmpty
<1> QED BY <1>2 DEF M, A

LEMMA InitOwns == ASSUME Init, NEW m \in Mbuf PROVE Own(m) = 1
<1>3. S(stack, With(m)) = 0
  <2> DEFINE A == [q \in Queue |-> stack[q] \intersect With(m)]
  <2>1. \A q \in Queue : A[q] = {}
    BY DEF Init
  <2> HIDE DEF A
  <2>2. Sum(A) = 0
    BY <2>1, SumEmpty
  <2> QED BY <2>2 DEF S, A
<1>4. K(nic, With(m)) = 0
  <2>1. nic \intersect With(m) = {}
    BY DEF Init
  <2> QED BY <2>1, FS_EmptySet DEF K
<1>5. N(kni, With(m)) = 0
  BY NEmpty DEF Init
<1>6. M(rxq, With(m)) = 0 /\ M(dring, With(m)) = 0 /\ M(burst, With(m)) = 0 /\ M(tx, With(m)) = 0
  BY MEmpty DEF Init
<1>7. pool[m] = 1
  BY DEF Init
<1> QED BY <1>3, <1>4, <1>5, <1>6, <1>7 DEF Own, Inside, Outside, Above

LEMMA NextOwns == ASSUME IInv, [Next]_vars, ~Broken, NEW m \in Mbuf, Own(m) = 1 PROVE Kept(m)
<1>1. CASE UNCHANGED vars
  BY <1>1 DEF vars, poolVars, procVars, Own, Inside, Outside, Above, Kept
<1>2. ASSUME NEW q \in Queue, Handle(q) PROVE Kept(m)
  BY <1>2, RespondOwns, DropOwns, ForwardOwns, PassOwns, ToKernelOwns, CloneToOwns, CloneToKernelOwns, InputOwns
     DEF Handle, Broken
<1>3. ASSUME NEW q \in Queue, Loop(q) PROVE Kept(m)
  BY <1>2, <1>3, DrainOwns, PassOwns, KniTxOwns, KniRxOwns, RingBurstOwns, RxBurstOwns DEF Loop
<1> QED BY <1>1, <1>3, TxDoneOwns, ReceiveOwns, PassOwns, StackSendOwns, StackFreeOwns DEF Next

(* Conserved, in the terms of this module. *)
AllOwned == \A m \in Mbuf : Own(m) = 1

(* Every mbuf is in the pool or has exactly one owner: none is leaked,      *)
(* freed twice or in two rings at a time, whatever the devices, the rings   *)
(* and the stack accept or drop, and whenever a process stops.  The one     *)
(* exception is a step of ff_veth_input that fails in the middle of a       *)
(* chain; Broken names it, and PacketPathChain.cfg shows what it does.      *)
THEOREM MbufsConserved == Spec /\ [][~Broken]_vars => []Conserved
<1>1. Init => AllOwned
  BY InitOwns DEF AllOwned
<1>2. IInv /\ AllOwned /\ [Next]_vars /\ [~Broken]_vars => AllOwned'
  <2> SUFFICES ASSUME IInv, AllOwned, [Next]_vars, [~Broken]_vars PROVE AllOwned'
    OBVIOUS
  <2>1. CASE UNCHANGED vars
    BY <2>1 DEF vars, poolVars, procVars, Own, Inside, Outside, Above, AllOwned
  <2>2. CASE ~Broken
    BY <2>2, NextOwns DEF AllOwned, Kept
  <2> QED BY <2>1, <2>2
<1>3. IInv /\ AllOwned => Conserved
  BY ConservedIs DEF AllOwned
<1> QED BY <1>1, <1>2, <1>3, IInvHolds, PTL DEF Spec

(* When a received frame always fits one mbuf, that step cannot happen: the *)
(* mbufs are conserved without a hypothesis about the run.                  *)
THEOREM SingleSegment == MaxSegs = 1 /\ Spec => []Conserved
<1>1. ASSUME MaxSegs = 1, IInv PROVE ~Broken
  <2> SUFFICES ASSUME NEW q \in Queue, InputPartial(q) PROVE FALSE
    BY DEF Broken
  <2>1. pc[q] \in Busy /\ DOMAIN Current(q).segs \ {1} # {}
    BY DEF InputPartial, Busy
  <2>2. Current(q) \in Packet
    BY <1>1, <2>1, BusyIs
  <2>3. DOMAIN Current(q).segs = {1}
    BY <1>1, <2>2 DEF Packet, Chain
  <2> QED BY <2>1, <2>3
<1>2. MaxSegs = 1 /\ IInv => ~Broken
  BY <1>1
<1>3. CASE MaxSegs = 1
  <2>1. IInv => ~Broken
    BY <1>2, <1>3
  <2> QED BY <2>1, IInvHolds, MbufsConserved, PTL
<1>4. CASE MaxSegs # 1
  BY <1>4
<1> QED BY <1>3, <1>4

-----------------------------------------------------------------------------
(* Where a frame can still be delivered.  A clone in a ring is for the     *)
(* process that reads the ring, and for the kernel if that is the primary: *)
(* the rings are where a broadcast frame stops being multiplied.           *)
Dest  == Queue \union {Kernel}
Frame == 1 .. MaxFrames
Id(f) == {p \in Packet : p.id = f}

(* A packet in the ring of q, broadcast if a, can reach d. *)
Reach(q, a, d) == ~a \/ d = q \/ (d = Kernel /\ q = Primary)

(* So can the packet that q handles at the label l with the cursor c. *)
HeadOf(q, l, c, a, d) ==
  IF l = "clone" THEN d = q \/ (d \in Queue /\ c <= d) \/ (d = Kernel /\ (q = Primary \/ c = 0))
                 ELSE l = "input" => ~a \/ d = q

EffOf(b, blocked, h) == IF blocked THEN <<>> ELSE IF h THEN b ELSE Tail(b)

Blocked(q, f, d) == fromRing[q] /\ ~Reach(q, f \in arps, d)
Heads(q, f, d)   == HeadOf(q, pc[q], cursor[q], f \in arps, d)
HeldBy(q, f, d)  == EffOf(burst[q], Blocked(q, f, d), Heads(q, f, d))
Held(f, d)   == [q \in Queue |-> HeldBy(q, f, d)]
Ringed(f, d) == [q \in Queue |-> IF Reach(q, f \in arps, d) THEN dring[q] ELSE <<>>]

RW(f)    == M(rxq, Id(f))
DW(f, d) == M(Ringed(f, d), Id(f))
HW(f, d) == M(Held(f, d), Id(f))
KW(f, d) == IF d = Kernel \/ f \notin arps THEN N(kni, Id(f)) ELSE 0

Weight(f, d) == RW(f) + DW(f, d) + HW(f, d) + KW(f, d) + got[d][f]

Families == \A f \in Frame, d \in Dest : Held(f, d) \in Family /\ Ringed(f, d) \in Family
AllNat ==
  \A f \in Frame, d \in Dest :
    RW(f) \in Nat /\ DW(f, d) \in Nat /\ HW(f, d) \in Nat /\ KW(f, d) \in Nat /\ got[d][f] \in Nat

LEMMA FamiliesHold == IInv => Families
<1> SUFFICES ASSUME IInv, NEW f \in Frame, NEW d \in Dest PROVE Held(f, d) \in Family /\ Ringed(f, d) \in Family
  BY DEF Families
<1>1. Ringed(f, d) \in Family
  BY DEF IInv, Types, Family, Ringed
<1>2. ASSUME NEW q \in Queue PROVE HeldBy(q, f, d) \in Seq(Packet)
  <2>1. burst[q] \in Seq(Packet) /\ (burst[q] = <<>> => pc[q] \notin Busy)
    BY DEF IInv, Types, Family, BurstInv
  <2>2. burst[q] = <<>> => Heads(q, f, d)
    BY <2>1 DEF Heads, HeadOf, Busy
  <2> QED BY <2>1, <2>2 DEF HeldBy, EffOf
<1> QED BY <1>1, <1>2 DEF Held, Family

LEMMA NatsHold == IInv => AllNat
<1> SUFFICES ASSUME IInv, NEW f \in Frame, NEW d \in Dest
             PROVE  RW(f) \in Nat /\ DW(f, d) \in Nat /\ HW(f, d) \in Nat /\ KW(f, d) \in Nat /\ got[d][f] \in Nat
  BY DEF AllNat
<1>1. Held(f, d) \in Family /\ Ringed(f, d) \in Family /\ rxq \in Family /\ kni \in Seq(Packet)
  BY FamiliesHold DEF Families, IInv, Types
<1>2. RW(f) \in Nat /\ DW(f, d) \in Nat /\ HW(f, d) \in Nat
  BY <1>1, MNat DEF RW, DW, HW
<1>3. KW(f, d) \in Nat
  BY <1>1, InFinite DEF KW
<1>4. got[d][f] \in Nat
  BY DEF IInv, Types, Dest, Frame
<1> QED BY <1>2, <1>3, <1>4

LEMMA FamiliesNext == IInv' => Families'
BY FamiliesHold, PTL

LEMMA NatsNext == IInv' => AllNat'
BY NatsHold, PTL

(* A step makes the weight no larger. *)
Lighter(f, d) == Weight(f, d)' <= Weight(f, d)

(* Between which two of its terms a step moves weight. *)
LEMMA Lightens ==
  ASSUME IInv, IInv', NEW f \in Frame, NEW d \in Dest,
         \/ RW(f)' + HW(f, d)' <= RW(f) + HW(f, d) /\ DW(f, d)' = DW(f, d) /\ KW(f, d)' = KW(f, d) /\ got'[d][f] = got[d][f]
         \/ DW(f, d)' + HW(f, d)' <= DW(f, d) + HW(f, d) /\ RW(f)' = RW(f) /\ KW(f, d)' = KW(f, d) /\ got'[d][f] = got[d][f]
         \/ HW(f, d)' + KW(f, d)' <= HW(f, d) + KW(f, d) /\ RW(f)' = RW(f) /\ DW(f, d)' = DW(f, d) /\ got'[d][f] = got[d][f]
         \/ HW(f, d)' + got'[d][f] <= HW(f, d) + got[d][f] /\ RW(f)' = RW(f) /\ DW(f, d)' = DW(f, d) /\ KW(f, d)' = KW(f, d)
         \/ KW(f, d)' + got'[d][f] <= KW(f, d) + got[d][f] /\ RW(f)' = RW(f) /\ DW(f, d)' = DW(f, d) /\ HW(f, d)' = HW(f, d)
  PROVE  Lighter(f, d)
<1> DEFINE r == RW(f)  u == DW(f, d)  h == HW(f, d)  k == KW(f, d)  g == got[d][f]
           r1 == RW(f)'  u1 == DW(f, d)'  h1 == HW(f, d)'  k1 == KW(f, d)'  g1 == got'[d][f]
<1>1. r \in Nat /\ u \in Nat /\ h \in Nat /\ k \in Nat /\ g \in Nat
  BY NatsHold DEF AllNat
<1>2. r1 \in Nat /\ u1 \in Nat /\ h1 \in Nat /\ k1 \in Nat /\ g1 \in Nat
  BY NatsNext DEF AllNat
<1>3. \/ r1 + h1 <= r + h /\ u1 = u /\ k1 = k /\ g1 = g
      \/ u1 + h1 <= u + h /\ r1 = r /\ k1 = k /\ g1 = g
      \/ h1 + k1 <= h + k /\ r1 = r /\ u1 = u /\ g1 = g
      \/ h1 + g1 <= h + g /\ r1 = r /\ u1 = u /\ k1 = k
      \/ k1 + g1 <= k + g /\ r1 = r /\ u1 = u /\ h1 = h
  OBVIOUS
<1>4. r1 + u1 + h1 + k1 + g1 <= r + u + h + k + g
  <2> HIDE DEF r, u, h, k, g, r1, u1, h1, k1, g1
  <2> QED BY <1>1, <1>2, <1>3
<1> QED BY <1>4 DEF Lighter, Weight

LEMMA MLess ==
  ASSUME NEW f \in Family, NEW g \in Family, NEW q \in Queue, \A r \in Queue \ {q} : g[r] = f[r], NEW X, NEW x \in Nat,
         N(g[q], X) + x <= N(f[q], X)
  PROVE  M(g, X) + x <= M(f, X)
<1> DEFINE a == M(f, X)  a1 == M(g, X)  b == N(f[q], X)  b1 == N(g[q], X)
<1>1. a \in Nat /\ a1 \in Nat /\ b \in Nat /\ b1 \in Nat /\ a1 - b1 = a - b
  BY FamilyUpdate
<1>2. b1 + x <= b
  OBVIOUS
<1>3. a1 + x <= a
  <2> HIDE DEF a, a1, b, b1
  <2> QED BY <1>1, <1>2
<1> QED BY <1>3

LEMMA MMore ==
  ASSUME NEW f \in Family, NEW g \in Family, NEW q \in Queue, \A r \in Queue \ {q} : g[r] = f[r], NEW X, NEW x \in Nat,
         N(g[q], X) <= N(f[q], X) + x
  PROVE  M(g, X) <= M(f, X) + x
<1> DEFINE a == M(f, X)  a1 == M(g, X)  b == N(f[q], X)  b1 == N(g[q], X)
<1>1. a \in Nat /\ a1 \in Nat /\ b \in Nat /\ b1 \in Nat /\ a1 - b1 = a - b
  BY FamilyUpdate
<1>2. b1 <= b + x
  OBVIOUS
<1>3. a1 <= a + x
  <2> HIDE DEF a, a1, b, b1
  <2> QED BY <1>1, <1>2
<1> QED BY <1>3

(* What is given up in one place and taken up in another. *)
LEMMA Passed ==
  ASSUME NEW a \in Nat, NEW b \in Nat, NEW c \in Nat, NEW e \in Nat, NEW x \in Nat, a + x <= b, c <= e + x
  PROVE  a + c <= b + e /\ c + a <= e + b
OBVIOUS

LEMMA EffIs ==
  ASSUME NEW b \in Seq(Packet), b # <<>>, NEW blocked \in BOOLEAN, NEW h \in BOOLEAN, NEW X
  PROVE  /\ blocked => N(EffOf(b, blocked, h), X) = 0
         /\ ~blocked => N(EffOf(b, blocked, h), X) = N(Tail(b), X) + (IF h THEN One(Head(b), X) ELSE 0)
         /\ N(Tail(b), X) \in Nat /\ One(Head(b), X) \in {0, 1}
<1>1. N(Tail(b), X) + One(Head(b), X) = N(b, X) /\ Tail(b) \in Seq(Packet)
  BY NTail
<1>2. N(Tail(b), X) \in Nat /\ One(Head(b), X) \in {0, 1}
  BY <1>1, InFinite DEF One
<1>3. blocked => N(EffOf(b, blocked, h), X) = 0
  BY NEmpty DEF EffOf
<1>4. ~blocked /\ h => N(EffOf(b, blocked, h), X) = N(Tail(b), X) + One(Head(b), X)
  BY <1>1 DEF EffOf
<1>5. ~blocked /\ ~h => N(EffOf(b, blocked, h), X) = N(Tail(b), X) + 0
  BY <1>2 DEF EffOf
<1> QED BY <1>2, <1>3, <1>4, <1>5

LEMMA EnqueueN ==
  ASSUME NEW s \in Seq(Packet), NEW p \in Packet, NEW X
  PROVE  N(Enqueue(s, p), X) = N(s, X) \/ N(Enqueue(s, p), X) = N(s, X) + One(p, X)
<1>1. CASE Len(s) < RingSize
  BY <1>1, NAppend DEF Enqueue
<1>2. CASE ~(Len(s) < RingSize)
  BY <1>2 DEF Enqueue
<1> QED BY <1>1, <1>2

-----------------------------------------------------------------------------
(* Steps that leave the packets where they are. *)
Handling == {"clone", "input"}

LEMMA SameHeld ==
  ASSUME NEW f, NEW d, UNCHANGED <<burst, fromRing, cursor, arps>>,
         \A r \in Queue : pc'[r] = pc[r] \/ (pc[r] \notin Handling /\ pc'[r] \notin Handling)
  PROVE  HW(f, d)' = HW(f, d)
<1>1. ASSUME NEW r \in Queue PROVE HeldBy(r, f, d)' = HeldBy(r, f, d)
  <2>1. Heads(r, f, d)' = Heads(r, f, d)
    BY DEF Heads, HeadOf, Handling
  <2> QED BY <2>1 DEF HeldBy, Blocked
<1>2. Held(f, d)' = Held(f, d)
  BY <1>1 DEF Held
<1> QED BY <1>2 DEF HW

LEMMA QuietWeight ==
  ASSUME IInv, IInv', NEW f \in Frame, NEW d \in Dest,
         UNCHANGED <<rxq, dring, kni, burst, fromRing, cursor, arps, got>>,
         \A r \in Queue : pc'[r] = pc[r] \/ (pc[r] \notin Handling /\ pc'[r] \notin Handling)
  PROVE  Lighter(f, d)
<1>1. HW(f, d)' = HW(f, d)
  BY SameHeld
<1>2. RW(f)' = RW(f) /\ KW(f, d)' = KW(f, d) /\ DW(f, d)' = DW(f, d) /\ got'[d][f] = got[d][f]
  BY DEF RW, KW, DW, Ringed
<1>3. RW(f) \in Nat /\ HW(f, d) \in Nat
  BY NatsHold DEF AllNat
<1>4. RW(f)' + HW(f, d)' <= RW(f) + HW(f, d)
  BY <1>1, <1>2, <1>3
<1> QED BY <1>2, <1>4, Lightens

(* The steps of the devices, of the stack and of the idle loop. *)
Quiet(q) == TxDone \/ StackSend(q) \/ StackFree(q) \/ Drain(q) \/ NoDrain(q) \/ Stop(q) \/ UserDone(q) \/ KniRx(q)

LEMMA QuietIs ==
  ASSUME IInv, NEW q \in Queue, Quiet(q)
  PROVE  /\ UNCHANGED <<rxq, dring, kni, burst, fromRing, cursor, arps, got, frames>>
         /\ \A r \in Queue : pc'[r] = pc[r] \/ (pc[r] \notin Handling /\ pc'[r] \notin Handling)
<1>1. UNCHANGED <<rxq, dring, kni, burst, fromRing, cursor, arps, got, frames>>
  BY DEF Quiet, TxDone, StackSend, StackFree, Drain, NoDrain, Stop, UserDone, KniRx, procVars
<1>2. \/ UNCHANGED pc
      \/ /\ pc[q] \in {"loop", "user", "kniRx"}
         /\ Goto(q, AfterDrain(q)) \/ Goto(q, "stopped") \/ Goto(q, "loop") \/ Goto(q, "ring")
  BY DEF Quiet, TxDone, StackSend, StackFree, Drain, NoDrain, Stop, UserDone, KniRx, procVars
<1>3. CASE UNCHANGED pc
  BY <1>1, <1>3
<1>4. CASE /\ pc[q] \in {"loop", "user", "kniRx"}
           /\ Goto(q, AfterDrain(q)) \/ Goto(q, "stopped") \/ Goto(q, "loop") \/ Goto(q, "ring")
  <2>1. PICK l \in {"kniTx", "ring", "stopped", "loop"} : Goto(q, l)
    BY <1>4 DEF AfterDrain
  <2>2. pc'[q] = l /\ \A r \in Queue \ {q} : pc'[r] = pc[r]
    BY <2>1, GotoIs DEF IInv, Label
  <2> QED BY <1>1, <1>4, <2>2 DEF Handling
<1> QED BY <1>2, <1>3, <1>4

(* The families after a step of q. *)
LEMMA HeldChange ==
  ASSUME NEW q \in Queue, NEW f, NEW d, UNCHANGED arps,
         \A r \in Queue \ {q} : /\ burst'[r] = burst[r] /\ fromRing'[r] = fromRing[r]
                                /\ pc'[r] = pc[r] /\ cursor'[r] = cursor[r]
  PROVE  /\ Held(f, d)'[q] = HeldBy(q, f, d)' /\ Held(f, d)[q] = HeldBy(q, f, d)
         /\ \A r \in Queue \ {q} : Held(f, d)'[r] = Held(f, d)[r]
<1>1. ASSUME NEW r \in Queue \ {q} PROVE HeldBy(r, f, d)' = HeldBy(r, f, d)
  BY DEF HeldBy, Blocked, Heads
<1> QED BY <1>1 DEF Held

LEMMA HeldDown ==
  ASSUME IInv, IInv', NEW q \in Queue, NEW f \in Frame, NEW d \in Dest, UNCHANGED arps,
         \A r \in Queue \ {q} : /\ burst'[r] = burst[r] /\ fromRing'[r] = fromRing[r]
                                /\ pc'[r] = pc[r] /\ cursor'[r] = cursor[r],
         NEW x \in Nat, N(HeldBy(q, f, d)', Id(f)) + x <= N(HeldBy(q, f, d), Id(f))
  PROVE  HW(f, d)' + x <= HW(f, d)
<1> DEFINE A == Held(f, d)
           B == Held(f, d)'
<1>1. A \in Family /\ B \in Family
  BY FamiliesHold, FamiliesNext DEF Families
<1>2. B[q] = HeldBy(q, f, d)' /\ A[q] = HeldBy(q, f, d) /\ \A r \in Queue \ {q} : B[r] = A[r]
  BY HeldChange
<1> HIDE DEF A, B
<1>3. M(B, Id(f)) + x <= M(A, Id(f))
  BY <1>1, <1>2, MLess
<1> QED BY <1>3 DEF HW, A, B

(* A packet more, or none, in the ring of j. *)
LEMMA RingedUp ==
  ASSUME IInv, IInv', NEW j \in Queue, NEW f \in Frame, NEW d \in Dest, UNCHANGED arps,
         \A r \in Queue \ {j} : dring'[r] = dring[r], NEW y \in Nat, N(dring'[j], Id(f)) <= N(dring[j], Id(f)) + y
  PROVE  /\ Reach(j, f \in arps, d) => DW(f, d)' <= DW(f, d) + y
         /\ ~Reach(j, f \in arps, d) => DW(f, d)' = DW(f, d)
<1> DEFINE A == Ringed(f, d)
           B == Ringed(f, d)'
<1>1. A \in Family /\ B \in Family
  BY FamiliesHold, FamiliesNext DEF Families
<1>2. \A r \in Queue \ {j} : B[r] = A[r]
  BY DEF Ringed
<1>3. CASE Reach(j, f \in arps, d)
  <2>1. B[j] = dring'[j] /\ A[j] = dring[j]
    BY <1>3 DEF Ringed
  <2> HIDE DEF A, B
  <2>2. M(B, Id(f)) <= M(A, Id(f)) + y
    BY <1>1, <1>2, <2>1, MMore
  <2> QED BY <1>3, <2>2 DEF DW, A, B
<1>4. CASE ~Reach(j, f \in arps, d)
  <2>1. \A r \in Queue : (IF Reach(r, f \in arps, d) THEN dring'[r] ELSE <<>>) = IF Reach(r, f \in arps, d) THEN dring[r] ELSE <<>>
    BY <1>4
  <2>2. B = A
    BY <2>1 DEF Ringed
  <2> HIDE DEF A, B
  <2> QED BY <1>4, <2>2 DEF DW, A, B
<1> QED BY <1>3, <1>4

-----------------------------------------------------------------------------
(* Steps of process_packets. *)

(* What the current packet weighs. *)
Gone(q, f, d) == IF Blocked(q, f, d) \/ ~Heads(q, f, d) THEN 0 ELSE One(Current(q), Id(f))

LEMMA GoneNat == ASSUME NEW q, NEW f, NEW d PROVE Gone(q, f, d) \in Nat
BY OneNat DEF Gone

LEMMA HandledWeight ==
  ASSUME IInv, IInv', NEW q \in Queue, pc[q] \in Busy, NextPacket(q), UNCHANGED <<fromRing, cursor, arps>>,
         NEW f \in Frame, NEW d \in Dest
  PROVE  HW(f, d)' + Gone(q, f, d) <= HW(f, d)
<1> DEFINE b == burst[q]
           X == Id(f)
           k == Blocked(q, f, d)
           h == Heads(q, f, d)
<1>1. /\ Advanced(q) /\ b \in Seq(Packet) /\ b # <<>> /\ Current(q) = Head(b)
  BY NextPacketIs, BusyIs DEF Current
<1>2. /\ burst'[q] = Tail(b) /\ pc'[q] \notin Handling
      /\ \A r \in Queue \ {q} : /\ burst'[r] = burst[r] /\ fromRing'[r] = fromRing[r]
                                /\ pc'[r] = pc[r] /\ cursor'[r] = cursor[r]
  BY <1>1 DEF Advanced, Handling
<1>3. Blocked(q, f, d)' = k /\ Heads(q, f, d)'
  BY <1>2 DEF Blocked, Heads, HeadOf, Handling
<1>4. HeldBy(q, f, d)' = IF k THEN <<>> ELSE Tail(b)
  BY <1>2, <1>3 DEF HeldBy, EffOf
<1>5. k \in BOOLEAN /\ h \in BOOLEAN
  BY DEF Blocked, Heads, HeadOf, IInv, Types
<1> HIDE DEF b, X, k, h
<1>6. /\ k => N(EffOf(b, k, h), X) = 0
      /\ ~k => N(EffOf(b, k, h), X) = N(Tail(b), X) + (IF h THEN One(Head(b), X) ELSE 0)
      /\ N(Tail(b), X) \in Nat /\ One(Head(b), X) \in {0, 1}
  BY <1>1, <1>5, EffIs
<1>7. Gone(q, f, d) = IF k \/ ~h THEN 0 ELSE One(Head(b), X)
  BY <1>1 DEF Gone, k, h, X
<1>8. HeldBy(q, f, d) = EffOf(b, k, h)
  BY DEF HeldBy, b, k, h
<1>9. N(HeldBy(q, f, d)', X) + Gone(q, f, d) <= N(HeldBy(q, f, d), X)
  <2>1. CASE k
    <3>1. HeldBy(q, f, d)' = <<>> /\ Gone(q, f, d) = 0 /\ N(HeldBy(q, f, d), X) = 0
      BY <1>4, <1>6, <1>7, <1>8, <2>1
    <3>2. N(HeldBy(q, f, d)', X) = 0
      BY <3>1, NEmpty
    <3> QED BY <3>1, <3>2
  <2>2. CASE ~k /\ h
    <3>1. HeldBy(q, f, d)' = Tail(b) /\ Gone(q, f, d) = One(Head(b), X)
      BY <1>4, <1>7, <2>2
    <3>2. N(HeldBy(q, f, d), X) = N(Tail(b), X) + One(Head(b), X)
      BY <1>6, <1>8, <2>2
    <3>3. N(Tail(b), X) + One(Head(b), X) <= N(Tail(b), X) + One(Head(b), X)
      BY <1>6
    <3> QED BY <3>1, <3>2, <3>3
  <2>3. CASE ~k /\ ~h
    BY <1>4, <1>6, <1>7, <1>8, <2>3
  <2> QED BY <2>1, <2>2, <2>3
<1> QED BY <1>2, <1>9, GoneNat, HeldDown DEF X

(* The packet is neither delivered nor passed on. *)
LEMMA LostWeight ==
  ASSUME IInv, IInv', NEW q \in Queue, Respond(q) \/ Refuse(q) \/ InputDrops(q) \/ InputPartial(q),
         NEW f \in Frame, NEW d \in Dest
  PROVE  Lighter(f, d)
<1>1. /\ pc[q] \in Busy /\ NextPacket(q) /\ UNCHANGED <<rxq, dring, kni, fromRing, cursor, arps, got>>
  BY DEF Respond, Refuse, InputDrops, InputPartial, Busy
<1>2. HW(f, d)' + Gone(q, f, d) <= HW(f, d)
  BY <1>1, HandledWeight
<1>3. RW(f)' = RW(f) /\ KW(f, d)' = KW(f, d) /\ DW(f, d)' = DW(f, d) /\ got'[d][f] = got[d][f]
  BY <1>1 DEF RW, KW, DW, Ringed
<1>4. RW(f) \in Nat /\ HW(f, d) \in Nat /\ HW(f, d)' \in Nat /\ Gone(q, f, d) \in Nat
  BY NatsHold, NatsNext, GoneNat DEF AllNat
<1>5. RW(f)' + HW(f, d)' <= RW(f) + HW(f, d)
  BY <1>2, <1>3, <1>4
<1> QED BY <1>3, <1>5, Lightens

LEMMA ForwardWeight ==
  ASSUME IInv, IInv', NEW q \in Queue, NEW j \in Queue, Forward(q, j), NEW f \in Frame, NEW d \in Dest
  PROVE  Lighter(f, d)
<1> DEFINE x == One(Current(q), Id(f))
<1>1. /\ pc[q] = "handle" /\ ~fromRing[q] /\ NextPacket(q) /\ dring' = [dring EXCEPT ![j] = Enqueue(@, Current(q))]
      /\ UNCHANGED <<rxq, kni, fromRing, cursor, arps, got>>
  BY Zenon DEF Forward
<1>2. pc[q] \in Busy
  BY <1>1 DEF Busy
<1>3. Current(q) \in Packet
  BY <1>2, BusyIs
<1>4. Gone(q, f, d) = x /\ x \in Nat
  BY <1>1, OneNat DEF Gone, Blocked, Heads, HeadOf
<1>5. HW(f, d)' + x <= HW(f, d)
  BY <1>1, <1>2, <1>4, HandledWeight
<1>6. dring \in Family /\ dring[j] \in Seq(Packet) /\ pool \in [Mbuf -> Nat]
  BY DEF IInv, Types, Family
<1>7. dring'[j] = Enqueue(dring[j], Current(q)) /\ \A r \in Queue \ {j} : dring'[r] = dring[r]
  BY <1>1, <1>6 DEF Family
<1>8. N(dring'[j], Id(f)) <= N(dring[j], Id(f)) + x
  <2>1. N(dring[j], Id(f)) \in Nat
    BY <1>6, InFinite
  <2>2. N(dring'[j], Id(f)) = N(dring[j], Id(f)) \/ N(dring'[j], Id(f)) = N(dring[j], Id(f)) + x
    BY <1>3, <1>6, <1>7, EnqueueN
  <2> HIDE DEF x
  <2> QED BY <1>4, <2>1, <2>2
<1> HIDE DEF x
<1>9. HW(f, d) \in Nat /\ HW(f, d)' \in Nat /\ DW(f, d) \in Nat /\ DW(f, d)' \in Nat
  BY NatsHold, NatsNext DEF AllNat
<1>10. DW(f, d)' <= DW(f, d) + x
  <2>1. Reach(j, f \in arps, d) => DW(f, d)' <= DW(f, d) + x
    BY <1>1, <1>4, <1>7, <1>8, RingedUp
  <2>2. ~Reach(j, f \in arps, d) => DW(f, d)' = DW(f, d)
    BY <1>1, <1>4, <1>7, <1>8, RingedUp
  <2> QED BY <1>4, <1>9, <2>1, <2>2
<1>11. DW(f, d)' + HW(f, d)' <= DW(f, d) + HW(f, d)
  BY <1>4, <1>5, <1>9, <1>10, Passed
<1>12. RW(f)' = RW(f) /\ KW(f, d)' = KW(f, d) /\ got'[d][f] = got[d][f]
  BY <1>1 DEF RW, KW
<1> QED BY <1>11, <1>12, Lightens

(* A packet more, or none, for the kernel. *)
LEMMA KniUp ==
  ASSUME IInv, IInv', NEW p \in Packet, kni' = kni \/ kni' = Enqueue(kni, p), UNCHANGED arps, NEW f \in Frame, NEW d \in Dest
  PROVE  /\ d = Kernel \/ f \notin arps => KW(f, d)' <= KW(f, d) + One(p, Id(f))
         /\ ~(d = Kernel \/ f \notin arps) => KW(f, d)' = KW(f, d)
<1> DEFINE x == One(p, Id(f))
<1>1. kni \in Seq(Packet) /\ pool \in [Mbuf -> Nat]
  BY DEF IInv, Types
<1>2. x \in Nat /\ N(kni, Id(f)) \in Nat
  BY <1>1, OneNat, InFinite
<1>3. N(kni', Id(f)) = N(kni, Id(f)) \/ N(kni', Id(f)) = N(kni, Id(f)) + x
  BY <1>1, EnqueueN
<1> HIDE DEF x
<1>4. N(kni', Id(f)) <= N(kni, Id(f)) + x
  BY <1>2, <1>3
<1> QED BY <1>4 DEF KW, x

LEMMA ToKernelWeight ==
  ASSUME IInv, IInv', NEW q \in Queue, ToKernel(q), NEW f \in Frame, NEW d \in Dest
  PROVE  Lighter(f, d)
<1> DEFINE x == One(Current(q), Id(f))
<1>1. /\ pc[q] = "handle" /\ Current(q).id \notin arps /\ NextPacket(q)
      /\ kni' = kni \/ kni' = Enqueue(kni, Current(q))
      /\ UNCHANGED <<rxq, dring, fromRing, cursor, arps, got>>
  BY DEF ToKernel
<1>2. pc[q] \in Busy
  BY <1>1 DEF Busy
<1>3. Current(q) \in Packet
  BY <1>2, BusyIs
<1>4. Gone(q, f, d) = x /\ x \in Nat
  <2>1. x = 0 \/ f \notin arps
    BY <1>1, <1>3 DEF One, Id
  <2>2. CASE f \notin arps
    BY <1>1, <2>2, OneNat DEF Gone, Blocked, Heads, HeadOf, Reach
  <2>3. CASE x = 0
    BY <2>3 DEF Gone
  <2> QED BY <2>1, <2>2, <2>3
<1>5. HW(f, d)' + x <= HW(f, d)
  BY <1>1, <1>2, <1>4, HandledWeight
<1>6. HW(f, d) \in Nat /\ HW(f, d)' \in Nat /\ KW(f, d) \in Nat /\ KW(f, d)' \in Nat
  BY NatsHold, NatsNext DEF AllNat
<1>7. KW(f, d)' <= KW(f, d) + x
  <2>1. d = Kernel \/ f \notin arps => KW(f, d)' <= KW(f, d) + x
    BY <1>1, <1>3, KniUp
  <2>2. ~(d = Kernel \/ f \notin arps) => KW(f, d)' = KW(f, d)
    BY <1>1, <1>3, KniUp
  <2> HIDE DEF x
  <2> QED BY <1>4, <1>6, <2>1, <2>2
<1> HIDE DEF x
<1>8. HW(f, d)' + KW(f, d)' <= HW(f, d) + KW(f, d)
  BY <1>4, <1>5, <1>6, <1>7, Passed
<1>9. RW(f)' = RW(f) /\ DW(f, d)' = DW(f, d) /\ got'[d][f] = got[d][f]
  BY <1>1 DEF RW, DW, Ringed
<1> QED BY <1>8, <1>9, Lightens

(* What the stack of q gets. *)
LEMMA InputGot ==
  ASSUME IInv, NEW q \in Queue, Input(q), NEW f \in Frame, NEW d \in Dest
  PROVE  /\ d = q => got'[d][f] = got[d][f] + One(Current(q), Id(f))
         /\ d # q => got'[d][f] = got[d][f]
         /\ d = q => Gone(q, f, d) = One(Current(q), Id(f))
         /\ f \notin arps => Gone(q, f, d) = One(Current(q), Id(f))
<1>1. pc[q] = "input" /\ got' = [got EXCEPT ![q][Current(q).id] = @ + 1]
  BY Zenon DEF Input
<1>2. Current(q) \in Packet
  BY <1>1, BusyIs DEF Busy
<1>3. got \in [Dest -> [Frame -> Nat]] /\ q \in Dest
  BY DEF IInv, Types, Dest, Frame
<1>4. Current(q) \in Id(f) <=> Current(q).id = f
  BY <1>2 DEF Id
<1>5. d = q => Gone(q, f, d) = One(Current(q), Id(f))
  BY <1>1 DEF Gone, Blocked, Heads, HeadOf, Reach
<1>6. f \notin arps => Gone(q, f, d) = One(Current(q), Id(f))
  BY <1>1 DEF Gone, Blocked, Heads, HeadOf, Reach
<1>7. d # q => got'[d][f] = got[d][f]
  BY <1>1, <1>3
<1>8. d = q => got'[d][f] = got[d][f] + One(Current(q), Id(f))
  <2>0. got[q] \in [Frame -> Nat] /\ got[q][f] \in Nat
    BY <1>3
  <2>1. got'[q] = [got[q] EXCEPT ![Current(q).id] = got[q][Current(q).id] + 1]
    BY <1>1, <1>3
  <2>2. CASE Current(q).id = f
    BY <1>4, <2>0, <2>1, <2>2 DEF One
  <2>3. CASE Current(q).id # f
    BY <1>4, <2>0, <2>1, <2>3 DEF One
  <2> QED BY <2>2, <2>3
<1> QED BY <1>5, <1>6, <1>7, <1>8

LEMMA InputWeight ==
  ASSUME IInv, IInv', NEW q \in Queue, Input(q), NEW f \in Frame, NEW d \in Dest
  PROVE  Lighter(f, d)
<1> DEFINE x == Gone(q, f, d)
<1>1. pc[q] = "input" /\ NextPacket(q) /\ UNCHANGED <<rxq, dring, kni, fromRing, cursor, arps>>
  BY Zenon DEF Input
<1>2. pc[q] \in Busy
  BY <1>1 DEF Busy
<1>3. HW(f, d)' + x <= HW(f, d) /\ x \in Nat
  BY <1>1, <1>2, HandledWeight, GoneNat
<1>4. HW(f, d) \in Nat /\ HW(f, d)' \in Nat /\ got[d][f] \in Nat /\ got'[d][f] \in Nat
  BY NatsHold, NatsNext DEF AllNat
<1>5. got'[d][f] <= got[d][f] + x
  <2>1. got'[d][f] = got[d][f] + x \/ got'[d][f] = got[d][f]
    BY InputGot
  <2> HIDE DEF x
  <2> QED BY <1>3, <1>4, <2>1
<1> HIDE DEF x
<1>6. HW(f, d)' + got'[d][f] <= HW(f, d) + got[d][f]
  BY <1>3, <1>4, <1>5, Passed
<1>7. RW(f)' = RW(f) /\ DW(f, d)' = DW(f, d) /\ KW(f, d)' = KW(f, d)
  BY <1>1 DEF RW, DW, Ringed, KW
<1> QED BY <1>6, <1>7, Lightens

-----------------------------------------------------------------------------
(* The steps that keep the packet.  Only ARP and NDP is broadcast, and not *)
(* again when it came through a ring.                                      *)
Broadcast ==
  \A q \in Queue : pc[q] = "clone" => Current(q).id \in arps /\ (fromRing[q] => cursor[q] = NbQueues)

LEMMA TurnWeight ==
  ASSUME IInv, IInv', NEW q \in Queue, pc[q] \in Busy, UNCHANGED <<burst, fromRing, arps>>,
         \A r \in Queue \ {q} : pc'[r] = pc[r] /\ cursor'[r] = cursor[r],
         NEW f \in Frame, NEW d \in Dest, NEW x \in {0, 1},
         Blocked(q, f, d) \/ Current(q) \notin Id(f) => x = 0,
         ~Blocked(q, f, d) /\ Current(q) \in Id(f) =>
           (IF Heads(q, f, d)' THEN 1 ELSE 0) + x <= IF Heads(q, f, d) THEN 1 ELSE 0
  PROVE  HW(f, d)' + x <= HW(f, d)
<1> DEFINE b == burst[q]
           X == Id(f)
           k == Blocked(q, f, d)
           h == Heads(q, f, d)
           h1 == Heads(q, f, d)'
           y == One(Head(b), X)
<1>1. b \in Seq(Packet) /\ b # <<>> /\ Current(q) = Head(b)
  BY BusyIs DEF Current
<1>2. k \in BOOLEAN /\ h \in BOOLEAN /\ h1 \in BOOLEAN
  BY DEF Blocked, Heads, HeadOf, IInv, Types
<1>3. HeldBy(q, f, d) = EffOf(b, k, h) /\ HeldBy(q, f, d)' = EffOf(b, k, h1)
  BY DEF HeldBy, Blocked
<1>4. k \/ Current(q) \notin X => x = 0
  OBVIOUS
<1>5. ~k /\ Current(q) \in X => (IF h1 THEN 1 ELSE 0) + x <= IF h THEN 1 ELSE 0
  OBVIOUS
<1>6. y = IF Current(q) \in X THEN 1 ELSE 0
  BY <1>1 DEF One
<1> HIDE DEF b, X, k, h, h1
<1>7. /\ k => N(EffOf(b, k, h), X) = 0
      /\ ~k => N(EffOf(b, k, h), X) = N(Tail(b), X) + (IF h THEN One(Head(b), X) ELSE 0)
      /\ N(Tail(b), X) \in Nat /\ One(Head(b), X) \in {0, 1}
  BY <1>1, <1>2, EffIs
<1>8. /\ k => N(EffOf(b, k, h1), X) = 0
      /\ ~k => N(EffOf(b, k, h1), X) = N(Tail(b), X) + (IF h1 THEN One(Head(b), X) ELSE 0)
  BY <1>1, <1>2, EffIs
<1>9. N(EffOf(b, k, h1), X) + x <= N(EffOf(b, k, h), X)
  <2>1. CASE k
    <3>1. x = 0 /\ N(EffOf(b, k, h), X) = 0 /\ N(EffOf(b, k, h1), X) = 0
      BY <1>4, <1>7, <1>8, <2>1
    <3> QED BY <3>1
  <2>2. CASE ~k
    <3> DEFINE n == N(Tail(b), X)
               z == IF h THEN y ELSE 0
               z1 == IF h1 THEN y ELSE 0
    <3>1. N(EffOf(b, k, h), X) = n + z /\ N(EffOf(b, k, h1), X) = n + z1 /\ n \in Nat
      BY <1>7, <1>8, <2>2
    <3>2. z \in {0, 1} /\ z1 \in {0, 1} /\ z1 + x <= z
      BY <1>4, <1>5, <1>6, <2>2
    <3> HIDE DEF n, z, z1
    <3>3. n + z1 + x <= n + z
      BY <3>1, <3>2
    <3> QED BY <3>1, <3>3
  <2> QED BY <2>1, <2>2
<1>10. N(HeldBy(q, f, d)', Id(f)) + x <= N(HeldBy(q, f, d), Id(f))
  BY <1>3, <1>9 DEF X
<1> QED BY <1>10, HeldDown

LEMMA KeepWeight ==
  ASSUME IInv, IInv', NEW q \in Queue, Keep(q), NEW f \in Frame, NEW d \in Dest
  PROVE  Lighter(f, d)
<1>1. /\ pc[q] = "handle" /\ (Goto(q, "clone") \/ Goto(q, "input"))
      /\ cursor' = cursor \/ cursor' = [cursor EXCEPT ![q] = BroadcastFrom(q)]
      /\ UNCHANGED <<rxq, dring, kni, burst, fromRing, arps, got>>
  BY DEF Keep
<1>2. pc[q] \in Busy /\ Heads(q, f, d) /\ Heads(q, f, d)' \in BOOLEAN
  BY <1>1 DEF Busy, Heads, HeadOf
<1>3. \A r \in Queue \ {q} : pc'[r] = pc[r] /\ cursor'[r] = cursor[r]
  BY <1>1 DEF Goto, IInv, Types
<1>4. HW(f, d)' + 0 <= HW(f, d)
  <2>1. (IF Heads(q, f, d)' THEN 1 ELSE 0) + 0 <= IF Heads(q, f, d) THEN 1 ELSE 0
    BY <1>2
  <2>2. UNCHANGED <<burst, fromRing, arps>>
    BY <1>1
  <2> QED BY <1>2, <1>3, <2>1, <2>2, TurnWeight
<1>5. RW(f)' = RW(f) /\ KW(f, d)' = KW(f, d) /\ DW(f, d)' = DW(f, d) /\ got'[d][f] = got[d][f]
  BY <1>1 DEF RW, KW, DW, Ringed
<1>6. RW(f) \in Nat /\ HW(f, d) \in Nat /\ HW(f, d)' \in Nat
  BY NatsHold, NatsNext DEF AllNat
<1>7. RW(f)' + HW(f, d)' <= RW(f) + HW(f, d)
  BY <1>4, <1>5, <1>6
<1> QED BY <1>5, <1>7, Lightens

LEMMA CloneToWeight ==
  ASSUME IInv, IInv', Broadcast, NEW q \in Queue, CloneTo(q), NEW f \in Frame, NEW d \in Dest
  PROVE  Lighter(f, d)
<1> DEFINE j == cursor[q]
           a == f \in arps
<1>1. /\ pc[q] = "clone" /\ j < NbQueues /\ cursor' = [cursor EXCEPT ![q] = j + 1]
      /\ UNCHANGED <<rxq, kni, burst, fromRing, pc, arps, got>>
  BY Zenon DEF CloneTo
<1>2. pc[q] \in Busy /\ j \in Queue /\ j \in Nat /\ NbQueues \in Nat /\ ~fromRing[q] /\ Current(q).id \in arps
  BY <1>1, PacketPathAssumption DEF Busy, IInv, Types, Queue, Broadcast
<1>3. cursor'[q] = j + 1 /\ \A r \in Queue \ {q} : pc'[r] = pc[r] /\ cursor'[r] = cursor[r]
  BY <1>1 DEF IInv, Types
<1>4. /\ Heads(q, f, d) <=> d = q \/ (d \in Queue /\ j <= d) \/ (d = Kernel /\ (q = Primary \/ j = 0))
      /\ Heads(q, f, d)' <=> d = q \/ (d \in Queue /\ j + 1 <= d) \/ (d = Kernel /\ (q = Primary \/ j + 1 = 0))
  BY <1>1, <1>3 DEF Heads, HeadOf
<1>5. ~Blocked(q, f, d) /\ (Current(q) \in Id(f) => a)
  BY <1>2 DEF Blocked, Id
<1>6. Kernel \notin Queue /\ \A e \in Queue : e \in Nat
  BY PacketPathAssumption DEF Kernel, Queue
<1>7. Heads(q, f, d)' => Heads(q, f, d)
  BY <1>2, <1>4, <1>6
<1>8. a /\ j # q /\ Reach(j, a, d) => Heads(q, f, d) /\ ~Heads(q, f, d)'
  <2>1. SUFFICES ASSUME a, j # q, Reach(j, a, d) PROVE Heads(q, f, d) /\ ~Heads(q, f, d)'
    OBVIOUS
  <2>2. CASE d = j
    BY <1>2, <1>4, <1>6, <2>1, <2>2
  <2>3. CASE d = Kernel /\ j = Primary
    BY <1>2, <1>4, <1>6, <2>1, <2>3 DEF Primary
  <2> QED BY <2>1, <2>2, <2>3 DEF Reach
<1>9. UNCHANGED <<burst, fromRing, arps>>
  BY <1>1
<1>10. RW(f)' = RW(f) /\ KW(f, d)' = KW(f, d) /\ got'[d][f] = got[d][f]
  BY <1>1 DEF RW, KW
<1>11. HW(f, d) \in Nat /\ HW(f, d)' \in Nat /\ DW(f, d) \in Nat /\ DW(f, d)' \in Nat
  BY NatsHold, NatsNext DEF AllNat
<1>12. ASSUME NEW x \in {0, 1}, x = 1 => Current(q) \in Id(f) /\ j # q /\ Reach(j, a, d)
       PROVE  HW(f, d)' + x <= HW(f, d)
  <2>1. Blocked(q, f, d) \/ Current(q) \notin Id(f) => x = 0
    BY <1>5, <1>12
  <2>2. ~Blocked(q, f, d) /\ Current(q) \in Id(f) =>
           (IF Heads(q, f, d)' THEN 1 ELSE 0) + x <= IF Heads(q, f, d) THEN 1 ELSE 0
    BY <1>5, <1>7, <1>8, <1>12
  <2> QED BY <1>2, <1>3, <1>9, <2>1, <2>2, TurnWeight
<1> HIDE DEF j, a
<1>13. CASE dring' = dring
  <2>1. HW(f, d)' + 0 <= HW(f, d)
    BY <1>12
  <2>2. DW(f, d)' = DW(f, d)
    BY <1>9, <1>13 DEF DW, Ringed
  <2>3. DW(f, d)' + HW(f, d)' <= DW(f, d) + HW(f, d)
    BY <1>11, <2>1, <2>2
  <2> QED BY <1>10, <2>3, Lightens
<1>14. CASE j # q /\ \E c \in Clones(q) : dring' = [dring EXCEPT ![j] = Enqueue(@, [Current(q) EXCEPT !.segs = c])]
  <2>1. PICK c \in Clones(q) : dring' = [dring EXCEPT ![j] = Enqueue(@, [Current(q) EXCEPT !.segs = c])]
    BY <1>14
  <2> DEFINE p == [Current(q) EXCEPT !.segs = c]
             y == One(p, Id(f))
             x == IF Reach(j, a, d) THEN y ELSE 0
  <2>2. p \in Packet /\ p.id = Current(q).id /\ Current(q) \in Packet
    BY <1>2, CloneIs, BusyIs
  <2>3. dring' = [dring EXCEPT ![j] = Enqueue(@, p)]
    BY <2>1
  <2> HIDE DEF p
  <2>4. y \in {0, 1} /\ (y = 1 => Current(q) \in Id(f))
    BY <2>2 DEF One, Id
  <2> HIDE DEF y
  <2>5. HW(f, d)' + x <= HW(f, d)
    BY <1>12, <1>14, <2>4
  <2>6. dring \in Family /\ dring[j] \in Seq(Packet)
    BY <1>2 DEF IInv, Types, Family
  <2>7. dring'[j] = Enqueue(dring[j], p) /\ \A r \in Queue \ {j} : dring'[r] = dring[r]
    BY <1>2, <2>3, <2>6 DEF Family
  <2>8. N(dring[j], Id(f)) \in Nat
    BY <2>6, InFinite
  <2>9. N(dring'[j], Id(f)) <= N(dring[j], Id(f)) + y
    <3>1. N(dring'[j], Id(f)) = N(dring[j], Id(f)) \/ N(dring'[j], Id(f)) = N(dring[j], Id(f)) + y
      BY <2>2, <2>6, <2>7, EnqueueN DEF y
    <3> QED BY <2>4, <2>8, <3>1
  <2>10. y \in Nat
    BY <2>4
  <2>11. /\ Reach(j, a, d) => DW(f, d)' <= DW(f, d) + y
         /\ ~Reach(j, a, d) => DW(f, d)' = DW(f, d)
    BY <1>2, <1>9, <2>7, <2>9, <2>10, RingedUp DEF a
  <2>12. DW(f, d)' <= DW(f, d) + x /\ x \in Nat
    BY <1>11, <2>10, <2>11
  <2> HIDE DEF x
  <2>13. DW(f, d)' + HW(f, d)' <= DW(f, d) + HW(f, d)
    BY <1>11, <2>5, <2>12, Passed
  <2> QED BY <1>10, <2>13, Lightens
<1> QED BY <1>13, <1>14 DEF CloneTo, j

LEMMA CloneToKernelWeight ==
  ASSUME IInv, IInv', Broadcast, NEW q \in Queue, CloneToKernel(q), NEW f \in Frame, NEW d \in Dest
  PROVE  Lighter(f, d)
<1> DEFINE a == f \in arps
<1>1. /\ pc[q] = "clone" /\ cursor[q] = NbQueues /\ Goto(q, "input")
      /\ UNCHANGED <<rxq, dring, burst, fromRing, cursor, arps, got>>
  BY Zenon DEF CloneToKernel
<1>2. pc[q] \in Busy /\ Current(q).id \in arps /\ NbQueues # 0
  BY <1>1, PacketPathAssumption DEF Busy, Broadcast
<1>3. pc'[q] = "input" /\ \A r \in Queue \ {q} : pc'[r] = pc[r] /\ cursor'[r] = cursor[r]
  BY <1>1 DEF Goto, IInv, Types
<1>4. /\ Heads(q, f, d)' <=> ~a \/ d = q
      /\ d = q \/ (d = Kernel /\ q = Primary) => Heads(q, f, d)
  BY <1>1, <1>3 DEF Heads, HeadOf
<1>5. Current(q) \in Id(f) => a
  BY <1>2 DEF Id
<1>6. Kernel \notin Queue
  BY PacketPathAssumption DEF Kernel, Queue
<1>7. d = Kernel /\ q = Primary => ~Blocked(q, f, d)
  BY DEF Blocked, Reach
<1>8. UNCHANGED <<burst, fromRing, arps>>
  BY <1>1
<1>9. RW(f)' = RW(f) /\ DW(f, d)' = DW(f, d) /\ got'[d][f] = got[d][f]
  BY <1>1 DEF RW, DW, Ringed
<1>10. HW(f, d) \in Nat /\ HW(f, d)' \in Nat /\ KW(f, d) \in Nat /\ KW(f, d)' \in Nat
  BY NatsHold, NatsNext DEF AllNat
<1>11. ASSUME NEW x \in {0, 1}, x = 1 => Current(q) \in Id(f) /\ d = Kernel /\ q = Primary
       PROVE  HW(f, d)' + x <= HW(f, d)
  <2>1. Blocked(q, f, d) \/ Current(q) \notin Id(f) => x = 0
    BY <1>7, <1>11
  <2>2. ~Blocked(q, f, d) /\ Current(q) \in Id(f) =>
           (IF Heads(q, f, d)' THEN 1 ELSE 0) + x <= IF Heads(q, f, d) THEN 1 ELSE 0
    BY <1>4, <1>5, <1>6, <1>11
  <2> QED BY <1>2, <1>3, <1>8, <2>1, <2>2, TurnWeight
<1> HIDE DEF a
<1>12. CASE kni' = kni
  <2>1. HW(f, d)' + 0 <= HW(f, d)
    BY <1>11
  <2>2. KW(f, d)' = KW(f, d)
    BY <1>8, <1>12 DEF KW
  <2>3. HW(f, d)' + KW(f, d)' <= HW(f, d) + KW(f, d)
    BY <1>10, <2>1, <2>2
  <2> QED BY <1>9, <2>3, Lightens
<1>13. CASE q = Primary /\ \E c \in Clones(q) : kni' = Enqueue(kni, [Current(q) EXCEPT !.segs = c])
  <2>1. PICK c \in Clones(q) : kni' = Enqueue(kni, [Current(q) EXCEPT !.segs = c])
    BY <1>13
  <2> DEFINE p == [Current(q) EXCEPT !.segs = c]
             y == One(p, Id(f))
             x == IF d = Kernel THEN y ELSE 0
  <2>2. p \in Packet /\ p.id = Current(q).id /\ Current(q) \in Packet
    BY <1>2, CloneIs, BusyIs
  <2>3. kni' = Enqueue(kni, p)
    BY <2>1
  <2> HIDE DEF p
  <2>4. y \in {0, 1} /\ (y = 1 => Current(q) \in Id(f))
    BY <2>2 DEF One, Id
  <2>5. /\ d = Kernel \/ f \notin arps => KW(f, d)' <= KW(f, d) + y
        /\ ~(d = Kernel \/ f \notin arps) => KW(f, d)' = KW(f, d)
    BY <1>8, <2>2, <2>3, KniUp
  <2>6. f \notin arps => y = 0
    BY <1>5, <2>4 DEF a
  <2> HIDE DEF y
  <2>7. HW(f, d)' + x <= HW(f, d)
    BY <1>11, <1>13, <2>4
  <2>8. KW(f, d)' <= KW(f, d) + x /\ x \in Nat
    BY <1>10, <2>4, <2>5, <2>6
  <2> HIDE DEF x
  <2>9. HW(f, d)' + KW(f, d)' <= HW(f, d) + KW(f, d)
    BY <1>10, <2>7, <2>8, Passed
  <2> QED BY <1>9, <2>9, Lightens
<1> QED BY <1>12, <1>13 DEF CloneToKernel

-----------------------------------------------------------------------------
(* Bursts, arrivals and the kernel. *)
LEMMA BurstWeight ==
  ASSUME IInv, IInv', NEW q \in Queue, pc[q] \notin Busy, NEW s \in Seq(Packet), NEW ring \in BOOLEAN,
         NEW empty \in {"rx", "user"}, TakeBurst(q, s, ring, empty), UNCHANGED <<cursor, arps>>,
         NEW f \in Frame, NEW d \in Dest
  PROVE  /\ ring /\ ~Reach(q, f \in arps, d) => HW(f, d)' <= HW(f, d)
         /\ ~(ring /\ ~Reach(q, f \in arps, d)) => HW(f, d)' <= HW(f, d) + N(First(s), Id(f))
<1> DEFINE A == Held(f, d)
           B == Held(f, d)'
           k == ring /\ ~Reach(q, f \in arps, d)
<1>1. /\ burst'[q] = First(s) /\ burst[q] = <<>> /\ fromRing'[q] = ring /\ pc'[q] \notin Handling
      /\ \A r \in Queue \ {q} : /\ burst'[r] = burst[r] /\ fromRing'[r] = fromRing[r]
                                /\ pc'[r] = pc[r] /\ cursor'[r] = cursor[r]
  BY TakeBurstIs DEF Handling
<1>2. A \in Family /\ B \in Family
  BY FamiliesHold, FamiliesNext DEF Families
<1>3. B[q] = HeldBy(q, f, d)' /\ A[q] = HeldBy(q, f, d) /\ \A r \in Queue \ {q} : B[r] = A[r]
  BY <1>1, HeldChange
<1>4. HeldBy(q, f, d) = <<>>
  <2>1. Heads(q, f, d)
    BY DEF Heads, HeadOf, Busy
  <2> QED BY <1>1, <2>1 DEF HeldBy, EffOf
<1>5. HeldBy(q, f, d)' = IF k THEN <<>> ELSE First(s)
  <2>1. Heads(q, f, d)' /\ Blocked(q, f, d)' = k
    BY <1>1 DEF Heads, HeadOf, Handling, Blocked
  <2> QED BY <1>1, <2>1 DEF HeldBy, EffOf
<1>6. First(s) \in Seq(Packet)
  BY TakenIs
<1>7. N(First(s), Id(f)) \in Nat /\ N(<<>>, Id(f)) = 0
  BY <1>6, InFinite, NEmpty
<1> HIDE DEF A, B
<1>8. CASE k
  <2>1. N(B[q], Id(f)) <= N(A[q], Id(f)) + 0
    BY <1>3, <1>4, <1>5, <1>7, <1>8
  <2>2. M(B, Id(f)) <= M(A, Id(f)) + 0
    BY <1>2, <1>3, <2>1, MMore
  <2>3. M(A, Id(f)) \in Nat
    BY <1>2, MNat
  <2> QED BY <1>8, <2>2, <2>3 DEF HW, A, B
<1>9. CASE ~k
  <2>1. N(B[q], Id(f)) <= N(A[q], Id(f)) + N(First(s), Id(f))
    <3>1. N(B[q], Id(f)) = N(First(s), Id(f)) /\ N(A[q], Id(f)) = 0
      BY <1>3, <1>4, <1>5, <1>7, <1>9
    <3> QED BY <1>7, <3>1
  <2>2. M(B, Id(f)) <= M(A, Id(f)) + N(First(s), Id(f))
    BY <1>2, <1>3, <1>7, <2>1, MMore
  <2> QED BY <1>9, <2>2 DEF HW, A, B
<1> QED BY <1>8, <1>9

LEMMA RxBurstWeight ==
  ASSUME IInv, IInv', NEW q \in Queue, RxBurst(q), NEW f \in Frame, NEW d \in Dest
  PROVE  Lighter(f, d)
<1> DEFINE x == N(First(rxq[q]), Id(f))
<1>1. /\ pc[q] = "rx" /\ TakeBurst(q, rxq[q], FALSE, "user") /\ rxq' = [rxq EXCEPT ![q] = Rest(rxq[q])]
      /\ UNCHANGED <<dring, kni, cursor, arps, got>>
  BY DEF RxBurst
<1>2. rxq \in Family /\ rxq[q] \in Seq(Packet) /\ pc[q] \notin Busy
  BY <1>1 DEF IInv, Types, Family, Busy
<1>3. HW(f, d)' <= HW(f, d) + x
  BY <1>1, <1>2, BurstWeight
<1>4. /\ First(rxq[q]) \in Seq(Packet) /\ Rest(rxq[q]) \in Seq(Packet)
      /\ x + N(Rest(rxq[q]), Id(f)) = N(rxq[q], Id(f))
  BY <1>2, TakenIs
<1>5. x \in Nat /\ N(Rest(rxq[q]), Id(f)) \in Nat
  BY <1>4, InFinite
<1> HIDE DEF x
<1>6. rxq' \in Family /\ rxq'[q] = Rest(rxq[q]) /\ \A r \in Queue \ {q} : rxq'[r] = rxq[r]
  BY <1>1, <1>2, <1>4 DEF Family
<1>7. N(rxq'[q], Id(f)) + x <= N(rxq[q], Id(f))
  BY <1>4, <1>5, <1>6
<1>8. RW(f)' + x <= RW(f)
  BY <1>2, <1>5, <1>6, <1>7, MLess DEF RW
<1>9. RW(f) \in Nat /\ RW(f)' \in Nat /\ HW(f, d) \in Nat /\ HW(f, d)' \in Nat
  BY NatsHold, NatsNext DEF AllNat
<1>10. RW(f)' + HW(f, d)' <= RW(f) + HW(f, d)
  BY <1>3, <1>5, <1>8, <1>9, Passed
<1>11. DW(f, d)' = DW(f, d) /\ KW(f, d)' = KW(f, d) /\ got'[d][f] = got[d][f]
  BY <1>1 DEF DW, Ringed, KW
<1> QED BY <1>10, <1>11, Lightens

LEMMA RingBurstWeight ==
  ASSUME IInv, IInv', NEW q \in Queue, RingBurst(q), NEW f \in Frame, NEW d \in Dest
  PROVE  Lighter(f, d)
<1> DEFINE y == N(First(dring[q]), Id(f))
           k == ~Reach(q, f \in arps, d)
           x == IF k THEN 0 ELSE y
           A == Ringed(f, d)
           B == Ringed(f, d)'
<1>1. /\ pc[q] = "ring" /\ TakeBurst(q, dring[q], TRUE, "rx") /\ dring' = [dring EXCEPT ![q] = Rest(dring[q])]
      /\ UNCHANGED <<rxq, kni, cursor, arps, got>>
  BY DEF RingBurst
<1>2. dring \in Family /\ dring[q] \in Seq(Packet) /\ pc[q] \notin Busy
  BY <1>1 DEF IInv, Types, Family, Busy
<1>3. (k => HW(f, d)' <= HW(f, d)) /\ (~k => HW(f, d)' <= HW(f, d) + y)
  BY <1>1, <1>2, BurstWeight
<1>4. /\ First(dring[q]) \in Seq(Packet) /\ Rest(dring[q]) \in Seq(Packet)
      /\ y + N(Rest(dring[q]), Id(f)) = N(dring[q], Id(f))
  BY <1>2, TakenIs
<1>5. y \in Nat /\ N(Rest(dring[q]), Id(f)) \in Nat
  BY <1>4, InFinite
<1> HIDE DEF y
<1>6. dring'[q] = Rest(dring[q]) /\ \A r \in Queue \ {q} : dring'[r] = dring[r]
  BY <1>1, <1>2 DEF Family
<1>7. A \in Family /\ B \in Family
  BY FamiliesHold, FamiliesNext DEF Families
<1>8. /\ B[q] = (IF k THEN <<>> ELSE Rest(dring[q])) /\ A[q] = (IF k THEN <<>> ELSE dring[q])
      /\ \A r \in Queue \ {q} : B[r] = A[r]
  BY <1>1, <1>6 DEF Ringed
<1> HIDE DEF A, B, k
<1>9. N(B[q], Id(f)) + x <= N(A[q], Id(f)) /\ x \in Nat
  <2>1. CASE k
    BY <1>8, <2>1, NEmpty
  <2>2. CASE ~k
    <3>1. N(B[q], Id(f)) = N(Rest(dring[q]), Id(f)) /\ N(A[q], Id(f)) = N(dring[q], Id(f)) /\ x = y
      BY <1>8, <2>2
    <3> HIDE DEF x
    <3> QED BY <1>4, <1>5, <3>1
  <2> QED BY <2>1, <2>2
<1>10. HW(f, d) \in Nat /\ HW(f, d)' \in Nat /\ DW(f, d) \in Nat /\ DW(f, d)' \in Nat
  BY NatsHold, NatsNext DEF AllNat
<1>11. HW(f, d)' <= HW(f, d) + x
  BY <1>3, <1>5, <1>10
<1> HIDE DEF x
<1>12. M(B, Id(f)) + x <= M(A, Id(f))
  BY <1>7, <1>8, <1>9, MLess
<1>13. DW(f, d)' + x <= DW(f, d)
  BY <1>12 DEF DW, A, B
<1>14. DW(f, d)' + HW(f, d)' <= DW(f, d) + HW(f, d)
  BY <1>9, <1>10, <1>11, <1>13, Passed
<1>15. RW(f)' = RW(f) /\ KW(f, d)' = KW(f, d) /\ got'[d][f] = got[d][f]
  BY <1>1 DEF RW, KW
<1> QED BY <1>14, <1>15, Lightens

(* What the kernel gets. *)
LEMMA KniTxGot ==
  ASSUME IInv, NEW q \in Queue, KniTx(q), NEW f \in Frame
  PROVE  /\ \A d \in Queue : got'[d][f] = got[d][f]
         /\ got'[Kernel][f] <= got[Kernel][f] + N(First(kni), Id(f))
         /\ N(First(kni), Id(f)) \in Nat /\ N(kni', Id(f)) \in Nat /\ N(kni', Id(f)) + N(First(kni), Id(f)) = N(kni, Id(f))
<1> DEFINE s == First(kni)
<1>1. kni' = Rest(kni) /\ kni \in Seq(Packet)
  BY DEF KniTx, IInv, Types
<1>2. PICK r \in 0 .. Len(s) :
        got' = [got EXCEPT ![Kernel] = [e \in 1 .. MaxFrames |-> @[e] + Cardinality({i \in 1 .. r : s[i].id = e})]]
  BY Zenon DEF KniTx
<1>3. s \in Seq(Packet) /\ Rest(kni) \in Seq(Packet) /\ N(s, Id(f)) + N(Rest(kni), Id(f)) = N(kni, Id(f))
  BY <1>1, TakenIs
<1> HIDE DEF s
<1>4. N(s, Id(f)) \in Nat /\ N(Rest(kni), Id(f)) \in Nat /\ IsFiniteSet(In(s, Id(f)))
  BY <1>3, InFinite
<1>5. N(kni', Id(f)) \in Nat /\ N(kni', Id(f)) + N(s, Id(f)) = N(kni, Id(f))
  BY <1>1, <1>3, <1>4
<1>6. got \in [Dest -> [Frame -> Nat]] /\ Kernel \in Dest /\ Kernel \notin Queue
  BY PacketPathAssumption DEF IInv, Types, Dest, Frame, Kernel, Queue
<1>7. \A d \in Queue : got'[d][f] = got[d][f]
  BY <1>2, <1>6 DEF Dest
<1> DEFINE J == {i \in 1 .. r : s[i].id = f}
<1>8. got'[Kernel][f] = got[Kernel][f] + Cardinality(J)
  BY <1>2, <1>6 DEF Frame
<1>9. J \in SUBSET In(s, Id(f))
  BY <1>3 DEF In, Id
<1> HIDE DEF J
<1>10. Cardinality(J) <= N(s, Id(f)) /\ Cardinality(J) \in Nat
  BY <1>4, <1>9, FS_Subset, FS_CardinalityType DEF N
<1>11. got'[Kernel][f] <= got[Kernel][f] + N(s, Id(f))
  <2>1. got[Kernel][f] \in Nat
    BY <1>6
  <2> QED BY <1>4, <1>8, <1>10, <2>1
<1> QED BY <1>4, <1>5, <1>7, <1>11 DEF s

LEMMA KniTxWeight ==
  ASSUME IInv, IInv', NEW q \in Queue, KniTx(q), NEW f \in Frame, NEW d \in Dest
  PROVE  Lighter(f, d)
<1> DEFINE x == N(First(kni), Id(f))
<1>1. /\ pc[q] = "kniTx" /\ Goto(q, "kniRx") /\ UNCHANGED <<rxq, dring, burst, fromRing, cursor, arps>>
  BY Zenon DEF KniTx
<1>2. \A r \in Queue : pc'[r] = pc[r] \/ (pc[r] \notin Handling /\ pc'[r] \notin Handling)
  BY <1>1 DEF Goto, IInv, Types, Handling
<1>3. HW(f, d)' = HW(f, d)
  BY <1>1, <1>2, SameHeld
<1>4. RW(f)' = RW(f) /\ DW(f, d)' = DW(f, d)
  BY <1>1 DEF RW, DW, Ringed
<1>5. KW(f, d) \in Nat /\ KW(f, d)' \in Nat /\ got[d][f] \in Nat /\ got'[d][f] \in Nat
  BY NatsHold, NatsNext DEF AllNat
<1>6. x \in Nat /\ N(kni', Id(f)) \in Nat /\ N(kni', Id(f)) + x = N(kni, Id(f))
  BY KniTxGot
<1>7. CASE d = Kernel
  <2>1. KW(f, d) = N(kni, Id(f)) /\ KW(f, d)' = N(kni', Id(f))
    BY <1>1, <1>7 DEF KW
  <2>2. got'[d][f] <= got[d][f] + x
    BY <1>7, KniTxGot
  <2> HIDE DEF x
  <2>3. KW(f, d)' + x <= KW(f, d)
    BY <1>5, <1>6, <2>1
  <2>4. KW(f, d)' + got'[d][f] <= KW(f, d) + got[d][f]
    BY <1>5, <1>6, <2>2, <2>3, Passed
  <2> QED BY <1>3, <1>4, <2>4, Lightens
<1>8. CASE d # Kernel
  <2>1. got'[d][f] = got[d][f]
    BY <1>8, KniTxGot DEF Dest
  <2> HIDE DEF x
  <2>2. KW(f, d)' <= KW(f, d)
    BY <1>1, <1>6 DEF KW
  <2>3. KW(f, d)' + got'[d][f] <= KW(f, d) + got[d][f]
    BY <1>5, <2>1, <2>2
  <2> QED BY <1>3, <1>4, <2>3, Lightens
<1> QED BY <1>7, <1>8

(* A frame that arrives has not been anywhere. *)
LEMMA ReceiveWeight ==
  ASSUME IInv, IInv', NEW q \in Queue, Receive(q), NEW f \in Frame, NEW d \in Dest
  PROVE  Weight(f, d)' <= Weight(f, d) + (IF f = frames + 1 THEN 1 ELSE 0)
<1>1. frames < MaxFrames /\ UNCHANGED <<dring, kni, burst, fromRing, pc, cursor, arps, got>>
  BY Zenon DEF Receive, procVars
<1>2. PICK c \in Allocs(pool) : rxq' = [rxq EXCEPT ![q] = Append(@, [segs |-> c, id |-> frames + 1])]
  BY DEF Receive
<1> DEFINE p == [segs |-> c, id |-> frames + 1]
           x == One(p, Id(f))
<1>3. rxq \in Family /\ rxq[q] \in Seq(Packet) /\ pool \in [Mbuf -> Nat] /\ frames + 1 \in 0 .. MaxFrames
  BY <1>1, PacketPathAssumption DEF IInv, Types, Family
<1>4. p \in Packet /\ p.id = frames + 1 /\ rxq' = [rxq EXCEPT ![q] = Append(rxq[q], p)]
  BY <1>2, <1>3, AllocIs
<1> HIDE DEF p
<1>5. x = (IF f = frames + 1 THEN 1 ELSE 0) /\ x \in Nat
  BY <1>4 DEF One, Id
<1>6. rxq'[q] = Append(rxq[q], p) /\ (\A r \in Queue \ {q} : rxq'[r] = rxq[r]) /\ rxq' \in Family
  BY <1>3, <1>4 DEF Family
<1>7. N(rxq'[q], Id(f)) <= N(rxq[q], Id(f)) + x
  <2>1. N(rxq'[q], Id(f)) = N(rxq[q], Id(f)) + x
    BY <1>3, <1>4, <1>6, NAppend
  <2>2. N(rxq[q], Id(f)) \in Nat
    BY <1>3, InFinite
  <2> HIDE DEF x
  <2> QED BY <1>5, <2>1, <2>2
<1> HIDE DEF x
<1>8. RW(f)' <= RW(f) + x
  BY <1>3, <1>5, <1>6, <1>7, MMore DEF RW
<1>9. HW(f, d)' = HW(f, d)
  BY <1>1, SameHeld
<1>10. DW(f, d)' = DW(f, d) /\ KW(f, d)' = KW(f, d) /\ got'[d][f] = got[d][f]
  BY <1>1 DEF DW, Ringed, KW
<1>11. Weight(f, d)' <= Weight(f, d) + x
  <2> DEFINE r == RW(f)  r1 == RW(f)'  u == DW(f, d)  h == HW(f, d)  k == KW(f, d)  g == got[d][f]
  <2>1. r \in Nat /\ r1 \in Nat /\ u \in Nat /\ h \in Nat /\ k \in Nat /\ g \in Nat
    BY NatsHold, NatsNext DEF AllNat
  <2>2. r1 <= r + x
    BY <1>8
  <2>3. r1 + u + h + k + g <= r + u + h + k + g + x
    <3> HIDE DEF r, r1, u, h, k, g
    <3> QED BY <1>5, <2>1, <2>2
  <2> QED BY <1>9, <1>10, <2>3 DEF Weight
<1> QED BY <1>5, <1>11

-----------------------------------------------------------------------------
(* The invariant behind DeliveredOnce: a frame that has arrived weighs at   *)
(* most 1, one that has not weighs nothing.                                *)
AtMostOne == \A f \in Frame, d \in Dest : Weight(f, d) <= IF f <= frames THEN 1 ELSE 0
OnlyOne ==
  \A f \in Frame : \A d, e \in Dest : f \notin arps /\ got[d][f] > 0 /\ got[e][f] > 0 => d = e

DInv == Broadcast /\ AtMostOne /\ OnlyOne

LEMMA InitDelivery == ASSUME Init PROVE DInv
<1>1. Broadcast
  BY DEF Init, Broadcast
<1>2. ASSUME NEW f \in Frame, NEW d \in Dest PROVE got[d][f] = 0
  BY DEF Init, Frame, Dest
<1>3. ASSUME NEW f \in Frame, NEW d \in Dest PROVE Weight(f, d) = 0
  <2>1. RW(f) = 0
    BY MEmpty DEF Init, RW
  <2>2. Ringed(f, d) = [q \in Queue |-> <<>>]
    BY DEF Init, Ringed
  <2>3. \A q \in Queue : HeldBy(q, f, d) = <<>>
    BY DEF Init, HeldBy, EffOf, Heads, HeadOf
  <2>4. Held(f, d) = [q \in Queue |-> <<>>]
    BY <2>3 DEF Held
  <2>5. DW(f, d) = 0 /\ HW(f, d) = 0
    BY <2>2, <2>4, MEmpty DEF DW, HW
  <2>6. KW(f, d) = 0
    BY NEmpty DEF Init, KW
  <2> QED BY <1>2, <2>1, <2>5, <2>6 DEF Weight
<1>4. AtMostOne
  BY <1>3 DEF AtMostOne
<1>5. OnlyOne
  BY <1>2 DEF OnlyOne
<1> QED BY <1>1, <1>4, <1>5 DEF DInv

(* The broadcast loop. *)
LEMMA NotCloning ==
  ASSUME Broadcast, NEW q \in Queue, UNCHANGED arps, pc'[q] # "clone",
         \A r \in Queue \ {q} : /\ burst'[r] = burst[r] /\ fromRing'[r] = fromRing[r]
                                /\ pc'[r] = pc[r] /\ cursor'[r] = cursor[r]
  PROVE  Broadcast'
BY DEF Broadcast, Current

LEMMA HandledBroadcast ==
  ASSUME IInv, Broadcast, NEW q \in Queue, pc[q] \in Busy, NextPacket(q), UNCHANGED <<fromRing, cursor, arps>>
  PROVE  Broadcast'
<1>1. Advanced(q)
  BY NextPacketIs
<1>2. /\ pc'[q] # "clone" /\ \A r \in Queue \ {q} : /\ burst'[r] = burst[r] /\ fromRing'[r] = fromRing[r]
                                /\ pc'[r] = pc[r] /\ cursor'[r] = cursor[r]
  BY <1>1 DEF Advanced
<1> QED BY <1>2, NotCloning

LEMMA BroadcastKept == ASSUME IInv, Broadcast, Next PROVE Broadcast'
<1>1. ASSUME NEW q \in Queue, Quiet(q) PROVE Broadcast'
  <2>1. /\ UNCHANGED <<burst, fromRing, cursor, arps>>
        /\ \A r \in Queue : pc'[r] = pc[r] \/ (pc[r] \notin Handling /\ pc'[r] \notin Handling)
    BY <1>1, QuietIs
  <2> QED BY <2>1 DEF Broadcast, Current, Handling
<1>2. ASSUME NEW q \in Queue, Receive(q) PROVE Broadcast'
  BY <1>2 DEF Receive, procVars, Broadcast, Current
<1>3. ASSUME NEW q \in Queue, NEW j \in Queue,
             Respond(q) \/ Refuse(q) \/ Forward(q, j) \/ ToKernel(q) \/ Input(q) \/ InputDrops(q) \/ InputPartial(q)
      PROVE  Broadcast'
  <2>1. pc[q] \in Busy /\ NextPacket(q) /\ UNCHANGED <<fromRing, cursor, arps>>
    BY <1>3 DEF Respond, Refuse, Forward, ToKernel, Input, InputDrops, InputPartial, Busy
  <2> QED BY <2>1, HandledBroadcast
<1>4. ASSUME NEW q \in Queue, KniTx(q) PROVE Broadcast'
  <2>1. Goto(q, "kniRx") /\ UNCHANGED <<burst, fromRing, cursor, arps>>
    BY <1>4 DEF KniTx
  <2>2. pc'[q] # "clone" /\ \A r \in Queue \ {q} : pc'[r] = pc[r]
    BY <2>1, GotoIs DEF IInv, Label
  <2> QED BY <2>1, <2>2, NotCloning
<1>5. ASSUME NEW q \in Queue, RingBurst(q) \/ RxBurst(q) PROVE Broadcast'
  <2>1. /\ pc[q] \notin Busy /\ UNCHANGED <<cursor, arps>>
        /\ TakeBurst(q, dring[q], TRUE, "rx") \/ TakeBurst(q, rxq[q], FALSE, "user")
    BY <1>5 DEF RingBurst, RxBurst, Busy
  <2>2. dring[q] \in Seq(Packet) /\ rxq[q] \in Seq(Packet)
    BY DEF IInv, Types, Family
  <2>3. /\ pc'[q] # "clone"
        /\ \A r \in Queue \ {q} : burst'[r] = burst[r] /\ fromRing'[r] = fromRing[r] /\ pc'[r] = pc[r]
    BY <2>1, <2>2, TakeBurstIs
  <2> QED BY <2>1, <2>3, NotCloning
<1>6. ASSUME NEW q \in Queue, Keep(q) PROVE Broadcast'
  <2>1. pc[q] = "handle" /\ UNCHANGED <<burst, fromRing, arps>>
    BY <1>6 DEF Keep
  <2>2. CASE Current(q).id \in arps
    <3>1. Goto(q, "clone") /\ cursor' = [cursor EXCEPT ![q] = BroadcastFrom(q)]
      BY <1>6, <2>2 DEF Keep
    <3>2. (\A r \in Queue \ {q} : pc'[r] = pc[r] /\ cursor'[r] = cursor[r]) /\ cursor'[q] = BroadcastFrom(q)
      BY <3>1 DEF Goto, IInv, Types
    <3> QED BY <2>1, <2>2, <3>2 DEF Broadcast, Current, BroadcastFrom
  <2>3. CASE Current(q).id \notin arps
    <3>1. Goto(q, "input") /\ cursor' = cursor
      BY <1>6, <2>3 DEF Keep
    <3>2. (\A r \in Queue \ {q} : pc'[r] = pc[r] /\ cursor'[r] = cursor[r]) /\ pc'[q] # "clone"
      BY <3>1 DEF Goto, IInv, Types
    <3> QED BY <2>1, <3>2, NotCloning
  <2> QED BY <2>2, <2>3
<1>7. ASSUME NEW q \in Queue, CloneTo(q) PROVE Broadcast'
  <2>1. /\ pc[q] = "clone" /\ cursor[q] < NbQueues /\ cursor' = [cursor EXCEPT ![q] = cursor[q] + 1]
        /\ UNCHANGED <<burst, fromRing, pc, arps>>
    BY <1>7 DEF CloneTo
  <2>2. ~fromRing[q] /\ \A r \in Queue \ {q} : cursor'[r] = cursor[r]
    BY <2>1, PacketPathAssumption DEF Broadcast, IInv, Types
  <2> QED BY <2>1, <2>2 DEF Broadcast, Current
<1>8. ASSUME NEW q \in Queue, CloneToKernel(q) PROVE Broadcast'
  <2>1. Goto(q, "input") /\ UNCHANGED <<burst, fromRing, cursor, arps>>
    BY <1>8 DEF CloneToKernel
  <2>2. pc'[q] # "clone" /\ \A r \in Queue \ {q} : pc'[r] = pc[r]
    BY <2>1, GotoIs DEF IInv, Label
  <2> QED BY <2>1, <2>2, NotCloning
<1>9. CASE TxDone
  <2>1. PICK q \in Queue : TRUE
    BY PacketPathAssumption DEF Queue
  <2> QED BY <1>1, <1>9, <2>1 DEF Quiet
<1>10. ASSUME NEW q \in Queue, Handle(q) PROVE Broadcast'
  BY <1>3, <1>6, <1>7, <1>8, <1>10 DEF Handle
<1>11. ASSUME NEW q \in Queue, Loop(q) PROVE Broadcast'
  BY <1>1, <1>4, <1>5, <1>10, <1>11 DEF Loop, Quiet
<1> QED BY <1>1, <1>2, <1>9, <1>11 DEF Next, Quiet

(* The frames. *)
Arrives == \E q \in Queue : Receive(q)

LEMMA WeightKept ==
  ASSUME IInv, IInv', Broadcast, Next, ~Arrives, NEW f \in Frame, NEW d \in Dest
  PROVE  Lighter(f, d) /\ frames' = frames
<1>1. ASSUME NEW q \in Queue, Quiet(q) PROVE Lighter(f, d) /\ frames' = frames
  BY <1>1, QuietIs, QuietWeight
<1>2. ASSUME NEW q \in Queue, Handle(q) PROVE Lighter(f, d) /\ frames' = frames
  <2>1. frames' = frames
    BY <1>2 DEF Handle, Respond, Refuse, Forward, Keep, ToKernel, CloneTo, CloneToKernel, Input, InputDrops, InputPartial
  <2>2. Lighter(f, d)
    BY <1>2, LostWeight, ForwardWeight, KeepWeight, ToKernelWeight, CloneToWeight, CloneToKernelWeight, InputWeight DEF Handle
  <2> QED BY <2>1, <2>2
<1>3. ASSUME NEW q \in Queue, KniTx(q) \/ RingBurst(q) \/ RxBurst(q) PROVE Lighter(f, d) /\ frames' = frames
  <2>1. frames' = frames
    BY <1>3 DEF KniTx, RingBurst, RxBurst
  <2> QED BY <1>3, <2>1, KniTxWeight, RingBurstWeight, RxBurstWeight
<1>4. CASE TxDone
  <2>1. PICK q \in Queue : TRUE
    BY PacketPathAssumption DEF Queue
  <2> QED BY <1>1, <1>4, <2>1 DEF Quiet
<1>5. ASSUME NEW q \in Queue, Loop(q) PROVE Lighter(f, d) /\ frames' = frames
  BY <1>1, <1>2, <1>3, <1>5 DEF Loop, Quiet
<1> QED BY <1>1, <1>4, <1>5 DEF Next, Quiet, Arrives

LEMMA WeightNat == IInv => \A f \in Frame, d \in Dest : Weight(f, d) \in Nat
BY NatsHold DEF AllNat, Weight

LEMMA WeightNatNext == IInv' => (\A f \in Frame, d \in Dest : Weight(f, d) \in Nat)'
BY WeightNat, PTL

LEMMA AtMostOneKept == ASSUME IInv, IInv', Broadcast, AtMostOne, Next PROVE AtMostOne'
<1> SUFFICES ASSUME NEW f \in Frame, NEW d \in Dest PROVE Weight(f, d)' <= IF f <= frames' THEN 1 ELSE 0
  BY DEF AtMostOne
<1>1. Weight(f, d) \in Nat /\ Weight(f, d)' \in Nat /\ Weight(f, d) <= IF f <= frames THEN 1 ELSE 0
  BY WeightNat, WeightNatNext DEF AtMostOne
<1>2. frames \in Nat /\ f \in Nat
  BY PacketPathAssumption DEF IInv, Types, Frame
<1>3. CASE Arrives
  <2>1. PICK q \in Queue : Receive(q)
    BY <1>3 DEF Arrives
  <2>2. Weight(f, d)' <= Weight(f, d) + (IF f = frames + 1 THEN 1 ELSE 0)
    BY <2>1, ReceiveWeight
  <2>3. frames' = frames + 1
    BY <2>1 DEF Receive
  <2> QED BY <1>1, <1>2, <2>2, <2>3
<1>4. CASE ~Arrives
  <2>1. Weight(f, d)' <= Weight(f, d) /\ frames' = frames
    BY <1>4, WeightKept DEF Lighter
  <2> QED BY <1>1, <2>1
<1> QED BY <1>3, <1>4

(* A frame that is still on its way was not delivered where it can go. *)
LEMMA NoneYet ==
  ASSUME IInv, AtMostOne, NEW f \in Frame, NEW d \in Dest, HW(f, d) >= 1 \/ KW(f, d) >= 1
  PROVE  got[d][f] = 0
<1> DEFINE r == RW(f)  u == DW(f, d)  h == HW(f, d)  k == KW(f, d)  g == got[d][f]
<1>1. r \in Nat /\ u \in Nat /\ h \in Nat /\ k \in Nat /\ g \in Nat
  BY NatsHold DEF AllNat
<1>2. r + u + h + k + g <= 1
  BY <1>1 DEF AtMostOne, Weight
<1>3. h >= 1 \/ k >= 1
  OBVIOUS
<1>4. g = 0
  <2> HIDE DEF r, u, h, k, g
  <2> QED BY <1>1, <1>2, <1>3
<1> QED BY <1>4

LEMMA OnlyOneKept == ASSUME IInv, IInv', Broadcast, AtMostOne, OnlyOne, Next PROVE OnlyOne'
<1>1. CASE got' = got /\ arps' = arps
  BY <1>1 DEF OnlyOne
<1>2. ASSUME NEW q \in Queue, Input(q) PROVE OnlyOne'
  <2> SUFFICES ASSUME NEW f \in Frame, NEW d \in Dest, NEW e \in Dest, f \notin arps, got'[d][f] > 0, got'[e][f] > 0
               PROVE  d = e
    BY <1>2 DEF OnlyOne, Input
  <2> DEFINE x == One(Current(q), Id(f))
  <2>1. x \in {0, 1}
    BY DEF One
  <2>2. ASSUME NEW c \in Dest
        PROVE  (c = q => got'[c][f] = got[c][f] + x) /\ (c # q => got'[c][f] = got[c][f]) /\ Gone(q, f, c) = x
    BY <1>2, InputGot
  <2> HIDE DEF x
  <2>3. CASE x = 0
    <3>1. \A c \in Dest : got[c][f] \in Nat
      BY NatsHold DEF AllNat
    <3>2. got'[d][f] = got[d][f] /\ got'[e][f] = got[e][f]
      BY <2>2, <2>3, <3>1
    <3> QED BY <3>2 DEF OnlyOne
  <2>4. CASE x = 1
    <3>1. ASSUME NEW c \in Dest PROVE got[c][f] = 0
      <4>1. pc[q] \in Busy /\ NextPacket(q) /\ UNCHANGED <<fromRing, cursor, arps>>
        BY <1>2 DEF Input, Busy
      <4>2. HW(f, c)' + 1 <= HW(f, c)
        BY <2>2, <2>4, <4>1, HandledWeight
      <4>3. HW(f, c) \in Nat /\ HW(f, c)' \in Nat
        BY NatsHold, NatsNext DEF AllNat
      <4>4. HW(f, c) >= 1
        BY <4>2, <4>3
      <4> QED BY <4>4, NoneYet
    <3>2. ASSUME NEW c \in Dest, got'[c][f] > 0 PROVE c = q
      BY <2>2, <3>1, <3>2
    <3> QED BY <3>2
  <2> QED BY <2>1, <2>3, <2>4
<1>3. ASSUME NEW q \in Queue, KniTx(q) PROVE OnlyOne'
  <2> SUFFICES ASSUME NEW f \in Frame, NEW d \in Dest, NEW e \in Dest, f \notin arps, got'[d][f] > 0, got'[e][f] > 0
               PROVE  d = e
    BY <1>3 DEF OnlyOne, KniTx
  <2> DEFINE x == N(First(kni), Id(f))
  <2>1. /\ \A c \in Queue : got'[c][f] = got[c][f]
        /\ got'[Kernel][f] <= got[Kernel][f] + x
        /\ x \in Nat /\ N(kni', Id(f)) \in Nat /\ N(kni', Id(f)) + x = N(kni, Id(f))
    BY <1>3, KniTxGot
  <2> HIDE DEF x
  <2>2. \A c \in Dest : got[c][f] \in Nat /\ got'[c][f] \in Nat
    BY NatsHold, NatsNext DEF AllNat
  <2>3. CASE x = 0
    <3>1. \A c \in Dest : got'[c][f] > 0 => got[c][f] > 0
      <4> SUFFICES ASSUME NEW c \in Dest, got'[c][f] > 0 PROVE got[c][f] > 0
        OBVIOUS
      <4>1. CASE c \in Queue
        BY <2>1, <4>1
      <4>2. CASE c = Kernel
        BY <2>1, <2>2, <2>3, <4>2
      <4> QED BY <4>1, <4>2 DEF Dest
    <3> QED BY <3>1 DEF OnlyOne
  <2>4. CASE x # 0
    <3>1. N(kni, Id(f)) >= 1
      BY <2>1, <2>4
    <3>2. ASSUME NEW c \in Dest PROVE got[c][f] = 0
      <4>1. KW(f, c) >= 1
        BY <3>1 DEF KW
      <4> QED BY <4>1, NoneYet
    <3>3. \A c \in Queue : got'[c][f] = 0
      BY <2>1, <3>2 DEF Dest
    <3> QED BY <3>3 DEF Dest
  <2> QED BY <2>3, <2>4
<1>4. (got' = got /\ arps' = arps) \/ (\E q \in Queue : Input(q)) \/ \E q \in Queue : KniTx(q)
  <2>1. ASSUME NEW q \in Queue, Handle(q), ~Input(q) PROVE got' = got /\ arps' = arps
    BY <2>1 DEF Handle, Respond, Refuse, Forward, Keep, ToKernel, CloneTo, CloneToKernel, InputDrops, InputPartial
  <2>2. ASSUME NEW q \in Queue, Loop(q), ~Input(q), ~KniTx(q) PROVE got' = got /\ arps' = arps
    BY <2>1, <2>2 DEF Loop, Drain, NoDrain, KniRx, RingBurst, RxBurst, UserDone
  <2>3. ASSUME NEW q \in Queue, Receive(q) \/ Stop(q) \/ StackSend(q) \/ StackFree(q) \/ TxDone
        PROVE  got' = got /\ arps' = arps
    BY <2>3 DEF Receive, Stop, StackSend, StackFree, TxDone
  <2>4. CASE TxDone
    BY <2>4 DEF TxDone
  <2> QED BY <2>2, <2>3, <2>4 DEF Next
<1> QED BY <1>1, <1>2, <1>3, <1>4

(* A frame reaches a stack or the kernel at most once each, and a frame     *)
(* that is not broadcast reaches one of them only, however processes        *)
(* forward it over the dispatch rings, clone it for one another and for KNI *)
(* (process_packets), and handle what comes out of a ring like what arrives.*)
THEOREM FramesDeliveredOnce == Spec => []DeliveredOnce
<1>1. Init => DInv
  BY InitDelivery
<1>2. IInv /\ IInv' /\ DInv /\ [Next]_vars => DInv'
  <2> SUFFICES ASSUME IInv, IInv', DInv, [Next]_vars PROVE DInv'
    OBVIOUS
  <2>1. CASE Next
    BY <2>1, BroadcastKept, AtMostOneKept, OnlyOneKept DEF DInv
  <2>2. CASE UNCHANGED vars
    <3>1. UNCHANGED <<rxq, dring, kni, burst, fromRing, pc, cursor, frames, arps, got>>
      BY <2>2 DEF vars, poolVars, procVars
    <3>2. Broadcast' /\ OnlyOne'
      BY <3>1 DEF DInv, Broadcast, Current, OnlyOne
    <3>3. AtMostOne'
      BY <3>1 DEF DInv, AtMostOne, Weight, RW, DW, HW, KW, Ringed, Held, HeldBy, Blocked, Heads
    <3> QED BY <3>2, <3>3 DEF DInv
  <2> QED BY <2>1, <2>2
<1>3. IInv /\ DInv => DeliveredOnce
  <2> SUFFICES ASSUME IInv, DInv, NEW f \in Frame, NEW d \in Dest, NEW e \in Dest
               PROVE  got[d][f] <= 1 /\ (f \notin arps /\ got[d][f] > 0 /\ got[e][f] > 0 => d = e)
    BY DEF DeliveredOnce, Frame, Dest
  <2>1. f \notin arps /\ got[d][f] > 0 /\ got[e][f] > 0 => d = e
    BY DEF DInv, OnlyOne
  <2>2. got[d][f] <= 1
    <3> DEFINE r == RW(f)  u == DW(f, d)  h == HW(f, d)  k == KW(f, d)  g == got[d][f]
    <3>1. r \in Nat /\ u \in Nat /\ h \in Nat /\ k \in Nat /\ g \in Nat
      BY NatsHold DEF AllNat
    <3>2. r + u + h + k + g <= 1
      BY <3>1 DEF DInv, AtMostOne, Weight
    <3>3. g <= 1
      <4> HIDE DEF r, u, h, k, g
      <4> QED BY <3>1, <3>2
    <3> QED BY <3>3
  <2> QED BY <2>1, <2>2
<1> QED BY <1>1, <1>2, <1>3, IInvHolds, PTL DEF Spec
=============================================================================

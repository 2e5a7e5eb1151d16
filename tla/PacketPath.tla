----------------------------- MODULE PacketPath -----------------------------
(***************************************************************************)
(* The packet path of the F-Stack library (ff_dpdk_if.c, FF_KNI build with *)
(* enable_kni set): the polling processes of one port, one receive queue   *)
(* each, that share a pool of mbufs, hand packets to each other through    *)
(* dispatch rings, feed the kernel through the KNI ring and send through   *)
(* per-process batches.                                                    *)
(*                                                                         *)
(* A packet is a chain of mbufs.  The model follows every mbuf from the    *)
(* pool to whoever owns it and back.  Each process runs main_loop; a step  *)
(* of the model ends where another process can see its effect.             *)
(***************************************************************************)
EXTENDS Integers, Sequences, FiniteSets

CONSTANTS
  NbQueues,   (* processes, each with the receive queue of its number;    *)
              (* process 0 is the primary                                 *)
  Mbuf,       (* the mbufs of the pool                                    *)
  Burst,      (* MAX_PKT_BURST                                            *)
  RingSize,   (* what a dispatch ring, or the KNI ring, can hold          *)
  MaxSegs,    (* bound: mbufs in a chain                                  *)
  MaxFrames,  (* bound: frames that arrive                                *)
  MaxStops    (* bound: processes in which ff_dpdk_stop is called         *)

ASSUME PacketPathAssumption ==
  /\ NbQueues \in Nat \ {0} /\ Burst \in Nat \ {0} /\ RingSize \in Nat \ {0}
  /\ MaxSegs \in Nat \ {0} /\ MaxFrames \in Nat /\ MaxStops \in Nat
  /\ IsFiniteSet(Mbuf)

VARIABLES
  pool,      (* how often each mbuf is on the pool's free list            *)
  rxq,       (* packets in each receive queue of the NIC                  *)
  dring,     (* dispatch_ring of each queue                               *)
  kni,       (* kni_rp, the ring of packets for the kernel                *)
  nic,       (* packets the devices have accepted and not yet released    *)
  burst,     (* pkts_burst: packets each process has taken, not handled   *)
  fromRing,  (* pkts_from_ring                                            *)
  tx,        (* tx_mbufs, each process's batch                            *)
  stack,     (* packets each process's FreeBSD stack holds                *)
  pc,        (* where each process is in main_loop                        *)
  cursor,    (* j of the broadcast loop in process_packets                *)
  frames,    (* frames that have arrived                                  *)
  arps,      (* those that are, or will be, ARP or NDP; never changes     *)
  got        (* history: how often each stack, and the kernel, got each   *)
             (* frame                                                     *)

poolVars == <<pool, nic>>
procVars == <<burst, fromRing, tx, stack, pc, cursor>>
vars == <<poolVars, rxq, dring, kni, procVars, frames, arps, got>>

Queue   == 0 .. NbQueues - 1
Primary == 0
Kernel  == NbQueues
Chain   == UNION {[1 .. n -> Mbuf] : n \in 1 .. MaxSegs}
Packet  == [segs: Chain, id: 0 .. MaxFrames]

Mbufs(p) == {p.segs[i] : i \in DOMAIN p.segs}

(* How many of the packets in the sequence s contain the mbuf m. *)
Count(m, s) == Cardinality({i \in DOMAIN s : m \in Mbufs(s[i])})

(* The pool after the packets in s are freed (rte_pktmbuf_free). *)
Freed(pl, s) == [m \in Mbuf |-> pl[m] + Count(m, s)]

(* The chains that can be allocated, and the pool without one of them. *)
Allocs(pl) == {c \in Chain : /\ \A i \in DOMAIN c : pl[c[i]] > 0
                             /\ \A i, j \in DOMAIN c : c[i] = c[j] => i = j}
Without(pl, c) == [m \in Mbuf |-> pl[m] - Cardinality({i \in DOMAIN c : c[i] = m})]

-----------------------------------------------------------------------------
Init ==
  /\ pool = [m \in Mbuf |-> 1]
  /\ rxq = [q \in Queue |-> <<>>]
  /\ dring = [q \in Queue |-> <<>>]
  /\ kni = <<>> /\ nic = {}
  /\ burst = [q \in Queue |-> <<>>]
  /\ fromRing = [q \in Queue |-> FALSE]
  /\ tx = [q \in Queue |-> <<>>]
  /\ stack = [q \in Queue |-> {}]
  /\ pc = [q \in Queue |-> "loop"]
  /\ cursor = [q \in Queue |-> 0]
  /\ frames = 0 /\ arps \in SUBSET (1 .. MaxFrames)
  /\ got = [d \in Queue \cup {Kernel} |-> [f \in 1 .. MaxFrames |-> 0]]

Goto(q, l) == pc' = [pc EXCEPT ![q] = l]

-----------------------------------------------------------------------------
(* The devices. *)

(* A frame arrives: the NIC puts it in mbufs of the pool. *)
Receive(q) ==
  /\ frames < MaxFrames
  /\ frames' = frames + 1
  /\ \E c \in Allocs(pool) :
       /\ pool' = Without(pool, c)
       /\ rxq' = [rxq EXCEPT ![q] = Append(@, [segs |-> c, id |-> frames + 1])]
  /\ UNCHANGED <<nic, dring, kni, procVars, arps, got>>

(* The NIC or the kernel is done with a packet. *)
TxDone ==
  /\ \E p \in nic : nic' = nic \ {p} /\ pool' = Freed(pool, <<p>>)
  /\ UNCHANGED <<rxq, dring, kni, procVars, frames, arps, got>>

-----------------------------------------------------------------------------
(* Sending. *)

(* A device accepts the first r packets of s, the others are freed. *)
Transmit(s, r, pl) ==
  /\ nic' = nic \cup {s[i] : i \in 1 .. r}
  /\ pool' = Freed(pl, SubSeq(s, r + 1, Len(s)))

(* Variant with a fault: the batch may grow one past the table. *)
FlushLate(n) == n > Burst

(* send_single_packet sends the batch when the table is full. *)
Flush(n) == n = Burst

(* send_single_packet, with the pool as the caller leaves it. *)
SendSingle(q, p, pl) ==
  LET b == Append(tx[q], p) IN
  IF Flush(Len(b))
  THEN /\ \E r \in 0 .. Len(b) : Transmit(b, r, pl)
       /\ tx' = [tx EXCEPT ![q] = <<>>]
  ELSE /\ pool' = pl /\ nic' = nic
       /\ tx' = [tx EXCEPT ![q] = b]

(* ff_dpdk_if_send: the stack sends a packet of its own, from inside       *)
(* ff_veth_input, a timer or the user's loop.  (If a segment cannot be     *)
(* allocated the others go back and nothing is sent.)                      *)
StackSend(q) ==
  /\ pc[q] \in {"input", "user"}
  /\ \E c \in Allocs(pool) :
       SendSingle(q, [segs |-> c, id |-> 0], Without(pool, c))
  /\ UNCHANGED <<rxq, dring, kni, burst, fromRing, stack, pc, cursor, frames, arps,
                 got>>

(* The stack or the application releases a received packet. *)
StackFree(q) ==
  /\ pc[q] \in {"input", "user"}
  /\ \E p \in stack[q] :
       /\ stack' = [stack EXCEPT ![q] = @ \ {p}]
       /\ pool' = Freed(pool, <<p>>)
  /\ UNCHANGED <<nic, rxq, dring, kni, burst, fromRing, tx, pc, cursor, frames,
                 arps, got>>

-----------------------------------------------------------------------------
(* main_loop. *)

(* Variant with a fault: only the primary looks at its dispatch ring. *)
PrimaryRingOnly(q) == IF q = Primary THEN "kniTx" ELSE "rx"

(* Where the loop goes after the TX drain: only the primary serves KNI. *)
AfterDrain(q) == IF q = Primary THEN "kniTx" ELSE "ring"

(* Variant with a fault: a batch of one is not sent. *)
DueIfMany(q) == Len(tx[q]) > 1

(* The batch is sent when drain_tsc has passed, whatever its length. *)
Due(q) == tx[q] # <<>>

Drain(q) ==
  /\ pc[q] = "loop" /\ Due(q)
  /\ \E r \in 0 .. Len(tx[q]) : Transmit(tx[q], r, pool)
  /\ tx' = [tx EXCEPT ![q] = <<>>]
  /\ Goto(q, AfterDrain(q))
  /\ UNCHANGED <<rxq, dring, kni, burst, fromRing, stack, cursor, frames, arps, got>>

(* drain_tsc has not passed, or there is nothing to send. *)
NoDrain(q) ==
  /\ pc[q] = "loop"
  /\ Goto(q, AfterDrain(q))
  /\ UNCHANGED <<poolVars, rxq, dring, kni, burst, fromRing, tx, stack, cursor,
                 frames, arps, got>>

(* stop_loop is set: the process leaves its batch and its rings as they are. *)
Stop(q) ==
  /\ pc[q] = "loop"
  /\ Cardinality({r \in Queue : pc[r] = "stopped"}) < MaxStops
  /\ Goto(q, "stopped")
  /\ UNCHANGED <<poolVars, rxq, dring, kni, burst, fromRing, tx, stack, cursor,
                 frames, arps, got>>

(* Packets a burst takes from a ring or a queue. *)
Taken(s) == IF Len(s) < Burst THEN Len(s) ELSE Burst

First(s) == SubSeq(s, 1, Taken(s))
Rest(s)  == SubSeq(s, Taken(s) + 1, Len(s))

(* kni_process_tx: packets for the kernel; those it does not take, or that *)
(* exceed kernel_packets_ratelimit, are freed.                             *)
KniTx(q) ==
  /\ pc[q] = "kniTx"
  /\ LET s == First(kni) IN
     \E r \in 0 .. Len(s) :
       /\ Transmit(s, r, pool)
       /\ got' = [got EXCEPT ![Kernel] = [f \in 1 .. MaxFrames |->
                    @[f] + Cardinality({i \in 1 .. r : s[i].id = f})]]
  /\ kni' = Rest(kni)
  /\ Goto(q, "kniRx")
  /\ UNCHANGED <<rxq, dring, burst, fromRing, tx, stack, cursor, frames, arps>>

(* kni_process_rx: a packet of the kernel's goes straight to the NIC, and  *)
(* is freed if the NIC does not take it.                                   *)
KniRx(q) ==
  /\ pc[q] = "kniRx"
  /\ \/ UNCHANGED poolVars
     \/ \E c \in Allocs(pool) :
          Transmit(<<[segs |-> c, id |-> 0]>>, 1, Without(pool, c))
  /\ Goto(q, "ring")
  /\ UNCHANGED <<rxq, dring, kni, burst, fromRing, tx, stack, cursor, frames, arps,
                 got>>

(* A burst is taken, and handled if there is anything in it. *)
TakeBurst(q, s, ring, empty) ==
  /\ burst' = [burst EXCEPT ![q] = First(s)]
  /\ fromRing' = [fromRing EXCEPT ![q] = ring]
  /\ Goto(q, IF First(s) = <<>> THEN empty ELSE "handle")

(* process_dispatch_ring *)
RingBurst(q) ==
  /\ pc[q] = "ring"
  /\ TakeBurst(q, dring[q], TRUE, "rx")
  /\ dring' = [dring EXCEPT ![q] = Rest(@)]
  /\ UNCHANGED <<poolVars, rxq, kni, tx, stack, cursor, frames, arps, got>>

(* rte_eth_rx_burst *)
RxBurst(q) ==
  /\ pc[q] = "rx"
  /\ TakeBurst(q, rxq[q], FALSE, "user")
  /\ rxq' = [rxq EXCEPT ![q] = Rest(@)]
  /\ UNCHANGED <<poolVars, dring, kni, tx, stack, cursor, frames, arps, got>>

(* The messages, the soft timers and the user's loop are done. *)
UserDone(q) ==
  /\ pc[q] = "user"
  /\ Goto(q, "loop")
  /\ UNCHANGED <<poolVars, rxq, dring, kni, burst, fromRing, tx, stack, cursor,
                 frames, arps, got>>

-----------------------------------------------------------------------------
(* process_packets *)

Current(q) == Head(burst[q])

(* i < count in the loop over the burst, once this packet is handled. *)
More(q) == Len(burst[q]) > 1

(* The loop over the burst goes on to the next packet, or is over. *)
NextPacket(q) ==
  /\ burst' = [burst EXCEPT ![q] = Tail(@)]
  /\ Goto(q, IF More(q) THEN "handle" ELSE IF fromRing[q] THEN "rx" ELSE "user")

(* The packet dispatcher, which sees packets from the NIC only, answers    *)
(* FF_DISPATCH_RESPONSE: the packet itself is sent back ...                *)
Respond(q) ==
  /\ pc[q] = "handle" /\ ~fromRing[q]
  /\ SendSingle(q, Current(q), pool)
  /\ NextPacket(q)
  /\ UNCHANGED <<rxq, dring, kni, fromRing, stack, cursor, frames, arps, got>>

(* ... FF_DISPATCH_ERROR or no queue of the port: it is freed ...          *)
Refuse(q) ==
  /\ pc[q] = "handle" /\ ~fromRing[q]
  /\ pool' = Freed(pool, <<Current(q)>>)
  /\ NextPacket(q)
  /\ UNCHANGED <<nic, rxq, dring, kni, fromRing, tx, stack, cursor, frames, arps, got>>

(* Variant with a fault: a packet that found the ring full is not freed. *)
PoolIfKept(s, p, pl) == pl

(* The pool once p was offered to the ring s: it is freed if s is full. *)
PoolAfterEnqueue(s, p, pl) == IF Len(s) < RingSize THEN pl ELSE Freed(pl, <<p>>)

(* rte_ring_enqueue of p, which is refused by a full ring. *)
Enqueue(s, p) == IF Len(s) < RingSize THEN Append(s, p) ELSE s

(* ... or another queue: it goes to that queue's ring.                     *)
Forward(q, j) ==
  /\ pc[q] = "handle" /\ ~fromRing[q] /\ j # q
  /\ dring' = [dring EXCEPT ![j] = Enqueue(@, Current(q))]
  /\ pool' = PoolAfterEnqueue(dring[j], Current(q), pool)
  /\ NextPacket(q)
  /\ UNCHANGED <<nic, rxq, kni, fromRing, tx, stack, cursor, frames, arps, got>>

(* Variant with a fault: packets from a ring are broadcast again. *)
BroadcastAll(q) == 0

(* Where the broadcast of an ARP or NDP packet starts: one that came       *)
(* through a ring has been broadcast already.                              *)
BroadcastFrom(q) == IF fromRing[q] THEN NbQueues ELSE 0

(* The packet is for this queue.  ARP and NDP are broadcast first; of the  *)
(* rest the filter and knictl decide what goes to the kernel.              *)
Keep(q) ==
  /\ pc[q] = "handle"
  /\ IF Current(q).id \in arps
     THEN Goto(q, "clone") /\ cursor' = [cursor EXCEPT ![q] = BroadcastFrom(q)]
     ELSE Goto(q, "input") /\ cursor' = cursor
  /\ UNCHANGED <<poolVars, rxq, dring, kni, burst, fromRing, tx, stack, frames,
                 arps, got>>

(* ff_kni_enqueue: the ring is full or the rate limit reached, or not. *)
ToKernel(q) ==
  /\ pc[q] = "handle" /\ Current(q).id \notin arps
  /\ \/ kni' = Enqueue(kni, Current(q)) /\ pool' = PoolAfterEnqueue(kni, Current(q), pool)
     \/ kni' = kni /\ pool' = Freed(pool, <<Current(q)>>)
  /\ NextPacket(q)
  /\ UNCHANGED <<nic, rxq, dring, fromRing, tx, stack, cursor, frames, arps, got>>

(* The chains pktmbuf_deep_clone can make of the current packet. *)
Clones(q) == {c \in Allocs(pool) : DOMAIN c = DOMAIN Current(q).segs}

(* One turn of the broadcast loop: a clone for queue j, if there is memory. *)
CloneTo(q) ==
  LET j == cursor[q] IN
  /\ pc[q] = "clone" /\ j < NbQueues
  /\ cursor' = [cursor EXCEPT ![q] = j + 1]
  /\ \/ (j = q \/ Clones(q) = {}) /\ UNCHANGED <<pool, dring>>
     \/ /\ j # q
        /\ \E c \in Clones(q) :
             LET p == [Current(q) EXCEPT !.segs = c] IN
             /\ dring' = [dring EXCEPT ![j] = Enqueue(@, p)]
             /\ pool' = PoolAfterEnqueue(dring[j], p, Without(pool, c))
  /\ UNCHANGED <<nic, rxq, kni, burst, fromRing, tx, stack, pc, frames, arps, got>>

(* The primary gives the kernel a clone too. *)
CloneToKernel(q) ==
  /\ pc[q] = "clone" /\ cursor[q] = NbQueues
  /\ \/ (q # Primary \/ Clones(q) = {}) /\ UNCHANGED <<pool, kni>>
     \/ /\ q = Primary
        /\ \E c \in Clones(q) :
             LET p == [Current(q) EXCEPT !.segs = c] IN
             \/ /\ kni' = Enqueue(kni, p)
                /\ pool' = PoolAfterEnqueue(kni, p, Without(pool, c))
             \/ kni' = kni /\ pool' = pool
  /\ Goto(q, "input")
  /\ UNCHANGED <<nic, rxq, dring, burst, fromRing, tx, stack, cursor, frames, arps,
                 got>>

(* ff_veth_input gives the packet to the stack, which keeps the mbufs ...  *)
Input(q) ==
  /\ pc[q] = "input"
  /\ stack' = [stack EXCEPT ![q] = @ \cup {Current(q)}]
  /\ got' = [got EXCEPT ![q][Current(q).id] = @ + 1]
  /\ NextPacket(q)
  /\ UNCHANGED <<poolVars, rxq, dring, kni, fromRing, tx, cursor, frames, arps>>

(* ... or drops it: a bad checksum, or no BSD mbuf for the first segment ... *)
InputDrops(q) ==
  /\ pc[q] = "input"
  /\ pool' = Freed(pool, <<Current(q)>>)
  /\ NextPacket(q)
  /\ UNCHANGED <<nic, rxq, dring, kni, fromRing, tx, stack, cursor, frames, arps, got>>

(* ... or there is none for segment k > 1: ff_mbuf_free(hdr) returns the   *)
(* segments before k (rte_pktmbuf_free_seg, which also unlinks them), then *)
(* rte_pktmbuf_free(pkt) returns the first one, now a chain of its own,    *)
(* again.                                                                  *)
InputPartial(q) ==
  /\ pc[q] = "input"
  /\ LET s == Current(q).segs IN
     \E k \in DOMAIN s \ {1} :
       pool' = [m \in Mbuf |-> pool[m] + Cardinality({i \in 1 .. k - 1 : s[i] = m})
                                       + (IF s[1] = m THEN 1 ELSE 0)]
  /\ NextPacket(q)
  /\ UNCHANGED <<nic, rxq, dring, kni, fromRing, tx, stack, cursor, frames, arps, got>>

-----------------------------------------------------------------------------
Handle(q) ==
  \/ Respond(q) \/ Refuse(q) \/ (\E j \in Queue : Forward(q, j))
  \/ Keep(q) \/ ToKernel(q) \/ CloneTo(q) \/ CloneToKernel(q)
  \/ Input(q) \/ InputDrops(q) \/ InputPartial(q)

Loop(q) ==
  \/ Drain(q) \/ NoDrain(q) \/ KniTx(q) \/ KniRx(q) \/ RingBurst(q) \/ RxBurst(q)
  \/ UserDone(q) \/ Handle(q)

Next ==
  \/ TxDone
  \/ \E q \in Queue : Receive(q) \/ Loop(q) \/ Stop(q) \/ StackSend(q) \/ StackFree(q)

Spec == Init /\ [][Next]_vars

(* A process keeps running its loop on its core, and drain_tsc passes      *)
(* again and again.  Nothing makes a frame arrive or the stack send.       *)
Fairness ==
  \A q \in Queue : WF_vars(Loop(q)) /\ SF_vars(Drain(q))

FairSpec == Spec /\ Fairness

-----------------------------------------------------------------------------
(* The variables have the values the code can give them. *)
TypeOK ==
  /\ pool \in [Mbuf -> Nat]
  /\ rxq \in [Queue -> Seq(Packet)] /\ dring \in [Queue -> Seq(Packet)]
  /\ kni \in Seq(Packet) /\ nic \subseteq Packet
  /\ burst \in [Queue -> Seq(Packet)] /\ tx \in [Queue -> Seq(Packet)]
  /\ fromRing \in [Queue -> BOOLEAN]
  /\ \A q \in Queue : stack[q] \subseteq Packet
  /\ pc \in [Queue -> {"loop", "kniTx", "kniRx", "ring", "rx", "handle", "clone", "input",
                       "user", "stopped"}]
  /\ \A q \in Queue : pc[q] \in {"handle", "clone", "input"} <=> burst[q] # <<>>
  /\ cursor \in [Queue -> 0 .. NbQueues]
  /\ frames \in 0 .. MaxFrames /\ arps \subseteq 1 .. MaxFrames
  /\ got \in [Queue \cup {Kernel} -> [1 .. MaxFrames -> Nat]]

(* The places of a family of sequences where the mbuf m is. *)
Places(m, f) == UNION {{q} \X {i \in DOMAIN f[q] : m \in Mbufs(f[q][i])} : q \in Queue}

(* An mbuf has exactly one owner: it is once on the free list, or in one   *)
(* packet in one place.  None leaks and none is freed twice, whatever ring *)
(* is full, allocation fails or device refuses a packet, in any process.   *)
Conserved ==
  \A m \in Mbuf :
    pool[m] + Cardinality(Places(m, rxq)) + Cardinality(Places(m, dring))
            + Cardinality(Places(m, burst)) + Cardinality(Places(m, tx))
            + Count(m, kni) + Cardinality({p \in nic : m \in Mbufs(p)})
            + Cardinality(UNION {{q} \X {p \in stack[q] : m \in Mbufs(p)} : q \in Queue})
      = 1

(* A frame is delivered at most once to each stack and to the kernel, and  *)
(* one that is not broadcast to at most one of them: a packet that comes   *)
(* out of a dispatch ring is neither dispatched nor broadcast again.       *)
DeliveredOnce ==
  \A f \in 1 .. MaxFrames : \A d, e \in Queue \cup {Kernel} :
    /\ got[d][f] <= 1
    /\ f \notin arps /\ got[d][f] > 0 /\ got[e][f] > 0 => d = e

(* The tables of MAX_PKT_BURST entries are never written past their end:   *)
(* there is room for the next packet in the batch of every process.        *)
TablesHold ==
  \A q \in Queue :
    Len(tx[q]) < Burst /\ Len(burst[q]) <= Burst /\ Len(dring[q]) <= RingSize

(* What a process puts in another one's dispatch ring is handled, as long  *)
(* as that process runs.                                                   *)
RingServed ==
  \A q \in Queue : \A f \in 1 .. MaxFrames :
    (\E i \in DOMAIN dring[q] : dring[q][i].id = f)
      ~> ((\A i \in DOMAIN dring[q] : dring[q][i].id # f) \/ pc[q] = "stopped")

(* A batch that never fills up is sent all the same, as long as its        *)
(* process runs.                                                           *)
BatchLeaves == \A q \in Queue : (tx[q] # <<>>) ~> (tx[q] = <<>> \/ pc[q] = "stopped")

-----------------------------------------------------------------------------
(* What the repository says of the packet path and the code does not do. *)

(* 14-mbuf-lifecycle-spec.md: "no leak / no double free"; 03-extmbuf-      *)
(* lifecycle.md: "the return of the DPDK mbuf is driven by the release of  *)
(* the BSD mbuf".  No mbuf is on the free list twice.                      *)
NoDoubleFree == \A m \in Mbuf : pool[m] <= 1
=============================================================================

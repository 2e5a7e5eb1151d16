----------------------------- MODULE ControlMsg -----------------------------
(***************************************************************************)
(* The control messages between the F-Stack processes and the tools        *)
(* (sysctl, ifconfig, route, top, ngctl, ipfw, traffic, knictl).  A tool is *)
(* a secondary DPDK process.  It takes a message from the shared pool,      *)
(* fills it, puts it on the `in' ring of the process it talks to and waits  *)
(* up to MAX_ATTEMPTS_NUM times 1 ms on that process's reply ring for its   *)
(* type.  The process handles the messages once per turn of its main loop,  *)
(* writes the result into the message and puts it on the reply ring.        *)
(*                                                                          *)
(* A tool that has waited long enough returns and leaves its message where  *)
(* it is: the process may answer later, and the next tool that waits on the *)
(* same ring finds an answer that is not its own.  tools/README.md:31:      *)
(* "these tools must be executed serially", so there is one tool at a time; *)
(* it may be killed at any step.  A process may be arbitrarily slow, or     *)
(* stopped: nothing is assumed of it.                                       *)
(***************************************************************************)
EXTENDS Naturals, Sequences, FiniteSets

CONSTANTS Proc,       \* F-Stack processes (nb_procs)
          Msg,        \* the messages of FF_MSG_POOL
          Type,       \* the message types in use, a subset of AllTypes
          RingSize,   \* entries a message ring holds
          None,       \* no message
          MaxCalls,   \* bound: requests the tools make
          MaxKills    \* bound: tools that are killed

AllTypes == {"sysctl", "ioctl", "route", "top", "ngctl", "ipfw", "traffic", "knictl"}

ASSUME ControlAssumption ==
    /\ Type \subseteq AllTypes
    /\ RingSize \in Nat \ {0}
    /\ MaxCalls \in Nat /\ MaxKills \in Nat
    /\ IsFiniteSet(Msg) /\ None \notin Msg

VARIABLES pool,    \* how often each message is in the pool
          in,      \* in[p]: the messages on p's ring[0]
          out,     \* out[p][t]: the answers on p's ring[t]
          burst,   \* burst[p]: the messages p has dequeued and not yet handled
          msg,     \* the shared memory of each message
          tool,    \* the tool that runs
          calls,   \* requests started, which also numbers them
          kills    \* tools killed so far

vars == <<pool, in, out, burst, msg, tool, calls, kills>>

(* type: msg_type; req: the request in the message's arguments; answer: the *)
(* request whose result it carries, 0 if none; extra: buf_addr is a buffer  *)
(* of its own (original_buf # NULL); moved: buf_addr is not where           *)
(* ff_msg_init put it.                                                      *)
Content == [type : Type \cup {"unknown"}, req : 0 .. MaxCalls,
            answer : 0 .. MaxCalls, extra : BOOLEAN, moved : BOOLEAN]

Idle == [pc |-> "idle", type |-> "unknown", proc |-> None, msg |-> None, got |-> None, req |-> 0]

Init ==
    /\ pool = [m \in Msg |-> 1]
    /\ in = [p \in Proc |-> <<>>]
    /\ out = [p \in Proc |-> [t \in Type |-> <<>>]]
    /\ burst = [p \in Proc |-> <<>>]
    /\ msg = [m \in Msg |-> [type |-> "unknown", req |-> 0, answer |-> 0, extra |-> FALSE, moved |-> FALSE]]
    /\ tool = Idle
    /\ calls = 0
    /\ kills = 0

-----------------------------------------------------------------------------
(* The library of the tools: ff_ipc.c                                       *)

PoolWith(m) == [pool EXCEPT ![m] = @ + 1]

(* fault variant: the extra buffer stays attached *)
KeepBuffer(content) == content

(* An extra buffer is returned and the message's own one put back; nothing  *)
(* is done about buf_addr otherwise.                                        *)
RestoreBuffer(content) == [content EXCEPT !.extra = FALSE]

(* ff_ipc_msg_free; handle_msg does the same with an answer it cannot queue *)
Free(m) ==
    /\ pool' = PoolWith(m)
    /\ msg' = [msg EXCEPT ![m] = RestoreBuffer(@)]

(* rte_ring_enqueue on a single-producer ring *)
Room(ring) == Len(ring) < RingSize

(* A tool starts a request: ff_ipc_msg_alloc.  The tools that talk to every *)
(* process (-P) make one request per process, one after the other.          *)
Alloc(t, p) ==
    /\ tool.pc = "idle" /\ calls < MaxCalls
    /\ calls' = calls + 1
    /\ \E m \in Msg :
         /\ pool[m] > 0
         /\ pool' = [pool EXCEPT ![m] = @ - 1]
         /\ tool' = [pc |-> "fill", type |-> t, proc |-> p, msg |-> m, got |-> None, req |-> calls + 1]
    /\ UNCHANGED <<in, out, burst, msg, kills>>

(* the pool is empty: the tool reports ENOMEM *)
AllocFails ==
    /\ tool.pc = "idle" /\ calls < MaxCalls
    /\ \A m \in Msg : pool[m] = 0
    /\ calls' = calls + 1
    /\ UNCHANGED <<pool, in, out, burst, msg, tool, kills>>

(* The arguments are copied into the message.  Only sysctl allocates a      *)
(* buffer when they do not fit, and only rtioctl moves buf_addr itself.     *)
Fill ==
    /\ tool.pc = "fill"
    /\ \E large \in IF tool.type = "sysctl" THEN BOOLEAN ELSE {FALSE} :
         msg' = [msg EXCEPT ![tool.msg].type = tool.type,
                            ![tool.msg].req = tool.req,
                            ![tool.msg].extra = large \/ @,
                            ![tool.msg].moved = (tool.type = "route") \/ @]
    /\ tool' = [tool EXCEPT !.pc = "send"]
    /\ UNCHANGED <<pool, in, out, burst, calls, kills>>

(* The arguments do not fit, or rte_malloc fails. *)
FillFails ==
    /\ tool.pc = "fill"
    /\ tool.type \in {"sysctl", "ioctl", "route", "ngctl", "ipfw"}
    /\ Free(tool.msg)
    /\ tool' = Idle
    /\ UNCHANGED <<in, out, burst, calls, kills>>

(* ff_ipc_send *)
Send ==
    /\ tool.pc = "send" /\ Room(in[tool.proc])
    /\ in' = [in EXCEPT ![tool.proc] = Append(@, tool.msg)]
    /\ tool' = [tool EXCEPT !.pc = "recv"]
    /\ UNCHANGED <<pool, out, burst, msg, calls, kills>>

(* The ring is full, or rte_ring_lookup does not find one because no such   *)
(* process was started: EPIPE.  Which processes a tool can find is not in   *)
(* the state, so the second may happen at any time.                         *)
SendFails ==
    /\ tool.pc = "send"
    /\ Free(tool.msg)
    /\ tool' = Idle
    /\ UNCHANGED <<in, out, burst, calls, kills>>

(* fault variant: whatever comes first is taken for the answer *)
AnyAnswer(m) == TRUE

(* `while (msg != retmsg)' *)
Mine(m) == m = tool.msg

(* ff_ipc_recv takes an answer off the reply ring of the message's type *)
Recv ==
    /\ tool.pc = "recv"
    /\ out[tool.proc][tool.type] # <<>>
    /\ LET m == Head(out[tool.proc][tool.type]) IN
         tool' = [tool EXCEPT !.got = m, !.pc = IF Mine(m) THEN "got" ELSE "other"]
    /\ out' = [out EXCEPT ![tool.proc][tool.type] = Tail(@)]
    /\ UNCHANGED <<pool, in, burst, msg, calls, kills>>

(* the answer to an earlier tool's request is freed, and the wait goes on *)
Discard ==
    /\ tool.pc = "other"
    /\ Free(tool.got)
    /\ tool' = [tool EXCEPT !.pc = "recv", !.got = None]
    /\ UNCHANGED <<in, out, burst, calls, kills>>

(* fault variant: the wait has no limit *)
WaitOn == FALSE

(* fault variant: the message is freed on every error path *)
FreeAlways == TRUE

(* the last of MAX_ATTEMPTS_NUM attempts found the ring empty *)
Expired == out[tool.proc][tool.type] = <<>>

(* knictl_status frees its message here, the other tools return without *)
FreesOnTimeout == tool.type = "knictl"

TimeOut ==
    /\ tool.pc = "recv"
    /\ Expired
    /\ IF FreesOnTimeout THEN Free(tool.msg) ELSE UNCHANGED <<pool, msg>>
    /\ tool' = Idle
    /\ UNCHANGED <<in, out, burst, calls, kills>>

(* the result is copied to the caller and the message freed *)
Finish ==
    /\ tool.pc = "got"
    /\ Free(tool.msg)
    /\ tool' = Idle
    /\ UNCHANGED <<in, out, burst, calls, kills>>

(* a tool is interrupted: nothing it holds is returned *)
Kill ==
    /\ tool.pc # "idle" /\ kills < MaxKills
    /\ kills' = kills + 1
    /\ tool' = Idle
    /\ UNCHANGED <<pool, in, out, burst, msg, calls>>

-----------------------------------------------------------------------------
(* The F-Stack process: process_msg_ring and handle_msg                     *)

(* One burst empties the ring: it holds less than MAX_PKT_BURST messages. *)
Dequeue(p) ==
    /\ burst[p] = <<>> /\ in[p] # <<>>
    /\ burst' = [burst EXCEPT ![p] = in[p]]
    /\ in' = [in EXCEPT ![p] = <<>>]
    /\ UNCHANGED <<pool, out, msg, tool, calls, kills>>

(* fault variant: the last message of the burst is handled first *)
NewestOf(b) == Len(b)

(* the position in the burst of the message to handle *)
NextOf(b) == 1

(* fault variant: a message whose answer cannot be queued is dropped *)
DropUnqueued(m) == UNCHANGED pool

(* rte_mempool_put(message_pool, msg) *)
ReturnUnqueued(m) == pool' = PoolWith(m)

Executed(m) == [msg[m] EXCEPT !.answer = msg[m].req]

Handle(p) ==
    /\ burst[p] # <<>>
    /\ LET k == NextOf(burst[p])
           m == burst[p][k]
           t == msg[m].type IN
         /\ burst' = [burst EXCEPT ![p] = SubSeq(@, 1, k - 1) \o SubSeq(@, k + 1, Len(@))]
         /\ \/ /\ Room(out[p][t])
               /\ out' = [out EXCEPT ![p][t] = Append(@, m)]
               /\ msg' = [msg EXCEPT ![m] = Executed(m)]
               /\ UNCHANGED pool
            \/ /\ ~Room(out[p][t])
               /\ ReturnUnqueued(m)
               /\ msg' = [msg EXCEPT ![m] = RestoreBuffer(Executed(m))]
               /\ UNCHANGED out
    /\ UNCHANGED <<in, tool, calls, kills>>

-----------------------------------------------------------------------------
ToolStep == \/ Fill \/ FillFails \/ Send \/ SendFails
            \/ Recv \/ Discard \/ TimeOut \/ Finish

Next == \/ \E t \in Type, p \in Proc : Alloc(t, p)
        \/ AllocFails
        \/ ToolStep
        \/ Kill
        \/ \E p \in Proc : Dequeue(p) \/ Handle(p)

Spec == Init /\ [][Next]_vars

(* A tool that runs is scheduled; nothing is assumed of the processes. *)
FairSpec == Spec /\ WF_vars(ToolStep)

-----------------------------------------------------------------------------
Ring == {s \in Seq(Msg) : Len(s) <= RingSize}

(* Every message ring stays within its size and every variable has its type. *)
TypeOK ==
    /\ pool \in [Msg -> 0 .. 2]
    /\ DOMAIN in = Proc /\ \A p \in Proc : in[p] \in Ring /\ burst[p] \in Ring
    /\ \A p \in Proc, t \in Type : out[p][t] \in Ring
    /\ msg \in [Msg -> Content]
    /\ tool.pc \in {"idle", "fill", "send", "recv", "other", "got"}
    /\ tool.type \in Type \cup {"unknown"} /\ tool.proc \in Proc \cup {None}
    /\ {tool.msg, tool.got} \subseteq Msg \cup {None} /\ tool.req \in 0 .. MaxCalls
    /\ calls \in 0 .. MaxCalls /\ kills \in 0 .. MaxKills

At(ring, m) == {i \in DOMAIN ring : ring[i] = m}

(* the message the tool holds: before it is sent, or after it is received *)
InHand == CASE tool.pc \in {"fill", "send"} -> {tool.msg}
            [] tool.pc \in {"other", "got"} -> {tool.got}
            [] OTHER -> {}

(* everywhere a message is, at one process and altogether *)
PlacesAt(p, m) ==
    {<<"in", p, i>> : i \in At(in[p], m)}
      \cup {<<"burst", p, i>> : i \in At(burst[p], m)}
      \cup (UNION {{<<"out", p, t, i>> : i \in At(out[p][t], m)} : t \in Type})

Places(m) ==
    {<<"pool", i>> : i \in 1 .. pool[m]}
      \cup (UNION {PlacesAt(p, m) : p \in Proc})
      \cup {<<"tool", x>> : x \in InHand \cap {m}}

(* A message is in one place at a time (the pool, a ring, a burst, a tool),  *)
(* so that nobody fills a message while a process executes it, however late  *)
(* the answers of the tools that gave up arrive.                             *)
OneHolder == \A m \in Msg : Cardinality(Places(m)) <= 1

(* Only a killed tool loses a message: late answers, answers nobody waits    *)
(* for and full rings all lead back to the pool.                             *)
Accounted == Cardinality({m \in Msg : Places(m) = {}}) <= kills

(* A tool that takes a message for its answer finds the result of its own    *)
(* request in it, whatever earlier tools left on the reply ring.             *)
OwnAnswer == tool.pc = "got" => msg[tool.msg].answer = tool.req

(* A tool that has its answer has cleaned up behind the tools before it:     *)
(* nothing is left on the rings it used, so a single successful request      *)
(* removes every stale answer of its type.                                   *)
CaughtUp ==
    tool.pc = "got" =>
        /\ in[tool.proc] = <<>> /\ burst[tool.proc] = <<>>
        /\ out[tool.proc][tool.type] = <<>>

(* A message in the pool has its own buffer: whoever allocates it never sees *)
(* the buffer of an earlier sysctl, whichever side freed the message.        *)
OwnBuffer == \A m \in Msg : pool[m] > 0 => ~msg[m].extra

(* When nothing is under way the pool can serve the next tool.  Only a tool  *)
(* with a message takes stale answers off a reply ring, so a pool that is    *)
(* empty while no tool runs and no process has work stays empty.             *)
PoolRecovers ==
    (tool.pc = "idle" /\ \A p \in Proc : in[p] = <<>> /\ burst[p] = <<>>)
        => \E m \in Msg : pool[m] > 0

(* A message in the pool is as ff_msg_init left it: buf_addr is the start of *)
(* a buffer of buf_len bytes (ff_msg.h:137-140).                             *)
BufferAtOrigin == \A m \in Msg : pool[m] > 0 => ~msg[m].moved

(* A tool returns, even if the process it talks to never answers.            *)
ToolReturns == tool.pc # "idle" ~> tool.pc = "idle"
=============================================================================

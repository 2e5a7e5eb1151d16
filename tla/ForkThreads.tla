---------------------------- MODULE ForkThreads ----------------------------
(***************************************************************************)
(* The life of application processes in the FF_USE_THREAD_STRUCT_HANDLE     *)
(* build of the adapter, in which "every ff_so_context has one struct       *)
(* thread handle in fstack, fork will be supported like linux kernel"       *)
(* (Makefile:32).  A process attaches a context and has fstack create a     *)
(* thread, with a descriptor table, for it.  After a fork the child attaches *)
(* a context of its own and asks fstack for a thread that starts with a     *)
(* copy of the parent's table; meanwhile the parent waits on the flag        *)
(* `forking' of its context, holding the context's lock.  A process that     *)
(* exits has its thread freed and detaches.                                  *)
(*                                                                          *)
(* Requests go through a context one at a time (module SemIpc); here a       *)
(* request is pending until fstack has served it, and fstack serves a        *)
(* context only when it gets its lock.  Which context a process gets is      *)
(* SoZone's subject; here it is any free one.                                *)
(***************************************************************************)
EXTENDS Naturals, FiniteSets

CONSTANTS Proc,        \* processes
          Ctx,         \* contexts of the zone
          Thread,      \* addresses a struct thread can have
          Desc,        \* descriptors
          Thread0,     \* the thread fstack itself runs on
          None,        \* no process, context, thread
          MaxCalls,    \* bound: requests that open or close a descriptor
          MaxKills,    \* bound: processes that are killed
          MaxNoMem     \* bound: requests there is no shared memory for

ASSUME ForkAssumption ==
    /\ IsFiniteSet(Proc) /\ MaxCalls \in Nat /\ MaxKills \in Nat /\ MaxNoMem \in Nat
    /\ Thread0 \notin Thread \cup {None} /\ None \notin Proc \cup Ctx \cup Thread

VARIABLES proc,    \* the processes: pc, sc, the parent's sc and its descriptors at the fork
          ctx,     \* the contexts
          live,    \* the threads allocated in fstack
          files,   \* the descriptor table of each thread
          calls, kills, nomem,
          tainted, \* history: threads a process without memory found as its context's handle
          lost     \* history: threads nobody had the memory to ask fstack to free

marks == <<nomem, tainted, lost>>
vars == <<proc, ctx, live, files, calls, kills, marks>>

Request == [op : {"none", "register", "fork", "open", "close", "exit"},
            desc : Desc \cup {None},       \* of open and close
            parent : Thread \cup {None},   \* args->parent_thread_handle
            child : Thread \cup {None},    \* args->child_thread_handle
            served : BOOLEAN]

NoRequest == [op |-> "none", desc |-> None, parent |-> None, child |-> None, served |-> FALSE]

Context == [inuse : BOOLEAN, refs : 0 .. Cardinality(Proc), handle : Thread \cup {None},
            forking : BOOLEAN, lock : Proc \cup {None}, req : Request]

Unborn == [pc |-> "none", sc |-> None, psc |-> None, inherits |-> {}]

Init ==
    /\ proc = [p \in Proc |-> Unborn]
    /\ ctx = [c \in Ctx |-> [inuse |-> FALSE, refs |-> 0, handle |-> None, forking |-> FALSE,
                             lock |-> None, req |-> NoRequest]]
    /\ live = {}
    /\ files = [t \in Thread \cup {Thread0} |-> {}]
    /\ calls = 0 /\ kills = 0 /\ nomem = 0
    /\ tainted = {} /\ lost = {}

Goto(p, pc) == proc' = [proc EXCEPT ![p].pc = pc]

(* the thread fstack switches to for the requests of context c *)
RunsOn(c) == IF ctx[c].handle = None THEN Thread0 ELSE ctx[c].handle

Submitted(op, desc, parent) ==
    [op |-> op, desc |-> desc, parent |-> parent, child |-> None, served |-> FALSE]

Answered(p) == proc[p].sc # None /\ ctx[proc[p].sc].req.served

-----------------------------------------------------------------------------
(* ff_attach_so_context: the handle and the flag of the previous user stay  *)
Attached(c, req) == [ctx[c] EXCEPT !.inuse = TRUE, !.refs = 1, !.lock = None, !.req = req]

(* ff_adapter_init of a process that was not forked, up to the request for  *)
(* its thread                                                               *)
Start(p) ==
    /\ proc[p].pc = "none"
    /\ \E c \in Ctx :
         /\ ~ctx[c].inuse
         /\ ctx' = [ctx EXCEPT ![c] = Attached(c, Submitted("register", None, None))]
         /\ proc' = [proc EXCEPT ![p].pc = "register", ![p].sc = c]
    /\ UNCHANGED <<live, files, calls, kills, marks>>

(* share_mem_alloc has nothing for a request and DEFINE_REQ_ARGS returns:   *)
(* the process goes on with the handle it found in context c                *)
NoMem(c) ==
    /\ nomem < MaxNoMem
    /\ nomem' = nomem + 1
    /\ tainted' = tainted \cup ({ctx[c].handle} \ {None})
    /\ lost' = lost

(* ff_adapter_init without memory for its request; inited is already set    *)
StartNoMem(p) ==
    /\ proc[p].pc = "none"
    /\ \E c \in Ctx :
         /\ ~ctx[c].inuse /\ NoMem(c)
         /\ ctx' = [ctx EXCEPT ![c] = Attached(c, NoRequest)]
         /\ proc' = [proc EXCEPT ![p].pc = "run", ![p].sc = c]
    /\ UNCHANGED <<live, files, calls, kills>>

(* ff_adapter_init returns; inited is already set, so the process goes on   *)
(* even if it got no thread                                                 *)
Started(p) ==
    /\ proc[p].pc = "register" /\ Answered(p)
    /\ ctx' = [ctx EXCEPT ![proc[p].sc].req = NoRequest]
    /\ Goto(p, "run")
    /\ UNCHANGED <<live, files, calls, kills, marks>>

(* socket and close *)
Call(p, op, d) ==
    /\ proc[p].pc = "run" /\ calls < MaxCalls
    /\ op = "close" <=> d \in files[RunsOn(proc[p].sc)]
    /\ ctx' = [ctx EXCEPT ![proc[p].sc].req = Submitted(op, d, None)]
    /\ calls' = calls + 1
    /\ Goto(p, "call")
    /\ UNCHANGED <<live, files, kills, marks>>

Return(p) ==
    /\ proc[p].pc = "call" /\ Answered(p)
    /\ ctx' = [ctx EXCEPT ![proc[p].sc].req = NoRequest]
    /\ Goto(p, "run")
    /\ UNCHANGED <<live, files, calls, kills, marks>>

-----------------------------------------------------------------------------
(* ff_hook_fork *)
ForkLock(p) ==
    /\ proc[p].pc = "run"
    /\ ctx[proc[p].sc].lock = None
    /\ ctx' = [ctx EXCEPT ![proc[p].sc].lock = p]
    /\ Goto(p, "locked")
    /\ UNCHANGED <<live, files, calls, kills, marks>>

(* ff_linux_fork: from here parent and child run side by side *)
Fork(p, q) ==
    /\ proc[p].pc = "locked" /\ proc[q].pc = "none"
    /\ proc' = [proc EXCEPT
         ![p].pc = "forked",
         ![q] = [pc |-> "child", sc |-> proc[p].sc, psc |-> proc[p].sc,
                 inherits |-> files[RunsOn(proc[p].sc)]]]
    /\ UNCHANGED <<ctx, live, files, calls, kills, marks>>

ForkFails(p) ==
    /\ proc[p].pc = "locked"
    /\ ctx' = [ctx EXCEPT ![proc[p].sc].lock = None]
    /\ Goto(p, "run")
    /\ UNCHANGED <<live, files, calls, kills, marks>>

ParentCounts(p) ==
    /\ proc[p].pc = "forked"
    /\ ctx' = [ctx EXCEPT ![proc[p].sc].refs = @ + 1, ![proc[p].sc].forking = TRUE]
    /\ Goto(p, "waiting")
    /\ UNCHANGED <<live, files, calls, kills, marks>>

(* fault variant: the parent does not wait for the child *)
NoWait(c) == TRUE

(* while (sc->forking); *)
ChildDone(c) == ~ctx[c].forking

ParentDone(p) ==
    /\ proc[p].pc = "waiting"
    /\ ChildDone(proc[p].sc)
    /\ ctx' = [ctx EXCEPT ![proc[p].sc].lock = None]
    /\ Goto(p, "run")
    /\ UNCHANGED <<live, files, calls, kills, marks>>

(* ff_adapter_child_process_init and the request for the child's thread *)
ChildAttach(q) ==
    /\ proc[q].pc = "child"
    /\ \E c \in Ctx :
         /\ ~ctx[c].inuse
         /\ ctx' = [ctx EXCEPT ![c] = Attached(c, Submitted("fork", None, ctx[proc[q].psc].handle))]
         /\ proc' = [proc EXCEPT ![q].pc = "dup", ![q].sc = c]
    /\ UNCHANGED <<live, files, calls, kills, marks>>

(* no memory for that request: fork returns -1 in the child, with a context *)
(* that is its own, and nobody clears the parent's flag                     *)
ChildNoMem(q) ==
    /\ proc[q].pc = "child"
    /\ \E c \in Ctx :
         /\ ~ctx[c].inuse /\ NoMem(c)
         /\ ctx' = [ctx EXCEPT ![c] = Attached(c, NoRequest)]
         /\ proc' = [proc EXCEPT ![q].pc = "run", ![q].sc = c]
    /\ UNCHANGED <<live, files, calls, kills>>

(* no context is left: sc is NULL, and the request that follows dies on it *)
ChildFails(q) ==
    /\ proc[q].pc = "child"
    /\ \A c \in Ctx : ctx[c].inuse
    /\ proc' = [proc EXCEPT ![q].pc = "out", ![q].sc = None]
    /\ UNCHANGED <<ctx, live, files, calls, kills, marks>>

(* fault variant: the child's context keeps the handle it was found with *)
HandleFound(c) == ctx[c].handle

(* ret is 0 whether or not a thread could be allocated *)
HandleGiven(c) == ctx[c].req.child

ChildDup(q) ==
    /\ proc[q].pc = "dup" /\ Answered(q)
    /\ ctx' = [ctx EXCEPT ![proc[q].sc].handle = HandleGiven(proc[q].sc),
                          ![proc[q].sc].req = NoRequest,
                          ![proc[q].psc].forking = FALSE]
    /\ Goto(q, "run")
    /\ UNCHANGED <<live, files, calls, kills, marks>>

-----------------------------------------------------------------------------
(* ff_adapter_exit: ff_application_exit, then ff_detach_so_context *)
Exit(p) ==
    /\ proc[p].pc = "run"
    /\ ctx' = [ctx EXCEPT ![proc[p].sc].req = Submitted("exit", None, None)]
    /\ Goto(p, "exiting")
    /\ UNCHANGED <<live, files, calls, kills, marks>>

(* ff_detach_so_context: the last reference frees the context *)
Detached(c) ==
    [ctx EXCEPT ![c].req = NoRequest,
                ![c].refs = IF @ > 1 THEN @ - 1 ELSE @,
                ![c].inuse = ctx[c].refs > 1]

Detach(p) ==
    /\ proc[p].pc = "exiting" /\ Answered(p)
    /\ ctx[proc[p].sc].lock = None
    /\ ctx' = Detached(proc[p].sc)
    /\ proc' = [proc EXCEPT ![p].pc = "out", ![p].sc = None]
    /\ UNCHANGED <<live, files, calls, kills, marks>>

(* no memory for the request: ff_application_exit returns at once, and the  *)
(* context is detached all the same                                         *)
ExitNoMem(p) ==
    /\ proc[p].pc = "run"
    /\ ctx[proc[p].sc].lock = None
    /\ nomem < MaxNoMem
    /\ nomem' = nomem + 1
    /\ lost' = lost \cup ({ctx[proc[p].sc].handle} \cap live)
    /\ ctx' = Detached(proc[p].sc)
    /\ proc' = [proc EXCEPT ![p].pc = "out", ![p].sc = None]
    /\ UNCHANGED <<live, files, calls, kills, tainted>>

(* a killed process leaves its context, its lock and its thread as they are *)
Kill(p) ==
    /\ proc[p].pc \notin {"none", "out"} /\ kills < MaxKills
    /\ kills' = kills + 1
    /\ Goto(p, "out")
    /\ UNCHANGED <<ctx, live, files, calls, marks>>

-----------------------------------------------------------------------------
(* ff_handle_socket_ops on context c *)
Served(c) == [ctx[c].req EXCEPT !.served = TRUE]

Pending(c, op) ==
    /\ ctx[c].lock = None
    /\ ctx[c].req.op = op /\ ~ctx[c].req.served

(* malloc may return the address of a thread that was freed *)
Unused == Thread \ live

(* ff_adapt_user_thread_add: a new thread with a copy of the table of       *)
(* thread `from', or None when the allocation fails                         *)
NewThread(from, t) ==
    \/ /\ t \in Unused
       /\ live' = live \cup {t}
       /\ files' = [files EXCEPT ![t] = files[from]]
    \/ t = None /\ UNCHANGED <<live, files>>

ServeRegister(c) ==
    /\ Pending(c, "register")
    /\ \E t \in Thread \cup {None} :
         /\ NewThread(Thread0, t)
         /\ ctx' = [ctx EXCEPT ![c].handle = t, ![c].req = Served(c)]
    /\ UNCHANGED <<proc, calls, kills, marks>>

(* the thread whose table is copied *)
CopyOf(c) == ctx[c].req.parent

ServeFork(c) ==
    /\ Pending(c, "fork")
    /\ \E t \in Thread \cup {None} :
         /\ IF ctx[c].req.parent = None THEN t = None /\ UNCHANGED <<live, files>>
                                        ELSE NewThread(CopyOf(c), t)
         /\ ctx' = [ctx EXCEPT ![c].req = [Served(c) EXCEPT !.child = t]]
    /\ UNCHANGED <<proc, calls, kills, marks>>

ServeOpen(c) ==
    /\ Pending(c, "open")
    /\ files' = [files EXCEPT ![RunsOn(c)] = @ \cup {ctx[c].req.desc}]
    /\ ctx' = [ctx EXCEPT ![c].req = Served(c)]
    /\ UNCHANGED <<proc, live, calls, kills, marks>>

ServeClose(c) ==
    /\ Pending(c, "close")
    /\ files' = [files EXCEPT ![RunsOn(c)] = @ \ {ctx[c].req.desc}]
    /\ ctx' = [ctx EXCEPT ![c].req = Served(c)]
    /\ UNCHANGED <<proc, live, calls, kills, marks>>

(* fault variant: the thread is not freed *)
KeepThread(t) == live

(* ff_adapt_user_thread_exit *)
Without(t) == live \ {t}

ServeExit(c) ==
    /\ Pending(c, "exit")
    /\ live' = Without(ctx[c].handle)
    /\ files' = [t \in DOMAIN files |-> IF t = ctx[c].handle THEN {} ELSE files[t]]
    /\ ctx' = [ctx EXCEPT ![c].req = Served(c)]
    /\ lost' = lost \ {ctx[c].handle}
    /\ UNCHANGED <<proc, calls, kills, nomem, tainted>>

-----------------------------------------------------------------------------
Step(p) ==
    \/ Started(p) \/ Return(p) \/ ParentCounts(p) \/ ParentDone(p)
    \/ ChildAttach(p) \/ ChildNoMem(p) \/ ChildFails(p) \/ ChildDup(p) \/ Detach(p)
    \/ ForkFails(p) \/ \E q \in Proc : Fork(p, q)

Serve(c) == ServeRegister(c) \/ ServeFork(c) \/ ServeOpen(c) \/ ServeClose(c) \/ ServeExit(c)

Next ==
    \/ \E p \in Proc : \/ Start(p) \/ StartNoMem(p) \/ ForkLock(p)
                      \/ Exit(p) \/ ExitNoMem(p) \/ Kill(p) \/ Step(p)
    \/ \E p \in Proc, op \in {"open", "close"}, d \in Desc : Call(p, op, d)
    \/ \E c \in Ctx : Serve(c)

Spec == Init /\ [][Next]_vars

(* Every process is scheduled and fstack serves every context again and     *)
(* again; whether a process starts, calls, forks or exits is its own affair. *)
FairSpec ==
    /\ Spec
    /\ \A p \in Proc : WF_vars(Step(p))
    /\ \A c \in Ctx : WF_vars(Serve(c))

-----------------------------------------------------------------------------
(* Every variable has its type. *)
TypeOK ==
    /\ proc \in [Proc -> [pc : {"none", "register", "run", "call", "locked", "forked", "waiting",
                                "child", "dup", "exiting", "out"},
                          sc : Ctx \cup {None}, psc : Ctx \cup {None}, inherits : SUBSET Desc]]
    /\ ctx \in [Ctx -> Context]
    /\ live \in SUBSET Thread
    /\ files \in [Thread \cup {Thread0} -> SUBSET Desc]
    /\ calls \in 0 .. MaxCalls /\ kills \in 0 .. MaxKills /\ nomem \in 0 .. MaxNoMem
    /\ tainted \in SUBSET Thread /\ lost \in SUBSET Thread

Running(p) == proc[p].pc \in {"run", "call", "locked", "forked", "waiting", "exiting"}

(* A child's table is the one its parent had when it called fork: the parent *)
(* does nothing to its descriptors until fstack has copied them.  (Not if    *)
(* one of the two threads is also that of a process which got no memory.)    *)
ChildInherits ==
    \A q \in Proc :
        (proc[q].pc = "dup" /\ Answered(q) /\ ctx[proc[q].sc].req.child # None
           /\ {ctx[proc[q].sc].req.child, ctx[proc[q].sc].req.parent} \cap tainted = {})
            => files[ctx[proc[q].sc].req.child] = proc[q].inherits

(* the thread of process p exists and is no other process's *)
Apart(p) ==
    /\ ctx[proc[p].sc].handle \in live \/ (proc[p].pc = "exiting" /\ Answered(p))
    /\ \A q \in Proc \ {p} :
         Running(q) /\ ~(proc[p].pc = "exiting" /\ Answered(p))
                    /\ ~(proc[q].pc = "exiting" /\ Answered(q))
            => ctx[proc[q].sc].handle # ctx[proc[p].sc].handle

(* A process that has been initialised runs on a thread that exists and that *)
(* no other process runs on (or, if it got none, on fstack's own thread),    *)
(* whatever handle it found in its context and whatever address fstack has   *)
(* used again, until it asks fstack to free it; unless a process that had no *)
(* memory for its request (DEFINE_REQ_ARGS) was left with that address.      *)
OwnThread ==
    \A p \in Proc :
        (Running(p) /\ ctx[proc[p].sc].handle \notin tainted \cup {None}) => Apart(p)

(* No thread is left behind in fstack: one that is allocated belongs to a    *)
(* context in use, as its handle or as the answer to a fork, unless its      *)
(* process had no memory to ask for its release (ff_application_exit).       *)
NoThreadLeak ==
    \A t \in live \ lost :
        \E c \in Ctx : ctx[c].inuse /\ t \in {ctx[c].handle, ctx[c].req.child}

(* Without the exception: fails once a request finds no memory.              *)
AlwaysApart ==
    \A p \in Proc : (Running(p) /\ ctx[proc[p].sc].handle # None) => Apart(p)

(* A request that waits for fstack would run on a thread that exists.        *)
HandleLive ==
    \A c \in Ctx : (ctx[c].req.op # "none" /\ ~ctx[c].req.served)
                      => ctx[c].handle \in live \cup {None}

(* When every process has left, every context is free again.                 *)
ContextsReclaimed ==
    (kills = 0 /\ \A p \in Proc : proc[p].pc \in {"none", "out"}) => \A c \in Ctx : ~ctx[c].inuse

(* fork returns in the parent: "Loop until child fork done" (line 2491).     *)
ForkReturns == \A p \in Proc : proc[p].pc = "forked" ~> proc[p].pc = "run"
=============================================================================

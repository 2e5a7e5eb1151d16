-------------------------- MODULE ForkThreadsProof --------------------------
(***************************************************************************)
(* Proofs about ForkThreads, for any number of processes, contexts,        *)
(* threads, descriptors, calls and kills.                                  *)
(*                                                                         *)
(* The difficulty is that a context keeps the handle of its previous user, *)
(* that fstack uses the address of a freed thread again, and that killed   *)
(* processes leave contexts, locks and requests behind.  So a handle means *)
(* something only in some states of its context (Claims), and nothing at   *)
(* all once a process without memory was left with it.  The invariant      *)
(* says that what contexts claim exists and is claimed once (ClaimInv),    *)
(* that what exists is held by a context (LeakInv), and that a context     *)
(* from which a child is still to be made does not move (ParentInv).       *)
(***************************************************************************)
EXTENDS ForkThreads, FiniteSetTheorems, TLAPS

(* Process p has a context of its own; process q waits for a thread made   *)
(* from its parent's.                                                      *)
Own(p) == proc[p].pc \in {"register", "run", "call", "locked", "forked", "waiting", "dup",
                          "exiting"}
Young(q) == proc[q].pc \in {"child", "dup"}

(* The handle of context c is used, now or by what is still to come. *)
Uses(c) ==
    \/ \E p \in Proc : Running(p) /\ proc[p].sc = c /\ ~(proc[p].pc = "exiting" /\ ctx[c].req.served)
    \/ ctx[c].req.op \in {"open", "close", "exit"} /\ ~ctx[c].req.served
    \/ ctx[c].req.op = "register" /\ ctx[c].req.served
    \/ \E q \in Proc : Young(q) /\ proc[q].psc = c

Claims(c, t) ==
    /\ t \notin tainted \cup {None}
    /\ (Uses(c) /\ ctx[c].handle = t) \/ (ctx[c].req.op = "fork" /\ ctx[c].req.child = t)

(* The handle of context c is not one that it found. *)
Valid(c) ==
    /\ ctx[c].req.op # "fork"
    /\ ctx[c].req.op = "register" => ctx[c].req.served
    /\ ctx[c].req.op = "exit" => ~ctx[c].req.served

(* A process's context is in use and holds the request the process is at.  *)
OwnerInv ==
    \A p \in Proc : Own(p) =>
        /\ proc[p].sc \in Ctx /\ ctx[proc[p].sc].inuse
        /\ proc[p].pc = "register" => ctx[proc[p].sc].req.op = "register"
        /\ proc[p].pc = "call" => ctx[proc[p].sc].req.op \in {"open", "close"}
        /\ proc[p].pc \in {"run", "locked", "forked", "waiting"} => ctx[proc[p].sc].req.op = "none"
        /\ proc[p].pc = "dup" => ctx[proc[p].sc].req.op = "fork"
        /\ proc[p].pc = "exiting" => ctx[proc[p].sc].req.op = "exit"

OneOwner ==
    \A p, q \in Proc : Own(p) /\ Own(q) /\ proc[p].sc = proc[q].sc => p = q

(* A request keeps its context in use; only a fork brings a child's handle, *)
(* and open and close have a descriptor.                                   *)
RequestInv ==
    \A c \in Ctx : /\ ctx[c].req.op # "none" => ctx[c].inuse
                   /\ ctx[c].req.child # None => ctx[c].req.op = "fork" /\ ctx[c].req.served
                   /\ ctx[c].req.op \in {"open", "close"} => ctx[c].req.desc \in Desc

(* The context of a parent stays as it was at the fork until the child is  *)
(* made: the parent is about to wait, waits, or was killed.                *)
ParentInv ==
    \A q \in Proc : Young(q) =>
        /\ proc[q].psc \in Ctx /\ ctx[proc[q].psc].inuse /\ ctx[proc[q].psc].req.op = "none"
        /\ \A p \in Proc : Own(p) /\ proc[p].sc = proc[q].psc =>
             /\ proc[p].pc \in {"forked", "waiting"}
             /\ proc[p].pc = "waiting" => ctx[proc[q].psc].forking

OneChild ==
    \A q, r \in Proc : Young(q) /\ Young(r) /\ proc[q].psc = proc[r].psc => q = r

(* What a context claims exists and is claimed by no other. *)
ClaimInv ==
    \A c \in Ctx, t \in Thread : Claims(c, t) =>
        t \in live /\ \A d \in Ctx : Claims(d, t) => d = c

(* What exists is held by a context in use, as more than a handle found.   *)
LeakInv ==
    \A t \in live \ lost : \E c \in Ctx :
        /\ ctx[c].inuse
        /\ (Valid(c) /\ ctx[c].handle = t) \/ (ctx[c].req.op = "fork" /\ ctx[c].req.child = t)

(* The table to inherit: the parent's, until fstack has copied it. *)
InheritsOf(q) ==
    Young(q) =>
        /\ (/\ ctx[proc[q].psc].handle \notin tainted \cup {None}
            /\ (proc[q].pc = "dup" => ~ctx[proc[q].sc].req.served))
             => files[ctx[proc[q].psc].handle] = proc[q].inherits
        /\ proc[q].pc = "dup" => ctx[proc[q].sc].req.parent = ctx[proc[q].psc].handle
        /\ proc[q].pc = "dup" /\ ctx[proc[q].sc].req.child # None => ctx[proc[q].sc].req.served
        /\ (/\ proc[q].pc = "dup" /\ ctx[proc[q].sc].req.child \notin tainted \cup {None}
            /\ ctx[proc[q].sc].req.parent \notin tainted)
             => files[ctx[proc[q].sc].req.child] = proc[q].inherits

InheritInv == \A q \in Proc : InheritsOf(q)

(* A reference is counted for each process there has been, at most.        *)
Born == {p \in Proc : proc[p].pc # "none"}
RefsInv ==
    /\ \A c \in Ctx : ctx[c].refs <= Cardinality(Born)
    /\ \A p \in Proc : proc[p].pc = "forked" => ctx[proc[p].sc].refs + 1 <= Cardinality(Born)

(* The inductive invariant. *)
IInv ==
    /\ TypeOK /\ OwnerInv /\ OneOwner /\ RequestInv /\ ParentInv /\ OneChild
    /\ ClaimInv /\ LeakInv /\ InheritInv /\ RefsInv

-----------------------------------------------------------------------------
(* What the steps of different actors have in common. *)

(* No claim is made that was not there. *)
LEMMA ClaimsShrink ==
    ASSUME ClaimInv, \A c \in Ctx, t \in Thread : Claims(c, t)' => Claims(c, t), live \subseteq live'
    PROVE  ClaimInv'
BY DEF ClaimInv

(* Context c alone may make a new claim, of a thread that is new. *)
LEMMA OneNewClaim ==
    ASSUME ClaimInv, NEW c \in Ctx, NEW t,
           t = None => live' = live,
           t # None => t \notin live /\ live' = live \cup {t},
           \A d \in Ctx \ {c}, x \in Thread : Claims(d, x)' <=> Claims(d, x),
           \A x \in Thread : Claims(c, x)' => x = t
    PROVE  ClaimInv'
<1>1. ASSUME NEW d \in Ctx, NEW x \in Thread, Claims(d, x)' PROVE x \in live'
  BY <1>1, ForkAssumption DEF ClaimInv
<1>2. ASSUME NEW d \in Ctx, NEW x \in Thread, Claims(d, x)', NEW e \in Ctx, Claims(e, x)', e # d
      PROVE  FALSE
  <2>1. CASE d # c /\ e # c
    BY <1>2, <2>1 DEF ClaimInv
  <2>2. CASE d = c \/ e = c
    <3>1. x = t /\ t # None
      BY <1>2, <2>2, ForkAssumption
    <3> QED BY <1>2, <2>2, <3>1 DEF ClaimInv
  <2> QED BY <2>1, <2>2
<1> QED BY <1>1, <1>2 DEF ClaimInv

(* No reference is counted, nobody is born, nobody has just forked. *)
LEMMA RefsSame ==
    ASSUME RefsInv,
           \A c \in Ctx : ctx'[c].refs = ctx[c].refs,
           \A r \in Proc : /\ proc'[r].pc = "none" <=> proc[r].pc = "none"
                           /\ proc'[r].pc = "forked" => proc[r].pc = "forked"
                                                        /\ proc'[r].sc = proc[r].sc
                                                        /\ proc[r].sc \in Ctx
    PROVE  RefsInv'
<1>1. Born' = Born
  BY DEF Born
<1> QED BY <1>1 DEF RefsInv

(* Process p goes on in its own context c, with or without a request. *)
LEMMA OwnStep ==
    ASSUME IInv, NEW p \in Proc, NEW c \in Ctx, c = proc[p].sc,
           proc[p].pc \in {"register", "run", "call", "locked", "forked", "waiting"},
           proc[p].pc = "register" => ctx[c].req.served,
           proc'[p].pc \in {"run", "call", "locked", "waiting", "exiting"},
           proc'[p].sc = c,
           \A r \in Proc \ {p} : proc'[r] = proc[r],
           ctx'[c].handle = ctx[c].handle, ctx'[c].inuse = ctx[c].inuse,
           ctx'[c].req.child = None,
           proc'[p].pc = "call" => ctx'[c].req.op \in {"open", "close"} /\ ctx'[c].req.desc \in Desc,
           proc'[p].pc \in {"run", "locked", "waiting"} => ctx'[c].req.op = "none",
           proc'[p].pc = "exiting" => ctx'[c].req.op = "exit" /\ ~ctx'[c].req.served,
           \A d \in Ctx \ {c} : ctx'[d] = ctx[d],
           \A q \in Proc : Young(q) /\ proc[q].psc = c => proc'[p].pc = "waiting" /\ ctx'[c].forking,
           UNCHANGED <<live, files, tainted>>, lost \subseteq lost'
    PROVE  /\ OwnerInv' /\ OneOwner' /\ RequestInv' /\ ParentInv' /\ OneChild'
           /\ ClaimInv' /\ LeakInv' /\ InheritInv'
<1>1. Own(p) /\ Own(p)' /\ ~Young(p) /\ ~Young(p)'
  BY DEF Own, Young
<1>2. \A r \in Proc \ {p} : Own(r) <=> Own(r)'
  BY DEF Own
<1>3. \A r \in Proc \ {p} : Young(r) <=> Young(r)'
  BY DEF Young
<1>4. \A r \in Proc \ {p} : Own(r) => proc[r].sc \in Ctx \ {c}
  BY <1>1 DEF IInv, OneOwner, OwnerInv
<1>5. OwnerInv'
  <2>1. ASSUME NEW r \in Proc \ {p}, Own(r)'
        PROVE  Own(r) /\ proc'[r] = proc[r] /\ ctx'[proc'[r].sc] = ctx[proc[r].sc]
    BY <1>2, <1>4, <2>1
  <2>2. ctx[c].inuse
    BY <1>1 DEF IInv, OwnerInv
  <2>3. \A r \in Proc \ {p} : Own(r)' =>
          /\ proc'[r].sc \in Ctx /\ ctx'[proc'[r].sc].inuse
          /\ proc'[r].pc = "register" => ctx'[proc'[r].sc].req.op = "register"
          /\ proc'[r].pc = "call" => ctx'[proc'[r].sc].req.op \in {"open", "close"}
          /\ proc'[r].pc \in {"run", "locked", "forked", "waiting"}
               => ctx'[proc'[r].sc].req.op = "none"
          /\ proc'[r].pc = "dup" => ctx'[proc'[r].sc].req.op = "fork"
          /\ proc'[r].pc = "exiting" => ctx'[proc'[r].sc].req.op = "exit"
    <3> TAKE r \in Proc \ {p}
    <3> HAVE Own(r)'
    <3>1. Own(r) /\ proc'[r] = proc[r] /\ ctx'[proc'[r].sc] = ctx[proc[r].sc]
      BY <2>1
    <3> QED BY <3>1 DEF IInv, OwnerInv
  <2>4. /\ proc'[p].sc \in Ctx /\ ctx'[proc'[p].sc].inuse /\ proc'[p].pc # "register"
        /\ proc'[p].pc = "call" => ctx'[proc'[p].sc].req.op \in {"open", "close"}
        /\ proc'[p].pc \in {"run", "locked", "forked", "waiting"}
             => ctx'[proc'[p].sc].req.op = "none"
        /\ proc'[p].pc # "dup"
        /\ proc'[p].pc = "exiting" => ctx'[proc'[p].sc].req.op = "exit"
    BY <2>2
  <2> SUFFICES ASSUME NEW r \in Proc, Own(r)'
               PROVE  /\ proc'[r].sc \in Ctx /\ ctx'[proc'[r].sc].inuse
                      /\ proc'[r].pc = "register" => ctx'[proc'[r].sc].req.op = "register"
                      /\ proc'[r].pc = "call" => ctx'[proc'[r].sc].req.op \in {"open", "close"}
                      /\ proc'[r].pc \in {"run", "locked", "forked", "waiting"}
                           => ctx'[proc'[r].sc].req.op = "none"
                      /\ proc'[r].pc = "dup" => ctx'[proc'[r].sc].req.op = "fork"
                      /\ proc'[r].pc = "exiting" => ctx'[proc'[r].sc].req.op = "exit"
    BY DEF OwnerInv
  <2>5. CASE r = p
    BY <2>4, <2>5
  <2>6. CASE r # p
    BY <2>3, <2>6
  <2> QED BY <2>5, <2>6
<1>6. OneOwner'
  BY <1>1, <1>2 DEF IInv, OneOwner
<1>7. RequestInv'
  BY <1>1 DEF IInv, RequestInv, OwnerInv
<1>8. ParentInv'
  <2>1. ASSUME NEW q \in Proc, Young(q)'
        PROVE  /\ Young(q) /\ proc'[q] = proc[q]
               /\ proc[q].psc = c => proc'[p].pc = "waiting" /\ ctx'[c].forking
    BY <1>1, <1>3, <2>1
  <2>2. ASSUME NEW q \in Proc, Young(q), proc[q].psc = c
        PROVE  ctx'[c].inuse /\ ctx'[c].req.op = "none"
    BY <2>2 DEF IInv, ParentInv
  <2>3. ASSUME NEW q \in Proc, Young(q), proc[q].psc # c
        PROVE  ctx'[proc[q].psc] = ctx[proc[q].psc]
    BY <2>3 DEF IInv, ParentInv
  <2>4. ASSUME NEW q \in Proc, Young(q)', NEW r \in Proc, Own(r)', proc'[r].sc = proc'[q].psc
        PROVE  /\ proc'[r].pc \in {"forked", "waiting"}
               /\ proc'[r].pc = "waiting" => ctx'[proc'[q].psc].forking
    <3>1. CASE r = p
      BY <2>1, <2>4, <3>1
    <3>2. CASE r # p
      <4>1. Own(r) /\ proc'[r] = proc[r] /\ proc[r].sc # c
        BY <1>2, <1>4, <2>4, <3>2
      <4> QED BY <2>1, <2>3, <2>4, <4>1 DEF IInv, ParentInv
    <3> QED BY <3>1, <3>2
  <2> QED BY <2>1, <2>2, <2>3, <2>4 DEF IInv, ParentInv
<1>9. OneChild'
  BY <1>1, <1>3 DEF IInv, OneChild
<1>10. ClaimInv'
  <2>1. Uses(c)
    BY <1>1 DEF IInv, OwnerInv, Uses, Running
  <2>2. ASSUME NEW d \in Ctx \ {c}, Uses(d)' PROVE Uses(d)
    <3>1. ASSUME NEW r \in Proc, Running(r)', proc'[r].sc = d,
                 ~(proc'[r].pc = "exiting" /\ ctx'[d].req.served)
          PROVE  Uses(d)
      BY <3>1 DEF Uses, Running
    <3>2. ASSUME NEW r \in Proc, Young(r)', proc'[r].psc = d PROVE Uses(d)
      BY <1>1, <1>3, <3>2 DEF Uses
    <3> QED BY <2>2, <3>1, <3>2 DEF Uses
  <2>3. \A d \in Ctx, t \in Thread : Claims(d, t)' => Claims(d, t)
    BY <2>1, <2>2 DEF Claims
  <2> QED BY <2>3, ClaimsShrink DEF IInv
<1>11. LeakInv'
  <2>1. ctx[c].req.op # "fork" /\ Valid(c)'
    BY <1>1 DEF IInv, OwnerInv, Valid
  <2>2. \A d \in Ctx \ {c} : Valid(d)' <=> Valid(d)
    BY DEF Valid
  <2> QED BY <2>1, <2>2 DEF IInv, LeakInv
<1>12. InheritInv'
  <2>1. ASSUME NEW q \in Proc, Young(q)'
        PROVE  /\ Young(q) /\ proc'[q] = proc[q]
               /\ ctx'[proc[q].psc].handle = ctx[proc[q].psc].handle
               /\ proc[q].pc = "dup" => ctx'[proc[q].sc] = ctx[proc[q].sc]
    <3>1. Young(q) /\ q # p /\ proc'[q] = proc[q] /\ proc[q].psc \in Ctx
      BY <1>1, <1>3, <2>1 DEF IInv, ParentInv
    <3>2. proc[q].pc = "dup" => proc[q].sc \in Ctx \ {c}
      BY <1>4, <3>1 DEF Own
    <3> QED BY <3>1, <3>2
  <2> QED BY <2>1 DEF IInv, InheritInv, InheritsOf
<1> QED BY <1>5, <1>6, <1>7, <1>8, <1>9, <1>10, <1>11, <1>12

(* A process is gone; what it had stays as it is. *)
LEMMA LeaveStep ==
    ASSUME IInv, NEW p \in Proc, proc'[p].pc = "out", \A r \in Proc \ {p} : proc'[r] = proc[r],
           UNCHANGED <<ctx, live, files, tainted, lost>>
    PROVE  /\ OwnerInv' /\ OneOwner' /\ RequestInv' /\ ParentInv' /\ OneChild'
           /\ ClaimInv' /\ LeakInv' /\ InheritInv'
<1>1. \A r \in Proc : Own(r)' => Own(r) /\ r # p
  BY DEF Own
<1>2. \A r \in Proc : Young(r)' => Young(r) /\ r # p
  BY DEF Young
<1>3. OwnerInv' /\ OneOwner'
  BY <1>1 DEF IInv, OwnerInv, OneOwner
<1>4. ParentInv' /\ OneChild'
  BY <1>1, <1>2 DEF IInv, ParentInv, OneChild
<1>5. ClaimInv'
  <2>1. \A d \in Ctx : Uses(d)' => Uses(d)
    BY <1>2 DEF Uses, Running
  <2> QED BY <2>1, ClaimsShrink DEF IInv, Claims
<1>6. InheritInv'
  BY <1>2 DEF IInv, InheritInv, InheritsOf
<1> QED BY <1>3, <1>4, <1>5, <1>6 DEF IInv, RequestInv, LeakInv, Valid

(* fstack serves the request of context c. *)
LEMMA ServeStep ==
    ASSUME IInv, NEW c \in Ctx, ctx[c].req.op # "none", ctx'[c].req.op = ctx[c].req.op,
           ctx'[c].inuse = ctx[c].inuse, ctx'[c].refs = ctx[c].refs,
           ctx'[c].req.child # None => ctx'[c].req.op = "fork" /\ ctx'[c].req.served,
           ctx'[c].req.desc = ctx[c].req.desc,
           \A d \in Ctx \ {c} : ctx'[d] = ctx[d], UNCHANGED proc
    PROVE  OwnerInv' /\ OneOwner' /\ RequestInv' /\ ParentInv' /\ OneChild' /\ RefsInv'
<1>1. OwnerInv' /\ OneOwner'
  BY DEF IInv, OwnerInv, OneOwner, Own
<1>2. ParentInv'
  <2>1. \A q \in Proc : Young(q) => proc[q].psc \in Ctx \ {c}
    BY DEF IInv, ParentInv
  <2> QED BY <2>1 DEF IInv, ParentInv, Own, Young
<1>3. OneChild' /\ RequestInv'
  BY DEF IInv, OneChild, RequestInv, Young
<1>4. RefsInv'
  BY DEF IInv, RefsInv, Born, OwnerInv, Own
<1> QED BY <1>1, <1>2, <1>3, <1>4

(* The contexts that a serving of context c leaves alone claim what they did. *)
LEMMA OtherClaims ==
    ASSUME UNCHANGED <<proc, tainted>>, NEW d \in Ctx, ctx'[d] = ctx[d], NEW t
    PROVE  Claims(d, t)' <=> Claims(d, t)
BY DEF Claims, Uses, Running, Young

(* A child to be made, and one that is made, keep threads claimed. *)
LEMMA YoungClaims ==
    ASSUME IInv, NEW q \in Proc, Young(q)
    PROVE  /\ ctx[proc[q].psc].handle \notin tainted \cup {None} =>
                /\ Claims(proc[q].psc, ctx[proc[q].psc].handle)
                /\ ctx[proc[q].psc].handle \in Thread
           /\ proc[q].pc = "dup" /\ ctx[proc[q].sc].req.child \notin tainted \cup {None} =>
                /\ Claims(proc[q].sc, ctx[proc[q].sc].req.child)
                /\ ctx[proc[q].sc].req.child \in Thread
<1>1. proc[q].psc \in Ctx
  BY DEF IInv, ParentInv
<1>2. Uses(proc[q].psc)
  BY DEF Uses
<1>3. proc[q].pc = "dup" => proc[q].sc \in Ctx /\ ctx[proc[q].sc].req.op = "fork"
  BY DEF IInv, OwnerInv, Own
<1>4. \A c \in Ctx : /\ ctx[c].handle \in Thread \cup {None}
                     /\ ctx[c].req.child \in Thread \cup {None}
  BY DEF IInv, TypeOK, Context, Request
<1> QED BY <1>1, <1>2, <1>3, <1>4 DEF Claims

(* fstack serves a request other than a fork and leaves alone the tables   *)
(* of the threads that others claim.                                       *)
LEMMA TablesStep ==
    ASSUME IInv, NEW c \in Ctx, ctx[c].req.op \notin {"none", "fork"}, UNCHANGED <<proc, tainted>>,
           \A d \in Ctx \ {c} : ctx'[d] = ctx[d],
           \A d \in Ctx \ {c}, t \in Thread : Claims(d, t) => files'[t] = files[t]
    PROVE  InheritInv'
<1>1. ASSUME NEW q \in Proc, Young(q)
      PROVE  proc[q].psc \in Ctx \ {c} /\ (proc[q].pc = "dup" => proc[q].sc \in Ctx \ {c})
  BY <1>1 DEF IInv, ParentInv, OwnerInv, Own
<1>2. ASSUME NEW q \in Proc, Young(q), ctx[proc[q].psc].handle \notin tainted \cup {None}
      PROVE  files'[ctx[proc[q].psc].handle] = files[ctx[proc[q].psc].handle]
  BY <1>1, <1>2, YoungClaims
<1>3. ASSUME NEW q \in Proc, Young(q), proc[q].pc = "dup",
             ctx[proc[q].sc].req.child \notin tainted \cup {None}
      PROVE  files'[ctx[proc[q].sc].req.child] = files[ctx[proc[q].sc].req.child]
  BY <1>1, <1>3, YoungClaims
<1>4. \A q \in Proc : Young(q)' <=> Young(q)
  BY DEF Young
<1> QED BY <1>1, <1>2, <1>3, <1>4 DEF IInv, InheritInv, InheritsOf

(* Nothing moves that a child is to inherit; a child asks for its thread.  *)
LEMMA InheritsKept ==
    ASSUME NEW q, InheritsOf(q), Young(q), proc'[q] = proc[q],
           ctx'[proc[q].psc] = ctx[proc[q].psc],
           proc[q].pc = "dup" => ctx'[proc[q].sc] = ctx[proc[q].sc],
           files' = files, tainted \subseteq tainted'
    PROVE  InheritsOf(q)'
<1> DEFINE b == proc[q].psc
           c == proc[q].sc
<1>1. proc'[q].psc = b /\ proc'[q].sc = c /\ proc'[q].pc = proc[q].pc /\ proc'[q].inherits = proc[q].inherits
  OBVIOUS
<1>2. ctx'[b].handle = ctx[b].handle
  OBVIOUS
<1>3. proc[q].pc = "dup" => /\ ctx'[c].req.served <=> ctx[c].req.served
                           /\ ctx'[c].req.parent = ctx[c].req.parent
                           /\ ctx'[c].req.child = ctx[c].req.child
  OBVIOUS
<1>4. \A x : x \notin tainted' => x \notin tainted
  OBVIOUS
<1> HIDE DEF b, c
<1> QED BY <1>1, <1>2, <1>3, <1>4 DEF InheritsOf, b, c

LEMMA InheritsNew ==
    ASSUME NEW q, proc'[q].pc = "dup", proc'[q].psc = proc[q].psc,
           proc'[q].inherits = proc[q].inherits, ctx'[proc[q].psc] = ctx[proc[q].psc],
           ctx'[proc'[q].sc].req.parent = ctx[proc[q].psc].handle,
           ctx'[proc'[q].sc].req.child = None,
           ctx[proc[q].psc].handle \notin tainted \cup {None}
             => files[ctx[proc[q].psc].handle] = proc[q].inherits,
           files' = files, tainted \subseteq tainted'
    PROVE  InheritsOf(q)'
BY DEF InheritsOf

(* A process gets the context c, which nobody uses. *)
LEMMA AttachStep ==
    ASSUME IInv, NEW p \in Proc, NEW c \in Ctx, ~ctx[c].inuse,
           \/ proc[p].pc = "none" /\ proc'[p].pc = "register" /\ ctx'[c].req.op = "register"
           \/ /\ proc[p].pc = "child" /\ proc'[p].pc = "dup" /\ ctx'[c].req.op = "fork"
              /\ ctx'[c].req.parent = ctx[proc[p].psc].handle
           \/ /\ proc[p].pc \in {"none", "child"} /\ proc'[p].pc = "run" /\ ctx'[c].req.op = "none"
              /\ ctx[c].handle \in tainted' \cup {None},
           proc'[p].sc = c, proc'[p].psc = proc[p].psc, proc'[p].inherits = proc[p].inherits,
           \A r \in Proc \ {p} : proc'[r] = proc[r],
           ctx'[c].handle = ctx[c].handle, ctx'[c].inuse, ~ctx'[c].req.served, ctx'[c].req.child = None,
           \A d \in Ctx \ {c} : ctx'[d] = ctx[d],
           tainted \subseteq tainted', UNCHANGED <<live, files, lost>>
    PROVE  /\ OwnerInv' /\ OneOwner' /\ RequestInv' /\ ParentInv' /\ OneChild'
           /\ ClaimInv' /\ LeakInv' /\ InheritInv'
<1>1. ~Own(p) /\ Own(p)' /\ (Young(p)' => Young(p)) /\ (Running(p)' => proc'[p].pc = "run")
  BY DEF Own, Young, Running
<1>2. \A r \in Proc \ {p} : (Own(r) <=> Own(r)') /\ (Young(r) <=> Young(r)')
  BY DEF Own, Young
<1>3. \A r \in Proc : Own(r) => proc[r].sc \in Ctx \ {c}
  BY DEF IInv, OwnerInv
<1>4. \A r \in Proc : Young(r) => proc[r].psc \in Ctx \ {c}
  BY DEF IInv, ParentInv
<1>5. OwnerInv'
  <2>1. ASSUME NEW r \in Proc \ {p}, Own(r)'
        PROVE  Own(r) /\ proc'[r] = proc[r] /\ ctx'[proc'[r].sc] = ctx[proc[r].sc]
    BY <1>2, <1>3, <2>1
  <2>2. \A r \in Proc \ {p} : Own(r)' =>
          /\ proc'[r].sc \in Ctx /\ ctx'[proc'[r].sc].inuse
          /\ proc'[r].pc = "register" => ctx'[proc'[r].sc].req.op = "register"
          /\ proc'[r].pc = "call" => ctx'[proc'[r].sc].req.op \in {"open", "close"}
          /\ proc'[r].pc \in {"run", "locked", "forked", "waiting"}
               => ctx'[proc'[r].sc].req.op = "none"
          /\ proc'[r].pc = "dup" => ctx'[proc'[r].sc].req.op = "fork"
          /\ proc'[r].pc = "exiting" => ctx'[proc'[r].sc].req.op = "exit"
    BY <2>1 DEF IInv, OwnerInv
  <2> QED BY <2>2 DEF OwnerInv
<1>6. OneOwner'
  BY <1>1, <1>2, <1>3 DEF IInv, OneOwner
<1>7. RequestInv'
  BY DEF IInv, RequestInv
<1>8. ParentInv'
  <2>1. ASSUME NEW q \in Proc, Young(q)'
        PROVE  /\ Young(q) /\ proc'[q].psc = proc[q].psc /\ proc[q].psc \in Ctx \ {c}
               /\ ctx'[proc[q].psc] = ctx[proc[q].psc]
    BY <1>1, <1>2, <1>4, <2>1
  <2>2. ASSUME NEW q \in Proc, Young(q)', NEW r \in Proc, Own(r)', proc'[r].sc = proc'[q].psc
        PROVE  Own(r) /\ proc'[r] = proc[r]
    BY <1>1, <1>2, <2>1, <2>2
  <2> QED BY <2>1, <2>2 DEF IInv, ParentInv
<1>9. OneChild'
  BY <1>1, <1>2 DEF IInv, OneChild
<1>10. ClaimInv'
  <2>1. Uses(c)' => ctx'[c].handle \in tainted' \cup {None}
    <3>1. \A r \in Proc : Running(r)' /\ proc'[r].sc = c => r = p /\ proc'[p].pc = "run"
      BY <1>1, <1>3 DEF Running, Own
    <3>2. \A r \in Proc : ~(Young(r)' /\ proc'[r].psc = c)
      BY <1>1, <1>2, <1>4
    <3> QED BY <3>1, <3>2 DEF Uses
  <2>2. ASSUME NEW d \in Ctx \ {c}, Uses(d)' PROVE Uses(d)
    <3>1. ASSUME NEW r \in Proc, Running(r)', proc'[r].sc = d,
                 ~(proc'[r].pc = "exiting" /\ ctx'[d].req.served)
          PROVE  Uses(d)
      BY <3>1 DEF Uses, Running
    <3>2. ASSUME NEW r \in Proc, Young(r)', proc'[r].psc = d PROVE Uses(d)
      BY <1>1, <1>2, <3>2 DEF Uses
    <3> QED BY <2>2, <3>1, <3>2 DEF Uses
  <2>3. \A d \in Ctx, t \in Thread : Claims(d, t)' => Claims(d, t)
    BY <2>1, <2>2 DEF Claims
  <2> QED BY <2>3, ClaimsShrink DEF IInv
<1>11. LeakInv'
  <2>1. \A d \in Ctx \ {c} : Valid(d)' <=> Valid(d)
    BY DEF Valid
  <2> QED BY <2>1 DEF IInv, LeakInv
<1>12. InheritInv'
  <2>1. ASSUME NEW q \in Proc, Young(q)'
        PROVE  /\ Young(q) /\ proc'[q].psc = proc[q].psc /\ proc'[q].inherits = proc[q].inherits
               /\ ctx'[proc[q].psc] = ctx[proc[q].psc]
               /\ q # p /\ proc[q].pc = "dup" => ctx'[proc[q].sc] = ctx[proc[q].sc]
    <3>1. Young(q) /\ proc[q].psc \in Ctx \ {c}
      BY <1>1, <1>2, <1>4, <2>1
    <3>2. q # p /\ proc[q].pc = "dup" => proc[q].sc \in Ctx \ {c}
      BY <1>3 DEF Own
    <3> QED BY <3>1, <3>2
  <2>2. Young(p)' => proc[p].pc = "child" /\ proc'[p].pc = "dup"
    BY <1>1 DEF Young
  <2>3. files' = files /\ tainted \subseteq tainted'
    OBVIOUS
  <2>4. ASSUME NEW q \in Proc \ {p}, Young(q)'
        PROVE  /\ Young(q) /\ proc'[q] = proc[q] /\ ctx'[proc[q].psc] = ctx[proc[q].psc]
               /\ proc[q].pc = "dup" => ctx'[proc[q].sc] = ctx[proc[q].sc]
    BY <2>1, <2>4
  <2>5. InheritsOf(p)'
    <3>1. CASE Young(p)'
      <4>1. /\ proc[p].pc = "child" /\ proc'[p].pc = "dup" /\ proc'[p].psc = proc[p].psc
            /\ proc'[p].inherits = proc[p].inherits /\ ctx'[proc[p].psc] = ctx[proc[p].psc]
            /\ Young(p)
        BY <2>1, <2>2, <3>1
      <4>2. /\ ctx'[proc'[p].sc].req.parent = ctx[proc[p].psc].handle
            /\ ctx'[proc'[p].sc].req.child = None
        BY <4>1
      <4>3. ctx[proc[p].psc].handle \notin tainted \cup {None}
              => files[ctx[proc[p].psc].handle] = proc[p].inherits
        BY <4>1 DEF IInv, InheritInv, InheritsOf
      <4>4. files' = files /\ tainted \subseteq tainted'
        BY <2>3
      <4> QED BY <4>1, <4>2, <4>3, <4>4, InheritsNew
    <3> QED BY <3>1 DEF InheritsOf
  <2>6. ASSUME NEW q \in Proc \ {p} PROVE InheritsOf(q)'
    <3>1. CASE Young(q)'
      <4>1. InheritsOf(q)
        BY DEF IInv, InheritInv
      <4>2. /\ Young(q) /\ proc'[q] = proc[q] /\ ctx'[proc[q].psc] = ctx[proc[q].psc]
            /\ proc[q].pc = "dup" => ctx'[proc[q].sc] = ctx[proc[q].sc]
        BY <2>4, <3>1
      <4> QED BY <2>3, <3>1, <4>1, <4>2, InheritsKept
    <3> QED BY <3>1 DEF InheritsOf
  <2> QED BY <2>5, <2>6 DEF InheritInv
<1> QED BY <1>5, <1>6, <1>7, <1>8, <1>9, <1>10, <1>11, <1>12

-----------------------------------------------------------------------------
(* One lemma for each action. *)

(* The requests there are. *)
LEMMA RequestTypes ==
    /\ NoRequest \in Request
    /\ \A d \in Desc : Submitted("open", d, None) \in Request /\ Submitted("close", d, None) \in Request
    /\ \A t \in Thread \cup {None} : Submitted("fork", None, t) \in Request
    /\ Submitted("register", None, None) \in Request /\ Submitted("exit", None, None) \in Request
BY DEF NoRequest, Request, Submitted

(* Types after a step that changes the request of context c. *)
LEMMA RequestKeepsType ==
    ASSUME TypeOK, NEW c \in Ctx, NEW r \in Request, ctx' = [ctx EXCEPT ![c].req = r]
    PROVE  ctx' \in [Ctx -> Context]
<1>1. [ctx[c] EXCEPT !.req = r] \in Context
  BY DEF TypeOK, Context
<1> QED BY <1>1 DEF TypeOK

(* A process goes on with the thread it got, or without. *)
LEMMA StartedKeeps == ASSUME IInv, NEW p \in Proc, Started(p) PROVE IInv'
<1> DEFINE c == proc[p].sc
<1>1. /\ c \in Ctx /\ proc[p].pc = "register" /\ ctx[c].req.served
      /\ UNCHANGED <<live, files, kills, nomem, tainted, lost>>
  BY DEF Started, Answered, IInv, OwnerInv, Own, marks
<1>2. /\ proc'[p].pc = "run" /\ proc'[p].sc = c
      /\ \A r \in Proc \ {p} : proc'[r] = proc[r]
  BY DEF Started, Goto, IInv, TypeOK
<1>3. ctx' = [ctx EXCEPT ![c].req = NoRequest]
  BY DEF Started
<1>4. /\ ctx'[c].req = NoRequest /\ ctx'[c].handle = ctx[c].handle
      /\ ctx'[c].inuse = ctx[c].inuse /\ ctx'[c].refs = ctx[c].refs
      /\ \A d \in Ctx \ {c} : ctx'[d] = ctx[d]
  BY <1>1, <1>3 DEF IInv, TypeOK, Context
<1>5. TypeOK'
  <2>1. ctx' \in [Ctx -> Context]
    BY <1>1, <1>3, RequestTypes, RequestKeepsType DEF IInv
  <2>2. calls' \in 0 .. MaxCalls
    BY ForkAssumption DEF Started, IInv, TypeOK
  <2> QED BY <1>1, <2>1, <2>2 DEF IInv, TypeOK, Started, Goto
<1>6. RefsInv'
  BY <1>1, <1>2, <1>4, RefsSame DEF IInv, OwnerInv, Own
<1>7. \A q \in Proc : ~(Young(q) /\ proc[q].psc = c)
  BY <1>1 DEF IInv, ParentInv, Own
<1>8. ctx'[c].req.child = None /\ ctx'[c].req.op = "none"
  BY <1>4 DEF NoRequest
<1> HIDE DEF c
<1> QED BY <1>1, <1>2, <1>4, <1>5, <1>6, <1>7, <1>8, OwnStep DEF IInv, c

(* A process makes a request, ... *)
LEMMA CallKeeps == ASSUME IInv, NEW p \in Proc, NEW op \in {"open", "close"}, NEW e \in Desc, Call(p, op, e) PROVE IInv'
<1> DEFINE c == proc[p].sc
<1>1. /\ c \in Ctx /\ proc[p].pc = "run"
      /\ UNCHANGED <<live, files, kills, nomem, tainted, lost>>
  BY DEF Call, IInv, OwnerInv, Own, marks
<1>2. /\ proc'[p].pc = "call" /\ proc'[p].sc = c
      /\ \A r \in Proc \ {p} : proc'[r] = proc[r]
  BY DEF Call, Goto, IInv, TypeOK
<1>3. ctx' = [ctx EXCEPT ![c].req = Submitted(op, e, None)]
  BY DEF Call
<1>4. /\ ctx'[c].req = Submitted(op, e, None) /\ ctx'[c].handle = ctx[c].handle
      /\ ctx'[c].inuse = ctx[c].inuse /\ ctx'[c].refs = ctx[c].refs
      /\ \A d \in Ctx \ {c} : ctx'[d] = ctx[d]
  BY <1>1, <1>3 DEF IInv, TypeOK, Context
<1>5. TypeOK'
  <2>1. ctx' \in [Ctx -> Context]
    BY <1>1, <1>3, RequestTypes, RequestKeepsType DEF IInv
  <2>2. calls' \in 0 .. MaxCalls
    BY ForkAssumption DEF Call, IInv, TypeOK
  <2> QED BY <1>1, <2>1, <2>2 DEF IInv, TypeOK, Call, Goto
<1>6. RefsInv'
  BY <1>1, <1>2, <1>4, RefsSame DEF IInv, OwnerInv, Own
<1>7. \A q \in Proc : ~(Young(q) /\ proc[q].psc = c)
  BY <1>1 DEF IInv, ParentInv, Own
<1>8. ctx'[c].req.child = None /\ ctx'[c].req.op = op /\ ~ctx'[c].req.served /\ ctx'[c].req.desc \in Desc
  BY <1>4 DEF Submitted
<1> HIDE DEF c
<1> QED BY <1>1, <1>2, <1>4, <1>5, <1>6, <1>7, <1>8, OwnStep DEF IInv, c

(* ... and has its answer. *)
LEMMA ReturnKeeps == ASSUME IInv, NEW p \in Proc, Return(p) PROVE IInv'
<1> DEFINE c == proc[p].sc
<1>1. /\ c \in Ctx /\ proc[p].pc = "call" /\ ctx[c].req.served
      /\ UNCHANGED <<live, files, kills, nomem, tainted, lost>>
  BY DEF Return, Answered, IInv, OwnerInv, Own, marks
<1>2. /\ proc'[p].pc = "run" /\ proc'[p].sc = c
      /\ \A r \in Proc \ {p} : proc'[r] = proc[r]
  BY DEF Return, Goto, IInv, TypeOK
<1>3. ctx' = [ctx EXCEPT ![c].req = NoRequest]
  BY DEF Return
<1>4. /\ ctx'[c].req = NoRequest /\ ctx'[c].handle = ctx[c].handle
      /\ ctx'[c].inuse = ctx[c].inuse /\ ctx'[c].refs = ctx[c].refs
      /\ \A d \in Ctx \ {c} : ctx'[d] = ctx[d]
  BY <1>1, <1>3 DEF IInv, TypeOK, Context
<1>5. TypeOK'
  <2>1. ctx' \in [Ctx -> Context]
    BY <1>1, <1>3, RequestTypes, RequestKeepsType DEF IInv
  <2>2. calls' \in 0 .. MaxCalls
    BY ForkAssumption DEF Return, IInv, TypeOK
  <2> QED BY <1>1, <2>1, <2>2 DEF IInv, TypeOK, Return, Goto
<1>6. RefsInv'
  BY <1>1, <1>2, <1>4, RefsSame DEF IInv, OwnerInv, Own
<1>7. \A q \in Proc : ~(Young(q) /\ proc[q].psc = c)
  BY <1>1 DEF IInv, ParentInv, Own
<1>8. ctx'[c].req.child = None /\ ctx'[c].req.op = "none"
  BY <1>4 DEF NoRequest
<1> HIDE DEF c
<1> QED BY <1>1, <1>2, <1>4, <1>5, <1>6, <1>7, <1>8, OwnStep DEF IInv, c

(* A process asks fstack to free its thread. *)
LEMMA ExitKeeps == ASSUME IInv, NEW p \in Proc, Exit(p) PROVE IInv'
<1> DEFINE c == proc[p].sc
<1>1. /\ c \in Ctx /\ proc[p].pc = "run"
      /\ UNCHANGED <<live, files, kills, nomem, tainted, lost>>
  BY DEF Exit, IInv, OwnerInv, Own, marks
<1>2. /\ proc'[p].pc = "exiting" /\ proc'[p].sc = c
      /\ \A r \in Proc \ {p} : proc'[r] = proc[r]
  BY DEF Exit, Goto, IInv, TypeOK
<1>3. ctx' = [ctx EXCEPT ![c].req = Submitted("exit", None, None)]
  BY DEF Exit
<1>4. /\ ctx'[c].req = Submitted("exit", None, None) /\ ctx'[c].handle = ctx[c].handle
      /\ ctx'[c].inuse = ctx[c].inuse /\ ctx'[c].refs = ctx[c].refs
      /\ \A d \in Ctx \ {c} : ctx'[d] = ctx[d]
  BY <1>1, <1>3 DEF IInv, TypeOK, Context
<1>5. TypeOK'
  <2>1. ctx' \in [Ctx -> Context]
    BY <1>1, <1>3, RequestTypes, RequestKeepsType DEF IInv
  <2>2. calls' \in 0 .. MaxCalls
    BY ForkAssumption DEF Exit, IInv, TypeOK
  <2> QED BY <1>1, <2>1, <2>2 DEF IInv, TypeOK, Exit, Goto
<1>6. RefsInv'
  BY <1>1, <1>2, <1>4, RefsSame DEF IInv, OwnerInv, Own
<1>7. \A q \in Proc : ~(Young(q) /\ proc[q].psc = c)
  BY <1>1 DEF IInv, ParentInv, Own
<1>8. ctx'[c].req.child = None /\ ctx'[c].req.op = "exit" /\ ~ctx'[c].req.served
  BY <1>4 DEF Submitted
<1> HIDE DEF c
<1> QED BY <1>1, <1>2, <1>4, <1>5, <1>6, <1>7, <1>8, OwnStep DEF IInv, c

(* A process that forks takes the lock of its context, ... *)
LEMMA ForkLockKeeps == ASSUME IInv, NEW p \in Proc, ForkLock(p) PROVE IInv'
<1> DEFINE c == proc[p].sc
<1>1. /\ c \in Ctx /\ proc[p].pc = "run" /\ ctx[c].req.op = "none"
      /\ UNCHANGED <<live, files, calls, kills, nomem, tainted, lost>>
  BY DEF ForkLock, IInv, OwnerInv, Own, marks
<1>2. /\ proc'[p].pc = "locked" /\ proc'[p].sc = c
      /\ \A r \in Proc \ {p} : proc'[r] = proc[r]
  BY DEF ForkLock, Goto, IInv, TypeOK
<1>3. ctx' = [ctx EXCEPT ![c].lock = p]
  BY DEF ForkLock
<1>4. /\ ctx'[c].req = ctx[c].req /\ ctx'[c].handle = ctx[c].handle
      /\ ctx'[c].inuse = ctx[c].inuse /\ ctx'[c].refs = ctx[c].refs
      /\ \A d \in Ctx \ {c} : ctx'[d] = ctx[d]
  BY <1>1, <1>3 DEF IInv, TypeOK, Context
<1>5. TypeOK'
  <2>1. [ctx[c] EXCEPT !.lock = p] \in Context
    BY <1>1 DEF IInv, TypeOK, Context
  <2>2. ctx' \in [Ctx -> Context]
    BY <1>3, <2>1 DEF IInv, TypeOK
  <2> QED BY <1>1, <2>2 DEF IInv, TypeOK, ForkLock, Goto
<1>6. RefsInv'
  BY <1>1, <1>2, <1>4, RefsSame DEF IInv, OwnerInv, Own
<1>7. \A q \in Proc : ~(Young(q) /\ proc[q].psc = c)
  BY <1>1 DEF IInv, ParentInv, Own
<1>8. ctx'[c].req.child = None
  BY <1>1, <1>4 DEF IInv, RequestInv
<1> HIDE DEF c
<1> QED BY <1>1, <1>2, <1>4, <1>5, <1>6, <1>7, <1>8, OwnStep DEF IInv, c

(* ... gives it back if the fork fails, ... *)
LEMMA ForkFailsKeeps == ASSUME IInv, NEW p \in Proc, ForkFails(p) PROVE IInv'
<1> DEFINE c == proc[p].sc
<1>1. /\ c \in Ctx /\ proc[p].pc = "locked" /\ ctx[c].req.op = "none"
      /\ UNCHANGED <<live, files, calls, kills, nomem, tainted, lost>>
  BY DEF ForkFails, IInv, OwnerInv, Own, marks
<1>2. /\ proc'[p].pc = "run" /\ proc'[p].sc = c
      /\ \A r \in Proc \ {p} : proc'[r] = proc[r]
  BY DEF ForkFails, Goto, IInv, TypeOK
<1>3. ctx' = [ctx EXCEPT ![c].lock = None]
  BY DEF ForkFails
<1>4. /\ ctx'[c].req = ctx[c].req /\ ctx'[c].handle = ctx[c].handle
      /\ ctx'[c].inuse = ctx[c].inuse /\ ctx'[c].refs = ctx[c].refs
      /\ \A d \in Ctx \ {c} : ctx'[d] = ctx[d]
  BY <1>1, <1>3 DEF IInv, TypeOK, Context
<1>5. TypeOK'
  <2>1. [ctx[c] EXCEPT !.lock = None] \in Context
    BY <1>1 DEF IInv, TypeOK, Context
  <2>2. ctx' \in [Ctx -> Context]
    BY <1>3, <2>1 DEF IInv, TypeOK
  <2> QED BY <1>1, <2>2 DEF IInv, TypeOK, ForkFails, Goto
<1>6. RefsInv'
  BY <1>1, <1>2, <1>4, RefsSame DEF IInv, OwnerInv, Own
<1>7. \A q \in Proc : ~(Young(q) /\ proc[q].psc = c)
  BY <1>1 DEF IInv, ParentInv, Own
<1>8. ctx'[c].req.child = None
  BY <1>1, <1>4 DEF IInv, RequestInv
<1> HIDE DEF c
<1> QED BY <1>1, <1>2, <1>4, <1>5, <1>6, <1>7, <1>8, OwnStep DEF IInv, c

(* ... or when the child has its thread. *)
LEMMA ParentDoneKeeps == ASSUME IInv, NEW p \in Proc, ParentDone(p) PROVE IInv'
<1> DEFINE c == proc[p].sc
<1>1. /\ c \in Ctx /\ proc[p].pc = "waiting" /\ ctx[c].req.op = "none"
      /\ UNCHANGED <<live, files, calls, kills, nomem, tainted, lost>>
  BY DEF ParentDone, IInv, OwnerInv, Own, marks
<1>2. /\ proc'[p].pc = "run" /\ proc'[p].sc = c
      /\ \A r \in Proc \ {p} : proc'[r] = proc[r]
  BY DEF ParentDone, Goto, IInv, TypeOK
<1>3. ctx' = [ctx EXCEPT ![c].lock = None]
  BY DEF ParentDone
<1>4. /\ ctx'[c].req = ctx[c].req /\ ctx'[c].handle = ctx[c].handle
      /\ ctx'[c].inuse = ctx[c].inuse /\ ctx'[c].refs = ctx[c].refs
      /\ \A d \in Ctx \ {c} : ctx'[d] = ctx[d]
  BY <1>1, <1>3 DEF IInv, TypeOK, Context
<1>5. TypeOK'
  <2>1. [ctx[c] EXCEPT !.lock = None] \in Context
    BY <1>1 DEF IInv, TypeOK, Context
  <2>2. ctx' \in [Ctx -> Context]
    BY <1>3, <2>1 DEF IInv, TypeOK
  <2> QED BY <1>1, <2>2 DEF IInv, TypeOK, ParentDone, Goto
<1>6. RefsInv'
  BY <1>1, <1>2, <1>4, RefsSame DEF IInv, OwnerInv, Own
<1>7. \A q \in Proc : ~(Young(q) /\ proc[q].psc = c)
  BY <1>1 DEF IInv, ParentInv, Own, ParentDone, ChildDone
<1>8. ctx'[c].req.child = None
  BY <1>1, <1>4 DEF IInv, RequestInv
<1> HIDE DEF c
<1> QED BY <1>1, <1>2, <1>4, <1>5, <1>6, <1>7, <1>8, OwnStep DEF IInv, c

(* The processes born are finitely many. *)
LEMMA BornFacts ==
    /\ IsFiniteSet(Born) /\ Cardinality(Born) \in Nat /\ Cardinality(Proc) \in Nat
    /\ Cardinality(Born) <= Cardinality(Proc)
    /\ \A p \in Proc : proc[p].pc # "none" => 1 <= Cardinality(Born)
<1>1. Born \subseteq Proc /\ IsFiniteSet(Proc)
  BY ForkAssumption DEF Born
<1>2. /\ IsFiniteSet(Born) /\ Cardinality(Born) \in Nat /\ Cardinality(Proc) \in Nat
      /\ Cardinality(Born) <= Cardinality(Proc)
  BY <1>1, FS_Subset, FS_CardinalityType
<1>3. ASSUME NEW p \in Proc, proc[p].pc # "none" PROVE 1 <= Cardinality(Born)
  <2>1. p \in Born
    BY <1>3 DEF Born
  <2>2. Cardinality(Born) # 0
    BY <1>2, <2>1, FS_EmptySet
  <2> QED BY <1>2, <2>2
<1> QED BY <1>2, <1>3

(* One more process is born. *)
LEMMA OneBorn ==
    ASSUME NEW q \in Proc, proc[q].pc = "none", proc'[q].pc # "none",
           \A r \in Proc \ {q} : proc'[r].pc = "none" <=> proc[r].pc = "none"
    PROVE  Cardinality(Born') = Cardinality(Born) + 1
<1>1. Born' = Born \cup {q} /\ q \notin Born
  BY DEF Born
<1> QED BY <1>1, BornFacts, FS_AddElement

(* The parent counts the child and waits. *)
LEMMA ParentCountsKeeps == ASSUME IInv, NEW p \in Proc, ParentCounts(p) PROVE IInv'
<1> DEFINE c == proc[p].sc
<1>1. /\ c \in Ctx /\ proc[p].pc = "forked" /\ ctx[c].req.op = "none"
      /\ UNCHANGED <<live, files, calls, kills, nomem, tainted, lost>>
  BY DEF ParentCounts, IInv, OwnerInv, Own, marks
<1>2. /\ proc'[p].pc = "waiting" /\ proc'[p].sc = c
      /\ \A r \in Proc \ {p} : proc'[r] = proc[r]
  BY DEF ParentCounts, Goto, IInv, TypeOK
<1>3. ctx' = [ctx EXCEPT ![c].refs = ctx[c].refs + 1, ![c].forking = TRUE]
  BY DEF ParentCounts
<1>4. /\ ctx'[c].req = ctx[c].req /\ ctx'[c].handle = ctx[c].handle
      /\ ctx'[c].inuse = ctx[c].inuse /\ ctx'[c].forking /\ ctx'[c].refs = ctx[c].refs + 1
      /\ \A d \in Ctx \ {c} : ctx'[d] = ctx[d]
  BY <1>1, <1>3 DEF IInv, TypeOK, Context
<1>5. ctx[c].refs + 1 <= Cardinality(Born) /\ ctx[c].refs \in Nat
  BY <1>1 DEF IInv, RefsInv, TypeOK, Context
<1>6. TypeOK'
  <2>1. ctx[c].refs + 1 \in 0 .. Cardinality(Proc)
    BY <1>5, BornFacts
  <2>2. [ctx[c] EXCEPT !.refs = ctx[c].refs + 1, !.forking = TRUE] \in Context
    <3>1. ctx[c] \in Context
      BY <1>1 DEF IInv, TypeOK
    <3>2. ASSUME NEW n \in 0 .. Cardinality(Proc)
          PROVE  [ctx[c] EXCEPT !.refs = n, !.forking = TRUE] \in Context
      BY <3>1 DEF Context
    <3> QED BY <2>1, <3>2
  <2>3. ctx' \in [Ctx -> Context]
    BY <1>1, <1>3, <2>2 DEF IInv, TypeOK
  <2> QED BY <1>1, <2>3 DEF IInv, TypeOK, ParentCounts, Goto
<1>7. RefsInv'
  <2>1. Born' = Born
    BY <1>1, <1>2 DEF Born
  <2>2. ASSUME NEW r \in Proc, proc'[r].pc = "forked"
        PROVE  proc[r].pc = "forked" /\ proc'[r].sc = proc[r].sc /\ ctx'[proc[r].sc] = ctx[proc[r].sc]
    <3>1. r # p /\ proc'[r] = proc[r]
      BY <1>2, <2>2
    <3> QED BY <1>1, <1>4, <2>2, <3>1 DEF IInv, OwnerInv, OneOwner, Own
  <2> QED BY <1>4, <1>5, <2>1, <2>2 DEF IInv, RefsInv
<1>8. ctx'[c].req.child = None
  BY <1>1, <1>4 DEF IInv, RequestInv
<1> HIDE DEF c
<1> QED BY <1>1, <1>2, <1>4, <1>6, <1>7, <1>8, OwnStep DEF IInv, c

(* A child is born: its parent is frozen from here on. *)
LEMMA ForkKeeps == ASSUME IInv, NEW p \in Proc, NEW q \in Proc, Fork(p, q) PROVE IInv'
<1> DEFINE c == proc[p].sc
<1>1. /\ c \in Ctx /\ proc[p].pc = "locked" /\ proc[q].pc = "none" /\ p # q
      /\ ctx[c].inuse /\ ctx[c].req.op = "none"
      /\ UNCHANGED <<ctx, live, files, calls, kills, nomem, tainted, lost>>
  BY DEF Fork, IInv, OwnerInv, Own, marks
<1>2. /\ proc'[p].pc = "forked" /\ proc'[p].sc = c
      /\ proc'[q] = [pc |-> "child", sc |-> c, psc |-> c, inherits |-> files[RunsOn(c)]]
      /\ \A r \in Proc \ {p, q} : proc'[r] = proc[r]
  BY <1>1 DEF Fork, IInv, TypeOK
<1>3. proc'[q].pc = "child" /\ proc'[q].psc = c /\ proc'[q].inherits = files[RunsOn(c)]
  BY <1>2
<1>4. TypeOK'
  <2>1. RunsOn(c) \in Thread \cup {Thread0}
    BY <1>1 DEF RunsOn, IInv, TypeOK, Context
  <2>2. proc'[q] \in [pc : {"none", "register", "run", "call", "locked", "forked", "waiting",
                            "child", "dup", "exiting", "out"},
                      sc : Ctx \cup {None}, psc : Ctx \cup {None}, inherits : SUBSET Desc]
    BY <1>1, <1>2, <2>1 DEF IInv, TypeOK
  <2>3. [proc[p] EXCEPT !.pc = "forked"]
          \in [pc : {"none", "register", "run", "call", "locked", "forked", "waiting",
                     "child", "dup", "exiting", "out"},
               sc : Ctx \cup {None}, psc : Ctx \cup {None}, inherits : SUBSET Desc]
    BY DEF IInv, TypeOK
  <2> QED BY <1>1, <1>2, <2>2, <2>3 DEF IInv, TypeOK, Fork
<1> HIDE DEF c
<1>5. c = proc[p].sc
  BY DEF c
<1>6. Own(p) /\ Own(p)' /\ ~Own(q)' /\ ~Young(p)' /\ Young(q)' /\ Running(p) /\ ~Running(q)'
  BY <1>1, <1>2, <1>3 DEF Own, Young, Running
<1>7. \A r \in Proc \ {p, q} : (Own(r) <=> Own(r)') /\ (Young(r) <=> Young(r)')
  BY <1>2 DEF Own, Young
<1>8. \A r \in Proc : Young(r) => proc[r].psc # c
  BY <1>1, <1>5, <1>6 DEF IInv, ParentInv
<1>9. OwnerInv'
  BY <1>1, <1>2, <1>5, <1>6, <1>7 DEF IInv, OwnerInv
<1>10. OneOwner'
  BY <1>2, <1>5, <1>6, <1>7 DEF IInv, OneOwner
<1>11. ParentInv'
  <2>1. ASSUME NEW x \in Proc \ {p, q}, Young(x)', NEW r \in Proc, Own(r)', proc'[r].sc = proc'[x].psc
        PROVE  /\ proc'[r].pc \in {"forked", "waiting"}
               /\ proc'[r].pc = "waiting" => ctx'[proc'[x].psc].forking
    <3>1. Young(x) /\ proc'[x] = proc[x] /\ proc[x].psc # c
      BY <1>2, <1>7, <1>8, <2>1
    <3>2. r \in Proc \ {p, q} /\ Own(r) /\ proc'[r] = proc[r]
      BY <1>2, <1>6, <1>7, <2>1, <3>1
    <3> QED BY <1>1, <2>1, <3>1, <3>2 DEF IInv, ParentInv
  <2>2. ASSUME NEW r \in Proc, Own(r)', proc'[r].sc = c PROVE proc'[r].pc = "forked"
    <3>1. CASE r = p
      BY <1>2, <3>1
    <3>2. CASE r # p
      BY <1>2, <1>5, <1>6, <1>7, <2>2, <3>2 DEF IInv, OneOwner
    <3> QED BY <3>1, <3>2
  <2>3. ASSUME NEW x \in Proc \ {p, q}, Young(x)'
        PROVE  /\ proc'[x].psc \in Ctx /\ ctx'[proc'[x].psc].inuse
               /\ ctx'[proc'[x].psc].req.op = "none"
    BY <1>1, <1>2, <1>7, <2>3 DEF IInv, ParentInv
  <2> QED BY <1>1, <1>3, <1>6, <2>1, <2>2, <2>3 DEF ParentInv
<1>12. OneChild'
  BY <1>2, <1>3, <1>6, <1>7, <1>8 DEF IInv, OneChild
<1>13. ClaimInv'
  <2>1. Uses(c)
    BY <1>1, <1>5, <1>6 DEF Uses
  <2>2. ASSUME NEW d \in Ctx \ {c}, Uses(d)' PROVE Uses(d)
    <3>1. ASSUME NEW r \in Proc, Running(r)', proc'[r].sc = d,
                 ~(proc'[r].pc = "exiting" /\ ctx'[d].req.served)
          PROVE  Uses(d)
      BY <1>1, <1>2, <1>6, <3>1 DEF Uses, Running
    <3>2. ASSUME NEW r \in Proc, Young(r)', proc'[r].psc = d PROVE Uses(d)
      BY <1>2, <1>3, <1>6, <1>7, <3>2 DEF Uses
    <3> QED BY <1>1, <2>2, <3>1, <3>2 DEF Uses
  <2>3. \A d \in Ctx, t \in Thread : Claims(d, t)' => Claims(d, t)
    BY <1>1, <2>1, <2>2 DEF Claims
  <2> QED BY <1>1, <2>3, ClaimsShrink DEF IInv
<1>14. InheritInv'
  <2>1. ctx[c].handle # None => files[ctx[c].handle] = proc'[q].inherits
    BY <1>3 DEF RunsOn
  <2>2. ASSUME NEW x \in Proc \ {p, q}, Young(x)' PROVE Young(x) /\ proc'[x] = proc[x]
    BY <1>2, <1>7, <2>2
  <2>3. ASSUME NEW x \in Proc, Young(x)', x # q PROVE x \in Proc \ {p, q}
    BY <1>6, <2>3
  <2>4. ctx' = ctx /\ files' = files /\ tainted' = tainted
    BY <1>1
  <2>5. ASSUME NEW x \in Proc, Young(x)', x # q
        PROVE  Young(x) /\ proc'[x] = proc[x]
    BY <2>2, <2>3, <2>5
  <2>6. ASSUME NEW x \in Proc, x # q PROVE InheritsOf(x)'
    <3>1. CASE Young(x)'
      <4>1. InheritsOf(x)
        BY DEF IInv, InheritInv
      <4> QED BY <2>4, <2>5, <2>6, <3>1, <4>1, InheritsKept
    <3> QED BY <3>1 DEF InheritsOf
  <2>7. InheritsOf(q)'
    BY <1>3, <2>1, <2>4 DEF InheritsOf
  <2> QED BY <2>6, <2>7 DEF InheritInv
<1>15. RefsInv'
  <2>1. Cardinality(Born') = Cardinality(Born) + 1
    BY <1>1, <1>2, <1>3, OneBorn
  <2>2. \A d \in Ctx : ctx[d].refs \in Nat
    BY DEF IInv, TypeOK, Context
  <2>3. \A d \in Ctx : ctx[d].refs + 1 <= Cardinality(Born')
    BY <2>1, <2>2, BornFacts DEF IInv, RefsInv
  <2>4. \A r \in Proc : proc'[r].pc = "forked" => proc'[r].sc \in Ctx
    BY <1>9 DEF OwnerInv, Own
  <2>5. \A d \in Ctx : ctx[d].refs <= Cardinality(Born')
    BY <2>1, <2>2, BornFacts DEF IInv, RefsInv
  <2> QED BY <1>1, <2>3, <2>4, <2>5 DEF RefsInv
<1>16. (RequestInv /\ LeakInv)'
  BY <1>1 DEF IInv, RequestInv, LeakInv, Valid
<1> QED BY <1>4, <1>9, <1>10, <1>11, <1>12, <1>13, <1>14, <1>15, <1>16 DEF IInv

(* What is kept of a process. *)
Process == [pc : {"none", "register", "run", "call", "locked", "forked", "waiting",
                  "child", "dup", "exiting", "out"},
            sc : Ctx \cup {None}, psc : Ctx \cup {None}, inherits : SUBSET Desc]

(* What attaching a context makes of it. *)
LEMMA AttachedFacts ==
    ASSUME IInv, NEW c \in Ctx, NEW r \in Request, 1 <= Cardinality(Proc)
    PROVE  /\ Attached(c, r) \in Context /\ Attached(c, r).inuse /\ Attached(c, r).req = r
           /\ Attached(c, r).refs = 1 /\ Attached(c, r).handle = ctx[c].handle
<1>1. 1 \in 0 .. Cardinality(Proc)
  BY BornFacts
<1> QED BY <1>1 DEF Attached, IInv, TypeOK, Context

(* A process gets a context and makes the request for its thread, or goes  *)
(* on without: in its start and in a child.                                *)
LEMMA AttachKeeps ==
    ASSUME IInv, NEW p \in Proc, NEW c \in Ctx, NEW l, NEW req \in Request, ~ctx[c].inuse,
           ctx' = [ctx EXCEPT ![c] = Attached(c, req)],
           proc' = [proc EXCEPT ![p].pc = l, ![p].sc = c],
           \/ proc[p].pc = "none" /\ l = "register" /\ req.op = "register"
           \/ /\ proc[p].pc = "child" /\ l = "dup" /\ req.op = "fork"
              /\ req.parent = ctx[proc[p].psc].handle
           \/ /\ proc[p].pc \in {"none", "child"} /\ l = "run" /\ req.op = "none"
              /\ ctx[c].handle \in tainted' \cup {None},
           ~req.served, req.child = None,
           tainted \subseteq tainted', tainted' \subseteq Thread, nomem' \in 0 .. MaxNoMem,
           UNCHANGED <<live, files, calls, kills, lost>>
    PROVE  IInv'
<1>3. /\ proc'[p].pc = l /\ proc'[p].sc = c /\ proc'[p].psc = proc[p].psc
      /\ proc'[p].inherits = proc[p].inherits /\ \A r \in Proc \ {p} : proc'[r] = proc[r]
  BY DEF IInv, TypeOK
<1>4. 1 <= Cardinality(Proc)
  <2>1. Cardinality(Proc) # 0
    BY ForkAssumption, FS_EmptySet
  <2> QED BY <2>1, BornFacts
<1>5. l # "none" /\ l # "forked" /\ l # "child"
  OBVIOUS
<1>6. /\ Attached(c, req) \in Context /\ Attached(c, req).inuse /\ Attached(c, req).req = req
      /\ Attached(c, req).refs = 1 /\ Attached(c, req).handle = ctx[c].handle
  BY <1>4, AttachedFacts
<1>7. ctx'[c] = Attached(c, req) /\ \A d \in Ctx \ {c} : ctx'[d] = ctx[d]
  BY DEF IInv, TypeOK
<1>8. TypeOK'
  <2>1. ctx' \in [Ctx -> Context]
    BY <1>6 DEF IInv, TypeOK
  <2>2. proc[p] \in Process /\ proc \in [Proc -> Process]
    BY DEF IInv, TypeOK, Process
  <2>3. [proc[p] EXCEPT !.pc = l, !.sc = c] \in Process
    BY <2>2 DEF Process
  <2>4. proc' \in [Proc -> Process]
    BY <2>2, <2>3
  <2> QED BY <2>1, <2>4 DEF IInv, TypeOK, Process
<1>9. RefsInv'
  <2>1. Cardinality(Born) <= Cardinality(Born') /\ Cardinality(Born') \in Nat
    <3>1. CASE proc[p].pc = "none"
      <4>1. Cardinality(Born') = Cardinality(Born) + 1
        BY <1>3, <1>5, <3>1, OneBorn
      <4>2. Cardinality(Born) \in Nat
        BY BornFacts
      <4> QED BY <4>1, <4>2
    <3>2. CASE proc[p].pc # "none"
      <4>1. Born' = Born
        BY <1>3, <1>5, <3>2 DEF Born
      <4> QED BY <4>1, BornFacts
    <3> QED BY <3>1, <3>2
  <2>2. \A d \in Ctx : ctx[d].refs \in Nat
    BY DEF IInv, TypeOK, Context
  <2>3. 1 <= Cardinality(Born')
    <3>1. p \in Born'
      BY <1>3, <1>5 DEF Born
    <3>2. IsFiniteSet(Born')
      BY ForkAssumption, FS_Subset DEF Born
    <3> QED BY <2>1, <3>1, <3>2, FS_EmptySet
  <2>4. ASSUME NEW d \in Ctx PROVE ctx'[d].refs <= Cardinality(Born')
    BY <1>6, <1>7, <2>1, <2>2, <2>3, BornFacts DEF IInv, RefsInv
  <2>5. ASSUME NEW r \in Proc, proc'[r].pc = "forked"
        PROVE  /\ proc[r].pc = "forked" /\ proc'[r].sc = proc[r].sc /\ proc[r].sc \in Ctx
               /\ ctx'[proc[r].sc] = ctx[proc[r].sc]
    <3>1. r # p /\ proc'[r] = proc[r]
      BY <1>3, <1>5, <2>5
    <3>2. proc[r].pc = "forked" /\ Own(r)
      BY <2>5, <3>1 DEF Own
    <3>3. proc[r].sc \in Ctx /\ ctx[proc[r].sc].inuse
      BY <3>2 DEF IInv, OwnerInv
    <3>4. proc[r].sc # c
      BY <3>3
    <3> QED BY <1>7, <3>1, <3>2, <3>3, <3>4
  <2>6. ASSUME NEW r \in Proc, proc'[r].pc = "forked"
        PROVE  ctx'[proc'[r].sc].refs + 1 <= Cardinality(Born')
    <3>1. ctx[proc[r].sc].refs + 1 <= Cardinality(Born) /\ ctx[proc[r].sc].refs \in Nat
      BY <2>2, <2>5, <2>6 DEF IInv, RefsInv
    <3>2. ctx'[proc'[r].sc].refs = ctx[proc[r].sc].refs
      BY <2>5, <2>6
    <3> QED BY <2>1, <3>1, <3>2, BornFacts
  <2> QED BY <2>4, <2>6 DEF RefsInv
<1>10. /\ ctx'[c].inuse /\ ctx'[c].handle = ctx[c].handle
       /\ ctx'[c].req.op = req.op /\ ~ctx'[c].req.served /\ ctx'[c].req.child = None
       /\ ctx'[c].req.parent = req.parent
  BY <1>6, <1>7
<1>11. \A d \in Ctx \ {c} : ctx'[d] = ctx[d]
  BY <1>7
<1>14. /\ \/ proc[p].pc = "none" /\ proc'[p].pc = "register" /\ ctx'[c].req.op = "register"
          \/ /\ proc[p].pc = "child" /\ proc'[p].pc = "dup" /\ ctx'[c].req.op = "fork"
             /\ ctx'[c].req.parent = ctx[proc[p].psc].handle
          \/ /\ proc[p].pc \in {"none", "child"} /\ proc'[p].pc = "run" /\ ctx'[c].req.op = "none"
             /\ ctx[c].handle \in tainted' \cup {None}
       /\ UNCHANGED <<live, files, lost>>
  BY <1>3, <1>10
<1>12. /\ OwnerInv' /\ OneOwner' /\ RequestInv' /\ ParentInv' /\ OneChild'
       /\ ClaimInv' /\ LeakInv' /\ InheritInv'
  BY <1>3, <1>10, <1>11, <1>14, AttachStep, Zenon
<1> QED BY <1>8, <1>9, <1>12 DEF IInv

(* What it means that a request finds no memory. *)
LEMMA NoMemFacts ==
    ASSUME IInv, NEW c \in Ctx, NoMem(c)
    PROVE  /\ tainted \subseteq tainted' /\ tainted' \subseteq Thread /\ nomem' \in 0 .. MaxNoMem
           /\ ctx[c].handle \in tainted' \cup {None} /\ lost' = lost
<1>1. ctx[c].handle \in Thread \cup {None} /\ tainted \subseteq Thread
  BY DEF IInv, TypeOK, Context
<1>2. nomem' \in 0 .. MaxNoMem
  BY ForkAssumption DEF NoMem, IInv, TypeOK
<1> QED BY <1>1, <1>2 DEF NoMem

(* A process starts, ... *)
LEMMA StartKeeps == ASSUME IInv, NEW p \in Proc, Start(p) PROVE IInv'
<1> DEFINE req == Submitted("register", None, None)
<1>1. proc[p].pc = "none" /\ UNCHANGED <<live, files, calls, kills, nomem, tainted, lost>>
  BY DEF Start, marks
<1>2. PICK c \in Ctx : /\ ~ctx[c].inuse
                       /\ ctx' = [ctx EXCEPT ![c] = Attached(c, req)]
                       /\ proc' = [proc EXCEPT ![p].pc = "register", ![p].sc = c]
  BY DEF Start
<1>3. req \in Request /\ req.op = "register" /\ ~req.served /\ req.child = None
  BY RequestTypes DEF Submitted
<1>4. tainted' \subseteq Thread /\ nomem' \in 0 .. MaxNoMem
  BY <1>1 DEF IInv, TypeOK
<1> HIDE DEF req
<1> QED BY <1>1, <1>2, <1>3, <1>4, AttachKeeps

(* ... with memory for its request or without. *)
LEMMA StartNoMemKeeps == ASSUME IInv, NEW p \in Proc, StartNoMem(p) PROVE IInv'
<1>1. proc[p].pc = "none" /\ UNCHANGED <<live, files, calls, kills>>
  BY DEF StartNoMem
<1>2. PICK c \in Ctx : /\ ~ctx[c].inuse /\ NoMem(c)
                       /\ ctx' = [ctx EXCEPT ![c] = Attached(c, NoRequest)]
                       /\ proc' = [proc EXCEPT ![p].pc = "run", ![p].sc = c]
  BY DEF StartNoMem
<1>3. /\ NoRequest \in Request /\ NoRequest.op = "none" /\ ~NoRequest.served
      /\ NoRequest.child = None
  BY RequestTypes DEF NoRequest
<1> QED BY <1>1, <1>2, <1>3, NoMemFacts, AttachKeeps

(* A child gets a context of its own and asks for its thread, ... *)
LEMMA ChildAttachKeeps == ASSUME IInv, NEW p \in Proc, ChildAttach(p) PROVE IInv'
<1> DEFINE req == Submitted("fork", None, ctx[proc[p].psc].handle)
<1>1. proc[p].pc = "child" /\ UNCHANGED <<live, files, calls, kills, nomem, tainted, lost>>
  BY DEF ChildAttach, marks
<1>2. PICK c \in Ctx : /\ ~ctx[c].inuse
                       /\ ctx' = [ctx EXCEPT ![c] = Attached(c, req)]
                       /\ proc' = [proc EXCEPT ![p].pc = "dup", ![p].sc = c]
  BY DEF ChildAttach
<1>3. /\ req \in Request /\ req.op = "fork" /\ ~req.served /\ req.child = None
      /\ req.parent = ctx[proc[p].psc].handle
  <2>1. proc[p].psc \in Ctx
    BY <1>1 DEF IInv, ParentInv, Young
  <2>2. ctx[proc[p].psc].handle \in Thread \cup {None}
    BY <2>1 DEF IInv, TypeOK, Context
  <2> QED BY <2>2, RequestTypes DEF Submitted
<1>4. tainted' \subseteq Thread /\ nomem' \in 0 .. MaxNoMem
  BY <1>1 DEF IInv, TypeOK
<1> HIDE DEF req
<1> QED BY <1>1, <1>2, <1>3, <1>4, AttachKeeps

(* ... or has no memory to ask. *)
LEMMA ChildNoMemKeeps == ASSUME IInv, NEW p \in Proc, ChildNoMem(p) PROVE IInv'
<1>1. proc[p].pc = "child" /\ UNCHANGED <<live, files, calls, kills>>
  BY DEF ChildNoMem
<1>2. PICK c \in Ctx : /\ ~ctx[c].inuse /\ NoMem(c)
                       /\ ctx' = [ctx EXCEPT ![c] = Attached(c, NoRequest)]
                       /\ proc' = [proc EXCEPT ![p].pc = "run", ![p].sc = c]
  BY DEF ChildNoMem
<1>3. /\ NoRequest \in Request /\ NoRequest.op = "none" /\ ~NoRequest.served
      /\ NoRequest.child = None
  BY RequestTypes DEF NoRequest
<1> QED BY <1>1, <1>2, <1>3, NoMemFacts, AttachKeeps

(* A child has its thread; its parent may go on. *)
LEMMA ChildDupKeeps == ASSUME IInv, NEW q \in Proc, ChildDup(q) PROVE IInv'
<1>d. proc[q].pc = "dup" /\ Answered(q) /\ UNCHANGED <<live, files, calls, kills, nomem, tainted, lost>>
  BY Zenon DEF ChildDup, marks
<1>0. PICK c \in Ctx, b \in Ctx : c = proc[q].sc /\ b = proc[q].psc
  <2>1. Own(q) /\ Young(q)
    BY <1>d DEF Own, Young
  <2> QED BY <2>1 DEF IInv, OwnerInv, ParentInv
<1>1. /\ proc[q].pc = "dup" /\ ctx[c].req.op = "fork" /\ ctx[c].req.served
      /\ ctx[b].req.op = "none" /\ b # c
      /\ UNCHANGED <<live, files, calls, kills, nomem, tainted, lost>>
  BY <1>d, <1>0 DEF Answered, IInv, OwnerInv, ParentInv, Own, Young, marks
<1>2. /\ proc'[q].pc = "run" /\ proc'[q].sc = c
      /\ \A r \in Proc \ {q} : proc'[r] = proc[r]
  BY <1>0 DEF ChildDup, Goto, IInv, TypeOK
<1>3. ctx' = [ctx EXCEPT ![c].handle = ctx[c].req.child, ![c].req = NoRequest, ![b].forking = FALSE]
  BY <1>0 DEF ChildDup, HandleGiven
<1>4. /\ ctx'[c].req = NoRequest /\ ctx'[c].handle = ctx[c].req.child
      /\ ctx'[c].inuse = ctx[c].inuse /\ ctx'[c].refs = ctx[c].refs
      /\ ctx'[b].req = ctx[b].req /\ ctx'[b].handle = ctx[b].handle
      /\ ctx'[b].inuse = ctx[b].inuse /\ ctx'[b].refs = ctx[b].refs
      /\ \A d \in Ctx \ {b, c} : ctx'[d] = ctx[d]
  <2>1. ctx'[c] = [ctx[c] EXCEPT !.handle = ctx[c].req.child, !.req = NoRequest]
    BY <1>1, <1>3 DEF IInv, TypeOK
  <2>2. ctx'[b] = [ctx[b] EXCEPT !.forking = FALSE]
    BY <1>1, <1>3 DEF IInv, TypeOK
  <2>3. \A d \in Ctx \ {b, c} : ctx'[d] = ctx[d]
    BY <1>3 DEF IInv, TypeOK
  <2>4. ctx[c] \in Context /\ ctx[b] \in Context
    BY DEF IInv, TypeOK
  <2> QED BY <2>1, <2>2, <2>3, <2>4 DEF Context
<1>5. ctx'[c].req.op = "none" /\ ~ctx'[c].req.served /\ ctx'[c].req.child = None
  BY <1>4 DEF NoRequest
<1>6. TypeOK'
  <2>1. ctx[c] \in Context /\ ctx[b] \in Context /\ ctx[c].req.child \in Thread \cup {None}
    BY <1>1 DEF IInv, TypeOK, Context, Request
  <2>2. [ctx[c] EXCEPT !.handle = ctx[c].req.child, !.req = NoRequest] \in Context
    BY <2>1, RequestTypes DEF Context
  <2>3. [ctx[b] EXCEPT !.forking = FALSE] \in Context
    BY <2>1 DEF Context
  <2>4. ctx' \in [Ctx -> Context]
    BY <1>1, <1>3, <2>2, <2>3 DEF IInv, TypeOK
  <2>5. proc' = [proc EXCEPT ![q].pc = "run"]
    BY DEF ChildDup, Goto
  <2>6. proc[q] \in Process /\ proc \in [Proc -> Process]
    BY DEF IInv, TypeOK, Process
  <2>7. [proc[q] EXCEPT !.pc = "run"] \in Process
    BY <2>6 DEF Process
  <2>8. proc' \in [Proc -> Process]
    BY <2>5, <2>6, <2>7
  <2> QED BY <1>1, <2>4, <2>8 DEF IInv, TypeOK, Process
<1>8. Own(q) /\ Own(q)' /\ Young(q) /\ ~Young(q)'
  BY <1>1, <1>2 DEF Own, Young
<1>9. \A r \in Proc \ {q} : (Own(r) <=> Own(r)') /\ (Young(r) <=> Young(r)')
  BY <1>2 DEF Own, Young
<1>10. \A r \in Proc \ {q} : Own(r) => proc[r].sc \in Ctx \ {c}
  BY <1>0, <1>8 DEF IInv, OneOwner, OwnerInv
<1>11. \A r \in Proc \ {q} : Young(r) => proc[r].psc \in Ctx \ {b, c}
  BY <1>1, <1>0, <1>8 DEF IInv, OneChild, ParentInv
<1>12. OwnerInv'
  <2>1. ASSUME NEW r \in Proc \ {q}, Own(r)'
        PROVE  /\ Own(r) /\ proc'[r] = proc[r]
               /\ ctx'[proc'[r].sc].req = ctx[proc[r].sc].req
               /\ ctx'[proc'[r].sc].inuse = ctx[proc[r].sc].inuse
    BY <1>2, <1>4, <1>9, <1>10, <2>1
  <2>2. ctx[c].inuse
    BY <1>0, <1>8 DEF IInv, OwnerInv
  <2>3. \A r \in Proc \ {q} : Own(r)' =>
          /\ proc'[r].sc \in Ctx /\ ctx'[proc'[r].sc].inuse
          /\ proc'[r].pc = "register" => ctx'[proc'[r].sc].req.op = "register"
          /\ proc'[r].pc = "call" => ctx'[proc'[r].sc].req.op \in {"open", "close"}
          /\ proc'[r].pc \in {"run", "locked", "forked", "waiting"}
               => ctx'[proc'[r].sc].req.op = "none"
          /\ proc'[r].pc = "dup" => ctx'[proc'[r].sc].req.op = "fork"
          /\ proc'[r].pc = "exiting" => ctx'[proc'[r].sc].req.op = "exit"
    BY <2>1 DEF IInv, OwnerInv
  <2> QED BY <1>1, <1>2, <1>4, <1>5, <2>2, <2>3 DEF OwnerInv
<1>13. OneOwner'
  BY <1>2, <1>0, <1>8, <1>9 DEF IInv, OneOwner
<1>14. RequestInv'
  BY <1>1, <1>4, <1>5 DEF IInv, RequestInv
<1>15. ParentInv'
  <2>1. ASSUME NEW r \in Proc, Young(r)'
        PROVE  /\ r # q /\ Young(r) /\ proc'[r] = proc[r] /\ proc[r].psc \in Ctx \ {b, c}
               /\ ctx'[proc[r].psc] = ctx[proc[r].psc]
    BY <1>2, <1>4, <1>8, <1>9, <1>11, <2>1
  <2>2. ASSUME NEW r \in Proc, Young(r)', NEW x \in Proc, Own(x)', proc'[x].sc = proc'[r].psc
        PROVE  x # q /\ Own(x) /\ proc'[x] = proc[x]
    BY <1>2, <1>9, <2>1, <2>2
  <2> QED BY <2>1, <2>2 DEF IInv, ParentInv
<1>16. OneChild'
  BY <1>2, <1>8, <1>9 DEF IInv, OneChild
<1>17. ClaimInv'
  <2>1. ASSUME NEW d \in Ctx \ {c}, Uses(d)' PROVE Uses(d)
    <3>1. ctx'[d].req = ctx[d].req
      BY <1>4
    <3>2. ASSUME NEW r \in Proc, Running(r)', proc'[r].sc = d,
                 ~(proc'[r].pc = "exiting" /\ ctx'[d].req.served)
          PROVE  Uses(d)
      BY <1>2, <3>1, <3>2 DEF Uses, Running
    <3>3. ASSUME NEW r \in Proc, Young(r)', proc'[r].psc = d PROVE Uses(d)
      BY <1>2, <1>8, <1>9, <3>3 DEF Uses
    <3> QED BY <2>1, <3>1, <3>2, <3>3 DEF Uses
  <2>2. \A d \in Ctx \ {c}, t \in Thread : Claims(d, t)' => Claims(d, t)
    BY <1>1, <1>4, <2>1 DEF Claims
  <2>3. \A t \in Thread : Claims(c, t)' => Claims(c, t)
    BY <1>1, <1>4, <1>5 DEF Claims
  <2> QED BY <1>1, <2>2, <2>3, ClaimsShrink DEF IInv
<1>18. LeakInv'
  <2>1. Valid(c)' /\ ~Valid(c) /\ (Valid(b) <=> Valid(b)')
    BY <1>1, <1>4, <1>5 DEF Valid
  <2>2. \A d \in Ctx \ {b, c} : Valid(d)' <=> Valid(d)
    BY <1>4 DEF Valid
  <2>3. ASSUME NEW t \in live, NEW e \in Ctx, ctx[e].inuse,
               (Valid(e) /\ ctx[e].handle = t) \/ (ctx[e].req.op = "fork" /\ ctx[e].req.child = t)
        PROVE  /\ ctx'[e].inuse
               /\ (Valid(e)' /\ ctx'[e].handle = t)
                    \/ (ctx'[e].req.op = "fork" /\ ctx'[e].req.child = t)
    <3>1. CASE e = c
      BY <1>4, <2>1, <2>3, <3>1
    <3>2. CASE e = b
      BY <1>4, <2>1, <2>3, <3>2
    <3>3. CASE e \notin {b, c}
      BY <1>4, <2>2, <2>3, <3>3
    <3> QED BY <3>1, <3>2, <3>3
  <2> QED BY <1>1, <2>3 DEF IInv, LeakInv
<1>19. InheritInv'
  <2>1. ASSUME NEW r \in Proc, Young(r)'
        PROVE  /\ Young(r) /\ proc'[r] = proc[r]
               /\ ctx'[proc[r].psc].handle = ctx[proc[r].psc].handle
               /\ proc[r].pc = "dup" => ctx'[proc[r].sc].req = ctx[proc[r].sc].req
    <3>1. Young(r) /\ r # q /\ proc'[r] = proc[r] /\ proc[r].psc \in Ctx \ {b, c}
      BY <1>2, <1>8, <1>9, <1>11, <2>1
    <3>2. proc[r].pc = "dup" => proc[r].sc \in Ctx \ {c}
      BY <1>10, <3>1 DEF Own
    <3> QED BY <1>4, <3>1, <3>2
  <2> QED BY <1>1, <2>1 DEF IInv, InheritInv, InheritsOf
<1>20. RefsInv'
  <2>1. \A d \in Ctx : ctx'[d].refs = ctx[d].refs
    BY <1>4
  <2> QED BY <1>1, <1>2, <2>1, RefsSame DEF IInv, OwnerInv, Own
<1> QED BY <1>6, <1>12, <1>13, <1>14, <1>15, <1>16, <1>17, <1>18, <1>19, <1>20 DEF IInv

(* A process gives its context back; the thread is gone already, or lost.  *)
Leaves(p, c) ==
    /\ c = proc[p].sc
    /\ \/ proc[p].pc = "exiting" /\ ctx[c].req.op = "exit" /\ ctx[c].req.served
       \/ /\ proc[p].pc = "run" /\ ctx[c].req.op = "none"
          /\ ctx[c].handle \notin live \ lost'
    /\ lost \subseteq lost' /\ lost' \subseteq Thread /\ nomem' \in 0 .. MaxNoMem
    /\ ctx' = Detached(c)
    /\ proc' = [proc EXCEPT ![p].pc = "out", ![p].sc = None]
    /\ UNCHANGED <<live, files, calls, kills, tainted>>

LEMMA DetachStep == ASSUME IInv, NEW p \in Proc, NEW c \in Ctx, Leaves(p, c) PROVE IInv'
<1>1. /\ proc[p].pc \in {"exiting", "run"} /\ ctx[c].req.op \in {"exit", "none"}
      /\ UNCHANGED <<live, files, calls, kills, tainted>>
  BY DEF Leaves
<1>0. c = proc[p].sc
  BY DEF Leaves
<1>p. proc' = [proc EXCEPT ![p].pc = "out", ![p].sc = None]
  BY DEF Leaves
<1>2. /\ proc'[p].pc = "out" /\ \A r \in Proc \ {p} : proc'[r] = proc[r]
  BY <1>p DEF IInv, TypeOK
<1>3. PICK n, i : /\ n = (IF ctx[c].refs > 1 THEN ctx[c].refs - 1 ELSE ctx[c].refs)
                  /\ i = (ctx[c].refs > 1)
                  /\ ctx' = [ctx EXCEPT ![c].req = NoRequest, ![c].refs = n, ![c].inuse = i]
  BY Zenon DEF Detached, Leaves
<1>4. n \in 0 .. Cardinality(Proc) /\ n <= ctx[c].refs /\ i \in BOOLEAN
  BY <1>1, <1>3, BornFacts DEF IInv, TypeOK, Context
<1>5. /\ ctx'[c].req = NoRequest /\ ctx'[c].refs = n
      /\ \A d \in Ctx \ {c} : ctx'[d] = ctx[d]
  BY <1>1, <1>3 DEF IInv, TypeOK, Context
<1>6. ctx'[c].req.op = "none" /\ ~ctx'[c].req.served /\ ctx'[c].req.child = None
  BY <1>5 DEF NoRequest
<1>7. TypeOK'
  <2>1. ctx[c] \in Context
    BY <1>1 DEF IInv, TypeOK
  <2>2. [ctx[c] EXCEPT !.req = NoRequest, !.refs = n, !.inuse = i] \in Context
    BY <1>4, <2>1, RequestTypes DEF Context
  <2>3. ctx' \in [Ctx -> Context]
    BY <1>1, <1>3, <2>2 DEF IInv, TypeOK
  <2>4. /\ proc' = [proc EXCEPT ![p].pc = "out", ![p].sc = None]
        /\ nomem' \in 0 .. MaxNoMem /\ lost' \subseteq Thread
    BY DEF Leaves
  <2>5. [proc[p] EXCEPT !.pc = "out", !.sc = None]
          \in [pc : {"none", "register", "run", "call", "locked", "forked", "waiting",
                     "child", "dup", "exiting", "out"},
               sc : Ctx \cup {None}, psc : Ctx \cup {None}, inherits : SUBSET Desc]
    BY DEF IInv, TypeOK
  <2> QED BY <1>1, <2>3, <2>4, <2>5 DEF IInv, TypeOK
<1>9. Own(p) /\ ~Own(p)' /\ ~Young(p) /\ ~Young(p)' /\ ~Running(p)'
  BY <1>1, <1>2 DEF Own, Young, Running
<1>10. \A r \in Proc \ {p} : (Own(r) <=> Own(r)') /\ (Young(r) <=> Young(r)')
  BY <1>2 DEF Own, Young
<1>11. \A r \in Proc \ {p} : Own(r) => proc[r].sc \in Ctx \ {c}
  BY <1>0, <1>9 DEF IInv, OneOwner, OwnerInv
<1>12. \A r \in Proc : Young(r) => proc[r].psc \in Ctx \ {c}
  BY <1>1, <1>0, <1>9 DEF IInv, ParentInv
<1>13. OwnerInv'
  <2>1. ASSUME NEW r \in Proc, Own(r)'
        PROVE  Own(r) /\ proc'[r] = proc[r] /\ ctx'[proc'[r].sc] = ctx[proc[r].sc]
    BY <1>2, <1>5, <1>9, <1>10, <1>11, <2>1
  <2> QED BY <2>1 DEF IInv, OwnerInv
<1>14. OneOwner' /\ OneChild'
  BY <1>2, <1>9, <1>10 DEF IInv, OneOwner, OneChild
<1>15. RequestInv'
  BY <1>5, <1>6 DEF IInv, RequestInv
<1>16. ParentInv'
  BY <1>2, <1>5, <1>9, <1>10, <1>12 DEF IInv, ParentInv
<1>17. ClaimInv'
  <2>1. ~Uses(c)'
    <3>1. \A r \in Proc : ~(Running(r)' /\ proc'[r].sc = c)
      BY <1>2, <1>9, <1>11 DEF Running, Own
    <3>2. \A r \in Proc : ~(Young(r)' /\ proc'[r].psc = c)
      BY <1>2, <1>9, <1>10, <1>12
    <3> QED BY <1>6, <3>1, <3>2 DEF Uses
  <2>2. ASSUME NEW d \in Ctx \ {c}, Uses(d)' PROVE Uses(d)
    <3>1. ASSUME NEW r \in Proc, Running(r)', proc'[r].sc = d,
                 ~(proc'[r].pc = "exiting" /\ ctx'[d].req.served)
          PROVE  Uses(d)
      BY <1>2, <1>5, <1>9, <3>1 DEF Uses, Running
    <3>2. ASSUME NEW r \in Proc, Young(r)', proc'[r].psc = d PROVE Uses(d)
      BY <1>2, <1>9, <1>10, <3>2 DEF Uses
    <3> QED BY <1>5, <2>2, <3>1, <3>2 DEF Uses
  <2>3. \A d \in Ctx, t \in Thread : Claims(d, t)' => Claims(d, t)
    BY <1>1, <1>5, <1>6, <2>1, <2>2 DEF Claims
  <2> QED BY <1>1, <2>3, ClaimsShrink DEF IInv
<1>18. LeakInv'
  <2>1. ctx[c].req.op # "fork" /\ (Valid(c) => ctx[c].handle \notin live \ lost')
    <3>1. \/ ctx[c].req.op = "exit" /\ ctx[c].req.served
          \/ ctx[c].handle \notin live \ lost'
      BY DEF Leaves
    <3> QED BY <1>1, <3>1 DEF Valid
  <2>2. \A d \in Ctx \ {c} : Valid(d)' <=> Valid(d)
    BY <1>5 DEF Valid
  <2>3. lost \subseteq lost'
    BY DEF Leaves
  <2> QED BY <1>1, <1>5, <2>1, <2>2, <2>3 DEF IInv, LeakInv
<1>19. InheritInv'
  <2>1. ASSUME NEW r \in Proc, Young(r)'
        PROVE  /\ Young(r) /\ proc'[r] = proc[r]
               /\ ctx'[proc[r].psc] = ctx[proc[r].psc]
               /\ proc[r].pc = "dup" => ctx'[proc[r].sc] = ctx[proc[r].sc]
    <3>1. Young(r) /\ r # p /\ proc'[r] = proc[r] /\ proc[r].psc \in Ctx \ {c}
      BY <1>2, <1>9, <1>10, <1>12, <2>1
    <3>2. proc[r].pc = "dup" => proc[r].sc \in Ctx \ {c}
      BY <1>11, <3>1 DEF Own
    <3> QED BY <1>5, <3>1, <3>2
  <2> QED BY <1>1, <2>1 DEF IInv, InheritInv, InheritsOf
<1>20. RefsInv'
  <2>1. Born' = Born
    BY <1>1, <1>2 DEF Born
  <2>2. ctx'[c].refs <= Cardinality(Born)
    <3>1. ctx[c].refs <= Cardinality(Born) /\ ctx[c].refs \in Nat
      BY <1>1 DEF IInv, RefsInv, TypeOK, Context
    <3> QED BY <1>4, <1>5, <3>1, BornFacts
  <2>3. ASSUME NEW r \in Proc, proc'[r].pc = "forked"
        PROVE  proc[r].pc = "forked" /\ proc'[r] = proc[r] /\ ctx'[proc[r].sc] = ctx[proc[r].sc]
    <3>1. r # p /\ proc'[r] = proc[r]
      BY <1>2, <2>3
    <3> QED BY <1>5, <1>11, <2>3, <3>1 DEF Own
  <2> QED BY <1>5, <2>1, <2>2, <2>3 DEF IInv, RefsInv
<1> QED BY <1>7, <1>13, <1>14, <1>15, <1>16, <1>17, <1>18, <1>19, <1>20 DEF IInv

LEMMA DetachKeeps == ASSUME IInv, NEW p \in Proc, Detach(p) PROVE IInv'
<1>1. /\ proc[p].pc = "exiting" /\ Answered(p) /\ ctx' = Detached(proc[p].sc)
      /\ proc' = [proc EXCEPT ![p].pc = "out", ![p].sc = None]
      /\ UNCHANGED <<live, files, calls, kills, nomem, tainted, lost>>
  BY DEF Detach, marks
<1>2. PICK c \in Ctx : c = proc[p].sc
  BY <1>1 DEF IInv, OwnerInv, Own
<1>3. ctx[c].req.op = "exit" /\ ctx[c].req.served
  BY <1>1, <1>2 DEF Answered, IInv, OwnerInv, Own
<1>4. lost' \subseteq Thread /\ nomem' \in 0 .. MaxNoMem
  BY <1>1 DEF IInv, TypeOK
<1>5. Leaves(p, c)
  BY <1>1, <1>2, <1>3, <1>4 DEF Leaves
<1> QED BY <1>5, DetachStep

(* A process that cannot ask for its release leaves its thread behind. *)
LEMMA ExitNoMemKeeps == ASSUME IInv, NEW p \in Proc, ExitNoMem(p) PROVE IInv'
<1>1. /\ proc[p].pc = "run" /\ ctx' = Detached(proc[p].sc)
      /\ proc' = [proc EXCEPT ![p].pc = "out", ![p].sc = None]
      /\ nomem < MaxNoMem /\ nomem' = nomem + 1
      /\ lost' = lost \cup ({ctx[proc[p].sc].handle} \cap live)
      /\ UNCHANGED <<live, files, calls, kills, tainted>>
  BY DEF ExitNoMem
<1>2. PICK c \in Ctx : c = proc[p].sc
  BY <1>1 DEF IInv, OwnerInv, Own
<1>3. ctx[c].req.op = "none" /\ ctx[c].handle \notin live \ lost'
  BY <1>1, <1>2 DEF IInv, OwnerInv, Own
<1>4. lost' \subseteq Thread
  BY <1>1 DEF IInv, TypeOK
<1>5. nomem' \in 0 .. MaxNoMem
  BY <1>1, ForkAssumption DEF IInv, TypeOK
<1>6. Leaves(p, c)
  BY <1>1, <1>2, <1>3, <1>4, <1>5 DEF Leaves
<1> QED BY <1>6, DetachStep

(* No context is left for a child; a process is killed. *)
LEMMA ChildFailsKeeps == ASSUME IInv, NEW q \in Proc, ChildFails(q) PROVE IInv'
<1>1. /\ proc[q].pc = "child" /\ proc' = [proc EXCEPT ![q].pc = "out", ![q].sc = None]
      /\ UNCHANGED <<ctx, live, files, calls, kills, nomem, tainted, lost>>
  BY DEF ChildFails, marks
<1>2. proc'[q].pc = "out" /\ \A r \in Proc \ {q} : proc'[r] = proc[r]
  BY <1>1 DEF IInv, TypeOK
<1>3. TypeOK'
  <2>1. [proc[q] EXCEPT !.pc = "out", !.sc = None]
          \in [pc : {"none", "register", "run", "call", "locked", "forked", "waiting",
                     "child", "dup", "exiting", "out"},
               sc : Ctx \cup {None}, psc : Ctx \cup {None}, inherits : SUBSET Desc]
    BY DEF IInv, TypeOK
  <2> QED BY <1>1, <2>1 DEF IInv, TypeOK
<1>4. RefsInv'
  BY <1>1, <1>2, RefsSame DEF IInv, OwnerInv, Own
<1> QED BY <1>1, <1>2, <1>3, <1>4, LeaveStep DEF IInv

LEMMA KillKeeps == ASSUME IInv, NEW p \in Proc, Kill(p) PROVE IInv'
<1>1. /\ proc[p].pc \notin {"none", "out"} /\ proc' = [proc EXCEPT ![p].pc = "out"]
      /\ kills < MaxKills /\ kills' = kills + 1 /\ UNCHANGED <<ctx, live, files, calls, nomem, tainted, lost>>
  BY DEF Kill, Goto, marks
<1>2. proc'[p].pc = "out" /\ \A r \in Proc \ {p} : proc'[r] = proc[r]
  BY <1>1 DEF IInv, TypeOK
<1>3. TypeOK'
  <2>1. kills' \in 0 .. MaxKills
    BY <1>1, ForkAssumption DEF IInv, TypeOK
  <2> QED BY <1>1, <2>1 DEF IInv, TypeOK
<1>4. RefsInv'
  BY <1>1, <1>2, RefsSame DEF IInv, OwnerInv, Own
<1> QED BY <1>1, <1>2, <1>3, <1>4, LeaveStep DEF IInv

(* fstack makes a thread for a process. *)
LEMMA ServeRegisterKeeps == ASSUME IInv, NEW c \in Ctx, ServeRegister(c) PROVE IInv'
<1>1. /\ ctx[c].req.op = "register" /\ ~ctx[c].req.served /\ UNCHANGED <<proc, calls, kills, nomem, tainted, lost>>
  BY DEF ServeRegister, Pending, marks
<1>2. PICK t \in Thread \cup {None} :
        /\ NewThread(Thread0, t)
        /\ ctx' = [ctx EXCEPT ![c].handle = t, ![c].req = Served(c)]
  BY DEF ServeRegister
<1>3. /\ Served(c) \in Request /\ Served(c).op = "register" /\ Served(c).served
      /\ Served(c).child = None /\ Served(c).desc = ctx[c].req.desc
  <2>1. ctx[c].req \in Request /\ ctx[c].req.child = None
    BY <1>1 DEF IInv, TypeOK, Context, RequestInv
  <2> QED BY <1>1, <2>1 DEF Served, Request
<1>4. /\ ctx'[c].handle = t /\ ctx'[c].req = Served(c) /\ ctx'[c].inuse = ctx[c].inuse
      /\ ctx'[c].refs = ctx[c].refs /\ \A d \in Ctx \ {c} : ctx'[d] = ctx[d]
  BY <1>2 DEF IInv, TypeOK, Context
<1>5. /\ t = None => live' = live /\ files' = files
      /\ t # None => /\ t \in Thread /\ t \notin live /\ live' = live \cup {t}
                     /\ files' = [files EXCEPT ![t] = files[Thread0]]
  BY <1>2, ForkAssumption DEF NewThread, Unused
<1>6. TypeOK'
  <2>1. ctx[c] \in Context
    BY DEF IInv, TypeOK
  <2>2. [ctx[c] EXCEPT !.handle = t, !.req = Served(c)] \in Context
    BY <1>3, <2>1 DEF Context
  <2>3. ctx' \in [Ctx -> Context]
    BY <1>2, <2>2 DEF IInv, TypeOK
  <2>4. live' \in SUBSET Thread /\ files' \in [Thread \cup {Thread0} -> SUBSET Desc]
    BY <1>5 DEF IInv, TypeOK
  <2> QED BY <1>1, <2>3, <2>4 DEF IInv, TypeOK
<1>7. \A d \in Ctx \ {c}, x \in Thread : Claims(d, x)' <=> Claims(d, x)
  BY <1>1, <1>4, OtherClaims
<1>8. \A d \in Ctx \ {c}, x \in Thread : Claims(d, x) => x \in live /\ files'[x] = files[x]
  BY <1>5 DEF IInv, ClaimInv, TypeOK
<1>9. ClaimInv'
  <2>1. \A x \in Thread : Claims(c, x)' => x = t
    BY <1>3, <1>4 DEF Claims
  <2> QED BY <1>5, <1>7, <2>1, OneNewClaim DEF IInv
<1>10. LeakInv'
  <2>1. Valid(c)' /\ ~Valid(c) /\ ctx[c].req.op # "fork" /\ ctx'[c].inuse
    BY <1>1, <1>3, <1>4 DEF Valid, IInv, RequestInv
  <2>2. \A d \in Ctx \ {c} : Valid(d)' <=> Valid(d)
    BY <1>4 DEF Valid
  <2>3. \A x \in live \ lost : \E d \in Ctx \ {c} :
          /\ ctx[d].inuse
          /\ (Valid(d) /\ ctx[d].handle = x) \/ (ctx[d].req.op = "fork" /\ ctx[d].req.child = x)
    BY <2>1 DEF IInv, LeakInv
  <2> QED BY <1>1, <1>4, <1>5, <2>1, <2>2, <2>3 DEF LeakInv
<1>11. InheritInv'
  BY <1>1, <1>4, <1>8, TablesStep
<1> QED BY <1>1, <1>3, <1>4, <1>6, <1>9, <1>10, <1>11, ServeStep DEF IInv

(* fstack makes a thread for a child, with a copy of the parent's table. *)
LEMMA ServeForkKeeps == ASSUME IInv, NEW c \in Ctx, ServeFork(c) PROVE IInv'
<1>1. /\ ctx[c].req.op = "fork" /\ ~ctx[c].req.served /\ UNCHANGED <<proc, calls, kills, nomem, tainted, lost>>
  BY DEF ServeFork, Pending, marks
<1>2. PICK t \in Thread \cup {None} :
        /\ IF ctx[c].req.parent = None THEN t = None /\ UNCHANGED <<live, files>>
                                       ELSE NewThread(CopyOf(c), t)
        /\ ctx' = [ctx EXCEPT ![c].req = [Served(c) EXCEPT !.child = t]]
  BY DEF ServeFork
<1> DEFINE req == [Served(c) EXCEPT !.child = t]
<1>3. /\ req \in Request /\ req.op = "fork" /\ req.served /\ req.child = t
      /\ req.parent = ctx[c].req.parent /\ req.desc = ctx[c].req.desc
  <2>1. ctx[c].req \in Request
    BY DEF IInv, TypeOK, Context
  <2> QED BY <1>1, <2>1 DEF Served, Request
<1> HIDE DEF req
<1>4. ctx' = [ctx EXCEPT ![c].req = req]
  BY <1>2 DEF req
<1>5. /\ ctx'[c].handle = ctx[c].handle /\ ctx'[c].req = [Served(c) EXCEPT !.child = t]
      /\ ctx'[c].inuse = ctx[c].inuse
      /\ ctx'[c].refs = ctx[c].refs /\ \A d \in Ctx \ {c} : ctx'[d] = ctx[d]
  BY <1>4 DEF IInv, TypeOK, Context, req
<1>6. /\ ctx'[c].req.op = "fork" /\ ctx'[c].req.served /\ ctx'[c].req.child = t
      /\ ctx'[c].req.parent = ctx[c].req.parent /\ ctx'[c].req.desc = ctx[c].req.desc
  BY <1>3, <1>5 DEF req
<1>7. /\ t = None => live' = live /\ files' = files
      /\ t # None => /\ t \in Thread /\ t \notin live /\ live' = live \cup {t}
                     /\ ctx[c].req.parent \in Thread
                     /\ files' = [files EXCEPT ![t] = files[ctx[c].req.parent]]
  <2>1. ctx[c].req.parent \in Thread \cup {None}
    BY DEF IInv, TypeOK, Context, Request
  <2> QED BY <1>2, <2>1, ForkAssumption DEF NewThread, Unused, CopyOf
<1>8. TypeOK'
  <2>1. ctx' \in [Ctx -> Context]
    BY <1>3, <1>4, RequestKeepsType DEF IInv
  <2>2. live' \in SUBSET Thread
    BY <1>7 DEF IInv, TypeOK
  <2>3. files' \in [Thread \cup {Thread0} -> SUBSET Desc]
    BY <1>7 DEF IInv, TypeOK
  <2> QED BY <1>1, <2>1, <2>2, <2>3 DEF IInv, TypeOK
<1>9. \A d \in Ctx \ {c}, x \in Thread : Claims(d, x)' <=> Claims(d, x)
  BY <1>1, <1>5, OtherClaims
<1>10. \A d \in Ctx, x \in Thread : Claims(d, x) => x \in live /\ files'[x] = files[x]
  BY <1>7 DEF IInv, ClaimInv, TypeOK
<1>11. ClaimInv'
  <2>1. ~Uses(c)'
    <3>1. \A r \in Proc : ~(Running(r)' /\ proc'[r].sc = c)
      BY <1>1 DEF IInv, OwnerInv, Own, Running
    <3>2. \A r \in Proc : ~(Young(r)' /\ proc'[r].psc = c)
      BY <1>1 DEF IInv, ParentInv, Young
    <3> QED BY <1>6, <3>1, <3>2 DEF Uses
  <2>2. \A x \in Thread : Claims(c, x)' => x = t
    BY <1>6, <2>1 DEF Claims
  <2> QED BY <1>7, <1>9, <2>2, OneNewClaim DEF IInv
<1>12. LeakInv'
  <2>1. ctx[c].req.child = None /\ ctx'[c].inuse /\ ~Valid(c)
    BY <1>1, <1>5 DEF Valid, IInv, RequestInv
  <2>2. \A d \in Ctx \ {c} : Valid(d)' <=> Valid(d)
    BY <1>5 DEF Valid
  <2>3. \A x \in live : x # None
    BY ForkAssumption DEF IInv, TypeOK
  <2>4. \A x \in live \ lost : \E d \in Ctx \ {c} :
          /\ ctx[d].inuse
          /\ (Valid(d) /\ ctx[d].handle = x) \/ (ctx[d].req.op = "fork" /\ ctx[d].req.child = x)
    BY <2>1, <2>3 DEF IInv, LeakInv
  <2>5. ASSUME NEW x \in live \ lost PROVE \E d \in Ctx :
          /\ ctx'[d].inuse
          /\ (Valid(d)' /\ ctx'[d].handle = x) \/ (ctx'[d].req.op = "fork" /\ ctx'[d].req.child = x)
    BY <1>5, <2>2, <2>4
  <2>6. live' \subseteq live \cup {t}
    BY <1>7
  <2> QED BY <1>1, <1>6, <2>1, <2>5, <2>6 DEF LeakInv
<1>13. InheritInv'
  <2>1. ASSUME NEW q \in Proc, Young(q)
        PROVE  /\ proc[q].psc \in Ctx \ {c} /\ (proc[q].pc = "dup" => proc[q].sc \in Ctx)
               /\ ctx[proc[q].psc].handle \notin tainted \cup {None} =>
                    files'[ctx[proc[q].psc].handle] = files[ctx[proc[q].psc].handle]
               /\ proc[q].pc = "dup" /\ ctx[proc[q].sc].req.child \notin tainted \cup {None} =>
                    files'[ctx[proc[q].sc].req.child] = files[ctx[proc[q].sc].req.child]
    <3>1. proc[q].psc \in Ctx \ {c} /\ (proc[q].pc = "dup" => proc[q].sc \in Ctx)
      BY <1>1, <2>1 DEF IInv, ParentInv, OwnerInv, Own
    <3> QED BY <1>10, <2>1, <3>1, YoungClaims
  <2>2. ASSUME NEW q \in Proc, Young(q), proc[q].pc = "dup", proc[q].sc = c, t # None,
               ctx[c].req.parent \notin tainted
        PROVE  files'[t] = proc[q].inherits
    <3>1. files'[t] = files[ctx[c].req.parent] /\ ctx[c].req.parent # None
      BY <1>7, <2>2, ForkAssumption DEF IInv, TypeOK
    <3>2. ctx[c].req.parent = ctx[proc[q].psc].handle
      BY <2>2 DEF IInv, InheritInv, InheritsOf
    <3> QED BY <1>1, <2>2, <3>1, <3>2 DEF IInv, InheritInv, InheritsOf
  <2>3. \A q \in Proc : Young(q)' <=> Young(q)
    BY <1>1 DEF Young
  <2>4. ASSUME NEW q \in Proc, Young(q), ~(proc[q].pc = "dup" /\ proc[q].sc = c)
        PROVE  /\ ctx'[proc[q].psc] = ctx[proc[q].psc]
               /\ proc[q].pc = "dup" => ctx'[proc[q].sc] = ctx[proc[q].sc]
    BY <1>5, <2>1, <2>4
  <2>5. ASSUME NEW q \in Proc, Young(q), proc[q].pc = "dup", proc[q].sc = c
        PROVE  /\ ctx'[proc[q].psc] = ctx[proc[q].psc]
               /\ ctx'[c].req.parent = ctx[proc[q].psc].handle
    BY <1>5, <1>6, <2>1, <2>5 DEF IInv, InheritInv, InheritsOf
  <2> QED BY <1>1, <1>6, <2>1, <2>2, <2>3, <2>4, <2>5 DEF IInv, InheritInv, InheritsOf
<1> QED BY <1>1, <1>5, <1>6, <1>8, <1>11, <1>12, <1>13, ServeStep DEF IInv

(* A descriptor is opened on the thread of context c ... *)
LEMMA ServeOpenKeeps == ASSUME IInv, NEW c \in Ctx, ServeOpen(c) PROVE IInv'
<1>1. /\ ctx[c].req.op = "open" /\ ~ctx[c].req.served /\ UNCHANGED <<proc, live, calls, kills, nomem, tainted, lost>>
      /\ files' = [files EXCEPT ![RunsOn(c)] = @ \cup {ctx[c].req.desc}]
      /\ ctx' = [ctx EXCEPT ![c].req = Served(c)]
  BY DEF ServeOpen, Pending, marks
<1>2. /\ Served(c) \in Request /\ Served(c).op = "open" /\ Served(c).served
      /\ Served(c).child = None /\ Served(c).desc = ctx[c].req.desc /\ ctx[c].req.desc \in Desc
  <2>1. ctx[c].req \in Request /\ ctx[c].req.child = None /\ ctx[c].req.desc \in Desc
    BY <1>1 DEF IInv, TypeOK, Context, RequestInv
  <2> QED BY <1>1, <2>1 DEF Served, Request
<1>3. /\ ctx'[c].handle = ctx[c].handle /\ ctx'[c].req = Served(c)
      /\ ctx'[c].inuse = ctx[c].inuse
      /\ ctx'[c].refs = ctx[c].refs /\ \A d \in Ctx \ {c} : ctx'[d] = ctx[d]
  BY <1>1 DEF IInv, TypeOK, Context
<1>4. TypeOK'
  <2>1. ctx' \in [Ctx -> Context]
    BY <1>1, <1>2, RequestKeepsType DEF IInv
  <2>2. RunsOn(c) \in Thread \cup {Thread0}
    BY DEF RunsOn, IInv, TypeOK, Context
  <2>3. files' \in [Thread \cup {Thread0} -> SUBSET Desc]
    BY <1>1, <1>2, <2>2 DEF IInv, TypeOK
  <2> QED BY <1>1, <2>1, <2>3 DEF IInv, TypeOK
<1>5. \A d \in Ctx \ {c}, x \in Thread : Claims(d, x)' <=> Claims(d, x)
  BY <1>1, <1>3, OtherClaims
<1>6. Uses(c)
  BY <1>1 DEF Uses
<1>7. ClaimInv'
  <2>1. \A x \in Thread : Claims(c, x)' => Claims(c, x)
    BY <1>1, <1>2, <1>3, <1>6 DEF Claims
  <2> QED BY <1>1, <1>5, <2>1, ClaimsShrink DEF IInv
<1>8. LeakInv'
  <2>1. \A d \in Ctx : Valid(d)' <=> Valid(d)
    BY <1>1, <1>2, <1>3 DEF Valid
  <2> QED BY <1>1, <1>2, <1>3, <2>1 DEF IInv, LeakInv
<1>9. InheritInv'
  <2>1. ASSUME NEW d \in Ctx \ {c}, NEW x \in Thread, Claims(d, x) PROVE RunsOn(c) # x
    <3>1. ctx[c].handle # None => ctx[c].handle # x
      BY <1>6, <2>1 DEF IInv, ClaimInv, Claims
    <3> QED BY <3>1, ForkAssumption DEF RunsOn
  <2>2. \A d \in Ctx \ {c}, x \in Thread : Claims(d, x) => files'[x] = files[x]
    BY <1>1, <2>1 DEF IInv, TypeOK
  <2> QED BY <1>1, <1>3, <2>2, TablesStep
<1> QED BY <1>1, <1>2, <1>3, <1>4, <1>7, <1>8, <1>9, ServeStep DEF IInv

(* ... or closed. *)
LEMMA ServeCloseKeeps == ASSUME IInv, NEW c \in Ctx, ServeClose(c) PROVE IInv'
<1>1. /\ ctx[c].req.op = "close" /\ ~ctx[c].req.served /\ UNCHANGED <<proc, live, calls, kills, nomem, tainted, lost>>
      /\ files' = [files EXCEPT ![RunsOn(c)] = @ \ {ctx[c].req.desc}]
      /\ ctx' = [ctx EXCEPT ![c].req = Served(c)]
  BY DEF ServeClose, Pending, marks
<1>2. /\ Served(c) \in Request /\ Served(c).op = "close" /\ Served(c).served
      /\ Served(c).child = None /\ Served(c).desc = ctx[c].req.desc /\ ctx[c].req.desc \in Desc
  <2>1. ctx[c].req \in Request /\ ctx[c].req.child = None /\ ctx[c].req.desc \in Desc
    BY <1>1 DEF IInv, TypeOK, Context, RequestInv
  <2> QED BY <1>1, <2>1 DEF Served, Request
<1>3. /\ ctx'[c].handle = ctx[c].handle /\ ctx'[c].req = Served(c)
      /\ ctx'[c].inuse = ctx[c].inuse
      /\ ctx'[c].refs = ctx[c].refs /\ \A d \in Ctx \ {c} : ctx'[d] = ctx[d]
  BY <1>1 DEF IInv, TypeOK, Context
<1>4. TypeOK'
  <2>1. ctx' \in [Ctx -> Context]
    BY <1>1, <1>2, RequestKeepsType DEF IInv
  <2>2. RunsOn(c) \in Thread \cup {Thread0}
    BY DEF RunsOn, IInv, TypeOK, Context
  <2>3. files' \in [Thread \cup {Thread0} -> SUBSET Desc]
    BY <1>1, <1>2, <2>2 DEF IInv, TypeOK
  <2> QED BY <1>1, <2>1, <2>3 DEF IInv, TypeOK
<1>5. \A d \in Ctx \ {c}, x \in Thread : Claims(d, x)' <=> Claims(d, x)
  BY <1>1, <1>3, OtherClaims
<1>6. Uses(c)
  BY <1>1 DEF Uses
<1>7. ClaimInv'
  <2>1. \A x \in Thread : Claims(c, x)' => Claims(c, x)
    BY <1>1, <1>2, <1>3, <1>6 DEF Claims
  <2> QED BY <1>1, <1>5, <2>1, ClaimsShrink DEF IInv
<1>8. LeakInv'
  <2>1. \A d \in Ctx : Valid(d)' <=> Valid(d)
    BY <1>1, <1>2, <1>3 DEF Valid
  <2> QED BY <1>1, <1>2, <1>3, <2>1 DEF IInv, LeakInv
<1>9. InheritInv'
  <2>1. ASSUME NEW d \in Ctx \ {c}, NEW x \in Thread, Claims(d, x) PROVE RunsOn(c) # x
    <3>1. ctx[c].handle # None => ctx[c].handle # x
      BY <1>6, <2>1 DEF IInv, ClaimInv, Claims
    <3> QED BY <3>1, ForkAssumption DEF RunsOn
  <2>2. \A d \in Ctx \ {c}, x \in Thread : Claims(d, x) => files'[x] = files[x]
    BY <1>1, <2>1 DEF IInv, TypeOK
  <2> QED BY <1>1, <1>3, <2>2, TablesStep
<1> QED BY <1>1, <1>2, <1>3, <1>4, <1>7, <1>8, <1>9, ServeStep DEF IInv

(* fstack frees a thread: no other context claims it. *)
LEMMA ServeExitKeeps == ASSUME IInv, NEW c \in Ctx, ServeExit(c) PROVE IInv'
<1> DEFINE h == ctx[c].handle
<1>1. /\ ctx[c].req.op = "exit" /\ ~ctx[c].req.served
      /\ UNCHANGED <<proc, calls, kills, nomem, tainted>>
      /\ live' = live \ {h} /\ lost' = lost \ {h}
      /\ files' = [t \in DOMAIN files |-> IF t = h THEN {} ELSE files[t]]
      /\ ctx' = [ctx EXCEPT ![c].req = Served(c)]
  BY DEF ServeExit, Pending, Without, marks
<1>2. /\ Served(c) \in Request /\ Served(c).op = "exit" /\ Served(c).served
      /\ Served(c).child = None /\ Served(c).desc = ctx[c].req.desc
  <2>1. ctx[c].req \in Request /\ ctx[c].req.child = None
    BY <1>1 DEF IInv, TypeOK, Context, RequestInv
  <2> QED BY <1>1, <2>1 DEF Served, Request
<1>3. /\ ctx'[c].handle = ctx[c].handle /\ ctx'[c].req = Served(c)
      /\ ctx'[c].inuse = ctx[c].inuse
      /\ ctx'[c].refs = ctx[c].refs /\ \A d \in Ctx \ {c} : ctx'[d] = ctx[d]
  BY <1>1 DEF IInv, TypeOK, Context
<1>4. TypeOK'
  <2>1. ctx' \in [Ctx -> Context]
    BY <1>1, <1>2, RequestKeepsType DEF IInv
  <2>2. live' \in SUBSET Thread /\ files' \in [Thread \cup {Thread0} -> SUBSET Desc]
    BY <1>1 DEF IInv, TypeOK
  <2> QED BY <1>1, <2>1, <2>2 DEF IInv, TypeOK
<1>5. \A d \in Ctx \ {c}, x \in Thread : Claims(d, x)' <=> Claims(d, x)
  BY <1>1, <1>3, OtherClaims
<1>6. \A d \in Ctx \ {c}, x \in Thread : Claims(d, x) => x \in live /\ x # h
  <2>1. Uses(c)
    BY <1>1 DEF Uses
  <2> QED BY <2>1 DEF IInv, ClaimInv, Claims
<1>7. ClaimInv'
  <2>1. ~Uses(c)'
    <3>1. \A r \in Proc : Running(r)' /\ proc'[r].sc = c => proc'[r].pc = "exiting"
      BY <1>1 DEF IInv, OwnerInv, Own, Running
    <3>2. \A r \in Proc : ~(Young(r)' /\ proc'[r].psc = c)
      BY <1>1 DEF IInv, ParentInv, Young
    <3> QED BY <1>2, <1>3, <3>1, <3>2 DEF Uses
  <2>2. \A x \in Thread : ~Claims(c, x)'
    BY <1>2, <1>3, <2>1 DEF Claims
  <2> QED BY <1>1, <1>5, <1>6, <2>2 DEF IInv, ClaimInv
<1>8. LeakInv'
  <2>1. \A d \in Ctx \ {c} : Valid(d)' <=> Valid(d)
    BY <1>3 DEF Valid
  <2>2. \A x \in (live \ lost) \ {h} : \E d \in Ctx \ {c} :
          /\ ctx[d].inuse
          /\ (Valid(d) /\ ctx[d].handle = x) \/ (ctx[d].req.op = "fork" /\ ctx[d].req.child = x)
    BY <1>1 DEF IInv, LeakInv
  <2> QED BY <1>1, <1>3, <2>1, <2>2 DEF LeakInv
<1>9. InheritInv'
  <2>1. \A d \in Ctx \ {c}, x \in Thread : Claims(d, x) => files'[x] = files[x]
    BY <1>1, <1>6 DEF IInv, TypeOK
  <2> QED BY <1>1, <1>3, <2>1, TablesStep
<1> QED BY <1>1, <1>2, <1>3, <1>4, <1>7, <1>8, <1>9, ServeStep DEF IInv

-----------------------------------------------------------------------------
(* Nobody is born and every context is free. *)
LEMMA InitHolds == ASSUME Init PROVE IInv
<1>1. TypeOK
  <2>1. /\ 0 \in 0 .. Cardinality(Proc) /\ 0 \in 0 .. MaxCalls /\ 0 \in 0 .. MaxKills
        /\ 0 \in 0 .. MaxNoMem
    BY BornFacts, ForkAssumption
  <2>2. [inuse |-> FALSE, refs |-> 0, handle |-> None, forking |-> FALSE, lock |-> None,
         req |-> NoRequest] \in Context
    BY <2>1, RequestTypes DEF Context
  <2> QED BY <2>1, <2>2 DEF Init, TypeOK, Unborn
<1>2. \A p \in Proc : ~Own(p) /\ ~Young(p) /\ proc[p].pc = "none"
  BY DEF Init, Own, Young, Unborn
<1>3. \A c \in Ctx : ctx[c].req.op = "none" /\ ctx[c].req.child = None /\ ctx[c].handle = None
                     /\ ctx[c].refs = 0
  BY DEF Init, NoRequest
<1>4. OwnerInv /\ OneOwner /\ ParentInv /\ OneChild /\ InheritInv
  BY <1>2 DEF OwnerInv, OneOwner, ParentInv, OneChild, InheritInv, InheritsOf
<1>5. RequestInv /\ ClaimInv
  BY <1>3 DEF RequestInv, ClaimInv, Claims
<1>6. LeakInv
  BY DEF Init, LeakInv
<1>7. RefsInv
  BY <1>2, <1>3, BornFacts DEF RefsInv
<1> QED BY <1>1, <1>4, <1>5, <1>6, <1>7 DEF IInv

(* Every step of every process and of fstack keeps the invariant. *)
LEMMA NextKeeps == ASSUME IInv, [Next]_vars PROVE IInv'
<1>1. ASSUME NEW p \in Proc, \/ Start(p) \/ StartNoMem(p) \/ ForkLock(p)
                               \/ Exit(p) \/ ExitNoMem(p) \/ Kill(p)
      PROVE  IInv'
  BY <1>1, StartKeeps, StartNoMemKeeps, ForkLockKeeps, ExitKeeps, ExitNoMemKeeps, KillKeeps
<1>2. ASSUME NEW p \in Proc, Step(p) PROVE IInv'
  BY <1>2, StartedKeeps, ReturnKeeps, ParentCountsKeeps, ParentDoneKeeps, ChildAttachKeeps,
     ChildNoMemKeeps, ChildFailsKeeps, ChildDupKeeps, DetachKeeps, ForkFailsKeeps, ForkKeeps DEF Step
<1>3. ASSUME NEW p \in Proc, NEW op \in {"open", "close"}, NEW d \in Desc, Call(p, op, d)
      PROVE  IInv'
  BY <1>3, CallKeeps
<1>4. ASSUME NEW c \in Ctx, Serve(c) PROVE IInv'
  BY <1>4, ServeRegisterKeeps, ServeForkKeeps, ServeOpenKeeps, ServeCloseKeeps, ServeExitKeeps
     DEF Serve
<1>5. CASE UNCHANGED vars
  <2>1. UNCHANGED <<proc, ctx, live, files, calls, kills, nomem, tainted, lost>>
    BY <1>5 DEF vars, marks
  <2>2. TypeOK' /\ OwnerInv' /\ OneOwner' /\ RequestInv'
    BY <2>1 DEF IInv, TypeOK, OwnerInv, OneOwner, RequestInv, Own
  <2>3. ParentInv' /\ OneChild' /\ InheritInv'
    BY <2>1 DEF IInv, ParentInv, OneChild, InheritInv, InheritsOf, Own, Young
  <2>4. ClaimInv'
    BY <2>1 DEF IInv, ClaimInv, Claims, Uses, Running, Young
  <2>5. LeakInv' /\ RefsInv'
    BY <2>1 DEF IInv, LeakInv, Valid, RefsInv, Born
  <2> QED BY <2>2, <2>3, <2>4, <2>5 DEF IInv
<1> QED BY <1>1, <1>2, <1>3, <1>4, <1>5 DEF Next

(* The invariant holds however processes attach, fork, exit and are killed. *)
THEOREM Inductive == Spec => []IInv
BY InitHolds, NextKeeps, PTL DEF Spec

(* Type correctness; in particular no context counts more references than  *)
(* there are processes.                                                    *)
THEOREM TypeCorrect == Spec => []TypeOK
<1>1. IInv => TypeOK
  BY DEF IInv
<1> QED BY <1>1, Inductive, PTL

(* A process that ff_adapter_init or the child's part of fork has set up   *)
(* runs on a thread that exists and that no other process runs on.         *)
THEOREM ThreadsAreOwn == Spec => []OwnThread
<1>1. ASSUME IInv PROVE OwnThread
  <2>1. ASSUME NEW p \in Proc, Running(p), ctx[proc[p].sc].handle \notin tainted \cup {None},
               ~(proc[p].pc = "exiting" /\ Answered(p))
        PROVE  /\ proc[p].sc \in Ctx /\ ctx[proc[p].sc].handle \in Thread
               /\ Claims(proc[p].sc, ctx[proc[p].sc].handle)
    <3>1. proc[p].sc \in Ctx
      BY <1>1, <2>1 DEF IInv, OwnerInv, Own, Running
    <3>2. Uses(proc[p].sc)
      BY <2>1, <3>1, ForkAssumption DEF Uses, Answered
    <3>3. ctx[proc[p].sc].handle \in Thread
      BY <1>1, <2>1, <3>1 DEF IInv, TypeOK, Context
    <3> QED BY <2>1, <3>1, <3>2, <3>3 DEF Claims
  <2>2. ASSUME NEW p \in Proc, Running(p), ctx[proc[p].sc].handle \notin tainted \cup {None},
               ~(proc[p].pc = "exiting" /\ Answered(p))
        PROVE  ctx[proc[p].sc].handle \in live
    BY <1>1, <2>1, <2>2 DEF IInv, ClaimInv
  <2>3. ASSUME NEW p \in Proc, Running(p), ctx[proc[p].sc].handle \notin tainted \cup {None},
               ~(proc[p].pc = "exiting" /\ Answered(p)),
               NEW q \in Proc \ {p}, Running(q), ~(proc[q].pc = "exiting" /\ Answered(q)),
               ctx[proc[q].sc].handle = ctx[proc[p].sc].handle
        PROVE  FALSE
    <3>1. proc[p].sc = proc[q].sc
      BY <1>1, <2>1, <2>3 DEF IInv, ClaimInv
    <3> QED BY <1>1, <2>3, <3>1 DEF IInv, OneOwner, Own, Running
  <2> QED BY <2>2, <2>3 DEF OwnThread, Apart
<1> QED BY <1>1, Inductive, PTL

(* A thread that ff_adapt_user_thread_add has allocated belongs to a       *)
(* context in use until ff_adapt_user_thread_exit frees it.                *)
THEOREM ThreadsAreKept == Spec => []NoThreadLeak
<1>1. IInv => NoThreadLeak
  BY DEF IInv, LeakInv, NoThreadLeak
<1> QED BY <1>1, Inductive, PTL

(* The table that fstack copies for a child is the one its parent had when *)
(* it called fork.                                                         *)
THEOREM ChildrenInherit == Spec => []ChildInherits
<1>1. IInv => ChildInherits
  BY DEF IInv, InheritInv, InheritsOf, ChildInherits, Young
<1> QED BY <1>1, Inductive, PTL
=============================================================================

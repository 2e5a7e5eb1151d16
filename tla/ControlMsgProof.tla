--------------------------- MODULE ControlMsgProof ---------------------------
(***************************************************************************)
(* Proofs about ControlMsg, for any number of processes, messages, types,  *)
(* ring sizes, calls and kills, when no tool frees the message it has      *)
(* given up waiting for (knictl_status does: see ControlMsgKni.cfg).       *)
(*                                                                         *)
(* The argument: every step moves a message from one place to another, so  *)
(* places stay disjoint (Disjoint, Once) and only a kill loses one         *)
(* (LostInv).  There is one tool at a time, so the message it waits for is *)
(* the last that was sent to its process and stays behind everything else  *)
(* on its way through the rings (TrackInv): when it comes back, they are   *)
(* empty.                                                                  *)
(***************************************************************************)
EXTENDS ControlMsg, SequenceTheorems, FiniteSetTheorems, TLAPS

(* No tool of the types in use frees a message that is still on its way. *)
NoEarlyFree == "knictl" \notin Type

(* The messages on a ring. *)
El(s) == {s[i] : i \in 1 .. Len(s)}
Once(s) == \A i, j \in 1 .. Len(s) : s[i] = s[j] => i = j
LastOf(s) == s[Len(s)]

(* The places a message can be, and what is there. *)
PoolLoc == <<"pool", None, None>>
HandLoc == <<"hand", None, None>>
InLoc(p) == <<"in", p, None>>
BurstLoc(p) == <<"burst", p, None>>
OutLoc(p, t) == <<"out", p, t>>

Loc == {PoolLoc, HandLoc} \cup {InLoc(p) : p \in Proc} \cup {BurstLoc(p) : p \in Proc}
         \cup {OutLoc(p, t) : p \in Proc, t \in Type}

Pooled == {m \in Msg : pool[m] > 0}

Held(x) == CASE x[1] = "pool"  -> Pooled
             [] x[1] = "hand"  -> InHand
             [] x[1] = "in"    -> El(in[x[2]])
             [] x[1] = "burst" -> El(burst[x[2]])
             [] x[1] = "out"   -> El(out[x[2]][x[3]])

Lost == {m \in Msg : \A x \in Loc : m \notin Held(x)}

(* The types of the variables, as functions. *)
TypeInv ==
    /\ pool \in [Msg -> 0 .. 1]
    /\ in \in [Proc -> Ring] /\ burst \in [Proc -> Ring]
    /\ out \in [Proc -> [Type -> Ring]]
    /\ msg \in [Msg -> Content]
    /\ tool \in [pc : {"idle", "fill", "send", "recv", "other", "got"},
                 type : Type \cup {"unknown"}, proc : Proc \cup {None},
                 msg : Msg \cup {None}, got : Msg \cup {None}, req : 0 .. MaxCalls]
    /\ calls \in 0 .. MaxCalls /\ kills \in 0 .. MaxKills

(* A tool that runs has a message, a process and a type. *)
ToolInv ==
    /\ tool.pc # "idle" => tool.msg \in Msg /\ tool.proc \in Proc /\ tool.type \in Type
    /\ tool.pc \in {"other", "got"} => tool.got \in Msg
    /\ tool.pc = "other" => tool.got # tool.msg
    /\ tool.pc = "got" => tool.got = tool.msg
    /\ tool.pc \notin {"idle", "fill"} =>
         msg[tool.msg].type = tool.type /\ msg[tool.msg].req = tool.req

(* A message is in one place, and once there. *)
Disjoint == \A x, y \in Loc : x # y => Held(x) \cap Held(y) = {}

OnceInv ==
    \A p \in Proc : Once(in[p]) /\ Once(burst[p]) /\ \A t \in Type : Once(out[p][t])

(* What a process is sent has a type it knows. *)
KindInv == \A p \in Proc : \A m \in El(in[p]) \cup El(burst[p]) : msg[m].type \in Type

(* The message that a tool waits for is the last there is for its process  *)
(* and its type, or was returned to the pool.                              *)
TrackInv ==
    LET m == tool.msg
        i == in[tool.proc]
        b == burst[tool.proc]
        o == out[tool.proc][tool.type] IN
    /\ tool.pc \in {"recv", "other"} =>
         \/ pool[m] > 0
         \/ i # <<>> /\ LastOf(i) = m
         \/ i = <<>> /\ b # <<>> /\ LastOf(b) = m
         \/ i = <<>> /\ b = <<>> /\ o # <<>> /\ LastOf(o) = m /\ msg[m].answer = tool.req
    /\ tool.pc = "got" => i = <<>> /\ b = <<>> /\ o = <<>> /\ msg[m].answer = tool.req

LostInv == Cardinality(Lost) <= kills

(* The inductive invariant. *)
IInv == TypeInv /\ ToolInv /\ Disjoint /\ OnceInv /\ KindInv /\ TrackInv /\ LostInv /\ OwnBuffer

-----------------------------------------------------------------------------
(* Putting a message on a ring ... *)
LEMMA SeqAppend ==
  ASSUME NEW s \in Ring, NEW m \in Msg, Room(s)
  PROVE  /\ Append(s, m) \in Ring /\ Append(s, m) # <<>> /\ LastOf(Append(s, m)) = m
         /\ El(Append(s, m)) = El(s) \cup {m}
         /\ Once(s) /\ m \notin El(s) => Once(Append(s, m))
<1>1. s \in Seq(Msg) /\ Len(s) \in Nat /\ Append(s, m) \in Seq(Msg) /\ Len(Append(s, m)) = Len(s) + 1
  BY DEF Ring
<1>2. /\ \A i \in 1 .. Len(s) : Append(s, m)[i] = s[i]
      /\ Append(s, m)[Len(s) + 1] = m
  BY <1>1
<1>3. Append(s, m) \in Ring /\ Append(s, m) # <<>> /\ LastOf(Append(s, m)) = m
  BY <1>1, <1>2, ControlAssumption DEF Ring, Room, LastOf
<1>4. El(Append(s, m)) = El(s) \cup {m}
  BY <1>1, <1>2 DEF El
<1>5. ASSUME Once(s), m \notin El(s) PROVE Once(Append(s, m))
  BY <1>1, <1>2, <1>5 DEF El, Once
<1> QED BY <1>3, <1>4, <1>5

LEMMA EmptyIff == ASSUME NEW s \in Seq(Msg) PROVE s = <<>> <=> Len(s) = 0
OBVIOUS

(* ... and taking the first one off it. *)
LEMMA SeqTail ==
  ASSUME NEW s \in Ring, s # <<>>
  PROVE  /\ Head(s) \in Msg /\ Head(s) \in El(s) /\ Head(s) = s[1] /\ Tail(s) \in Ring
         /\ Tail(s) # <<>> => LastOf(Tail(s)) = LastOf(s)
         /\ Tail(s) = <<>> => LastOf(s) = Head(s)
         /\ Once(s) => /\ Once(Tail(s)) /\ El(Tail(s)) = El(s) \ {Head(s)}
                       /\ LastOf(s) = Head(s) => Tail(s) = <<>>
<1>1. s \in Seq(Msg) /\ Len(s) \in Nat \ {0} /\ Tail(s) \in Seq(Msg) /\ Len(Tail(s)) = Len(s) - 1
      /\ Head(s) = s[1] /\ s[1] \in Msg
  BY DEF Ring
<1>2. \A i \in 1 .. Len(s) - 1 : Tail(s)[i] = s[i + 1]
  BY <1>1
<1>3. Head(s) \in El(s) /\ Tail(s) \in Ring
  BY <1>1, ControlAssumption DEF Ring, El
<1>4. Tail(s) = <<>> <=> Len(s) = 1
  <2>1. Tail(s) = <<>> <=> Len(Tail(s)) = 0 BY <1>1, EmptyIff, Zenon
  <2> QED BY <1>1, <2>1
<1>5. /\ Tail(s) # <<>> => LastOf(Tail(s)) = LastOf(s)
      /\ Tail(s) = <<>> => LastOf(s) = Head(s)
  BY <1>1, <1>2, <1>4 DEF LastOf
<1>6. ASSUME Once(s)
      PROVE  /\ Once(Tail(s)) /\ El(Tail(s)) = El(s) \ {Head(s)}
             /\ LastOf(s) = Head(s) => Tail(s) = <<>>
  <2>1. Once(Tail(s)) BY <1>1, <1>2, <1>6 DEF Once
  <2>2. El(Tail(s)) = El(s) \ {Head(s)}
    <3>1. ASSUME NEW x \in El(Tail(s)) PROVE x \in El(s) /\ x # Head(s)
      BY <1>1, <1>2, <1>6, <3>1 DEF El, Once
    <3>2. ASSUME NEW x \in El(s), x # Head(s) PROVE x \in El(Tail(s))
      <4>1. PICK i \in 1 .. Len(s) : x = s[i] BY DEF El
      <4>2. i - 1 \in 1 .. Len(s) - 1 /\ Tail(s)[i - 1] = x BY <1>1, <1>2, <3>2, <4>1
      <4> QED BY <1>1, <4>2 DEF El
    <3> QED BY <3>1, <3>2
  <2>3. LastOf(s) = Head(s) => Tail(s) = <<>> BY <1>1, <1>4, <1>6 DEF LastOf, Once
  <2> QED BY <2>1, <2>2, <2>3
<1> QED BY <1>1, <1>3, <1>5, <1>6

(* A ring that is empty, and one that is not. *)
LEMMA SeqEnds ==
  /\ <<>> \in Ring /\ El(<<>>) = {} /\ Once(<<>>)
  /\ \A s \in Ring : /\ El(s) \subseteq Msg
                     /\ s # <<>> => LastOf(s) \in El(s)
<1>1. <<>> \in Ring /\ El(<<>>) = {} /\ Once(<<>>)
  BY ControlAssumption DEF Ring, El, Once
<1>2. ASSUME NEW s \in Ring PROVE El(s) \subseteq Msg /\ (s # <<>> => LastOf(s) \in El(s))
  BY DEF Ring, El, LastOf
<1> QED BY <1>1, <1>2

(* handle_msg takes the messages in the order in which they came. *)
LEMMA CutIsTail ==
  ASSUME NEW s \in Ring, s # <<>>
  PROVE  SubSeq(s, 1, 1 - 1) \o SubSeq(s, 1 + 1, Len(s)) = Tail(s)
<1>1. s \in Seq(Msg) /\ Len(s) \in Nat \ {0}
  BY DEF Ring
<1>2. SubSeq(s, 1, 1 - 1) = <<>>
  BY <1>1
<1>3. SubSeq(s, 1 + 1, Len(s)) \in Seq(Msg) /\ SubSeq(s, 1 + 1, Len(s)) = Tail(s)
  BY <1>1
<1> QED BY <1>2, <1>3

-----------------------------------------------------------------------------
(* The places are different ones, and there are no others. *)
LEMMA LocFacts ==
  /\ PoolLoc \in Loc /\ HandLoc \in Loc /\ PoolLoc # HandLoc
  /\ \A p \in Proc : /\ InLoc(p) \in Loc /\ BurstLoc(p) \in Loc /\ InLoc(p) # BurstLoc(p)
                     /\ {InLoc(p), BurstLoc(p)} \cap {PoolLoc, HandLoc} = {}
  /\ \A p, q \in Proc : InLoc(p) # BurstLoc(q) /\ (p # q => InLoc(p) # InLoc(q) /\ BurstLoc(p) # BurstLoc(q))
  /\ \A p \in Proc, t \in Type :
       /\ OutLoc(p, t) \in Loc /\ OutLoc(p, t) \notin {PoolLoc, HandLoc}
       /\ \A q \in Proc : OutLoc(p, t) \notin {InLoc(q), BurstLoc(q)}
  /\ \A p, q \in Proc, t, u \in Type : OutLoc(p, t) = OutLoc(q, u) => p = q /\ t = u
BY DEF Loc, PoolLoc, HandLoc, InLoc, BurstLoc, OutLoc

LEMMA LocCases ==
  ASSUME NEW x \in Loc
  PROVE  \/ x = PoolLoc \/ x = HandLoc
         \/ \E p \in Proc : x = InLoc(p) \/ x = BurstLoc(p)
         \/ \E p \in Proc, t \in Type : x = OutLoc(p, t)
BY DEF Loc

(* What is in each of them, before and after a step. *)
LEMMA HeldIs ==
  /\ Held(PoolLoc) = Pooled /\ Held(HandLoc) = InHand
  /\ \A p \in Proc : Held(InLoc(p)) = El(in[p]) /\ Held(BurstLoc(p)) = El(burst[p])
  /\ \A p \in Proc, t \in Type : Held(OutLoc(p, t)) = El(out[p][t])
  /\ Held(PoolLoc)' = Pooled' /\ Held(HandLoc)' = InHand'
  /\ \A p \in Proc : Held(InLoc(p))' = El(in'[p]) /\ Held(BurstLoc(p))' = El(burst'[p])
  /\ \A p \in Proc, t \in Type : Held(OutLoc(p, t))' = El(out'[p][t])
BY DEF Held, PoolLoc, HandLoc, InLoc, BurstLoc, OutLoc, El

(* A step that takes messages from one place to another. *)
LEMMA Move ==
  ASSUME Disjoint, NEW a \in Loc, NEW b \in Loc, a # b, NEW S \in SUBSET Held(a),
         Held(a)' = Held(a) \ S, Held(b)' = Held(b) \cup S,
         \A x \in Loc \ {a, b} : Held(x)' = Held(x)
  PROVE  Disjoint' /\ Lost' = Lost
<1>1. Disjoint'
  <2> SUFFICES ASSUME NEW x \in Loc, NEW y \in Loc, x # y, NEW m, m \in Held(x)', m \in Held(y)'
               PROVE  FALSE
    BY DEF Disjoint
  <2>1. \A z, w \in Loc : z # w => ~(m \in Held(z) /\ m \in Held(w))
    BY DEF Disjoint
  <2>2. \A z \in Loc \ {b} : m \in Held(z)' => m \in Held(z)
    OBVIOUS
  <2>3. m \in Held(a)' => m \notin S
    OBVIOUS
  <2>4. m \in S => \A z \in Loc \ {a, b} : m \notin Held(z)'
    BY <2>1, <2>2
  <2> QED BY <2>1, <2>2, <2>3, <2>4
<1>2. \A m : (\E x \in Loc : m \in Held(x)') <=> (\E x \in Loc : m \in Held(x))
  OBVIOUS
<1>3. Lost' = Lost
  BY <1>2 DEF Lost
<1> QED BY <1>1, <1>3

(* A step that leaves every message where it is. *)
LEMMA Still ==
  ASSUME Disjoint, OnceInv, UNCHANGED <<pool, in, out, burst>>, InHand' = InHand
  PROVE  Disjoint' /\ Lost' = Lost /\ OnceInv'
<1>1. Pooled' = Pooled
  BY DEF Pooled
<1>2. \A x \in Loc : Held(x)' = Held(x)
  BY <1>1, HeldIs, LocCases
<1> QED BY <1>2 DEF Disjoint, Lost, OnceInv

(* The tool returns the message it holds to the pool. *)
LEMMA HandToPool ==
  ASSUME IInv, NEW m \in Msg, InHand = {m}, InHand' = {}, Free(m), UNCHANGED <<in, out, burst, kills>>
  PROVE  /\ pool' \in [Msg -> 0 .. 1] /\ msg' \in [Msg -> Content]
         /\ \A n \in Msg : /\ pool[n] > 0 => pool'[n] > 0
                           /\ msg'[n].type = msg[n].type /\ msg'[n].req = msg[n].req
                           /\ msg'[n].answer = msg[n].answer
         /\ (Disjoint /\ OnceInv /\ KindInv /\ LostInv /\ OwnBuffer)'
<1>1. /\ Disjoint /\ OnceInv /\ KindInv /\ LostInv /\ OwnBuffer
      /\ pool \in [Msg -> 0 .. 1] /\ msg \in [Msg -> Content]
      /\ in \in [Proc -> Ring] /\ burst \in [Proc -> Ring]
  BY DEF IInv, TypeInv
<1>2. m \notin Pooled
  BY <1>1, HeldIs, LocFacts DEF Disjoint
<1>3. pool[m] = 0
  BY <1>1, <1>2 DEF Pooled
<1>4. pool' \in [Msg -> 0 .. 1] /\ pool'[m] = 1 /\ \A n \in Msg \ {m} : pool'[n] = pool[n]
  BY <1>1, <1>3 DEF Free, PoolWith
<1>5. /\ msg' \in [Msg -> Content] /\ \A n \in Msg \ {m} : msg'[n] = msg[n]
      /\ msg'[m].type = msg[m].type /\ msg'[m].req = msg[m].req
      /\ msg'[m].answer = msg[m].answer /\ ~msg'[m].extra
  <2>1. msg'[m] = [msg[m] EXCEPT !.extra = FALSE] /\ msg[m] \in Content
    BY <1>1 DEF Free, RestoreBuffer
  <2>2. msg'[m] \in Content
    BY <2>1 DEF Content
  <2>3. \A n \in Msg \ {m} : msg'[n] = msg[n]
    BY <1>1 DEF Free
  <2>4. msg' \in [Msg -> Content]
    BY <1>1, <2>2 DEF Free
  <2> QED BY <2>1, <2>3, <2>4 DEF Content
<1>6. Pooled' = Pooled \cup {m}
  BY <1>3, <1>4 DEF Pooled
<1>7. \A x \in Loc \ {HandLoc, PoolLoc} : Held(x)' = Held(x)
  BY HeldIs, LocCases
<1>8. Disjoint' /\ Lost' = Lost
  <2>1. {m} \in SUBSET Held(HandLoc) /\ Held(HandLoc)' = Held(HandLoc) \ {m}
        /\ Held(PoolLoc)' = Held(PoolLoc) \cup {m}
    BY <1>6, HeldIs
  <2> QED BY <1>1, <1>7, <2>1, LocFacts, Move
<1>9. (OnceInv /\ LostInv)'
  BY <1>1, <1>8 DEF OnceInv, LostInv
<1>10. KindInv'
  BY <1>1, <1>5, SeqEnds DEF KindInv
<1>11. OwnBuffer'
  BY <1>1, <1>4, <1>5 DEF OwnBuffer
<1> QED BY <1>4, <1>5, <1>8, <1>9, <1>10, <1>11

(* What the tool holds, by where it is. *)
LEMMA HandIs ==
  /\ tool.pc \in {"fill", "send"} => InHand = {tool.msg}
  /\ tool.pc \in {"other", "got"} => InHand = {tool.got}
  /\ tool.pc \in {"idle", "recv"} => InHand = {}
  /\ tool'.pc \in {"fill", "send"} => InHand' = {tool'.msg}
  /\ tool'.pc \in {"other", "got"} => InHand' = {tool'.got}
  /\ tool'.pc \in {"idle", "recv"} => InHand' = {}
BY DEF InHand

(* A tool that returns leaves nothing to say about it. *)
LEMMA ReturnKeeps ==
  ASSUME IInv, tool' = Idle, NEW m \in Msg, InHand = {m}, Free(m), UNCHANGED <<in, out, burst, calls, kills>>
  PROVE  IInv'
<1>1. InHand' = {} /\ tool'.pc = "idle"
  BY HandIs DEF Idle
<1>2. /\ pool' \in [Msg -> 0 .. 1] /\ msg' \in [Msg -> Content]
      /\ (Disjoint /\ OnceInv /\ KindInv /\ LostInv /\ OwnBuffer)'
  BY <1>1, HandToPool
<1>3. TypeInv'
  BY <1>2, ControlAssumption DEF IInv, TypeInv, Idle
<1>4. (ToolInv /\ TrackInv)'
  BY <1>1 DEF ToolInv, TrackInv
<1> QED BY <1>2, <1>3, <1>4 DEF IInv

(* A tool starts. *)
LEMMA AllocKeeps == ASSUME IInv, NEW t \in Type, NEW p \in Proc, Alloc(t, p) PROVE IInv'
<1>1. PICK m \in Msg :
        /\ pool[m] > 0
        /\ pool' = [pool EXCEPT ![m] = pool[m] - 1]
        /\ tool' = [pc |-> "fill", type |-> t, proc |-> p, msg |-> m, got |-> None, req |-> calls + 1]
  BY DEF Alloc
<1>2. /\ Disjoint /\ OnceInv /\ KindInv /\ LostInv /\ OwnBuffer
      /\ pool \in [Msg -> 0 .. 1] /\ calls \in 0 .. MaxCalls
  BY DEF IInv, TypeInv
<1>3. tool.pc = "idle" /\ calls < MaxCalls /\ calls' = calls + 1 /\ UNCHANGED <<in, out, burst, msg, kills>>
  BY DEF Alloc
<1>4. calls + 1 \in 0 .. MaxCalls
  BY <1>2, <1>3, ControlAssumption
<1>5. pool' \in [Msg -> 0 .. 1] /\ pool'[m] = 0 /\ \A n \in Msg \ {m} : pool'[n] = pool[n]
  BY <1>1, <1>2
<1>6. TypeInv'
  BY <1>1, <1>3, <1>4, <1>5, ControlAssumption DEF IInv, TypeInv
<1>7. Pooled' = Pooled \ {m} /\ m \in Pooled /\ InHand = {} /\ InHand' = {m}
  BY <1>1, <1>3, <1>5, HandIs DEF Pooled
<1>8. \A x \in Loc \ {HandLoc, PoolLoc} : Held(x)' = Held(x)
  BY <1>3, HeldIs, LocCases
<1>9. Disjoint' /\ Lost' = Lost
  <2>1. {m} \in SUBSET Held(PoolLoc) /\ Held(PoolLoc)' = Held(PoolLoc) \ {m}
        /\ Held(HandLoc)' = Held(HandLoc) \cup {m}
    BY <1>7, HeldIs
  <2> QED BY <1>2, <1>8, <2>1, LocFacts, Move
<1>10. (OnceInv /\ LostInv /\ KindInv /\ OwnBuffer)'
  BY <1>2, <1>3, <1>5, <1>9 DEF OnceInv, LostInv, KindInv, OwnBuffer
<1>11. (ToolInv /\ TrackInv)'
  BY <1>1 DEF ToolInv, TrackInv
<1> QED BY <1>6, <1>9, <1>10, <1>11 DEF IInv

LEMMA AllocFailsKeeps == ASSUME IInv, AllocFails PROVE IInv'
<1>1. tool.pc = "idle" /\ UNCHANGED <<pool, in, out, burst, msg, tool, kills>>
      /\ calls < MaxCalls /\ calls' = calls + 1
  BY DEF AllocFails
<1>2. calls' \in 0 .. MaxCalls
  BY <1>1, ControlAssumption DEF IInv, TypeInv
<1>3. TypeInv'
  BY <1>1, <1>2 DEF IInv, TypeInv
<1>4. InHand' = InHand
  BY <1>1, HandIs
<1>5. (Disjoint /\ OnceInv)' /\ Lost' = Lost
  BY <1>1, <1>4, Still DEF IInv
<1>6. (ToolInv /\ KindInv /\ TrackInv /\ LostInv /\ OwnBuffer)'
  BY <1>1, <1>5 DEF IInv, ToolInv, KindInv, TrackInv, LostInv, OwnBuffer
<1> QED BY <1>3, <1>5, <1>6 DEF IInv

(* The arguments are copied into the message in the tool's hand. *)
LEMMA FillKeeps == ASSUME IInv, Fill PROVE IInv'
<1> DEFINE m == tool.msg
<1>1. /\ tool.pc = "fill" /\ tool' = [tool EXCEPT !.pc = "send"]
      /\ UNCHANGED <<pool, in, out, burst, calls, kills>>
  BY DEF Fill
<1>2. /\ TypeInv /\ ToolInv /\ Disjoint /\ OnceInv /\ KindInv /\ LostInv /\ OwnBuffer
      /\ m \in Msg /\ tool.type \in Type /\ tool.proc \in Proc
      /\ msg \in [Msg -> Content] /\ tool.req \in 0 .. MaxCalls
  BY <1>1 DEF IInv, TypeInv, ToolInv
<1>3. tool'.pc = "send" /\ tool'.msg = m /\ tool'.type = tool.type /\ tool'.req = tool.req
      /\ tool'.proc = tool.proc
  BY <1>1, <1>2 DEF TypeInv
<1>4. PICK large \in BOOLEAN :
        msg' = [msg EXCEPT ![tool.msg].type = tool.type,
                           ![tool.msg].req = tool.req,
                           ![tool.msg].extra = large \/ @,
                           ![tool.msg].moved = (tool.type = "route") \/ @]
  BY DEF Fill
<1>5. /\ msg' \in [Msg -> Content] /\ \A n \in Msg \ {m} : msg'[n] = msg[n]
      /\ msg'[m].type = tool.type /\ msg'[m].req = tool.req
  BY <1>2, <1>4 DEF Content
<1>6. TypeInv'
  BY <1>1, <1>2, <1>5 DEF TypeInv
<1>7. ToolInv'
  BY <1>2, <1>3, <1>5 DEF ToolInv
<1>8. InHand = {m} /\ InHand' = InHand
  BY <1>1, <1>3, HandIs
<1>9. (Disjoint /\ OnceInv)' /\ Lost' = Lost
  BY <1>1, <1>2, <1>8, Still
<1>10. m \notin Pooled
  BY <1>2, <1>8, HeldIs, LocFacts DEF Disjoint
<1>11. KindInv'
  BY <1>1, <1>2, <1>5, SeqEnds DEF KindInv, TypeInv
<1>12. (LostInv /\ OwnBuffer /\ TrackInv)'
  BY <1>1, <1>2, <1>3, <1>5, <1>9, <1>10 DEF LostInv, OwnBuffer, TrackInv, Pooled
<1> QED BY <1>6, <1>7, <1>9, <1>11, <1>12 DEF IInv

(* The four ways in which a tool frees the message it sent or found. *)
LEMMA FillFailsKeeps == ASSUME IInv, FillFails PROVE IInv'
<1>1. tool.msg \in Msg /\ InHand = {tool.msg}
  BY HandIs DEF IInv, ToolInv, FillFails
<1> QED BY <1>1, ReturnKeeps DEF FillFails

LEMMA SendFailsKeeps == ASSUME IInv, SendFails PROVE IInv'
<1>1. tool.msg \in Msg /\ InHand = {tool.msg}
  BY HandIs DEF IInv, ToolInv, SendFails
<1> QED BY <1>1, ReturnKeeps DEF SendFails

LEMMA FinishKeeps == ASSUME IInv, Finish PROVE IInv'
<1>1. tool.msg \in Msg /\ InHand = {tool.msg}
  BY HandIs DEF IInv, ToolInv, Finish
<1> QED BY <1>1, ReturnKeeps DEF Finish

LEMMA DiscardKeeps == ASSUME IInv, Discard PROVE IInv'
<1>1. /\ tool.pc = "other" /\ Free(tool.got) /\ tool' = [tool EXCEPT !.pc = "recv", !.got = None]
      /\ UNCHANGED <<in, out, burst, calls, kills>>
  BY DEF Discard
<1>2. /\ TypeInv /\ ToolInv /\ TrackInv
      /\ tool.got \in Msg /\ tool.msg \in Msg /\ tool.proc \in Proc /\ tool.type \in Type
  BY <1>1 DEF IInv, ToolInv
<1>3. tool'.pc = "recv" /\ tool'.msg = tool.msg /\ tool'.type = tool.type /\ tool'.req = tool.req
      /\ tool'.proc = tool.proc
  BY <1>1, <1>2 DEF TypeInv
<1>4. InHand = {tool.got} /\ InHand' = {}
  BY <1>1, <1>3, HandIs
<1>5. /\ pool' \in [Msg -> 0 .. 1] /\ msg' \in [Msg -> Content]
      /\ \A n \in Msg : /\ pool[n] > 0 => pool'[n] > 0
                        /\ msg'[n].type = msg[n].type /\ msg'[n].req = msg[n].req
                        /\ msg'[n].answer = msg[n].answer
      /\ (Disjoint /\ OnceInv /\ KindInv /\ LostInv /\ OwnBuffer)'
  BY <1>1, <1>2, <1>4, HandToPool
<1>6. TypeInv'
  BY <1>1, <1>2, <1>5 DEF TypeInv
<1>7. ToolInv'
  BY <1>1, <1>2, <1>3, <1>5 DEF ToolInv
<1>8. TrackInv'
  BY <1>1, <1>2, <1>3, <1>5 DEF TrackInv
<1> QED BY <1>5, <1>6, <1>7, <1>8 DEF IInv

(* The message is put on the process's ring, behind whatever is there. *)
LEMMA SendKeeps == ASSUME IInv, Send PROVE IInv'
<1>0. PICK m \in Msg, p \in Proc, t \in Type : m = tool.msg /\ p = tool.proc /\ t = tool.type
  BY DEF IInv, ToolInv, Send
<1>1. /\ tool.pc = "send" /\ Room(in[p]) /\ in' = [in EXCEPT ![p] = Append(in[p], m)]
      /\ tool' = [tool EXCEPT !.pc = "recv"] /\ UNCHANGED <<pool, out, burst, msg, calls, kills>>
  BY <1>0 DEF Send
<1>2. /\ TypeInv /\ ToolInv /\ Disjoint /\ OnceInv /\ KindInv /\ LostInv /\ OwnBuffer
      /\ msg[m].type = t
      /\ in \in [Proc -> Ring] /\ in[p] \in Ring
  BY <1>0, <1>1 DEF IInv, TypeInv, ToolInv
<1>3. tool'.pc = "recv" /\ tool'.msg = m /\ tool'.type = t /\ tool'.req = tool.req
      /\ tool'.proc = p
  BY <1>0, <1>1, <1>2 DEF TypeInv
<1>4. InHand = {m} /\ InHand' = {} /\ Pooled' = Pooled
  BY <1>0, <1>1, <1>3, HandIs DEF Pooled
<1>5. m \notin El(in[p])
  <2>1. m \in Held(HandLoc) /\ Held(InLoc(p)) = El(in[p]) BY <1>4, HeldIs
  <2>2. HandLoc \in Loc /\ InLoc(p) \in Loc /\ HandLoc # InLoc(p) BY LocFacts
  <2> QED BY <1>2, <2>1, <2>2 DEF Disjoint
<1>6. /\ in'[p] \in Ring /\ in'[p] # <<>> /\ LastOf(in'[p]) = m /\ El(in'[p]) = El(in[p]) \cup {m}
      /\ Once(in'[p]) /\ \A q \in Proc \ {p} : in'[q] = in[q]
  BY <1>1, <1>2, <1>5, SeqAppend DEF OnceInv
<1>7. TypeInv'
  BY <1>1, <1>2, <1>6 DEF TypeInv
<1>8. (ToolInv /\ TrackInv)'
  BY <1>0, <1>1, <1>2, <1>3, <1>6 DEF ToolInv, TrackInv
<1>9. \A x \in Loc \ {HandLoc, InLoc(p)} : Held(x)' = Held(x)
  BY <1>1, <1>4, <1>6, HeldIs, LocCases
<1>10. Disjoint' /\ Lost' = Lost
  <2>1. {m} \in SUBSET Held(HandLoc) /\ Held(HandLoc)' = Held(HandLoc) \ {m}
        /\ Held(InLoc(p))' = Held(InLoc(p)) \cup {m}
    BY <1>2, <1>4, <1>6, HeldIs
  <2>2. HandLoc \in Loc /\ InLoc(p) \in Loc /\ HandLoc # InLoc(p)
    BY <1>2, LocFacts
  <2> QED BY <1>2, <1>9, <2>1, <2>2, Move
<1>11. (OnceInv /\ KindInv)'
  BY <1>1, <1>2, <1>6 DEF OnceInv, KindInv
<1>12. (LostInv /\ OwnBuffer)'
  BY <1>1, <1>2, <1>10 DEF LostInv, OwnBuffer
<1> QED BY <1>7, <1>8, <1>10, <1>11, <1>12 DEF IInv

(* The first answer is taken off the reply ring.  If it is the tool's own, *)
(* it was the last there was.                                              *)
LEMMA RecvKeeps == ASSUME IInv, Recv PROVE IInv'
<1>0. PICK m \in Msg, p \in Proc, t \in Type : m = tool.msg /\ p = tool.proc /\ t = tool.type
  BY DEF IInv, ToolInv, Recv
<1> DEFINE o == out[p][t]
<1>a. PICK g : g = Head(o)
  OBVIOUS
<1>1. /\ tool.pc = "recv" /\ o # <<>>
      /\ tool' = [tool EXCEPT !.got = g, !.pc = IF g = m THEN "got" ELSE "other"]
      /\ out' = [out EXCEPT ![p][t] = Tail(o)]
      /\ UNCHANGED <<pool, in, burst, msg, calls, kills>>
  BY <1>0, <1>a DEF Recv, Mine
<1>2. /\ TypeInv /\ ToolInv /\ Disjoint /\ OnceInv /\ KindInv /\ TrackInv /\ LostInv /\ OwnBuffer
      /\ out \in [Proc -> [Type -> Ring]] /\ in[p] \in Ring /\ burst[p] \in Ring
  BY <1>1 DEF IInv, TypeInv, ToolInv
<1>3. o \in Ring /\ Once(o)
  BY <1>2 DEF OnceInv
<1>4. /\ g \in Msg /\ g \in El(o) /\ Tail(o) \in Ring /\ Once(Tail(o)) /\ El(Tail(o)) = El(o) \ {g}
      /\ Tail(o) # <<>> => LastOf(Tail(o)) = LastOf(o)
      /\ Tail(o) = <<>> => LastOf(o) = g
      /\ LastOf(o) = g => Tail(o) = <<>>
  BY <1>1, <1>3, <1>a, SeqTail
<1>5. /\ tool'.pc = (IF g = m THEN "got" ELSE "other") /\ tool'.got = g
      /\ tool'.msg = m /\ tool'.type = t /\ tool'.req = tool.req /\ tool'.proc = p
  BY <1>0, <1>1, <1>2 DEF TypeInv
<1>6. /\ out' \in [Proc -> [Type -> Ring]] /\ out'[p][t] = Tail(o)
      /\ \A q \in Proc, u \in Type : <<q, u>> # <<p, t>> => out'[q][u] = out[q][u]
  BY <1>1, <1>2, <1>4
<1>7. TypeInv'
  <2>1. tool' \in [pc : {"idle", "fill", "send", "recv", "other", "got"},
                 type : Type \cup {"unknown"}, proc : Proc \cup {None},
                 msg : Msg \cup {None}, got : Msg \cup {None}, req : 0 .. MaxCalls]
    BY <1>1, <1>2, <1>4 DEF TypeInv
  <2> QED BY <1>1, <1>2, <1>6, <2>1 DEF TypeInv
<1>8. ToolInv'
  BY <1>0, <1>1, <1>2, <1>4, <1>5 DEF ToolInv
<1>9. /\ g \notin Pooled /\ g \notin El(in[p]) /\ g \notin El(burst[p])
  <2>1. g \in Held(OutLoc(p, t))
    BY <1>2, <1>4, HeldIs
  <2>2. \A x \in Loc : x # OutLoc(p, t) => g \notin Held(x)
    BY <1>2, <2>1, LocFacts DEF Disjoint
  <2> QED BY <1>2, <2>2, HeldIs, LocFacts
<1>10. TrackInv'
  <2>1. CASE g = m
    <3>1. pool[m] = 0
      BY <1>2, <1>9, <2>1 DEF Pooled, TypeInv
    <3>2. ~(in[p] # <<>> /\ LastOf(in[p]) = m) /\ ~(burst[p] # <<>> /\ LastOf(burst[p]) = m)
      BY <1>2, <1>9, <2>1, SeqEnds
    <3>3. in[p] = <<>> /\ burst[p] = <<>> /\ LastOf(o) = m /\ msg[m].answer = tool.req
      BY <1>0, <1>1, <1>2, <3>1, <3>2 DEF TrackInv
    <3>4. out'[p][t] = <<>>
      BY <1>4, <1>6, <2>1, <3>3
    <3> QED BY <1>0, <1>1, <1>5, <2>1, <3>3, <3>4 DEF TrackInv
  <2>2. CASE g # m
    <3>1. o # <<>> /\ LastOf(o) = m => Tail(o) # <<>> /\ LastOf(Tail(o)) = m
      BY <1>4, <2>2
    <3>2. tool'.pc = "other"
      BY <1>5, <2>2
    <3> QED BY <1>0, <1>1, <1>2, <1>5, <1>6, <3>1, <3>2 DEF TrackInv
  <2> QED BY <2>1, <2>2
<1>11. InHand = {} /\ InHand' = {g} /\ Pooled' = Pooled
  BY <1>1, <1>5, HandIs DEF Pooled
<1>12. \A x \in Loc \ {OutLoc(p, t), HandLoc} : Held(x)' = Held(x)
  <2> SUFFICES ASSUME NEW x \in Loc \ {OutLoc(p, t), HandLoc} PROVE Held(x)' = Held(x)
    OBVIOUS
  <2>1. CASE \E q \in Proc, u \in Type : x = OutLoc(q, u)
    BY <1>2, <1>6, <2>1, HeldIs
  <2> QED BY <1>1, <1>11, <2>1, HeldIs, LocCases
<1>13. Disjoint' /\ Lost' = Lost
  <2>1. {g} \in SUBSET Held(OutLoc(p, t)) /\ Held(OutLoc(p, t))' = Held(OutLoc(p, t)) \ {g}
        /\ Held(HandLoc)' = Held(HandLoc) \cup {g}
    BY <1>2, <1>4, <1>6, <1>11, HeldIs
  <2>2. HandLoc \in Loc /\ OutLoc(p, t) \in Loc /\ HandLoc # OutLoc(p, t)
    BY <1>2, LocFacts
  <2> QED BY <1>2, <1>12, <2>1, <2>2, Move
<1>14. OnceInv'
  BY <1>1, <1>2, <1>4, <1>6 DEF OnceInv
<1>15. (KindInv /\ LostInv /\ OwnBuffer)'
  BY <1>1, <1>2, <1>13 DEF KindInv, LostInv, OwnBuffer
<1> QED BY <1>7, <1>8, <1>10, <1>13, <1>14, <1>15 DEF IInv

(* The wait ends without an answer; the message stays where it is. *)
LEMMA TimeOutKeeps == ASSUME IInv, NoEarlyFree, TimeOut PROVE IInv'
<1>1. tool.pc = "recv" /\ tool' = Idle /\ UNCHANGED <<in, out, burst, calls, kills>>
  BY DEF TimeOut
<1>2. TypeInv /\ Disjoint /\ OnceInv /\ KindInv /\ LostInv /\ OwnBuffer /\ tool.type \in Type
  BY <1>1 DEF IInv, ToolInv
<1>3. UNCHANGED <<pool, msg>>
  BY <1>2 DEF TimeOut, FreesOnTimeout, NoEarlyFree
<1>4. tool'.pc = "idle" /\ InHand' = InHand
  BY <1>1, HandIs DEF Idle
<1>5. (Disjoint /\ OnceInv)' /\ Lost' = Lost
  BY <1>1, <1>2, <1>3, <1>4, Still
<1>6. TypeInv'
  BY <1>1, <1>2, <1>3, ControlAssumption DEF TypeInv, Idle
<1>7. (ToolInv /\ TrackInv)'
  BY <1>4 DEF ToolInv, TrackInv
<1>8. (KindInv /\ LostInv /\ OwnBuffer)'
  BY <1>1, <1>2, <1>3, <1>5 DEF KindInv, LostInv, OwnBuffer
<1> QED BY <1>5, <1>6, <1>7, <1>8 DEF IInv

(* A killed tool loses the message it holds, if any: one for each kill. *)
LEMMA KillKeeps == ASSUME IInv, Kill PROVE IInv'
<1>1. /\ kills < MaxKills /\ kills' = kills + 1 /\ tool' = Idle
      /\ UNCHANGED <<pool, in, out, burst, msg, calls>>
  BY DEF Kill
<1>2. /\ TypeInv /\ Disjoint /\ OnceInv /\ KindInv /\ LostInv /\ OwnBuffer
      /\ tool.pc \in {"idle", "fill", "send", "recv", "other", "got"} /\ kills \in 0 .. MaxKills
  BY DEF IInv, TypeInv
<1>3. tool'.pc = "idle" /\ InHand' = {} /\ Pooled' = Pooled
  BY <1>1, HandIs DEF Idle, Pooled
<1>4. kills' \in 0 .. MaxKills
  BY <1>1, <1>2, ControlAssumption
<1>5. TypeInv'
  BY <1>1, <1>2, <1>4, ControlAssumption DEF TypeInv, Idle
<1>6. Held(HandLoc)' = {} /\ \A x \in Loc \ {HandLoc} : Held(x)' = Held(x)
  BY <1>1, <1>3, HeldIs, LocCases
<1>7. Disjoint'
  BY <1>2, <1>6 DEF Disjoint
<1>8. LostInv'
  <2>1. PICK m : InHand \subseteq {m}
    BY <1>2, HandIs
  <2>2. Lost' \subseteq Lost \cup {m}
    BY <1>6, <2>1, HeldIs DEF Lost
  <2>3. IsFiniteSet(Lost) /\ Cardinality(Lost) \in Nat
    BY ControlAssumption, FS_Subset, FS_CardinalityType DEF Lost
  <2>4. /\ IsFiniteSet(Lost \cup {m}) /\ Cardinality(Lost \cup {m}) \in Nat
        /\ Cardinality(Lost \cup {m}) <= Cardinality(Lost) + 1
    BY <2>3, FS_AddElement, FS_CardinalityType
  <2>5. Cardinality(Lost') \in Nat /\ Cardinality(Lost') <= Cardinality(Lost \cup {m})
    BY <2>2, <2>4, FS_Subset, FS_CardinalityType
  <2> QED BY <1>1, <1>2, <2>3, <2>4, <2>5 DEF LostInv
<1>9. (ToolInv /\ TrackInv)'
  BY <1>3 DEF ToolInv, TrackInv
<1>10. (OnceInv /\ KindInv /\ OwnBuffer)'
  BY <1>1, <1>2 DEF OnceInv, KindInv, OwnBuffer
<1> QED BY <1>5, <1>7, <1>8, <1>9, <1>10 DEF IInv

(* A process takes everything off its ring at once. *)
LEMMA DequeueKeeps == ASSUME IInv, NEW p \in Proc, Dequeue(p) PROVE IInv'
<1>1. /\ burst[p] = <<>> /\ in[p] # <<>>
      /\ burst' = [burst EXCEPT ![p] = in[p]] /\ in' = [in EXCEPT ![p] = <<>>]
      /\ UNCHANGED <<pool, out, msg, tool, calls, kills>>
  BY DEF Dequeue
<1>2. /\ TypeInv /\ ToolInv /\ Disjoint /\ OnceInv /\ KindInv /\ TrackInv /\ LostInv /\ OwnBuffer
      /\ in \in [Proc -> Ring] /\ burst \in [Proc -> Ring]
  BY DEF IInv, TypeInv
<1>3. /\ in'[p] = <<>> /\ burst'[p] = in[p]
      /\ \A q \in Proc \ {p} : in'[q] = in[q] /\ burst'[q] = burst[q]
  BY <1>1, <1>2
<1>4. in' \in [Proc -> Ring] /\ burst' \in [Proc -> Ring]
  BY <1>1, <1>2, SeqEnds
<1>5. TypeInv'
  BY <1>1, <1>2, <1>4 DEF TypeInv
<1>6. (ToolInv /\ OwnBuffer)'
  BY <1>1, <1>2 DEF ToolInv, OwnBuffer
<1>7. (OnceInv /\ KindInv)'
  BY <1>1, <1>2, <1>3, SeqEnds DEF OnceInv, KindInv
<1>8. TrackInv'
  <2>1. CASE tool.pc \in {"recv", "other", "got"}
    <3>1. PICK q \in Proc : q = tool.proc
      BY <1>2, <2>1 DEF ToolInv
    <3>2. CASE q = p
      BY <1>1, <1>2, <1>3, <3>1, <3>2 DEF TrackInv
    <3>3. CASE q # p
      <4>1. in'[q] = in[q] /\ burst'[q] = burst[q] BY <1>3, <3>3
      <4> QED BY <1>1, <1>2, <3>1, <4>1 DEF TrackInv
    <3> QED BY <3>2, <3>3
  <2>2. CASE tool.pc \notin {"recv", "other", "got"}
    BY <1>1, <2>2 DEF TrackInv
  <2> QED BY <2>1, <2>2
<1>9. InHand' = InHand /\ Pooled' = Pooled
  BY <1>1 DEF InHand, Pooled
<1>10. \A x \in Loc \ {InLoc(p), BurstLoc(p)} : Held(x)' = Held(x)
  BY <1>1, <1>3, <1>9, HeldIs, LocCases
<1>11. Disjoint' /\ Lost' = Lost
  <2>1. Held(InLoc(p)) = El(in[p]) /\ Held(BurstLoc(p)) = {}
    BY <1>1, HeldIs, SeqEnds
  <2>2. Held(InLoc(p))' = {} /\ Held(BurstLoc(p))' = El(in[p])
    BY <1>3, HeldIs, SeqEnds
  <2>3. PICK S : S = El(in[p])
    OBVIOUS
  <2>4. /\ S \in SUBSET Held(InLoc(p)) /\ Held(InLoc(p))' = Held(InLoc(p)) \ S
        /\ Held(BurstLoc(p))' = Held(BurstLoc(p)) \cup S
    BY <2>1, <2>2, <2>3
  <2>5. InLoc(p) \in Loc /\ BurstLoc(p) \in Loc /\ InLoc(p) # BurstLoc(p)
    BY LocFacts
  <2> QED BY <1>2, <1>10, <2>4, <2>5, Move
<1>12. LostInv'
  BY <1>1, <1>2, <1>11 DEF LostInv
<1> QED BY <1>5, <1>6, <1>7, <1>8, <1>11, <1>12 DEF IInv

(* The effect of executing h, the first message of p's burst. *)
Handled(p, h, c) ==
    /\ h \in Msg /\ h \in El(burst[p]) /\ msg[h].type \in Type
    /\ \A x \in Loc : x # BurstLoc(p) => h \notin Held(x)
    /\ burst' \in [Proc -> Ring] /\ burst'[p] = Tail(burst[p])
    /\ \A q \in Proc \ {p} : burst'[q] = burst[q]
    /\ El(burst'[p]) = El(burst[p]) \ {h} /\ Once(burst'[p])
    /\ burst'[p] # <<>> => LastOf(burst'[p]) = LastOf(burst[p])
    /\ burst'[p] = <<>> => LastOf(burst[p]) = h
    /\ msg' \in [Msg -> Content] /\ msg'[h] = c
    /\ \A n \in Msg \ {h} : msg'[n] = msg[n]
    /\ ToolInv' /\ KindInv' /\ InHand' = InHand

(* A process takes the first message of its burst and executes it; what    *)
(* becomes of the message is said below.                                   *)
LEMMA HandleStep ==
  ASSUME IInv, NEW p \in Proc, burst[p] # <<>>, NEW h, h = burst[p][1],
         burst' = [burst EXCEPT ![p] = Tail(burst[p])],
         NEW c \in Content, c.type = msg[h].type, c.req = msg[h].req, c.answer = msg[h].req,
         msg' = [msg EXCEPT ![h] = c], UNCHANGED <<in, tool, calls, kills>>
  PROVE  Handled(p, h, c)
<1>1. /\ TypeInv /\ ToolInv /\ Disjoint /\ OnceInv /\ KindInv
      /\ burst \in [Proc -> Ring] /\ msg \in [Msg -> Content] /\ in \in [Proc -> Ring]
  BY DEF IInv, TypeInv
<1>2. burst[p] \in Ring /\ Once(burst[p])
  BY <1>1 DEF OnceInv
<1>3. /\ h \in Msg /\ h \in El(burst[p]) /\ Tail(burst[p]) \in Ring
      /\ El(Tail(burst[p])) = El(burst[p]) \ {h} /\ Once(Tail(burst[p]))
      /\ Tail(burst[p]) # <<>> => LastOf(Tail(burst[p])) = LastOf(burst[p])
      /\ Tail(burst[p]) = <<>> => LastOf(burst[p]) = h
  BY <1>2, SeqTail
<1>4. msg[h].type \in Type
  BY <1>1, <1>3 DEF KindInv
<1>5. \A x \in Loc : x # BurstLoc(p) => h \notin Held(x)
  <2>1. h \in Held(BurstLoc(p)) /\ BurstLoc(p) \in Loc
    BY <1>3, HeldIs, LocFacts
  <2> QED BY <1>1, <2>1 DEF Disjoint
<1>6. /\ burst' \in [Proc -> Ring] /\ burst'[p] = Tail(burst[p])
      /\ \A q \in Proc \ {p} : burst'[q] = burst[q]
  BY <1>1, <1>3
<1>7. /\ msg' \in [Msg -> Content] /\ msg'[h] = c /\ \A n \in Msg \ {h} : msg'[n] = msg[n]
  BY <1>1, <1>3
<1>8. \A n \in Msg : msg'[n].type = msg[n].type /\ msg'[n].req = msg[n].req
  BY <1>7
<1>9. ToolInv'
  BY <1>1, <1>8 DEF ToolInv
<1>10. KindInv'
  <2>1. \A q \in Proc : El(burst'[q]) \subseteq El(burst[q]) /\ El(burst[q]) \subseteq Msg /\ El(in[q]) \subseteq Msg
    BY <1>1, <1>3, <1>6, SeqEnds
  <2> QED BY <1>1, <1>8, <2>1 DEF KindInv
<1>11. InHand' = InHand
  BY DEF InHand
<1> QED BY <1>3, <1>4, <1>5, <1>6, <1>7, <1>9, <1>10, <1>11 DEF Handled

(* The answer is put on the reply ring of its type. *)
Answer(p, h, t) ==
    /\ burst[p] # <<>> /\ h = burst[p][1] /\ t = msg[h].type /\ Room(out[p][t])
    /\ burst' = [burst EXCEPT ![p] = Tail(burst[p])]
    /\ out' = [out EXCEPT ![p][t] = Append(out[p][t], h)]
    /\ msg' = [msg EXCEPT ![h] = Executed(h)] /\ UNCHANGED <<pool, in, tool, calls, kills>>

LEMMA AnswerKeeps == ASSUME IInv, NEW p \in Proc, NEW h, NEW t, Answer(p, h, t) PROVE IInv'
<1>1. /\ TypeInv /\ ToolInv /\ Disjoint /\ OnceInv /\ KindInv /\ TrackInv /\ LostInv /\ OwnBuffer
      /\ out \in [Proc -> [Type -> Ring]] /\ msg \in [Msg -> Content] /\ burst \in [Proc -> Ring]
  BY DEF IInv, TypeInv
<1>b. /\ burst[p] # <<>> /\ h = burst[p][1]
      /\ burst' = [burst EXCEPT ![p] = Tail(burst[p])]
  BY DEF Answer
<1>2. h \in Msg
  <2>1. burst[p] \in Ring BY <1>1
  <2> QED BY <1>b, <2>1, SeqTail
<1>c. PICK c : c = Executed(h)
  OBVIOUS
<1>3. c \in Content /\ c.type = msg[h].type /\ c.req = msg[h].req /\ c.answer = msg[h].req
  <2>1. msg[h] \in Content BY <1>1, <1>2
  <2> QED BY <1>c, <2>1 DEF Executed, Content
<1>m. msg' = [msg EXCEPT ![h] = c]
  BY <1>c, Zenon DEF Answer
<1>u. UNCHANGED <<in, tool, calls, kills>> /\ UNCHANGED pool
  BY Zenon DEF Answer
<1>4. /\ h \in El(burst[p]) /\ t \in Type
      /\ \A x \in Loc : x # BurstLoc(p) => h \notin Held(x)
      /\ burst' \in [Proc -> Ring] /\ burst'[p] = Tail(burst[p])
      /\ \A q \in Proc \ {p} : burst'[q] = burst[q]
      /\ El(burst'[p]) = El(burst[p]) \ {h} /\ Once(burst'[p])
      /\ burst'[p] # <<>> => LastOf(burst'[p]) = LastOf(burst[p])
      /\ burst'[p] = <<>> => LastOf(burst[p]) = h
      /\ msg' \in [Msg -> Content] /\ msg'[h] = c
      /\ \A n \in Msg \ {h} : msg'[n] = msg[n]
      /\ ToolInv' /\ KindInv' /\ InHand' = InHand
  <2>1. Handled(p, h, c)
    BY <1>b, <1>3, <1>m, <1>u, HandleStep, ZenonT(40)
  <2>2. t = msg[h].type
    BY DEF Answer
  <2> QED BY <2>1, <2>2 DEF Handled
<1>t. t \in Type
  BY <1>4
<1>s. InHand' = InHand /\ Pooled' = Pooled /\ \A q \in Proc \ {p} : burst'[q] = burst[q]
  BY <1>4, <1>u DEF Pooled
<1>5. out[p][t] \in Ring /\ Once(out[p][t])
  BY <1>1, <1>4 DEF OnceInv
<1>6. h \notin El(out[p][t]) /\ h \notin Pooled /\ h \notin InHand
  <2>1. /\ OutLoc(p, t) \in Loc /\ PoolLoc \in Loc /\ HandLoc \in Loc
        /\ BurstLoc(p) \notin {OutLoc(p, t), PoolLoc, HandLoc}
    BY <1>t, LocFacts, Zenon
  <2>2. Held(OutLoc(p, t)) = El(out[p][t]) /\ Held(PoolLoc) = Pooled /\ Held(HandLoc) = InHand
    BY <1>t, HeldIs
  <2> QED BY <1>4, <2>1, <2>2
<1>7. /\ Append(out[p][t], h) \in Ring /\ Append(out[p][t], h) # <<>> /\ LastOf(Append(out[p][t], h)) = h
      /\ El(Append(out[p][t], h)) = El(out[p][t]) \cup {h} /\ Once(Append(out[p][t], h))
  <2>1. Room(out[p][t])
    BY Zenon DEF Answer
  <2> QED BY <1>2, <1>5, <1>6, <2>1, SeqAppend
<1>8. /\ out' \in [Proc -> [Type -> Ring]] /\ out'[p][t] = Append(out[p][t], h)
      /\ \A q \in Proc, u \in Type : <<q, u>> # <<p, t>> => out'[q][u] = out[q][u]
  <2>1. out' = [out EXCEPT ![p][t] = Append(out[p][t], h)]
    BY Zenon DEF Answer
  <2> QED BY <1>1, <1>t, <1>7, <2>1, SMTT(40)
<1>9. TypeInv'
  BY <1>1, <1>4, <1>8, <1>u DEF TypeInv
<1>10. OnceInv'
  BY <1>1, <1>4, <1>7, <1>8, <1>u DEF OnceInv
<1>11. OwnBuffer'
  <2>1. \A n \in Msg : pool'[n] > 0 => pool[n] > 0 /\ n # h BY <1>6, <1>u DEF Pooled
  <2> QED BY <1>1, <1>4, <2>1 DEF OwnBuffer
<1>12. \A x \in Loc \ {BurstLoc(p), OutLoc(p, t)} : Held(x)' = Held(x)
  <2> SUFFICES ASSUME NEW x \in Loc \ {BurstLoc(p), OutLoc(p, t)} PROVE Held(x)' = Held(x)
    OBVIOUS
  <2>1. CASE \E q \in Proc, u \in Type : x = OutLoc(q, u)
    <3>1. PICK q \in Proc, u \in Type : x = OutLoc(q, u) BY <2>1
    <3>2. out'[q][u] = out[q][u] BY <1>8, <3>1
    <3>3. Held(OutLoc(q, u))' = El(out'[q][u]) /\ Held(OutLoc(q, u)) = El(out[q][u]) BY HeldIs
    <3> QED BY <3>1, <3>2, <3>3
  <2>2. CASE \E q \in Proc : x = InLoc(q) \/ x = BurstLoc(q)
    <3>1. PICK q \in Proc : x = InLoc(q) \/ (x = BurstLoc(q) /\ q # p) BY <2>2
    <3>2. burst'[q] = burst[q] \/ x = InLoc(q) BY <1>s, <3>1
    <3>3. /\ Held(InLoc(q))' = El(in'[q]) /\ Held(InLoc(q)) = El(in[q])
          /\ Held(BurstLoc(q))' = El(burst'[q]) /\ Held(BurstLoc(q)) = El(burst[q])
      BY HeldIs
    <3> QED BY <1>u, <3>1, <3>2, <3>3
  <2>3. CASE x = PoolLoc \/ x = HandLoc
    BY <1>s, <2>3, HeldIs
  <2> QED BY <2>1, <2>2, <2>3, LocCases
<1>13. Disjoint' /\ Lost' = Lost
  <2>1. {h} \in SUBSET Held(BurstLoc(p)) /\ Held(BurstLoc(p))' = Held(BurstLoc(p)) \ {h}
    BY <1>4, HeldIs
  <2>2. Held(OutLoc(p, t))' = Held(OutLoc(p, t)) \cup {h}
    <3>1. Held(OutLoc(p, t))' = El(out'[p][t]) /\ Held(OutLoc(p, t)) = El(out[p][t])
      BY <1>t, HeldIs
    <3>2. El(out'[p][t]) = El(out[p][t]) \cup {h}
      BY <1>7, <1>8
    <3> QED BY <3>1, <3>2
  <2>3. BurstLoc(p) \in Loc /\ OutLoc(p, t) \in Loc /\ BurstLoc(p) # OutLoc(p, t)
    BY <1>t, LocFacts
  <2> QED BY <1>1, <1>12, <2>1, <2>2, <2>3, Move
<1>14. LostInv'
  BY <1>1, <1>13, <1>u DEF LostInv
<1>15. TrackInv'
  <2>1. CASE tool.pc \in {"recv", "other", "got"}
    <3>1. PICK m \in Msg, q \in Proc, u \in Type : m = tool.msg /\ q = tool.proc /\ u = tool.type
      BY <1>1, <2>1 DEF ToolInv
    <3>2. tool.pc = "got" => h # m /\ q # p
      BY <1>b, <1>1, <1>6, <3>1, HandIs DEF ToolInv, TrackInv
    <3>3. msg[m].type = u /\ msg[m].req = tool.req
      BY <1>1, <2>1, <3>1 DEF ToolInv
    <3>4. CASE tool.pc = "got"
      <4>1. msg'[m] = msg[m] /\ out'[q][u] = out[q][u] /\ burst'[q] = burst[q]
        BY <1>4, <1>8, <3>2, <3>4
      <4> QED BY <1>u, <1>1, <3>1, <3>4, <4>1 DEF TrackInv
    <3>5. CASE tool.pc \in {"recv", "other"} /\ q = p
      <4>1. CASE pool[m] > 0 \/ (in[q] # <<>> /\ LastOf(in[q]) = m)
        BY <1>u, <3>1, <3>5, <4>1 DEF TrackInv
      <4>2. CASE in[q] = <<>> /\ LastOf(burst[q]) = m /\ burst'[q] # <<>>
        BY <1>u, <1>4, <3>1, <3>5, <4>2 DEF TrackInv
      <4>3. CASE in[q] = <<>> /\ LastOf(burst[q]) = m /\ burst'[q] = <<>>
        <5>1. h = m /\ t = u BY <1>4, <3>3, <3>5, <4>3 DEF Answer
        <5>2. msg'[m].answer = tool.req BY <1>3, <1>4, <3>3, <5>1
        <5>3. out'[q][u] # <<>> /\ LastOf(out'[q][u]) = m BY <1>7, <1>8, <3>5, <5>1
        <5> QED BY <1>u, <3>1, <3>5, <4>3, <5>2, <5>3 DEF TrackInv
      <4> QED BY <1>b, <1>1, <3>1, <3>5, <4>1, <4>2, <4>3 DEF TrackInv
    <3>6. CASE tool.pc \in {"recv", "other"} /\ q # p
      <4>1. out'[q][u] = out[q][u] /\ burst'[q] = burst[q] BY <1>4, <1>8, <3>6
      <4>2. m \in El(out[q][u]) => h # m
        <5>1. /\ OutLoc(q, u) \in Loc /\ BurstLoc(p) # OutLoc(q, u) /\ Held(OutLoc(q, u)) = El(out[q][u])
          BY HeldIs, LocFacts
        <5> QED BY <1>4, <5>1
      <4>3. out[q][u] # <<>> /\ LastOf(out[q][u]) = m => msg'[m] = msg[m]
        <5>1. out[q][u] \in Ring BY <1>1
        <5> QED BY <1>4, <4>2, <5>1, SeqEnds
      <4> QED BY <1>u, <1>1, <3>1, <3>6, <4>1, <4>3 DEF TrackInv
    <3> QED BY <2>1, <3>4, <3>5, <3>6
  <2>2. CASE tool.pc \notin {"recv", "other", "got"}
    BY <1>u, <2>2 DEF TrackInv
  <2> QED BY <2>1, <2>2
<1> QED BY <1>4, <1>9, <1>10, <1>11, <1>13, <1>14, <1>15 DEF IInv

(* The reply ring is full: the message goes back to the pool. *)
Drop(p, h) ==
    /\ burst[p] # <<>> /\ h = burst[p][1]
    /\ burst' = [burst EXCEPT ![p] = Tail(burst[p])] /\ pool' = PoolWith(h)
    /\ msg' = [msg EXCEPT ![h] = RestoreBuffer(Executed(h))] /\ UNCHANGED <<out, in, tool, calls, kills>>

LEMMA DropKeeps == ASSUME IInv, NEW p \in Proc, NEW h, Drop(p, h) PROVE IInv'
<1>1. /\ TypeInv /\ ToolInv /\ Disjoint /\ OnceInv /\ KindInv /\ TrackInv /\ LostInv /\ OwnBuffer
      /\ pool \in [Msg -> 0 .. 1] /\ msg \in [Msg -> Content] /\ burst \in [Proc -> Ring]
      /\ out \in [Proc -> [Type -> Ring]]
  BY DEF IInv, TypeInv
<1>b. /\ burst[p] # <<>> /\ h = burst[p][1]
      /\ burst' = [burst EXCEPT ![p] = Tail(burst[p])]
  BY DEF Drop
<1>2. h \in Msg
  <2>1. burst[p] \in Ring BY <1>1
  <2> QED BY <1>b, <2>1, SeqTail
<1>c. PICK c : c = RestoreBuffer(Executed(h))
  OBVIOUS
<1>3. /\ c \in Content /\ c.type = msg[h].type /\ c.req = msg[h].req
      /\ c.answer = msg[h].req /\ ~c.extra
  <2>1. msg[h] \in Content BY <1>1, <1>2
  <2>2. Executed(h) \in Content /\ Executed(h).type = msg[h].type /\ Executed(h).req = msg[h].req
        /\ Executed(h).answer = msg[h].req
    BY <2>1 DEF Executed, Content
  <2> QED BY <1>c, <2>2 DEF RestoreBuffer, Content
<1>m. msg' = [msg EXCEPT ![h] = c]
  BY <1>c DEF Drop
<1>u. UNCHANGED <<in, tool, calls, kills>> /\ UNCHANGED out
  BY DEF Drop
<1>4. /\ h \in El(burst[p])
      /\ \A x \in Loc : x # BurstLoc(p) => h \notin Held(x)
      /\ burst' \in [Proc -> Ring] /\ burst'[p] = Tail(burst[p])
      /\ \A q \in Proc \ {p} : burst'[q] = burst[q]
      /\ El(burst'[p]) = El(burst[p]) \ {h} /\ Once(burst'[p])
      /\ burst'[p] # <<>> => LastOf(burst'[p]) = LastOf(burst[p])
      /\ burst'[p] = <<>> => LastOf(burst[p]) = h
      /\ msg' \in [Msg -> Content] /\ msg'[h] = c
      /\ \A n \in Msg \ {h} : msg'[n] = msg[n]
      /\ ToolInv' /\ KindInv' /\ InHand' = InHand
  <2>1. Handled(p, h, c)
    BY <1>b, <1>3, <1>m, <1>u, HandleStep
  <2> QED BY <2>1 DEF Handled
<1>q. /\ burst'[p] # <<>> => LastOf(burst'[p]) = LastOf(burst[p])
      /\ burst'[p] = <<>> => LastOf(burst[p]) = h
      /\ \A q \in Proc \ {p} : burst'[q] = burst[q]
  BY <1>4
<1>5. pool[h] = 0 /\ h \notin InHand
  <2>1. PoolLoc \in Loc /\ HandLoc \in Loc /\ BurstLoc(p) \notin {PoolLoc, HandLoc}
    BY LocFacts
  <2>2. h \notin Pooled /\ h \notin InHand
    BY <1>4, <2>1, HeldIs
  <2> QED BY <1>1, <1>2, <2>2 DEF Pooled
<1>6. pool' \in [Msg -> 0 .. 1] /\ pool'[h] = 1 /\ \A n \in Msg \ {h} : pool'[n] = pool[n]
  <2>1. pool' = PoolWith(h)
    BY DEF Drop
  <2> QED BY <1>1, <1>2, <1>5, <2>1 DEF PoolWith
<1>7. TypeInv'
  BY <1>1, <1>4, <1>6, <1>u DEF TypeInv
<1>8. OnceInv'
  BY <1>1, <1>4, <1>u DEF OnceInv
<1>9. OwnBuffer'
  BY <1>1, <1>3, <1>4, <1>6 DEF OwnBuffer
<1>10. Pooled' = Pooled \cup {h}
  BY <1>2, <1>6 DEF Pooled
<1>s. InHand' = InHand /\ \A q \in Proc \ {p} : burst'[q] = burst[q]
  BY <1>4
<1>11. \A x \in Loc \ {BurstLoc(p), PoolLoc} : Held(x)' = Held(x)
  BY <1>s, <1>u, HeldIs, LocCases
<1>12. Disjoint' /\ Lost' = Lost
  <2>1. {h} \in SUBSET Held(BurstLoc(p)) /\ Held(BurstLoc(p))' = Held(BurstLoc(p)) \ {h}
        /\ Held(PoolLoc)' = Held(PoolLoc) \cup {h}
    BY <1>4, <1>10, HeldIs
  <2>2. BurstLoc(p) \in Loc /\ PoolLoc \in Loc /\ BurstLoc(p) # PoolLoc
    BY LocFacts
  <2> QED BY <1>1, <1>11, <2>1, <2>2, Move
<1>13. LostInv'
  BY <1>1, <1>12, <1>u DEF LostInv
<1>14. TrackInv'
  <2>1. CASE tool.pc \in {"recv", "other", "got"}
    <3>1. PICK m \in Msg, q \in Proc, u \in Type : m = tool.msg /\ q = tool.proc /\ u = tool.type
      BY <1>1, <2>1 DEF ToolInv
    <3>2. tool.pc = "got" => h # m /\ q # p
      BY <1>b, <1>1, <1>5, <3>1, HandIs DEF ToolInv, TrackInv
    <3>3. CASE tool.pc = "got"
      <4>1. msg'[m] = msg[m] /\ burst'[q] = burst[q]
        BY <1>4, <3>2, <3>3
      <4> QED BY <1>u, <1>1, <3>1, <3>3, <4>1 DEF TrackInv
    <3>4. CASE h = m
      BY <1>u, <1>6, <3>1, <3>2, <3>4 DEF TrackInv
    <3>5. CASE tool.pc \in {"recv", "other"} /\ h # m
      <4>1. msg'[m] = msg[m] /\ pool'[m] = pool[m] BY <1>4, <1>6, <3>5
      <4>2. burst[q] # <<>> /\ LastOf(burst[q]) = m => burst'[q] # <<>> /\ LastOf(burst'[q]) = m
        BY <1>b, <1>q, <3>5
      <4>3. burst[q] = <<>> => burst'[q] = <<>>
        BY <1>b, <1>q
      <4> QED BY <1>u, <1>1, <3>1, <3>5, <4>1, <4>2, <4>3 DEF TrackInv
    <3> QED BY <2>1, <3>3, <3>4, <3>5
  <2>2. CASE tool.pc \notin {"recv", "other", "got"}
    BY <1>u, <2>2 DEF TrackInv
  <2> QED BY <2>1, <2>2
<1> QED BY <1>4, <1>7, <1>8, <1>9, <1>12, <1>13, <1>14 DEF IInv

LEMMA HandleKeeps == ASSUME IInv, NEW p \in Proc, Handle(p) PROVE IInv'
<1>1. PICK h, t : h = burst[p][1] /\ t = msg[h].type
  BY Zenon
<1>2. burst[p] # <<>> /\ burst[p] \in Ring /\ UNCHANGED <<in, tool, calls, kills>>
  BY Zenon DEF IInv, TypeInv, Handle
<1>3. burst' = [burst EXCEPT ![p] = Tail(burst[p])]
  <2>1. burst' = [burst EXCEPT ![p] = SubSeq(burst[p], 1, 1 - 1) \o SubSeq(burst[p], 1 + 1, Len(burst[p]))]
    BY Zenon DEF Handle, NextOf
  <2> QED BY <1>2, <2>1, CutIsTail, Zenon
<1>4. \/ /\ Room(out[p][t]) /\ out' = [out EXCEPT ![p][t] = Append(out[p][t], h)]
         /\ msg' = [msg EXCEPT ![h] = Executed(h)] /\ UNCHANGED pool
      \/ /\ pool' = PoolWith(h)
         /\ msg' = [msg EXCEPT ![h] = RestoreBuffer(Executed(h))] /\ UNCHANGED out
  BY <1>1, Zenon DEF Handle, NextOf, ReturnUnqueued
<1>5. CASE /\ Room(out[p][t]) /\ out' = [out EXCEPT ![p][t] = Append(out[p][t], h)]
           /\ msg' = [msg EXCEPT ![h] = Executed(h)] /\ UNCHANGED pool
  BY <1>1, <1>2, <1>3, <1>5, AnswerKeeps, Zenon DEF Answer
<1>6. CASE /\ pool' = PoolWith(h)
           /\ msg' = [msg EXCEPT ![h] = RestoreBuffer(Executed(h))] /\ UNCHANGED out
  BY <1>1, <1>2, <1>3, <1>6, DropKeeps DEF Drop
<1> QED BY <1>4, <1>5, <1>6

LEMMA InitHolds == Init => IInv
<1> SUFFICES ASSUME Init PROVE IInv OBVIOUS
<1>1. tool.pc = "idle" /\ InHand = {}
  BY HandIs DEF Init, Idle
<1>2. Pooled = Msg /\ \A p \in Proc : El(in[p]) = {} /\ El(burst[p]) = {} /\ \A t \in Type : El(out[p][t]) = {}
  BY SeqEnds DEF Init, Pooled
<1>3. \A x \in Loc \ {PoolLoc} : Held(x) = {}
  BY <1>1, <1>2, HeldIs, LocCases
<1>4. Held(PoolLoc) = Msg
  BY <1>2, HeldIs
<1>5. Disjoint
  BY <1>3 DEF Disjoint
<1>6. Lost = {} /\ Cardinality(Lost) = 0
  BY <1>4, LocFacts, FS_EmptySet DEF Lost
<1>7. LostInv /\ OnceInv /\ KindInv /\ OwnBuffer
  BY <1>2, <1>6, SeqEnds DEF Init, LostInv, OnceInv, KindInv, OwnBuffer
<1>8. ToolInv /\ TrackInv
  BY <1>1 DEF ToolInv, TrackInv
<1>9. TypeInv
  <2>1. msg \in [Msg -> Content] /\ pool \in [Msg -> 0 .. 1]
    BY ControlAssumption DEF Init, Content
  <2>2. in \in [Proc -> Ring] /\ burst \in [Proc -> Ring] /\ out \in [Proc -> [Type -> Ring]]
    BY SeqEnds DEF Init
  <2>3. tool \in [pc : {"idle", "fill", "send", "recv", "other", "got"},
                 type : Type \cup {"unknown"}, proc : Proc \cup {None},
                 msg : Msg \cup {None}, got : Msg \cup {None}, req : 0 .. MaxCalls]
    BY ControlAssumption DEF Init, Idle
  <2> QED BY <2>1, <2>2, <2>3, ControlAssumption DEF Init, TypeInv
<1> QED BY <1>5, <1>7, <1>8, <1>9 DEF IInv

LEMMA StutterKeeps == ASSUME IInv, UNCHANGED vars PROVE IInv'
<1>1. UNCHANGED <<pool, in, out, burst, msg, tool, calls, kills>>
  BY DEF vars
<1>2. InHand' = InHand
  BY <1>1 DEF InHand
<1>3. (Disjoint /\ OnceInv)' /\ Lost' = Lost
  BY <1>1, <1>2, Still DEF IInv
<1>4. (TypeInv /\ ToolInv)'
  BY <1>1 DEF IInv, TypeInv, ToolInv
<1>5. (KindInv /\ TrackInv /\ LostInv /\ OwnBuffer)'
  BY <1>1, <1>3 DEF IInv, KindInv, TrackInv, LostInv, OwnBuffer
<1> QED BY <1>3, <1>4, <1>5 DEF IInv

(* The inductive invariant holds of every behaviour in which the tools do  *)
(* not free what is still on its way.                                      *)
THEOREM Inductive == ASSUME NoEarlyFree PROVE Spec => []IInv
<1>1. Init => IInv
  BY InitHolds
<1>2. IInv /\ [Next]_vars => IInv'
  <2> SUFFICES ASSUME IInv, [Next]_vars PROVE IInv' OBVIOUS
  <2>1. ASSUME NEW t \in Type, NEW p \in Proc, Alloc(t, p) PROVE IInv' BY <2>1, AllocKeeps
  <2>2. CASE AllocFails BY <2>2, AllocFailsKeeps
  <2>3. CASE Fill BY <2>3, FillKeeps
  <2>4. CASE FillFails BY <2>4, FillFailsKeeps
  <2>5. CASE Send BY <2>5, SendKeeps
  <2>6. CASE SendFails BY <2>6, SendFailsKeeps
  <2>7. CASE Recv BY <2>7, RecvKeeps
  <2>8. CASE Discard BY <2>8, DiscardKeeps
  <2>9. CASE TimeOut BY <2>9, TimeOutKeeps
  <2>10. CASE Finish BY <2>10, FinishKeeps
  <2>11. CASE Kill BY <2>11, KillKeeps
  <2>12. ASSUME NEW p \in Proc, Dequeue(p) PROVE IInv' BY <2>12, DequeueKeeps
  <2>13. ASSUME NEW p \in Proc, Handle(p) PROVE IInv' BY <2>13, HandleKeeps
  <2>14. CASE UNCHANGED vars BY <2>14, StutterKeeps
  <2> QED BY <2>1, <2>2, <2>3, <2>4, <2>5, <2>6, <2>7, <2>8, <2>9, <2>10, <2>11, <2>12, <2>13, <2>14
          DEF Next, ToolStep
<1> QED BY <1>1, <1>2, PTL DEF Spec

-----------------------------------------------------------------------------
(* The place u of m is in x. *)
Sits(u, x, m) ==
    \/ x = PoolLoc /\ u = <<"pool", 1>>
    \/ x = HandLoc /\ u = <<"tool", m>>
    \/ \E p \in Proc :
         \/ x = InLoc(p) /\ \E i \in 1 .. Len(in[p]) : in[p][i] = m /\ u = <<"in", p, i>>
         \/ x = BurstLoc(p) /\ \E i \in 1 .. Len(burst[p]) : burst[p][i] = m /\ u = <<"burst", p, i>>
    \/ \E p \in Proc, t \in Type :
         x = OutLoc(p, t) /\ \E i \in 1 .. Len(out[p][t]) : out[p][t][i] = m /\ u = <<"out", p, t, i>>

(* Places, as the cases of a disjunction. *)
LEMMA PlacesAtAre ==
  ASSUME NEW m, NEW u, NEW p
  PROVE  u \in PlacesAt(p, m) <=>
           \/ \E i \in At(in[p], m) : u = <<"in", p, i>>
           \/ \E i \in At(burst[p], m) : u = <<"burst", p, i>>
           \/ \E t \in Type : \E i \in At(out[p][t], m) : u = <<"out", p, t, i>>
BY DEF PlacesAt

LEMMA PlacesAre ==
  ASSUME NEW m, NEW u
  PROVE  u \in Places(m) <=>
           \/ \E i \in 1 .. pool[m] : u = <<"pool", i>>
           \/ \E p \in Proc : u \in PlacesAt(p, m)
           \/ m \in InHand /\ u = <<"tool", m>>
<1> DEFINE A == {<<"pool", i>> : i \in 1 .. pool[m]}
           B == UNION {PlacesAt(p, m) : p \in Proc}
           C == {<<"tool", x>> : x \in InHand \cap {m}}
<1>1. u \in A <=> \E i \in 1 .. pool[m] : u = <<"pool", i>>
  BY Zenon
<1>2. u \in B <=> \E p \in Proc : u \in PlacesAt(p, m)
  OBVIOUS
<1>3. u \in C <=> m \in InHand /\ u = <<"tool", m>>
  BY Zenon
<1>4. Places(m) = A \cup B \cup C
  BY Zenon DEF Places
<1> HIDE DEF A, B, C
<1> QED BY <1>1, <1>2, <1>3, <1>4

(* A place is in one location, and there is a place in every location that *)
(* holds the message.                                                      *)
LEMMA PlaceHasLoc ==
  ASSUME TypeInv, NEW m \in Msg, NEW u \in Places(m)
  PROVE  \E x \in Loc : m \in Held(x) /\ Sits(u, x, m)
<1>1. /\ pool[m] \in 0 .. 1
      /\ \A p \in Proc : /\ DOMAIN in[p] = 1 .. Len(in[p]) /\ DOMAIN burst[p] = 1 .. Len(burst[p])
                         /\ \A t \in Type : DOMAIN out[p][t] = 1 .. Len(out[p][t])
  BY DEF TypeInv, Ring
<1>2. CASE \E i \in 1 .. pool[m] : u = <<"pool", i>>
  <2>1. pool[m] > 0 /\ u = <<"pool", 1>> BY <1>1, <1>2
  <2>2. m \in Held(PoolLoc) /\ Sits(u, PoolLoc, m) BY <2>1, HeldIs DEF Pooled, Sits
  <2> QED BY <2>2, LocFacts
<1>3. CASE \E p \in Proc : \E i \in At(in[p], m) : u = <<"in", p, i>>
  <2>1. PICK p \in Proc : \E i \in 1 .. Len(in[p]) : in[p][i] = m /\ u = <<"in", p, i>>
    BY <1>1, <1>3 DEF At
  <2>2. m \in Held(InLoc(p)) BY <2>1, HeldIs DEF El
  <2>3. Sits(u, InLoc(p), m) BY <2>1 DEF Sits
  <2> QED BY <2>2, <2>3, LocFacts
<1>4. CASE \E p \in Proc : \E i \in At(burst[p], m) : u = <<"burst", p, i>>
  <2>1. PICK p \in Proc : \E i \in 1 .. Len(burst[p]) : burst[p][i] = m /\ u = <<"burst", p, i>>
    BY <1>1, <1>4 DEF At
  <2>2. m \in Held(BurstLoc(p)) BY <2>1, HeldIs DEF El
  <2>3. Sits(u, BurstLoc(p), m) BY <2>1 DEF Sits
  <2> QED BY <2>2, <2>3, LocFacts
<1>5. CASE \E p \in Proc, t \in Type : \E i \in At(out[p][t], m) : u = <<"out", p, t, i>>
  <2>1. PICK p \in Proc, t \in Type : \E i \in 1 .. Len(out[p][t]) : out[p][t][i] = m /\ u = <<"out", p, t, i>>
    BY <1>1, <1>5 DEF At
  <2>2. m \in Held(OutLoc(p, t)) BY <2>1, HeldIs DEF El
  <2>3. Sits(u, OutLoc(p, t), m) BY <2>1 DEF Sits
  <2> QED BY <2>2, <2>3, LocFacts
<1>6. CASE m \in InHand /\ u = <<"tool", m>>
  <2>1. m \in Held(HandLoc) /\ Sits(u, HandLoc, m) BY <1>6, HeldIs DEF Sits
  <2> QED BY <2>1, LocFacts
<1> QED BY <1>2, <1>3, <1>4, <1>5, <1>6, PlacesAre, PlacesAtAre

LEMMA LocHasPlace ==
  ASSUME TypeInv, NEW m \in Msg, NEW x \in Loc, m \in Held(x)
  PROVE  Places(m) # {}
<1>1. /\ pool[m] \in 0 .. 1
      /\ \A p \in Proc : /\ DOMAIN in[p] = 1 .. Len(in[p]) /\ DOMAIN burst[p] = 1 .. Len(burst[p])
                         /\ \A t \in Type : DOMAIN out[p][t] = 1 .. Len(out[p][t])
  BY DEF TypeInv, Ring
<1>2. CASE x = PoolLoc
  <2>1. 1 \in 1 .. pool[m] BY <1>1, <1>2, HeldIs DEF Pooled
  <2>2. <<"pool", 1>> \in Places(m) BY <2>1, PlacesAre
  <2> QED BY <2>2
<1>3. CASE x = HandLoc
  <2>1. <<"tool", m>> \in Places(m) BY <1>3, HeldIs, PlacesAre
  <2> QED BY <2>1
<1>4. CASE \E p \in Proc : x = InLoc(p)
  <2>1. PICK p \in Proc : m \in El(in[p]) BY <1>4, HeldIs
  <2>2. PICK i \in At(in[p], m) : TRUE BY <1>1, <2>1 DEF El, At
  <2>3. <<"in", p, i>> \in PlacesAt(p, m) BY <2>2, PlacesAtAre
  <2> QED BY <2>3, PlacesAre
<1>5. CASE \E p \in Proc : x = BurstLoc(p)
  <2>1. PICK p \in Proc : m \in El(burst[p]) BY <1>5, HeldIs
  <2>2. PICK i \in At(burst[p], m) : TRUE BY <1>1, <2>1 DEF El, At
  <2>3. <<"burst", p, i>> \in PlacesAt(p, m) BY <2>2, PlacesAtAre
  <2> QED BY <2>3, PlacesAre
<1>6. CASE \E p \in Proc, t \in Type : x = OutLoc(p, t)
  <2>1. PICK p \in Proc, t \in Type : m \in El(out[p][t]) BY <1>6, HeldIs
  <2>2. PICK i \in At(out[p][t], m) : TRUE BY <1>1, <2>1 DEF El, At
  <2>3. <<"out", p, t, i>> \in PlacesAt(p, m) BY <2>2, PlacesAtAre
  <2> QED BY <2>3, PlacesAre
<1> QED BY <1>2, <1>3, <1>4, <1>5, <1>6, LocCases

(* A location holds a message in one place. *)
LEMMA OnePlace ==
  ASSUME OnceInv, NEW m \in Msg, NEW x \in Loc, NEW u, NEW v, Sits(u, x, m), Sits(v, x, m)
  PROVE  u = v
<1>1. CASE x = PoolLoc \/ x = HandLoc
  <2>1. \A w : x = PoolLoc /\ Sits(w, x, m) => w = <<"pool", 1>>
    BY LocFacts, Zenon DEF Sits
  <2>2. \A w : x = HandLoc /\ Sits(w, x, m) => w = <<"tool", m>>
    BY LocFacts, Zenon DEF Sits
  <2> QED BY <1>1, <2>1, <2>2
<1>2. ASSUME NEW p \in Proc, x = InLoc(p) PROVE u = v
  <2>1. \A w : Sits(w, x, m) => \E i \in 1 .. Len(in[p]) : in[p][i] = m /\ w = <<"in", p, i>>
    BY <1>2, LocFacts DEF Sits
  <2>2. PICK i \in 1 .. Len(in[p]) : in[p][i] = m /\ u = <<"in", p, i>> BY <2>1
  <2>3. PICK j \in 1 .. Len(in[p]) : in[p][j] = m /\ v = <<"in", p, j>> BY <2>1
  <2>4. i = j BY <2>2, <2>3 DEF OnceInv, Once
  <2> QED BY <2>2, <2>3, <2>4
<1>3. ASSUME NEW p \in Proc, x = BurstLoc(p) PROVE u = v
  <2>1. \A w : Sits(w, x, m) => \E i \in 1 .. Len(burst[p]) : burst[p][i] = m /\ w = <<"burst", p, i>>
    BY <1>3, LocFacts DEF Sits
  <2>2. PICK i \in 1 .. Len(burst[p]) : burst[p][i] = m /\ u = <<"burst", p, i>> BY <2>1
  <2>3. PICK j \in 1 .. Len(burst[p]) : burst[p][j] = m /\ v = <<"burst", p, j>> BY <2>1
  <2>4. i = j BY <2>2, <2>3 DEF OnceInv, Once
  <2> QED BY <2>2, <2>3, <2>4
<1>4. ASSUME NEW p \in Proc, NEW t \in Type, x = OutLoc(p, t) PROVE u = v
  <2>1. \A w : Sits(w, x, m) => \E i \in 1 .. Len(out[p][t]) : out[p][t][i] = m /\ w = <<"out", p, t, i>>
    BY <1>4, LocFacts DEF Sits
  <2>2. PICK i \in 1 .. Len(out[p][t]) : out[p][t][i] = m /\ u = <<"out", p, t, i>> BY <2>1
  <2>3. PICK j \in 1 .. Len(out[p][t]) : out[p][t][j] = m /\ v = <<"out", p, t, j>> BY <2>1
  <2>4. i = j BY <2>2, <2>3 DEF OnceInv, Once
  <2> QED BY <2>2, <2>3, <2>4
<1> QED BY <1>1, <1>2, <1>3, <1>4, LocCases

LEMMA IInvOneHolder == IInv => OneHolder
<1> SUFFICES ASSUME IInv, NEW m \in Msg PROVE Cardinality(Places(m)) <= 1
  BY DEF OneHolder
<1>1. \A u, v \in Places(m) : u = v
  <2> SUFFICES ASSUME NEW u \in Places(m), NEW v \in Places(m) PROVE u = v OBVIOUS
  <2>1. TypeInv /\ Disjoint /\ OnceInv BY DEF IInv
  <2>2. PICK x \in Loc : m \in Held(x) /\ Sits(u, x, m) BY <2>1, PlaceHasLoc
  <2>3. PICK y \in Loc : m \in Held(y) /\ Sits(v, y, m) BY <2>1, PlaceHasLoc
  <2>4. x = y BY <2>1, <2>2, <2>3 DEF Disjoint
  <2> QED BY <2>1, <2>2, <2>3, <2>4, OnePlace
<1>2. CASE Places(m) = {}
  BY <1>2, FS_EmptySet
<1>3. CASE Places(m) # {}
  <2>1. PICK u : Places(m) = {u} BY <1>1, <1>3
  <2> QED BY <2>1, FS_Singleton
<1> QED BY <1>2, <1>3

LEMMA IInvAccounted == IInv => Accounted
<1> SUFFICES ASSUME IInv PROVE Accounted OBVIOUS
<1>1. TypeInv /\ LostInv BY DEF IInv
<1>2. \A m \in Msg : Places(m) = {} <=> \A x \in Loc : m \notin Held(x)
  BY <1>1, PlaceHasLoc, LocHasPlace
<1>3. {m \in Msg : Places(m) = {}} = Lost
  BY <1>2 DEF Lost
<1> QED BY <1>1, <1>3 DEF Accounted, LostInv

LEMMA IInvType == IInv => TypeOK
<1> SUFFICES ASSUME IInv PROVE TypeOK OBVIOUS
<1>1. TypeInv BY DEF IInv
<1>2. pool \in [Msg -> 0 .. 2] BY <1>1 DEF TypeInv
<1> QED BY <1>1, <1>2 DEF TypeInv, TypeOK

(* Every message ring stays within its size and every variable has its     *)
(* type: a message is never in the pool twice.                             *)
THEOREM TypeCorrect == ASSUME NoEarlyFree PROVE Spec => []TypeOK
BY Inductive, IInvType, PTL

(* A message is in one place at a time, however late the answers of the    *)
(* tools that gave up or were killed arrive.                               *)
THEOREM MessagesHaveOneHolder == ASSUME NoEarlyFree PROVE Spec => []OneHolder
BY Inductive, IInvOneHolder, PTL

(* Only a killed tool loses a message, and each kill at most one.          *)
THEOREM MessagesAreAccounted == ASSUME NoEarlyFree PROVE Spec => []Accounted
BY Inductive, IInvAccounted, PTL

(* ff_ipc_recv gives a tool the result of its own request and nobody       *)
(* else's.                                                                 *)
THEOREM AnswersAreOwn == ASSUME NoEarlyFree PROVE Spec => []OwnAnswer
<1>1. IInv => OwnAnswer BY DEF IInv, TrackInv, OwnAnswer
<1> QED BY <1>1, Inductive, PTL

(* A tool that has its answer has removed every stale answer before it.    *)
THEOREM RingsAreCleaned == ASSUME NoEarlyFree PROVE Spec => []CaughtUp
<1>1. IInv => CaughtUp BY DEF IInv, TrackInv, CaughtUp
<1> QED BY <1>1, Inductive, PTL

(* Whichever side frees a message, its extra buffer is gone from it.       *)
THEOREM BuffersAreOwn == ASSUME NoEarlyFree PROVE Spec => []OwnBuffer
<1>1. IInv => OwnBuffer BY DEF IInv
<1> QED BY <1>1, Inductive, PTL
=============================================================================

----------------------------- MODULE ProxyLemmas ----------------------------
(***************************************************************************)
(* Lemmas about Proxy that several of the other proof modules use:         *)
(* sequences and finite sets, the types of what a step touches, one Msg    *)
(* and a reply to one of its frags, what the longer actions do, and what   *)
(* any step does to a client (NextClient).                                 *)
(***************************************************************************)
EXTENDS ProxyInvariants, TLAPS

USE DEF vars, control, msgVars, clientVars, serverVars, timeoutVars, poolVars, redisVars
-----------------------------------------------------------------------------
(* Sequences: Msgs, Frags, queues, pools and task lists are sequences.      *)

\* The domain and the elements of a sequence.
LEMMA SeqFacts ==
  ASSUME NEW S, NEW q \in Seq(S)
  PROVE  /\ DOMAIN q = 1 .. Len(q) /\ Len(q) \in Nat
         /\ \A i \in DOMAIN q : q[i] \in S
OBVIOUS

\* A sequence over a set is one over a larger set.
LEMMA SeqGrow ==
  ASSUME NEW S, NEW T, S \subseteq T, NEW q \in Seq(S)
  PROVE  q \in Seq(T)
OBVIOUS

\* The head and the tail of a sequence that is not empty.
LEMMA SeqHeadTail ==
  ASSUME NEW S, NEW q \in Seq(S), q # <<>>
  PROVE  /\ Head(q) = q[1] /\ q[1] \in S /\ Tail(q) \in Seq(S)
         /\ Len(q) \in Nat \ {0} /\ Len(Tail(q)) = Len(q) - 1
         /\ DOMAIN q = 1 .. Len(q) /\ DOMAIN Tail(q) = 1 .. Len(q) - 1
         /\ \A i \in 1 .. Len(q) - 1 : Tail(q)[i] = q[i + 1]
OBVIOUS

\* The elements before the k-th.
LEMMA SeqBefore ==
  ASSUME NEW S, NEW q \in Seq(S), NEW k \in DOMAIN q
  PROVE  /\ SubSeq(q, 1, k - 1) \in Seq(S) /\ Len(SubSeq(q, 1, k - 1)) = k - 1
         /\ \A i \in 1 .. k - 1 : SubSeq(q, 1, k - 1)[i] = q[i]
OBVIOUS

\* Updating an element keeps a sequence a sequence (the Msg and Frag objects are
\* updated in place).
LEMMA SeqExcept ==
  ASSUME NEW S, NEW q \in Seq(S), NEW i \in DOMAIN q, NEW e \in S
  PROVE  /\ [q EXCEPT ![i] = e] \in Seq(S)
         /\ DOMAIN [q EXCEPT ![i] = e] = DOMAIN q
         /\ Len([q EXCEPT ![i] = e]) = Len(q)
<1>1. [q EXCEPT ![i] = e] \in [1 .. Len(q) -> S]
  OBVIOUS
<1> QED BY <1>1

\* A function on 1 .. n is a sequence of length n (lists built in one go: the
\* frags of a request).
LEMMA FcnIsSeq ==
  ASSUME NEW S, NEW n \in Nat, NEW f \in [1 .. n -> S]
  PROVE  f \in Seq(S) /\ Len(f) = n
OBVIOUS

\* Mapping the elements of a sequence gives a sequence of the same length (the
\* close tasks of Pool.Close, the flushed replies).
LEMMA SeqMap ==
  ASSUME NEW S, NEW T, NEW q \in Seq(S), NEW f \in [DOMAIN q -> T]
  PROVE  f \in Seq(T) /\ Len(f) = Len(q)
OBVIOUS

\* The type, the domain and the elements of s with e appended.
LEMMA SeqAppend ==
  ASSUME NEW S, NEW s \in Seq(S), NEW e \in S
  PROVE  /\ Append(s, e) \in Seq(S)
         /\ Len(Append(s, e)) = Len(s) + 1
         /\ DOMAIN Append(s, e) = DOMAIN s \cup {Len(s) + 1}
         /\ DOMAIN s = 1 .. Len(s) /\ Len(s) \in Nat
         /\ \A i \in DOMAIN s : Append(s, e)[i] = s[i]
         /\ Append(s, e)[Len(s) + 1] = e
OBVIOUS

\* The same for the concatenation of two sequences.
LEMMA SeqConcat ==
  ASSUME NEW S, NEW s \in Seq(S), NEW t \in Seq(S)
  PROVE  /\ s \o t \in Seq(S)
         /\ Len(s \o t) = Len(s) + Len(t)
         /\ DOMAIN s = 1 .. Len(s) /\ Len(s) \in Nat
         /\ DOMAIN t = 1 .. Len(t) /\ Len(t) \in Nat
         /\ DOMAIN (s \o t) = DOMAIN s \cup (Len(s) + 1 .. Len(s) + Len(t))
         /\ \A i \in DOMAIN s : (s \o t)[i] = s[i]
         /\ \A i \in Len(s) + 1 .. Len(s) + Len(t) : (s \o t)[i] = t[i - Len(s)]
OBVIOUS
-----------------------------------------------------------------------------
(* Msgs and Frags.                                                          *)

\* While OnCReact's loop runs, handling is its record.
LEMMA ReactHandling ==
  ASSUME ControlType, handling.op = "react"
  PROVE  handling \in ReactType
BY DEF ControlType, Idle, ReactType, ReloadType

\* MsgPool.Put leaves a Msg.
LEMMA PutMsgType == PutMsg \in MsgType /\ PutMsg.body = {}
BY Zenon DEF PutMsg, MsgType, NoReply, Types

\* FragPool.Get makes a Frag.
LEMMA NewFragType ==
  ASSUME NEW m \in Nat, NEW k \in Slot \cup {Nil}, NEW id \in Nat
  PROVE  /\ NewFrag(m, k, id) \in FragType
         /\ NewFrag(m, k, id).peer = m /\ NewFrag(m, k, id).slot = k
         /\ NewFrag(m, k, id).owner = Nil /\ ~NewFrag(m, k, id).ok
<1>1. NewFrag(m, k, id) \in FragType
  BY Zenon DEF NewFrag, FragType
<1>2. ~NewFrag(m, k, id).ok
  BY Zenon DEF NewFrag
<1>3. /\ NewFrag(m, k, id).peer = m /\ NewFrag(m, k, id).slot = k
      /\ NewFrag(m, k, id).owner = Nil
  BY Zenon DEF NewFrag
<1> QED BY <1>1, <1>2, <1>3, Zenon

\* Setting Done keeps the rest of a frag.
LEMMA FragDoneType ==
  ASSUME NEW o \in FragType, NEW x, x = [o EXCEPT !.done = TRUE]
  PROVE  /\ x \in FragType
         /\ x.peer = o.peer /\ x.slot = o.slot /\ x.owner = o.owner
         /\ x.ok = o.ok /\ x.rsp = o.rsp
<1>1. x.ok = o.ok
  BY Zenon DEF FragType
<1>2. x \in FragType /\ x.peer = o.peer /\ x.slot = o.slot /\ x.owner = o.owner /\ x.rsp = o.rsp
  BY Zenon DEF FragType
<1> QED BY <1>1, <1>2, Zenon
-----------------------------------------------------------------------------
(* Replies.                                                                 *)

\* closeConn keeps the types of the client connections.
LEMMA CloseClientType ==
  ASSUME ClientsType, NEW c \in Client, CloseClient(c), UNCHANGED <<asked, toClient>>,
         DOMAIN msg \subseteq DOMAIN msg'
  PROVE  ClientsType'
<1>1. \A d \in Client : inMsgQueue'[d] \in Seq(DOMAIN msg')
  <2>1. \A d \in Client : inMsgQueue'[d] \in Seq(DOMAIN msg)
    <3>1. /\ <<>> \in Seq(DOMAIN msg) /\ inMsgQueue \in [Client -> Seq(DOMAIN msg)]
          /\ inMsgQueue' = [inMsgQueue EXCEPT ![c] = <<>>]
      BY DEF ClientsType, CloseClient
    <3> QED BY <3>1, Zenon
  <2> QED BY <2>1, SeqGrow, Zenon
<1>2. inMsgQueue' \in [Client -> Seq(DOMAIN msg')]
  BY <1>1, Zenon DEF ClientsType, CloseClient
<1>3. cconn' \in [Client -> {"new", "open", "closed"}]
  BY Zenon DEF ClientsType, CloseClient
<1> QED BY <1>2, <1>3, Zenon DEF ClientsType

\* The client connections keep their types when Msgs are only added.
LEMMA ClientsGrow ==
  ASSUME ClientsType, UNCHANGED clientVars, DOMAIN msg \subseteq DOMAIN msg'
  PROVE  ClientsType'
<1>1. \A d \in Client : inMsgQueue[d] \in Seq(DOMAIN msg')
  BY SeqGrow, Zenon DEF ClientsType
<1> QED BY <1>1, Zenon DEF ClientsType

\* The reply that is taken and the frag and Msg it is paired with.
LEMMA TakeReplyType ==
  ASSUME TypeOK, NEW s \in SConn, TakeReply(s)
  PROVE  /\ Answered(s) \in DOMAIN frag /\ frag[Answered(s)] \in FragType
         /\ Answer(s) \in AnswerType /\ Answer(s).frag \in DOMAIN frag /\ Answer(s).frag \in Ids
         /\ handling = Idle
         /\ frag[Answered(s)].owner # Nil =>
              /\ frag[Answered(s)].owner \in Client
              /\ Peer(s) \in DOMAIN msg /\ msg[Peer(s)] \in MsgType
<1>1. Answered(s) \in DOMAIN frag /\ frag[Answered(s)] \in FragType
  <2>1. inFragQueue[s] \in Seq(DOMAIN frag) /\ inFragQueue[s] # <<>>
    BY Zenon DEF TypeOK, ServersType, TakeReply
  <2>2. Answered(s) \in DOMAIN frag
    BY <2>1, SeqHeadTail DEF Answered
  <2> QED BY <2>2, SeqFacts, Zenon DEF TypeOK, FragsType
<1>2. Answer(s) \in AnswerType
  <2>1. fromRedis[s] \in Seq(AnswerType) /\ fromRedis[s] # <<>>
    BY Zenon DEF TypeOK, ServersType, TakeReply
  <2> QED BY <2>1, SeqHeadTail, Zenon DEF Answer
<1>3. Answer(s).frag \in DOMAIN frag
  BY <1>2, Zenon DEF AnswerType
<1>4. DOMAIN frag \subseteq Ids /\ DOMAIN msg = 1 .. Len(msg)
  <2>1. DOMAIN frag = 1 .. Len(frag) /\ Len(frag) \in Nat
    BY SeqFacts, Zenon DEF TypeOK, FragsType
  <2>2. DOMAIN msg = 1 .. Len(msg)
    BY SeqFacts, Zenon DEF TypeOK, MsgsType
  <2> QED BY <2>1, <2>2 DEF Ids
<1>5. ASSUME frag[Answered(s)].owner # Nil
      PROVE  /\ frag[Answered(s)].owner \in Client
             /\ Peer(s) \in DOMAIN msg /\ msg[Peer(s)] \in MsgType
  <2>1. frag[Answered(s)].owner \in Client
    BY <1>1, <1>5, Zenon DEF FragType
  <2>2. Peer(s) \in DOMAIN msg
    BY <1>1, <1>5, Zenon DEF Peer, TypeOK, FragsType
  <2> QED BY <2>1, <2>2, <1>4, SeqFacts, Zenon DEF TypeOK, MsgsType
<1> QED BY <1>1, <1>2, <1>3, <1>4, <1>5, Zenon DEF TakeReply, LoopFree

\* One frag is updated in place.
LEMMA FragEditedType ==
  ASSUME FragsType, NEW a \in DOMAIN frag, NEW x \in FragType,
         x.peer = frag[a].peer, x.slot = frag[a].slot, x.owner = frag[a].owner,
         x.ok => x.rsp # 0
  PROVE  FragsEdited([frag EXCEPT ![a] = x])
<1> DEFINE fs == [frag EXCEPT ![a] = x]
<1>1. fs \in Seq(FragType) /\ DOMAIN fs = DOMAIN frag
  BY SeqExcept, Zenon DEF FragsType
<1>2. fs[a] = x /\ \A f \in DOMAIN frag : f # a => fs[f] = frag[f]
  BY Zenon
<1> HIDE DEF fs
<1>3. FragsEdited(fs)
  BY <1>1, <1>2, Zenon DEF FragsEdited, FragsType
<1> QED BY <1>3, Zenon DEF fs

\* What MGet, MSet and Del record in a frag.
LEMMA FragAnsweredType ==
  ASSUME FragsType, NEW a \in DOMAIN frag, frag[a] \in FragType, NEW r \in Ids, NEW b \in BOOLEAN
  PROVE  /\ FragsEdited([frag EXCEPT ![a].done = TRUE])
         /\ FragsEdited([frag EXCEPT ![a].done = TRUE, ![a].rsp = r])
         /\ FragsEdited([frag EXCEPT ![a].done = TRUE, ![a].rsp = r, ![a].ok = b])
<1> DEFINE o == frag[a]
           x == [o EXCEPT !.done = TRUE]
           y == [o EXCEPT !.done = TRUE, !.rsp = r]
           z == [o EXCEPT !.done = TRUE, !.rsp = r, !.ok = b]
<1>0. /\ [frag EXCEPT ![a].done = TRUE] = [frag EXCEPT ![a] = x]
      /\ [frag EXCEPT ![a].done = TRUE, ![a].rsp = r] = [frag EXCEPT ![a] = y]
      /\ [frag EXCEPT ![a].done = TRUE, ![a].rsp = r, ![a].ok = b] = [frag EXCEPT ![a] = z]
  BY Zenon
<1>1. o \in FragType /\ r \in Nat /\ r # 0
  BY Zenon DEF Ids
<1>2. o.ok => o.rsp # 0
  BY Zenon DEF FragsType
<1>3. FragsEdited([frag EXCEPT ![a] = x])
  <2> HIDE DEF o
  <2>1. /\ x \in FragType /\ x.peer = o.peer /\ x.slot = o.slot /\ x.owner = o.owner
        /\ x.ok = o.ok /\ x.rsp = o.rsp
    BY <1>1, FragDoneType, Zenon
  <2> HIDE DEF x
  <2> QED BY <2>1, <1>2, FragEditedType, Zenon DEF o
<1>4. FragsEdited([frag EXCEPT ![a] = y])
  <2> HIDE DEF o
  <2>1. y \in FragType /\ y.peer = o.peer /\ y.slot = o.slot /\ y.owner = o.owner /\ y.rsp = r
    BY <1>1, Zenon DEF FragType
  <2> HIDE DEF y
  <2> QED BY <2>1, <1>1, FragEditedType, Zenon DEF o
<1>5. FragsEdited([frag EXCEPT ![a] = z])
  <2> HIDE DEF o
  <2>1. z \in FragType /\ z.peer = o.peer /\ z.slot = o.slot /\ z.owner = o.owner /\ z.rsp = r
    BY <1>1, Zenon DEF FragType
  <2> HIDE DEF z
  <2> QED BY <2>1, <1>1, FragEditedType, Zenon DEF o
<1> HIDE DEF x, y, z
<1> QED BY <1>0, <1>3, <1>4, <1>5, Zenon

\* What the Msgs of a reply are made of.
LEMMA FromType ==
  ASSUME TypeOK, NEW fs, FragsEdited(fs), NEW p \in DOMAIN msg
  PROVE  {fs[g].rsp : g \in msg[p].body} \in SUBSET Nat
<1>1. msg[p].body \subseteq DOMAIN fs
  BY Zenon DEF TypeOK, MsgsType, FragsEdited
<1>2. \A g \in DOMAIN fs : fs[g] \in FragType
  BY SeqFacts, Zenon DEF FragsEdited
<1> QED BY <1>1, <1>2, Zenon DEF FragType
-----------------------------------------------------------------------------
(* What a step does not touch keeps its type, and the pieces of the actions. *)

\* The handler's record outlives new Msgs and Frags.
LEMMA HandlingGrow ==
  ASSUME ControlType, Growth
  PROVE  handling = Idle \/ handling \in ReactType' \/ handling \in ReloadType
BY Zenon DEF ControlType, Growth, ReactType

\* So does everything else the loop keeps.
LEMMA ControlGrow ==
  ASSUME ControlType, Growth, UNCHANGED <<status, handling, ticks>>, tasks' \in Seq(TaskType)
  PROVE  ControlType'
<1>1. handling' = Idle \/ handling' \in ReactType' \/ handling' \in ReloadType
  BY HandlingGrow, Zenon
<1> QED BY <1>1, Zenon DEF ControlType, ReloadType

\* New Frags do not disturb the queues and replies there are.
LEMMA QueuesGrow ==
  ASSUME ServersType, Growth
  PROVE  /\ outFragQueue \in [SConn -> Seq(DOMAIN frag')]
         /\ inFragQueue \in [SConn -> Seq(DOMAIN frag')]
         /\ toRedis \in [SConn -> Seq(DOMAIN frag')]
         /\ fromRedis \in [SConn -> Seq(AnswerType')]
<1>1. \A q \in Seq(DOMAIN frag) : q \in Seq(DOMAIN frag')
  BY SeqGrow, Zenon DEF Growth
<1>2. AnswerType \subseteq AnswerType'
  BY Zenon DEF AnswerType, Growth
<1>3. \A q \in Seq(AnswerType) : q \in Seq(AnswerType')
  BY <1>2, SeqGrow, Zenon
<1> QED BY <1>1, <1>3, Zenon DEF ServersType

\* Server connections that no step touches.
LEMMA ServersGrow ==
  ASSUME ServersType, Growth, UNCHANGED serverVars
  PROVE  ServersType'
BY QueuesGrow, Zenon DEF ServersType

\* A timeout tree that no step touches.
LEMMA TimeoutsGrow ==
  ASSUME TimeoutsType, Growth, UNCHANGED timeoutVars
  PROVE  TimeoutsType'
BY Zenon DEF TimeoutsType, Growth

\* deleteFromTimeoutQueue.
LEMMA TimeoutsDeleted ==
  ASSUME TimeoutsType, Growth, NEW fs, DeleteFromTimeoutQueue(fs)
  PROVE  TimeoutsType'
<1> DEFINE left == DOMAIN timeoutTree \ fs
<1>1. timeoutTree' = [f \in left |-> timeoutTree[f]] /\ clock' \in Nat
  BY Zenon DEF DeleteFromTimeoutQueue, TimeoutsType
<1>2. left \subseteq DOMAIN timeoutTree
  BY Zenon
<1> HIDE DEF left
<1>3. DOMAIN timeoutTree' = left /\ timeoutTree' \in [left -> Nat]
  BY <1>1, <1>2, Zenon DEF TimeoutsType
<1>4. left \subseteq {f \in DOMAIN frag' : frag'[f].owner # Nil}
  BY <1>2, Zenon DEF TimeoutsType, Growth
<1> QED BY <1>1, <1>3, <1>4, Zenon DEF TimeoutsType

\* Pool.Get keeps the pools lists of connections.
LEMMA PoolGetType ==
  ASSUME PoolsType, ServersType, NEW s \in SConn, PoolGet(s)
  PROVE  active' \in [Addr -> Seq(SConn)] /\ sconn' \in [SConn -> {"new", "open", "closed"}]
<1>0. s[1] \in Addr /\ active[s[1]] \in Seq(SConn)
  BY Zenon DEF SConn, PoolsType
<1>1. <<s>> \in Seq(SConn) /\ <<>> \in Seq(SConn)
  OBVIOUS
<1>2. CASE Dial(s)
  <2>1. Kept(s[1]) \in Seq(SConn)
    BY <1>0, <1>1, Zenon DEF Kept
  <2>2. <<s>> \o Kept(s[1]) \in Seq(SConn)
    BY <1>1, <2>1, SeqConcat, Zenon
  <2> QED BY <2>2, <1>0, <1>2, Zenon DEF Dial, PoolsType, ServersType
<1>3. CASE Rotate(s)
  <2>1. PICK k \in DOMAIN active[s[1]] :
          active' = [active EXCEPT ![s[1]] = <<s>> \o SubSeq(active[s[1]], 1, k - 1)]
    BY <1>3, Zenon DEF Rotate
  <2>2. SubSeq(active[s[1]], 1, k - 1) \in Seq(SConn)
    <3>1. DOMAIN active[s[1]] = 1 .. Len(active[s[1]]) /\ Len(active[s[1]]) \in Nat
      BY <1>0, SeqFacts, Zenon
    <3> QED BY <1>0, <3>1, SeqBefore, Zenon
  <2>3. <<s>> \o SubSeq(active[s[1]], 1, k - 1) \in Seq(SConn)
    BY <1>1, <2>2, SeqConcat, Zenon
  <2> QED BY <2>1, <2>3, <1>0, <1>3, Zenon DEF Rotate, PoolsType, ServersType
<1> QED BY <1>2, <1>3, Zenon DEF PoolGet

\* Pool.Get failing to dial.
LEMMA PoolGetNilType ==
  ASSUME PoolsType, NEW a, PoolGetNil(a)
  PROVE  active' \in [Addr -> Seq(SConn)]
<1>1. a \in Addr => Kept(a) \in Seq(SConn)
  BY DEF Kept, PoolsType
<1> QED BY <1>1, Zenon DEF PoolGetNil, PoolsType

\* A write, cluster or close task of a connection.
LEMMA ServerTaskType ==
  ASSUME tasks \in Seq(TaskType), NEW s \in SConn, NEW op \in {"write", "cluster", "close"}
  PROVE  Task(op, s, 0) \in TaskType /\ Append(tasks, Task(op, s, 0)) \in Seq(TaskType)
<1>1. Task(op, s, 0) \in TaskType
  BY Zenon DEF Task, TaskType
<1> QED BY <1>1, SeqAppend, Zenon

\* EnqueueOutFrag.
LEMMA EnqueueOutFragType ==
  ASSUME ServersType, tasks \in Seq(TaskType), NEW s \in SConn, NEW f \in DOMAIN frag,
         EnqueueOutFrag(s, f)
  PROVE  outFragQueue' \in [SConn -> Seq(DOMAIN frag)] /\ tasks' \in Seq(TaskType)
<1>1. Append(outFragQueue[s], f) \in Seq(DOMAIN frag)
  BY SeqAppend, Zenon DEF ServersType
<1>2. tasks' \in Seq(TaskType)
  BY ServerTaskType, Zenon DEF EnqueueOutFrag
<1> QED BY <1>1, <1>2, Zenon DEF EnqueueOutFrag, ServersType

\* Decode and DequeueInFrag.
LEMMA TakeReplyServers ==
  ASSUME ServersType, TimeoutsType, Growth, NEW s \in SConn, TakeReply(s)
  PROVE  /\ TimeoutsType'
         /\ inFragQueue' \in [SConn -> Seq(DOMAIN frag')]
         /\ toRedis' \in [SConn -> Seq(DOMAIN frag')]
         /\ fromRedis' \in [SConn -> Seq(AnswerType')]
<1>1. TimeoutsType'
  BY TimeoutsDeleted, Zenon DEF TakeReply
<1>2. inFragQueue[s] \in Seq(DOMAIN frag') /\ inFragQueue[s] # <<>>
  BY QueuesGrow, Zenon DEF TakeReply
<1>3. fromRedis[s] \in Seq(AnswerType') /\ fromRedis[s] # <<>>
  BY QueuesGrow, Zenon DEF TakeReply
<1>4. Tail(inFragQueue[s]) \in Seq(DOMAIN frag')
  BY <1>2, SeqHeadTail, Zenon
<1>5. Tail(fromRedis[s]) \in Seq(AnswerType')
  BY <1>3, SeqHeadTail, Zenon
<1>6. inFragQueue' \in [SConn -> Seq(DOMAIN frag')]
  BY <1>4, QueuesGrow, Zenon DEF TakeReply
<1>7. fromRedis' \in [SConn -> Seq(AnswerType')]
  BY <1>5, QueuesGrow, Zenon DEF TakeReply
<1>8. toRedis' \in [SConn -> Seq(DOMAIN frag')]
  BY QueuesGrow, Zenon DEF TakeReply
<1> QED BY <1>1, <1>6, <1>7, <1>8, Zenon

\* A step keeps TypeOK if it keeps the types of what it touches.
LEMMA FrameType ==
  ASSUME TypeOK, MsgsType' /\ FragsType' /\ Growth,
         control' = control \/ ControlType',
         clientVars' = clientVars \/ ClientsType',
         serverVars' = serverVars \/ ServersType',
         timeoutVars' = timeoutVars \/ TimeoutsType',
         poolVars' = poolVars \/ PoolsType',
         redisVars' = redisVars \/ RedisType'
  PROVE  TypeOK'
<1>0. /\ ControlType /\ MsgsType /\ FragsType /\ ClientsType /\ ServersType
      /\ TimeoutsType /\ PoolsType /\ RedisType
  BY Zenon DEF TypeOK
<1>1. control' = control => ControlType'
  BY <1>0, ControlGrow, Zenon DEF ControlType
<1>2. clientVars' = clientVars => ClientsType'
  BY <1>0, ClientsGrow, Zenon DEF Growth
<1>3. serverVars' = serverVars => ServersType'
  BY <1>0, ServersGrow, Zenon
<1>4. timeoutVars' = timeoutVars => TimeoutsType'
  BY <1>0, TimeoutsGrow, Zenon
<1>5. poolVars' = poolVars => PoolsType'
  BY <1>0, Zenon DEF PoolsType
<1>6. redisVars' = redisVars => RedisType'
  BY <1>0, Zenon DEF RedisType
<1> QED BY <1>1, <1>2, <1>3, <1>4, <1>5, <1>6, Zenon DEF TypeOK
-----------------------------------------------------------------------------
(* TypeOK.  One lemma per action; under it, one step per group of variables *)
(* that the action disturbs.                                                *)

\* The task the poller runs next.
LEMMA TaskTaken ==
  ASSUME ControlType, tasks # <<>>
  PROVE  /\ Tail(tasks) \in Seq(TaskType)
         /\ Head(tasks).op \in {"write", "cluster", "close"} => Head(tasks).conn \in SConn
         /\ Head(tasks).op = "reply" => Head(tasks).conn \in Client /\ Head(tasks).id \in Nat
<1>1. Head(tasks) \in TaskType /\ Tail(tasks) \in Seq(TaskType)
  BY SeqHeadTail DEF ControlType
<1>2. Head(tasks).op \in {"write", "cluster", "close"} => Head(tasks).conn \in SConn
  BY <1>1, Zenon DEF TaskType
<1>3. Head(tasks).op = "reply" => Head(tasks).conn \in Client /\ Head(tasks).id \in Nat
  BY <1>1, Zenon DEF TaskType
<1> QED BY <1>1, <1>2, <1>3, Zenon
-----------------------------------------------------------------------------
(* Timeouts and the replies of Redis.                                       *)

\* The server connections after Decode, if the rest of sread leaves them alone.
LEMMA ReplyTakenServers ==
  ASSUME TypeOK, Growth, NEW s \in SConn, TakeReply(s), UNCHANGED <<sconn, outFragQueue>>
  PROVE  ServersType' /\ TimeoutsType'
<1>0. ServersType /\ TimeoutsType
  BY Zenon DEF TypeOK
<1>1. /\ TimeoutsType'
      /\ inFragQueue' \in [SConn -> Seq(DOMAIN frag')]
      /\ toRedis' \in [SConn -> Seq(DOMAIN frag')]
      /\ fromRedis' \in [SConn -> Seq(AnswerType')]
  BY <1>0, TakeReplyServers, Zenon
<1>2. outFragQueue' \in [SConn -> Seq(DOMAIN frag')]
  BY <1>0, QueuesGrow, Zenon
<1> QED BY <1>0, <1>1, <1>2, Zenon DEF ServersType
-----------------------------------------------------------------------------
(* Finite sets: the bodies of Msgs.                                         *)

\* The size of a finite set.
LEMMA CardNat ==
  ASSUME FiniteSetFacts, NEW S, IsFiniteSet(S)
  PROVE  Cardinality(S) \in Nat
BY Zenon DEF FiniteSetFacts

\* A part of a finite set.
LEMMA CardSubset ==
  ASSUME FiniteSetFacts, NEW S, IsFiniteSet(S), NEW T \in SUBSET S
  PROVE  /\ IsFiniteSet(T) /\ Cardinality(T) <= Cardinality(S)
         /\ Cardinality(S) = Cardinality(T) => S = T
BY Zenon DEF FiniteSetFacts

\* One frag more.
LEMMA CardAdd ==
  ASSUME FiniteSetFacts, NEW S, NEW x, IsFiniteSet(S)
  PROVE  /\ IsFiniteSet(S \cup {x})
         /\ Cardinality(S \cup {x}) = IF x \in S THEN Cardinality(S) ELSE Cardinality(S) + 1
BY Zenon DEF FiniteSetFacts
-----------------------------------------------------------------------------
(* One Msg, and a reply to one of its frags.                                *)

\* A Msg whose frags are as before, but for their owners.
LEMMA SoundKept ==
  ASSUME NEW r, NEW F, NEW G, MsgSound(r, F),
         \A f \in r.body : /\ f \in DOMAIN G /\ G[f].req = F[f].req
                           /\ G[f].done = F[f].done /\ G[f].rsp = F[f].rsp,
         \A f \in DOMAIN G \ r.body : G[f].req # r.id
  PROVE  MsgSound(r, G)
<1>1. r.body = {f \in DOMAIN G : G[f].req = r.id}
  BY Zenon DEF MsgSound
<1>2. DoneOf(r.body, G) = DoneOf(r.body, F)
  BY Zenon DEF DoneOf
<1>3. Finished(r, F) => Finished(r, G)
  BY Zenon DEF Finished
<1>4. (Partial(r, G) => Partial(r, F)) /\ (Gathered(r, F) => Gathered(r, G))
  BY <1>2, Zenon DEF Partial, Gathered
<1>5. r.type = "default" \/ Single => \E f \in DOMAIN G : r.body = {f}
  BY Zenon DEF MsgSound
<1> QED BY <1>1, <1>3, <1>4, <1>5, Zenon DEF MsgSound

\* The frags that are done once f is.
LEMMA DoneGrows ==
  ASSUME FiniteSetFacts, NEW b, NEW F, NEW G, NEW f \in b, b \subseteq DOMAIN F, IsFiniteSet(b),
         ~F[f].done, Marked(F, G, {f})
  PROVE  /\ DoneOf(b, G) = DoneOf(b, F) \cup {f} /\ f \notin DoneOf(b, F)
         /\ Cardinality(DoneOf(b, G)) = Cardinality(DoneOf(b, F)) + 1
         /\ Cardinality(DoneOf(b, F)) \in Nat /\ Cardinality(b) \in Nat
         /\ Cardinality(DoneOf(b, G)) >= Cardinality(b) => \A g \in b : G[g].done
<1>1. DoneOf(b, G) = DoneOf(b, F) \cup {f} /\ f \notin DoneOf(b, F)
  BY Zenon DEF DoneOf, Marked
<1>2. DoneOf(b, F) \subseteq b /\ DoneOf(b, G) \subseteq b
  BY Zenon DEF DoneOf
<1>3. IsFiniteSet(DoneOf(b, F)) /\ IsFiniteSet(DoneOf(b, G))
  BY <1>2, CardSubset, Zenon
<1>4. Cardinality(DoneOf(b, G)) = Cardinality(DoneOf(b, F)) + 1
  BY <1>1, <1>3, CardAdd, Zenon
<1>5. Cardinality(DoneOf(b, F)) \in Nat /\ Cardinality(b) \in Nat
  BY <1>3, CardNat, Zenon
<1>6. ASSUME Cardinality(DoneOf(b, G)) >= Cardinality(b) PROVE \A g \in b : G[g].done
  <2>1. Cardinality(DoneOf(b, G)) = Cardinality(b)
    BY <1>2, <1>4, <1>5, <1>6, CardSubset
  <2>2. DoneOf(b, G) = b
    BY <2>1, <1>2, CardSubset, Zenon
  <2> QED BY <2>2, Zenon DEF DoneOf
<1> QED BY <1>1, <1>4, <1>5, <1>6, Zenon

\* A frag that is not the last (Continue).
LEMMA SoundContinue ==
  ASSUME FiniteSetFacts, NEW r, NEW x, NEW F, NEW G, NEW f \in r.body, MsgSound(r, F), ~F[f].done,
         Marked(F, G, {f}), SameRequest(x, r), Brought(x, r, G, f),
         x.ndone = r.ndone + 1, x.done = r.done
  PROVE  MsgSound(x, G) /\ (x.ndone # Cardinality(r.body) => Partial(x, G))
<1>0. /\ Gathered(r, F) /\ r.body \subseteq DOMAIN F /\ IsFiniteSet(r.body) /\ ~r.done
  BY Zenon DEF MsgSound, Partial, Finished
<1>1. /\ DoneOf(r.body, G) = DoneOf(r.body, F) \cup {f}
      /\ Cardinality(DoneOf(r.body, G)) = Cardinality(DoneOf(r.body, F)) + 1
  BY <1>0, DoneGrows, Zenon
<1>2. Gathered(x, G)
  <2>1. x.ndone = Cardinality(DoneOf(x.body, G))
    BY <1>0, <1>1, Zenon DEF Gathered, SameRequest
  <2>2. x.type \in {"mget", "mset"} => \A g \in x.body : G[g].done => G[g].rsp = g
    BY <1>0, Zenon DEF Gathered, SameRequest, Brought, Marked
  <2>3. x.type = "del" => x.del = DoneOf(x.body, G)
    BY <1>0, <1>1, Zenon DEF Gathered, SameRequest, Brought
  <2> QED BY <2>1, <2>2, <2>3, Zenon DEF Gathered
<1>3. x.body = {g \in DOMAIN G : G[g].req = x.id}
  BY DEF MsgSound, SameRequest, Marked
<1>4. /\ x.id # 0 /\ x.type \in Types /\ x.body # {} /\ IsFiniteSet(x.body)
      /\ x.type = "default" \/ Single => \E g \in DOMAIN G : x.body = {g}
  BY Zenon DEF MsgSound, SameRequest, Marked
<1>5. x.ndone # Cardinality(r.body) => Partial(x, G)
  <2>1. x.ndone # Cardinality(r.body) => DoneOf(r.body, G) # r.body
    BY <1>0, <1>1, Zenon DEF Gathered
  <2> QED BY <2>1, Zenon DEF DoneOf, Partial, SameRequest
<1> QED BY <1>0, <1>2, <1>3, <1>4, <1>5, Zenon DEF MsgSound

\* The frag FragDoneNumber takes for the last one is (Complete): the Msg is done,
\* and data in its reply is that of all its frags.
LEMMA SoundComplete ==
  ASSUME FiniteSetFacts, NEW r, NEW x, NEW F, NEW G, NEW f \in r.body, MsgSound(r, F), ~F[f].done,
         Marked(F, G, {f}), SameRequest(x, r), Brought(x, r, G, f),
         x.ndone = r.ndone + 1, r.ndone + 1 >= Cardinality(r.body) \/ r.type = "default",
         \/ x.rsp.kind = "error"
         \/ r.type \in {"mget", "mset"} /\ x.rsp.from = {G[g].rsp : g \in r.body}
         \/ r.type = "del" /\ x.rsp.from = x.del
         \/ r.type = "default" /\ x.rsp.from = {f}
  PROVE  MsgSound(x, G) /\ Finished(x, G)
<1>0. /\ Gathered(r, F) /\ r.body \subseteq DOMAIN F /\ IsFiniteSet(r.body)
      /\ r.ndone = Cardinality(DoneOf(r.body, F)) /\ r.type \in Types
  BY Zenon DEF MsgSound, Partial, Gathered
<1>1. /\ DoneOf(r.body, G) = DoneOf(r.body, F) \cup {f}
      /\ Cardinality(DoneOf(r.body, G)) = Cardinality(DoneOf(r.body, F)) + 1
      /\ Cardinality(DoneOf(r.body, F)) \in Nat /\ Cardinality(r.body) \in Nat
      /\ Cardinality(DoneOf(r.body, G)) >= Cardinality(r.body) => \A g \in r.body : G[g].done
  BY <1>0, DoneGrows, Zenon
<1>2. r.type = "default" => r.body = {f}
  BY Zenon DEF MsgSound
<1>3. \A g \in r.body : G[g].done
  <2>1. CASE r.type = "default"
    BY <2>1, <1>2, <1>0, Zenon DEF Marked
  <2>2. CASE r.ndone + 1 >= Cardinality(r.body)
    BY <2>2, <1>0, <1>1, Zenon
  <2> QED BY <2>1, <2>2, Zenon
<1>4. DoneOf(r.body, G) = r.body
  BY <1>3, Zenon DEF DoneOf
<1>5. x.ndone = Cardinality(x.body)
  BY <1>0, <1>1, <1>4, Zenon DEF SameRequest
<1>6. x.rsp.kind = "data" => x.rsp.from = x.body
  <2>1. CASE r.type \in {"mget", "mset"} /\ x.rsp.from = {G[g].rsp : g \in r.body}
    <3>1. \A g \in r.body : G[g].rsp = g
      BY <2>1, <1>0, <1>3, Zenon DEF Gathered, Brought, Marked
    <3> QED BY <3>1, <2>1 DEF SameRequest
  <2>2. CASE r.type = "del" /\ x.rsp.from = x.del
    BY <2>2, <1>0, <1>1, <1>4, Zenon DEF Gathered, Brought, SameRequest
  <2>3. CASE r.type = "default" /\ x.rsp.from = {f}
    BY <2>3, <1>2, Zenon DEF SameRequest
  <2> QED BY <2>1, <2>2, <2>3, Zenon
<1>7. Finished(x, G)
  BY <1>3, <1>5, <1>6, Zenon DEF Finished, SameRequest
<1>8. ~Partial(x, G)
  BY <1>3, Zenon DEF Partial, SameRequest
<1>9. x.body = {g \in DOMAIN G : G[g].req = x.id}
  BY DEF MsgSound, SameRequest, Marked
<1>10. /\ x.id # 0 /\ x.type \in Types /\ x.body # {} /\ IsFiniteSet(x.body)
       /\ x.type = "default" \/ Single => \E g \in DOMAIN G : x.body = {g}
  BY Zenon DEF MsgSound, SameRequest, Marked
<1> QED BY <1>7, <1>8, <1>9, <1>10, Zenon DEF MsgSound

\* A request that failed as a whole: it timed out, or a reply was too large.
LEMMA SoundFailed ==
  ASSUME NEW r, NEW x, NEW F, NEW G, NEW f \in r.body, MsgSound(r, F), ~F[f].done,
         Marked(F, G, r.body), SameRequest(x, r),
         \/ x.done = r.done
         \/ x.ndone = Cardinality(r.body) /\ x.rsp.kind = "error"
  PROVE  MsgSound(x, G) /\ ~Partial(x, G)
<1>0. r.body \subseteq DOMAIN F /\ ~r.done
  BY Zenon DEF MsgSound, Finished
<1>1. \A g \in r.body : G[g].done
  BY <1>0, Zenon DEF Marked
<1>2. ~Partial(x, G)
  BY <1>1, Zenon DEF Partial, SameRequest
<1>3. x.done => Finished(x, G)
  BY <1>0, <1>1, Zenon DEF Finished, SameRequest
<1>4. x.body = {g \in DOMAIN G : G[g].req = x.id}
  BY DEF MsgSound, SameRequest, Marked
<1>5. /\ x.id # 0 /\ x.type \in Types /\ x.body # {} /\ IsFiniteSet(x.body)
      /\ x.type = "default" \/ Single => \E g \in DOMAIN G : x.body = {g}
  BY Zenon DEF MsgSound, SameRequest, Marked
<1> QED BY <1>2, <1>3, <1>4, <1>5, Zenon DEF MsgSound
-----------------------------------------------------------------------------
(* Steps that neither decode nor dispatch a request, nor answer one.        *)

\* What the loop is doing between two handlers.
LEMMA IdleNotReact == Idle.op # "react" /\ Idle.op # "ticker" /\ (LoopFree => handling.op # "react")
BY DEF Idle, LoopFree

\* Tasks that are left alone, taken from the front, or joined by tasks that write
\* no reply.
LEMMA RepliesPendingSame == tasks' = tasks /\ tasks \in Seq(TaskType) => RepliesPending
<1> SUFFICES ASSUME tasks' = tasks, tasks \in Seq(TaskType) PROVE RepliesPending
  BY Zenon
<1>1. \A i \in DOMAIN tasks : i + 0 = i
  BY SeqFacts
<1> QED BY <1>1, Zenon DEF RepliesPending

\* The front task has run.
LEMMA RepliesPendingTail ==
  tasks \in Seq(TaskType) /\ tasks # <<>> /\ tasks' = Tail(tasks) => RepliesPending
<1> SUFFICES ASSUME tasks \in Seq(TaskType), tasks # <<>>, tasks' = Tail(tasks)
             PROVE  RepliesPending
  BY Zenon
<1>1. \A i \in DOMAIN tasks' : i + 1 \in DOMAIN tasks /\ tasks'[i] = tasks[i + 1]
  BY SeqHeadTail
<1> QED BY <1>1, Zenon DEF RepliesPending

\* The tasks of a connection to Redis.
LEMMA ServerTask ==
  ASSUME NEW op \in {"write", "cluster", "close"}, NEW s \in SConn
  PROVE  Task(op, s, 0) \in TaskType /\ Task(op, s, 0).op = op /\ op # "reply"
BY Zenon DEF Task, TaskType

\* One such task joins.
LEMMA RepliesPendingAppend ==
  ASSUME tasks \in Seq(TaskType), NEW op \in {"write", "cluster", "close"}, NEW s \in SConn,
         tasks' = Append(tasks, Task(op, s, 0))
  PROVE  RepliesPending
<1>1. /\ DOMAIN tasks' = DOMAIN tasks \cup {Len(tasks) + 1}
      /\ \A i \in DOMAIN tasks : tasks'[i] = tasks[i] /\ i + 0 = i
      /\ tasks'[Len(tasks) + 1] = Task(op, s, 0)
  BY ServerTask, SeqAppend, SMTT(20)
<1>2. \A i \in DOMAIN tasks' :
        tasks'[i].op = "reply" => i + 0 \in DOMAIN tasks /\ tasks'[i] = tasks[i + 0]
  BY <1>1, ServerTask, Zenon
<1> QED BY <1>2, Zenon DEF RepliesPending

\* Only the handler, the tasks and connections to Redis have changed.
LEMMA QuietServer ==
  ASSUME TypeOK, UNCHANGED <<msgVars, frag, clientVars>>, HandlingQuiet, RepliesPending
  PROVE  Quiet
<1>1. MsgsQuiet
  BY Zenon DEF MsgsQuiet
<1>2. FragsQuiet
  BY Zenon DEF FragsQuiet
<1>3. \A c \in Client : ClientQuiet(c)
  BY Zenon DEF ClientQuiet
<1> QED BY <1>1, <1>2, <1>3, Zenon DEF Quiet

\* writeClusterNodes: the new frag has no client.
LEMMA QuietWriteClusterNodes ==
  ASSUME TypeOK, WriteClusterNodes
  PROVE  Quiet
<1> DEFINE s == Head(tasks).conn
           n == NewFrag(0, Nil, 0)
<1>0. tasks \in Seq(TaskType) /\ tasks # <<>> /\ Head(tasks).op = "cluster"
  BY Zenon DEF TypeOK, ControlType, WriteClusterNodes
<1>1. s \in SConn /\ Tail(tasks) \in Seq(TaskType)
  BY <1>0, SeqHeadTail, SMTT(20) DEF TaskType
<1>2. CASE Opened(s)
  <2>1. frag' = Append(frag, n) /\ tasks' = Append(Tail(tasks), Task("write", s, 0))
    BY <1>2, Zenon DEF WriteClusterNodes
  <2>2. n \in FragType /\ n.owner = Nil /\ n.req = 0
    BY Zenon  DEF NewFrag, FragType
  <2>3. FragsQuiet
    <3> HIDE DEF n
    <3> QED BY <2>1, <2>2, SeqAppend, SMTT(20) DEF FragsQuiet, TypeOK, FragsType
  <2>4. RepliesPending
    <3>1. Task("write", s, 0) \in TaskType /\ Task("write", s, 0).op = "write"
      BY <1>1, ServerTask, Zenon
    <3>2. \A i \in DOMAIN Tail(tasks) : i + 1 \in DOMAIN tasks /\ Tail(tasks)[i] = tasks[i + 1]
      BY <1>0, SeqHeadTail, SMTT(20)
    <3>3. /\ DOMAIN tasks' = DOMAIN Tail(tasks) \cup {Len(Tail(tasks)) + 1}
          /\ \A i \in DOMAIN Tail(tasks) : tasks'[i] = Tail(tasks)[i]
          /\ tasks'[Len(Tail(tasks)) + 1] = Task("write", s, 0)
      BY <2>1, <3>1, <1>1, SeqAppend, SMTT(20)
    <3>4. \A i \in DOMAIN tasks' :
            tasks'[i].op = "reply" => i + 1 \in DOMAIN tasks /\ tasks'[i] = tasks[i + 1]
      BY <3>1, <3>2, <3>3, Zenon
    <3> QED BY <3>4, Zenon DEF RepliesPending
  <2>5. MsgsQuiet /\ HandlingQuiet
    BY Zenon DEF MsgsQuiet, HandlingQuiet, WriteClusterNodes
  <2>6. \A c \in Client : ClientQuiet(c)
    BY Zenon DEF ClientQuiet, WriteClusterNodes
  <2> QED BY <2>3, <2>4, <2>5, <2>6, Zenon DEF Quiet
<1>3. CASE ~Opened(s)
  <2>1. tasks' = Tail(tasks) /\ frag' = frag
    BY <1>3, Zenon DEF WriteClusterNodes
  <2>2. RepliesPending
    BY <2>1, <1>0, RepliesPendingTail, Zenon
  <2> QED BY <2>1, <2>2, QuietServer, Zenon DEF HandlingQuiet, WriteClusterNodes
<1> QED BY <1>2, <1>3, Zenon
-----------------------------------------------------------------------------
(* What a step must not do, so that Msgs and replies stay as they are.      *)

\* The type of a Msg.
LEMMA MsgFields ==
  ASSUME TypeOK, NEW m \in DOMAIN msg
  PROVE  msg[m] \in MsgType /\ msg[m].id \in Nat
<1>1. msg[m] \in MsgType
  BY SeqFacts, Zenon DEF TypeOK, MsgsType
<1>2. \A r \in MsgType : r.id \in Nat
  BY Zenon  DEF MsgType
<1> QED BY <1>1, <1>2, Zenon

\* The types of a frag's history and owner.
LEMMA FragFields ==
  ASSUME TypeOK, NEW f \in DOMAIN frag
  PROVE  /\ frag[f] \in FragType /\ frag[f].req \in Nat
         /\ frag[f].owner # Nil => frag[f].owner \in Client
<1>1. frag[f] \in FragType
  BY SeqFacts, Zenon DEF TypeOK, FragsType
<1>2. \A x \in FragType : x.req \in Nat /\ x.owner \in Client \cup {Nil}
  BY Zenon  DEF FragType
<1> QED BY <1>1, <1>2, Zenon

\* The ids a client has asked with.
LEMMA AskedIds ==
  ASSUME TypeOK, AskedOK, NEW c \in Client, NEW id \in Elems(asked[c])
  PROVE  id \in Nat /\ id # 0 /\ id <= msgId
<1>1. asked[c] \in Seq(Ids)
  BY Zenon  DEF TypeOK, ClientsType
<1>2. id \in Ids
  BY <1>1, SeqFacts, SMTT(20) DEF Elems
<1> QED BY <1>2, Zenon DEF Ids, AskedOK

\* A reply stays a reply to a request of its client, with the data of its frags.
LEMMA ReplyStays ==
  ASSUME TypeOK, AskedOK, FragsGrow, AskedGrow, NEW c \in Client, NEW r, ReplyOK(r, c)
  PROVE  ReplyOK(r, c)'
<1>1. r.id \in Elems(asked[c]) /\ r.id \in Elems(asked'[c])
  BY Zenon  DEF ReplyOK, AskedGrow
<1>2. r.id \in Nat /\ r.id # 0 /\ r.id <= msgId /\ msgId \in Nat
  BY <1>1, AskedIds, SMTT(20) DEF TypeOK, MsgsType
<1>3. \A f \in DOMAIN frag' \ DOMAIN frag : frag'[f].req # r.id
  BY <1>2 DEF FragsGrow
<1>4. FragsOf(r.id)' = FragsOf(r.id)
  BY <1>3, Zenon DEF FragsOf, FragsGrow
<1> QED BY <1>1, <1>4, Zenon DEF ReplyOK

\* While no reply is written, all of them stay so.
LEMMA RepliesStay ==
  ASSUME TypeOK, AskedOK, FragsGrow, AskedGrow, RepliesOwn, toClient' = toClient
  PROVE  RepliesOwn'
<1>1. \A c \in Client : \A r \in Elems(toClient[c]) : ReplyOK(r, c)
  BY Zenon DEF RepliesOwn, ReplyOK
<1>2. \A c \in Client : \A r \in Elems(toClient[c]) : ReplyOK(r, c)'
  BY <1>1, ReplyStays, Zenon
<1> QED BY <1>2, Zenon DEF RepliesOwn, ReplyOK

\* The pending replies stay.
LEMMA TasksStay ==
  ASSUME TypeOK', TasksOK, AskedGrow, RepliesPending
  PROVE  TasksOK'
<1> SUFFICES ASSUME NEW i \in DOMAIN tasks', tasks'[i].op = "reply"
             PROVE  tasks'[i].id \in Elems(asked'[tasks'[i].conn])
  BY Zenon  DEF TasksOK
<1>1. PICK d \in {0, 1} : i + d \in DOMAIN tasks /\ tasks'[i] = tasks[i + d]
  BY Zenon DEF RepliesPending
<1>2. tasks'[i].id \in Elems(asked[tasks'[i].conn])
  BY <1>1, Zenon DEF TasksOK
<1>3. tasks'[i].conn \in Client
  <2>1. tasks'[i] \in TaskType
    BY SeqFacts, Zenon DEF TypeOK, ControlType
  <2> QED BY <2>1, Zenon DEF TaskType
<1> QED BY <1>2, <1>3, Zenon DEF AskedGrow

\* A Msg no frag of which is touched stays sound.
LEMMA MsgStays ==
  ASSUME TypeOK, FragsGrow, NEW r, r.id \in Nat, r.id <= msgId, MsgSound(r, frag),
         \A f \in r.body : frag'[f].done = frag[f].done /\ frag'[f].rsp = frag[f].rsp
  PROVE  MsgSound(r, frag') /\ (Partial(r, frag') <=> Partial(r, frag))
<1>1. r.body \subseteq DOMAIN frag /\ r.id # 0 /\ msgId \in Nat
  BY DEF MsgSound, TypeOK, MsgsType
<1>2. \A f \in DOMAIN frag' \ r.body : frag'[f].req # r.id
  BY <1>1, SMTT(20) DEF FragsGrow, MsgSound
<1>3. MsgSound(r, frag')
  BY <1>1, <1>2, SoundKept, Zenon DEF FragsGrow
<1> QED BY <1>3, <1>1, Zenon DEF Partial

\* Queues that are left alone or dropped, while their Msgs keep their ids.
LEMMA QueuesStay ==
  ASSUME TypeOK, QueuesOK(msg, freeMsgs), AskedGrow,
         \A c \in Client : inMsgQueue'[c] = inMsgQueue[c] \/ inMsgQueue'[c] = <<>>,
         \A c \in Client : inMsgQueue'[c] # <<>> =>
           \A m \in Elems(inMsgQueue[c]) : m \in Live(msg', freeMsgs') /\ msg'[m].id = msg[m].id
  PROVE  QueuesOK(msg, freeMsgs)'
<1> SUFFICES ASSUME NEW c \in Client, NEW i \in DOMAIN inMsgQueue'[c]
             PROVE  /\ inMsgQueue'[c][i] \in Live(msg', freeMsgs')
                    /\ msg'[inMsgQueue'[c][i]].id \in Elems(asked'[c])
                    /\ \A j \in DOMAIN inMsgQueue'[c] :
                         i < j => msg'[inMsgQueue'[c][i]].id < msg'[inMsgQueue'[c][j]].id
  BY Zenon DEF QueuesOK
<1>1. inMsgQueue'[c] = inMsgQueue[c] /\ inMsgQueue'[c] # <<>>
  OBVIOUS
<1>2. \A j \in DOMAIN inMsgQueue[c] :
        inMsgQueue[c][j] \in Live(msg', freeMsgs') /\ msg'[inMsgQueue[c][j]].id = msg[inMsgQueue[c][j]].id
  BY <1>1, Zenon DEF Elems
<1>3. msg[inMsgQueue[c][i]].id \in Elems(asked'[c])
  BY <1>1, Zenon DEF QueuesOK, AskedGrow
<1>4. \A j \in DOMAIN inMsgQueue[c] :
        i < j => msg[inMsgQueue[c][i]].id < msg[inMsgQueue[c][j]].id
  BY <1>1, Zenon DEF QueuesOK
<1> QED BY <1>1, <1>2, <1>3, <1>4, Zenon
-----------------------------------------------------------------------------
(* A request is decoded.                                                    *)

\* What a queue holds once it has grown.
LEMMA ElemsAppend ==
  ASSUME NEW S, NEW q \in Seq(S), NEW e \in S
  PROVE  Elems(Append(q, e)) = Elems(q) \cup {e}
<1>1. /\ DOMAIN Append(q, e) = DOMAIN q \cup {Len(q) + 1}
      /\ \A i \in DOMAIN q : Append(q, e)[i] = q[i]
      /\ Append(q, e)[Len(q) + 1] = e
  BY SeqAppend
<1> QED BY <1>1, Zenon DEF Elems

\* The same for two queues.
LEMMA ElemsConcat ==
  ASSUME NEW S, NEW p \in Seq(S), NEW q \in Seq(S)
  PROVE  Elems(p \o q) = Elems(p) \cup Elems(q)
<1>1. /\ DOMAIN (p \o q) = DOMAIN p \cup (Len(p) + 1 .. Len(p) + Len(q))
      /\ \A i \in DOMAIN p : (p \o q)[i] = p[i]
      /\ \A i \in Len(p) + 1 .. Len(p) + Len(q) : (p \o q)[i] = q[i - Len(p)] /\ i - Len(p) \in DOMAIN q
      /\ \A i \in DOMAIN q : i + Len(p) \in Len(p) + 1 .. Len(p) + Len(q) /\ (p \o q)[i + Len(p)] = q[i]
  BY SeqConcat
<1>2. \A i \in DOMAIN (p \o q) : (p \o q)[i] \in Elems(p) \cup Elems(q)
  BY <1>1, Zenon DEF Elems
<1>3. \A i \in DOMAIN p : p[i] \in Elems(p \o q)
  BY <1>1, Zenon DEF Elems
<1>4. \A i \in DOMAIN q : q[i] \in Elems(p \o q)
  <2>1. \A i \in DOMAIN q : i + Len(p) \in DOMAIN (p \o q) /\ (p \o q)[i + Len(p)] = q[i]
    BY <1>1, Zenon
  <2> QED BY <2>1, Zenon DEF Elems
<1>5. Elems(p \o q) \subseteq Elems(p) \cup Elems(q)
  <2> SUFFICES ASSUME NEW i \in DOMAIN (p \o q) PROVE (p \o q)[i] \in Elems(p) \cup Elems(q)
    BY Zenon DEF Elems
  <2> QED BY <1>2, Zenon
<1>6. Elems(p) \subseteq Elems(p \o q)
  BY <1>3, Zenon DEF Elems
<1>7. Elems(q) \subseteq Elems(p \o q)
  BY <1>4, Zenon DEF Elems
<1> QED BY <1>5, <1>6, <1>7, Zenon

\* OnCReact answers itself: the Msg is in the pool again.
LEMMA CReactImmediateFacts ==
  ASSUME TypeOK, NEW c \in Client, NEW m \in freeMsgs \cup {Len(msg) + 1}, CReactImmediate(c, m)
  PROVE  /\ Live(msg', freeMsgs') = Live(msg, freeMsgs)
         /\ \A n \in Live(msg, freeMsgs) : msg'[n] = msg[n]
         /\ freeMsgs' = freeMsgs \cup {m} /\ msg'[m] = PutMsg
         /\ \A n \in freeMsgs : n # m => msg'[n] = msg[n]
         /\ toClient' = [toClient EXCEPT ![c] = Append(@, Reply(msgId + 1, "immediate", {}))]
         /\ handling.op # "react" /\ handling' = handling /\ frag' = frag /\ tasks' = tasks
         /\ cconn[c] = "open"
         /\ \/ inMsgQueue' = inMsgQueue /\ cconn' = cconn
            \/ /\ inMsgQueue' = [inMsgQueue EXCEPT ![c] = <<>>]
               /\ cconn' = [cconn EXCEPT ![c] = "closed"]
<1>0. msg \in Seq(MsgType) /\ freeMsgs \subseteq DOMAIN msg
  BY Zenon  DEF TypeOK, MsgsType
<1>1. /\ DOMAIN msg' = DOMAIN msg \cup {m} /\ msg'[m] = PutMsg
      /\ \A n \in DOMAIN msg : n # m => msg'[n] = msg[n]
  <2>1. CASE m \in freeMsgs
    <3>1. msg' = [msg EXCEPT ![m] = PutMsg]
      BY <2>1, Zenon DEF CReactImmediate
    <3>2. m \in DOMAIN msg
      BY <2>1, <1>0, Zenon
    <3> QED BY <3>1, <3>2, Zenon
  <2>2. CASE m \notin freeMsgs
    <3>1. msg' = Append(msg, PutMsg) /\ m = Len(msg) + 1
      BY <2>2, Zenon DEF CReactImmediate
    <3> QED BY <3>1, <1>0, SeqAppend, PutMsgType, SMTT(30)
  <2> QED BY <2>1, <2>2, Zenon
<1>2. m \notin Live(msg, freeMsgs)
  <2>1. m \in freeMsgs \/ m \notin DOMAIN msg
    BY <1>0, SeqFacts
  <2> QED BY <2>1, Zenon DEF Live
<1>3. freeMsgs' = freeMsgs \cup {m}
  BY Zenon DEF CReactImmediate
<1>4. Live(msg', freeMsgs') = Live(msg, freeMsgs)
  BY <1>0, <1>1, <1>2, <1>3, Zenon DEF Live
<1>5. \A n \in Live(msg, freeMsgs) \cup freeMsgs : n # m => msg'[n] = msg[n]
  BY <1>0, <1>1, Zenon DEF Live
<1>6. /\ toClient' = [toClient EXCEPT ![c] = Append(@, Reply(msgId + 1, "immediate", {}))]
      /\ handling.op # "react" /\ handling' = handling /\ frag' = frag /\ tasks' = tasks
      /\ cconn[c] = "open"
  BY IdleNotReact, Zenon DEF CReactImmediate
<1>7. \/ inMsgQueue' = inMsgQueue /\ cconn' = cconn
      \/ /\ inMsgQueue' = [inMsgQueue EXCEPT ![c] = <<>>]
         /\ cconn' = [cconn EXCEPT ![c] = "closed"]
  BY Zenon DEF CReactImmediate, CloseClient
<1> QED BY <1>1, <1>2, <1>3, <1>4, <1>5, <1>6, <1>7, Zenon

\* A reply is added to those of one client.
LEMMA ReplyAdded ==
  ASSUME TypeOK, TypeOK', AskedOK, FragsGrow, AskedGrow, RepliesOwn, NEW c \in Client,
         NEW r \in ReplyType, ReplyOK(r, c)', toClient' = [toClient EXCEPT ![c] = Append(@, r)]
  PROVE  RepliesOwn'
<1>0. toClient \in [Client -> Seq(ReplyType)]
  BY Zenon DEF TypeOK, ClientsType
<1>1. Elems(toClient'[c]) = Elems(toClient[c]) \cup {r}
  <2>1. toClient'[c] = Append(toClient[c], r) /\ toClient[c] \in Seq(ReplyType)
    BY <1>0, Zenon
  <2> QED BY <2>1, ElemsAppend
<1>2. \A d \in Client : \A x \in Elems(toClient[d]) : ReplyOK(x, d)
  BY Zenon DEF RepliesOwn, ReplyOK
<1>3. \A d \in Client : \A x \in Elems(toClient[d]) : ReplyOK(x, d)'
  BY <1>2, ReplyStays, Zenon
<1>4. \A d \in Client : d # c => toClient'[d] = toClient[d]
  BY <1>0, Zenon
<1>5. \A d \in Client : \A x \in Elems(toClient'[d]) : ReplyOK(x, d)'
  BY <1>1, <1>3, <1>4, Zenon
<1> QED BY <1>5, Zenon DEF RepliesOwn, ReplyOK

\* Its fields.
LEMMA DecodedMsg ==
  ASSUME NEW id \in Nat, NEW t \in Types, NEW b \in SUBSET Ids
  PROVE  LET x == Decoded(id, t, b) IN
         /\ x \in MsgType /\ x.id = id /\ x.type = t /\ x.body = b
         /\ ~x.done /\ x.ndone = 0 /\ x.del = {}
<1> DEFINE x == Decoded(id, t, b)
<1>0. x = [PutMsg EXCEPT !.id = id, !.type = t, !.body = b]
  BY Zenon DEF Decoded
<1> HIDE DEF x
<1>1. x \in MsgType
  BY <1>0, PutMsgType, Zenon DEF MsgType
<1>2. x.id = id /\ x.type = t /\ x.body = b
  BY <1>0, PutMsgType, Zenon DEF MsgType
<1>3. x.done = PutMsg.done /\ x.ndone = PutMsg.ndone /\ x.del = PutMsg.del
  BY <1>0, PutMsgType, Zenon DEF MsgType
<1>4. ~PutMsg.done /\ PutMsg.ndone = 0 /\ PutMsg.del = {}
  BY Zenon DEF PutMsg
<1> QED BY <1>1, <1>2, <1>3, <1>4, Zenon DEF x

\* Decode: a Msg from the pool, which holds nothing of an earlier request, or a new
\* one, with new frags.
LEMMA CReactFacts ==
  ASSUME TypeOK, MsgsOK(msg, freeMsgs, frag),
         NEW c \in Client, NEW q \in Requests, NEW m \in freeMsgs \cup {Len(msg) + 1},
         CReact(c, q, m)
  PROVE  /\ m \notin Live(msg, freeMsgs) /\ freeMsgs' = freeMsgs \ {m}
         /\ Live(msg', freeMsgs') = Live(msg, freeMsgs) \cup {m}
         /\ \A n \in DOMAIN msg : n # m => msg'[n] = msg[n]
         /\ msg'[m].id = msgId + 1 /\ msg'[m].type = q.type /\ msg'[m].body = Made
         /\ ~msg'[m].done /\ msg'[m].ndone = 0 /\ msg'[m].del = {}
         /\ Made = Len(frag) + 1 .. Len(frag) + Len(q.slots)
         /\ DOMAIN frag \subseteq DOMAIN frag' /\ \A f \in DOMAIN frag : frag'[f] = frag[f]
         /\ \A f \in Made : \E k \in Slot : frag'[f] = NewFrag(m, k, msgId + 1)
         /\ handling.op # "react"
         /\ handling' = [op |-> "react", client |-> c, msg |-> m, todo |-> Made]
<1> DEFINE body  == Len(frag) + 1 .. Len(frag) + Len(q.slots)
           old   == IF m \in freeMsgs THEN msg[m] ELSE PutMsg
           new   == [old EXCEPT !.id = msgId + 1, !.type = q.type, !.body = body]
           added == [i \in 1 .. Len(q.slots) |-> NewFrag(m, q.slots[i], msgId + 1)]
<1>0. /\ msg \in Seq(MsgType) /\ freeMsgs \subseteq DOMAIN msg
      /\ DOMAIN msg = 1 .. Len(msg) /\ Len(msg) \in Nat
      /\ frag \in Seq(FragType) /\ DOMAIN frag = 1 .. Len(frag) /\ Len(frag) \in Nat
      /\ msgId \in Nat
  BY SeqFacts, SMTT(30) DEF TypeOK, MsgsType, FragsType
<1>1. /\ Len(q.slots) \in Nat /\ q.type \in Types
      /\ \A i \in 1 .. Len(q.slots) : q.slots[i] \in Slot
  BY ProxyAssumption, SeqFacts
<1>2. old = PutMsg
  BY Zenon DEF MsgsOK
<1>3. /\ new.id = msgId + 1 /\ new.type = q.type /\ new.body = body
      /\ ~new.done /\ new.ndone = 0 /\ new.del = {} /\ new \in MsgType
  <2> DEFINE id == msgId + 1
             ty == q.type
  <2>0. new = [old EXCEPT !.id = id, !.type = ty, !.body = body]
    BY Zenon
  <2>2. body \in SUBSET Ids
    BY <1>0, <1>1 DEF Ids
  <2>3. msgId + 1 \in Nat
    BY <1>0
  <2>4. id \in Nat /\ ty \in Types /\ id = msgId + 1 /\ ty = q.type
    BY <2>3, <1>1, Zenon
  <2> HIDE DEF body, new, old, id, ty
  <2>5. new = Decoded(id, ty, body)
    BY <2>0, <1>2, Zenon DEF Decoded
  <2>6. /\ new \in MsgType /\ new.id = id /\ new.type = ty /\ new.body = body
        /\ ~new.done /\ new.ndone = 0 /\ new.del = {}
    BY <2>2, <2>4, <2>5, DecodedMsg, SMTT(20)
  <2> QED BY <2>4, <2>6, Zenon
<1>4. m \in freeMsgs \/ m \notin DOMAIN msg
  BY <1>0, SMTT(20)
<1>5. /\ DOMAIN msg' = DOMAIN msg \cup {m} /\ msg'[m] = new
      /\ \A n \in DOMAIN msg : n # m => msg'[n] = msg[n]
  <2>0. msg' = IF m \in freeMsgs THEN [msg EXCEPT ![m] = new] ELSE Append(msg, new)
    BY Zenon DEF CReact
  <2> HIDE DEF new
  <2>1. CASE m \in freeMsgs
    <3>1. msg' = [msg EXCEPT ![m] = new] /\ m \in DOMAIN msg
      BY <2>0, <2>1, <1>0, Zenon
    <3> QED BY <3>1, Zenon
  <2>2. CASE m \notin freeMsgs
    <3>1. msg' = Append(msg, new) /\ m = Len(msg) + 1
      BY <2>0, <2>2, Zenon
    <3> QED BY <3>1, <1>0, <1>3, SeqAppend, SMTT(20)
  <2> QED BY <2>1, <2>2, Zenon
<1>6. added \in Seq(FragType) /\ Len(added) = Len(q.slots)
  <2>0. msgId + 1 \in Nat /\ m \in Nat
    BY <1>0, SMTT(20)
  <2>1. \A i \in 1 .. Len(q.slots) : NewFrag(m, q.slots[i], msgId + 1) \in FragType
    BY <2>0, <1>1, NewFragType, Zenon
  <2>2. added \in [1 .. Len(q.slots) -> FragType]
    BY <2>1, Zenon
  <2> HIDE DEF added
  <2> QED BY <2>2, <1>1, FcnIsSeq, Zenon
<1>7. /\ DOMAIN frag' = DOMAIN frag \cup body
      /\ \A f \in DOMAIN frag : frag'[f] = frag[f]
      /\ \A f \in body : frag'[f] = added[f - Len(frag)]
  <2> HIDE DEF added
  <2>1. frag' = frag \o added
    BY Zenon  DEF CReact, added
  <2>2. /\ DOMAIN (frag \o added) = DOMAIN frag \cup (Len(frag) + 1 .. Len(frag) + Len(added))
        /\ \A f \in DOMAIN frag : (frag \o added)[f] = frag[f]
        /\ \A f \in Len(frag) + 1 .. Len(frag) + Len(added) : (frag \o added)[f] = added[f - Len(frag)]
    BY <1>0, <1>6, SeqConcat, SMTT(20)
  <2> QED BY <2>1, <2>2, <1>6, Zenon
<1>8. \A f \in body : \E k \in Slot : frag'[f] = NewFrag(m, k, msgId + 1)
  <2>1. \A f \in body : f - Len(frag) \in 1 .. Len(q.slots)
    BY <1>0, <1>1, SMTT(20)
  <2>2. \A i \in 1 .. Len(q.slots) : added[i] = NewFrag(m, q.slots[i], msgId + 1)
    BY Zenon
  <2> HIDE DEF added, body
  <2> QED BY <2>1, <2>2, <1>7, <1>1, Zenon
<1>9. Made = body
  BY <1>0, <1>1, <1>7, SMTT(20) DEF Made
<1>10. /\ freeMsgs' = freeMsgs \ {m} /\ handling.op # "react"
       /\ handling' = [op |-> "react", client |-> c, msg |-> m, todo |-> body]
  BY IdleNotReact, Zenon DEF CReact
<1> HIDE DEF new, added
<1>11. m \notin Live(msg, freeMsgs) /\ Live(msg', freeMsgs') = Live(msg, freeMsgs) \cup {m}
  BY <1>0, <1>4, <1>5, <1>10, Zenon DEF Live
<1>12. body = Len(frag) + 1 .. Len(frag) + Len(q.slots)
  BY Zenon
<1> HIDE DEF body, old
<1>13. /\ msg'[m].id = msgId + 1 /\ msg'[m].type = q.type /\ msg'[m].body = Made
       /\ ~msg'[m].done /\ msg'[m].ndone = 0 /\ msg'[m].del = {}
  BY <1>3, <1>5, <1>9, Zenon
<1>14. \A f \in Made : \E k \in Slot : frag'[f] = NewFrag(m, k, msgId + 1)
  BY <1>8, <1>9, Zenon
<1>15. DOMAIN frag \subseteq DOMAIN frag'
  BY <1>7, Zenon
<1> QED BY <1>5, <1>7, <1>9, <1>10, <1>11, <1>12, <1>13, <1>14, <1>15, Zenon
-----------------------------------------------------------------------------
(* OnCReact's loop.                                                         *)

\* A turn of the loop gives a frag its owner and nothing else.
LEMMA DispatchFacts ==
  ASSUME TypeOK, NEW f \in DOMAIN frag, NEW s \in SConn, Dispatch(f, s)
  PROVE  /\ handling.op = "react" /\ handling \in ReactType /\ f \in handling.todo
         /\ DOMAIN frag' = DOMAIN frag /\ frag'[f].owner = handling.client
         /\ \A g \in DOMAIN frag :
              /\ g # f => frag'[g] = frag[g]
              /\ frag'[g].req = frag[g].req /\ frag'[g].done = frag[g].done
              /\ frag'[g].rsp = frag[g].rsp /\ frag'[g].peer = frag[g].peer
         /\ UNCHANGED <<msg, freeMsgs, msgId, asked, toClient, cconn>>
         /\ RepliesPending
<1>0. /\ handling.op = "react" /\ handling \in ReactType /\ f \in handling.todo
      /\ frag \in Seq(FragType) /\ frag[f] \in FragType /\ handling.client \in Client
  BY ReactHandling, SeqFacts, Zenon DEF TypeOK, ControlType, FragsType, Dispatch, ReactType
<1> DEFINE x == [frag[f] EXCEPT !.owner = handling.client]
<1>1. frag' = [frag EXCEPT ![f] = x]
  BY Zenon DEF Dispatch
<1>2. x.peer = frag[f].peer /\ x.req = frag[f].req /\ x.owner = handling.client /\ x.rsp = frag[f].rsp
  BY <1>0, Zenon DEF FragType
<1>3. x.done = frag[f].done
  BY <1>0, Zenon DEF FragType
<1> HIDE DEF x
<1>4. /\ DOMAIN frag' = DOMAIN frag /\ frag'[f] = x
      /\ \A g \in DOMAIN frag : g # f => frag'[g] = frag[g]
  BY <1>1, Zenon
<1>5. \A g \in DOMAIN frag : /\ frag'[g].req = frag[g].req /\ frag'[g].done = frag[g].done
                             /\ frag'[g].rsp = frag[g].rsp /\ frag'[g].peer = frag[g].peer
  BY <1>2, <1>3, <1>4, Zenon
<1>6. UNCHANGED <<msg, freeMsgs, msgId, asked, toClient, cconn>>
  BY Zenon  DEF Dispatch
<1>7. RepliesPending
  <2>1. tasks' = Append(tasks, Task("write", s, 0))
    BY Zenon  DEF Dispatch, EnqueueOutFrag
  <2> QED BY <2>1, RepliesPendingAppend, Zenon DEF TypeOK, ControlType
<1> QED BY <1>0, <1>2, <1>4, <1>5, <1>6, <1>7, Zenon
-----------------------------------------------------------------------------
(* Frags of one Msg are marked as done, and its Msg is changed.             *)

\* The rest of the pipeline does not notice, if the Msg is sound again.
LEMMA MarkedLife ==
  ASSUME TypeOK, MsgsOK(msg, freeMsgs, frag), FragsOK(msg, freeMsgs, frag), QueuesOK(msg, freeMsgs),
         NEW p \in Live(msg, freeMsgs), NEW b \in SUBSET msg[p].body, Marked(frag, frag', b),
         NEW mm, DOMAIN mm = DOMAIN msg, \A n \in DOMAIN msg : n # p => mm[n] = msg[n],
         mm[p].id = msg[p].id, MsgSound(mm[p], frag'),
         RequestTimeout \/ mm[p].done \/ Partial(mm[p], frag')
  PROVE  /\ MsgsOK(mm, freeMsgs, frag') /\ FragsOK(mm, freeMsgs, frag') /\ QueuesOK(mm, freeMsgs)
         /\ FragsGrow
<1>0. Live(mm, freeMsgs) = Live(msg, freeMsgs) /\ Live(msg, freeMsgs) \subseteq DOMAIN msg
  BY Zenon  DEF Live
<1>1. freeMsgs \subseteq DOMAIN msg /\ p \notin freeMsgs
  BY Zenon  DEF TypeOK, MsgsType, Live
<1>2. FragsGrow
  BY Zenon  DEF FragsGrow, Marked
<1>3. \A n \in Live(msg, freeMsgs) :
        n # p => MsgSound(msg[n], frag') /\ (Partial(msg[n], frag') <=> Partial(msg[n], frag))
  <2> SUFFICES ASSUME NEW n \in Live(msg, freeMsgs), n # p
               PROVE  MsgSound(msg[n], frag') /\ (Partial(msg[n], frag') <=> Partial(msg[n], frag))
    BY Zenon
  <2>1. /\ MsgSound(msg[n], frag) /\ msg[n].id <= msgId /\ MsgSound(msg[p], frag)
        /\ msg[n].id # msg[p].id
    BY Zenon DEF MsgsOK
  <2>2. msg[n].id \in Nat
    BY <1>0, MsgFields, Zenon
  <2>3. \A f \in msg[n].body : f \in DOMAIN frag /\ f \notin b
    BY <2>1, Zenon DEF MsgSound
  <2>4. \A f \in msg[n].body : frag'[f] = frag[f]
    BY <2>3, Zenon DEF Marked
  <2> QED BY <2>1, <2>2, <2>4, <1>2, MsgStays, Zenon
<1>4. \A n \in Live(msg, freeMsgs) : mm[n].id = msg[n].id
  BY <1>0, Zenon
<1>5. MsgsOK(mm, freeMsgs, frag')
  <2>1. \A n \in freeMsgs : mm[n] = PutMsg
    BY <1>1, Zenon DEF MsgsOK
  <2>2. \A n \in Live(mm, freeMsgs) : MsgSound(mm[n], frag') /\ mm[n].id <= msgId
    BY <1>0, <1>3, <1>4, Zenon DEF MsgsOK
  <2>3. \A n, k \in Live(mm, freeMsgs) : mm[n].id = mm[k].id => n = k
    BY <1>0, <1>4, Zenon DEF MsgsOK
  <2>4. ~RequestTimeout => \A n \in Live(mm, freeMsgs) : mm[n].done \/ Partial(mm[n], frag')
    BY <1>0, <1>3, Zenon DEF MsgsOK
  <2> QED BY <2>1, <2>2, <2>3, <2>4, Zenon DEF MsgsOK
<1>6. FragsOK(mm, freeMsgs, frag')
  <2> SUFFICES ASSUME NEW f \in DOMAIN frag
               PROVE  /\ frag'[f].req <= msgId
                      /\ frag'[f].owner # Nil => frag'[f].req \in Elems(asked[frag'[f].owner])
                      /\ frag'[f].owner # Nil /\ ~frag'[f].done =>
                           frag'[f].peer \in Live(mm, freeMsgs) /\ frag'[f].req = mm[frag'[f].peer].id
    BY Zenon DEF FragsOK, Marked
  <2>1. /\ frag'[f].req = frag[f].req /\ frag'[f].owner = frag[f].owner
        /\ frag'[f].peer = frag[f].peer /\ (~frag'[f].done => ~frag[f].done)
    BY Zenon DEF Marked
  <2> QED BY <2>1, <1>0, <1>4, Zenon DEF FragsOK
<1>7. QueuesOK(mm, freeMsgs)
  BY <1>0, <1>4, Zenon DEF QueuesOK
<1> QED BY <1>2, <1>5, <1>6, <1>7, Zenon

\* Setting Done of frags.
LEMMA AllDoneMarked ==
  ASSUME TypeOK, NEW b, frag' = AllDone(b)
  PROVE  Marked(frag, frag', b)
<1>1. DOMAIN frag' = DOMAIN frag
  BY Zenon DEF AllDone
<1>2. ASSUME NEW g \in DOMAIN frag
      PROVE  /\ frag'[g].req = frag[g].req /\ frag'[g].owner = frag[g].owner /\ frag'[g].peer = frag[g].peer
             /\ g \notin b => frag'[g] = frag[g]
             /\ g \in b => frag'[g].done = TRUE
  <2>1. frag[g] \in FragType
    BY FragFields, Zenon
  <2>2. CASE g \in b
    <3>1. PICK o, x : o = frag[g] /\ x = frag'[g] /\ x = [o EXCEPT !.done = TRUE]
      BY <2>2, Zenon DEF AllDone
    <3>2. x.req = o.req /\ x.owner = o.owner /\ x.peer = o.peer
      BY <3>1, <2>1, Zenon DEF FragType
    <3>3. x.done = TRUE
      BY <3>1, <2>1, Zenon DEF FragType
    <3> QED BY <2>2, <3>1, <3>2, <3>3, Zenon
  <2>3. CASE g \notin b
    BY <2>3, Zenon DEF AllDone
  <2> QED BY <2>2, <2>3, Zenon
<1> QED BY <1>1, <1>2, Zenon DEF Marked

\* The frag that msgTimeout, or a reply, finds undone is one of its Msg.
LEMMA UndoneFrag ==
  ASSUME TypeOK, MsgsOK(msg, freeMsgs, frag), FragsOK(msg, freeMsgs, frag),
         NEW f \in DOMAIN frag, frag[f].owner # Nil, ~frag[f].done
  PROVE  /\ frag[f].peer \in Live(msg, freeMsgs) /\ frag[f].owner \in Client
         /\ MsgSound(msg[frag[f].peer], frag) /\ f \in msg[frag[f].peer].body
         /\ frag[f].req \in Elems(asked[frag[f].owner])
<1>1. frag[f].peer \in Live(msg, freeMsgs) /\ frag[f].req = msg[frag[f].peer].id
  BY Zenon  DEF FragsOK
<1>2. MsgSound(msg[frag[f].peer], frag)
  BY <1>1, Zenon DEF MsgsOK
<1>3. f \in msg[frag[f].peer].body
  BY <1>1, <1>2, Zenon DEF MsgSound
<1> QED BY <1>1, <1>2, <1>3, FragFields, Zenon DEF FragsOK
-----------------------------------------------------------------------------
(* eventloop.sread gives a client its replies.                              *)

\* One of the two is what Deliver does.
LEMMA DeliverCases ==
  ASSUME NEW c \in Client, NEW mm, Deliver(c, mm)
  PROVE  asked' = asked /\ msgId' = msgId /\ (Flushed(c, mm) \/ Withheld(c, mm))
<1>1. asked' = asked /\ msgId' = msgId
  BY Zenon DEF Deliver
<1>2. Flushed(c, mm) \/ Withheld(c, mm)
  BY Zenon DEF Deliver, Flushed, Withheld, CloseClient
<1> QED BY <1>1, <1>2, Zenon
-----------------------------------------------------------------------------
(* The reply to a frag that waits for one.                                  *)

\* They finish that frag and nothing else.
LEMMA AnsweredMarked ==
  ASSUME TypeOK, NEW a \in DOMAIN frag, NEW r \in Nat, NEW b \in BOOLEAN
  PROVE  /\ Marked(frag, [frag EXCEPT ![a].done = TRUE], {a})
         /\ Marked(frag, Bytes(a, r), {a}) /\ Bytes(a, r)[a].rsp = r
         /\ Marked(frag, BytesOk(a, r, b), {a}) /\ BytesOk(a, r, b)[a].rsp = r
<1>1. PICK o : o = frag[a]
  BY Zenon
<1>2. o \in FragType
  BY <1>1, FragFields, Zenon
<1>3. PICK x, y, z : /\ x = [o EXCEPT !.done = TRUE]
                     /\ y = [o EXCEPT !.done = TRUE, !.rsp = r]
                     /\ z = [o EXCEPT !.done = TRUE, !.rsp = r, !.ok = b]
  BY Zenon
<1>4. /\ [frag EXCEPT ![a].done = TRUE] = [frag EXCEPT ![a] = x]
      /\ Bytes(a, r) = [frag EXCEPT ![a] = y]
      /\ BytesOk(a, r, b) = [frag EXCEPT ![a] = z]
  BY <1>1, <1>3, Zenon DEF Bytes, BytesOk
<1>5. /\ x.req = o.req /\ x.owner = o.owner /\ x.peer = o.peer
      /\ y.req = o.req /\ y.owner = o.owner /\ y.peer = o.peer /\ y.rsp = r
      /\ z.req = o.req /\ z.owner = o.owner /\ z.peer = o.peer /\ z.rsp = r
  BY <1>2, <1>3, Zenon DEF FragType
<1>6. x.done = TRUE /\ y.done = TRUE /\ z.done = TRUE
  BY <1>2, <1>3, Zenon DEF FragType
<1>7. ASSUME NEW w, w.req = o.req, w.owner = o.owner, w.peer = o.peer, w.done = TRUE
      PROVE  Marked(frag, [frag EXCEPT ![a] = w], {a}) /\ [frag EXCEPT ![a] = w][a] = w
  BY <1>1, <1>7, Zenon DEF Marked
<1>8. /\ Marked(frag, [frag EXCEPT ![a] = x], {a})
      /\ Marked(frag, [frag EXCEPT ![a] = y], {a}) /\ [frag EXCEPT ![a] = y][a] = y
      /\ Marked(frag, [frag EXCEPT ![a] = z], {a}) /\ [frag EXCEPT ![a] = z][a] = z
  BY <1>5, <1>6, <1>7, Zenon
<1> QED BY <1>4, <1>5, <1>8, Zenon
-----------------------------------------------------------------------------
(* UniqueInFlight.                                                          *)

\* The rest of a queue.
LEMMA NoDupTail ==
  ASSUME NEW S, NEW q \in Seq(S), q # <<>>, NoDup(q)
  PROVE  /\ NoDup(Tail(q)) /\ Elems(Tail(q)) \subseteq Elems(q) /\ Head(q) \in Elems(q)
         /\ Head(q) \notin Elems(Tail(q))
<1>1. /\ Head(q) = q[1] /\ DOMAIN q = 1 .. Len(q) /\ DOMAIN Tail(q) = 1 .. Len(q) - 1
      /\ Len(q) \in Nat \ {0} /\ \A i \in 1 .. Len(q) - 1 : Tail(q)[i] = q[i + 1]
  BY SeqHeadTail, Zenon
<1>2. \A i \in DOMAIN Tail(q) : i + 1 \in DOMAIN q /\ Tail(q)[i] = q[i + 1] /\ i + 1 # 1
  BY <1>1
<1>3. Head(q) \in Elems(q) /\ Elems(Tail(q)) \subseteq Elems(q)
  BY <1>1, <1>2 DEF Elems
<1>4. Head(q) \notin Elems(Tail(q))
  BY <1>1, <1>2 DEF Elems, NoDup
<1>5. NoDup(Tail(q))
  <2> SUFFICES ASSUME NEW i \in DOMAIN Tail(q), NEW j \in DOMAIN Tail(q), Tail(q)[i] = Tail(q)[j]
               PROVE  i = j
    BY Zenon DEF NoDup
  <2>1. i + 1 = j + 1
    BY <1>2, Zenon DEF NoDup
  <2> QED BY <1>1, <2>1
<1> QED BY <1>3, <1>4, <1>5, Zenon
-----------------------------------------------------------------------------
(* A reply, and the Msgs it leaves.                                         *)

\* A Msg that a reply changes remains that of its request.
LEMMA SameRequestExcept ==
  ASSUME NEW r \in MsgType, NEW n, NEW k, NEW d
  PROVE  /\ SameRequest([r EXCEPT !.ndone = n], r)
         /\ SameRequest([r EXCEPT !.ndone = n, !.done = TRUE, !.rsp = k], r)
         /\ SameRequest([[r EXCEPT !.del = d] EXCEPT !.ndone = n], r)
         /\ SameRequest([[r EXCEPT !.del = d] EXCEPT !.ndone = n, !.done = TRUE, !.rsp = k], r)
BY Zenon DEF SameRequest, MsgType

\* The Msgs after a reply to a frag that is not done: one is changed, and the
\* client may get its replies.
LEMMA AnswerMsgs ==
  ASSUME TypeOK, NEW s \in SConn,
         SReadTooLarge(s) \/ SReadDefault(s) \/ SReadMGet(s) \/ SReadMSet(s) \/ SReadDel(s)
  PROVE  /\ TakeReply(s) /\ outFragQueue' = outFragQueue /\ handling' = handling /\ tasks' = tasks
         /\ frag[Answered(s)].owner # Nil /\ ~frag[Answered(s)].done
         /\ \E mm : /\ DOMAIN mm = DOMAIN msg /\ \A n \in DOMAIN msg : n # Peer(s) => mm[n] = msg[n]
                    /\ SameRequest(mm[Peer(s)], msg[Peer(s)])
                    /\ \/ msg' = mm /\ freeMsgs' = freeMsgs /\ UNCHANGED <<msgId, clientVars>>
                       \/ Deliver(frag[Answered(s)].owner, mm)
<1>1. /\ TakeReply(s) /\ outFragQueue' = outFragQueue /\ handling' = handling /\ tasks' = tasks
      /\ frag[Answered(s)].owner # Nil /\ ~frag[Answered(s)].done
  BY Zenon DEF SReadTooLarge, SReadDefault, SReadMGet, SReadMSet, SReadDel, TakeAnswer
<1>2. PICK p, r : p = Peer(s) /\ r = msg[Peer(s)]
  BY Zenon
<1>3. p \in DOMAIN msg /\ r \in MsgType
  BY <1>1, <1>2, TakeReplyType, Zenon
<1>4. \E x : /\ SameRequest(x, r)
             /\ LET mm == [msg EXCEPT ![p] = x] IN
                  \/ msg' = mm /\ freeMsgs' = freeMsgs /\ UNCHANGED <<msgId, clientVars>>
                  \/ Deliver(frag[Answered(s)].owner, mm)
  <2>1. CASE SReadTooLarge(s)
    BY <2>1, <1>2, <1>3, SameRequestExcept, Zenon DEF SReadTooLarge
  <2>2. CASE SReadDefault(s)
    BY <2>2, <1>2, <1>3, SameRequestExcept, Zenon DEF SReadDefault
  <2>3. CASE SReadMGet(s)
    BY <2>3, <1>2, <1>3, SameRequestExcept, Zenon DEF SReadMGet, Continue, Complete
  <2>4. CASE SReadMSet(s)
    BY <2>4, <1>2, <1>3, SameRequestExcept, Zenon DEF SReadMSet, Continue, Complete
  <2>5. CASE SReadDel(s)
    BY <2>5, <1>2, <1>3, SameRequestExcept, Zenon DEF SReadDel, Continue, Complete
  <2> QED BY <2>1, <2>2, <2>3, <2>4, <2>5, Zenon
<1>5. PICK x : /\ SameRequest(x, r)
               /\ LET mm == [msg EXCEPT ![p] = x] IN
                    \/ msg' = mm /\ freeMsgs' = freeMsgs /\ UNCHANGED <<msgId, clientVars>>
                    \/ Deliver(frag[Answered(s)].owner, mm)
  BY <1>4, Zenon
<1>6. PICK mm : mm = [msg EXCEPT ![p] = x]
  BY Zenon
<1>7. DOMAIN mm = DOMAIN msg /\ (\A n \in DOMAIN msg : n # p => mm[n] = msg[n]) /\ mm[p] = x
  BY <1>3, <1>6, Zenon
<1>8. \/ msg' = mm /\ freeMsgs' = freeMsgs /\ UNCHANGED <<msgId, clientVars>>
      \/ Deliver(frag[Answered(s)].owner, mm)
  BY <1>5, <1>6, Zenon
<1> QED BY <1>1, <1>2, <1>5, <1>7, <1>8, Zenon
-----------------------------------------------------------------------------
(* The queue of a client, its replies, and the connections of a pool.       *)

\* A Msg that stays in a queue stays that of its request.
LEMMA QueuedKept ==
  ASSUME LifeInv, LifeInv', MsgsStep, NEW c \in Client, NEW m \in Queued(c), m \in Queued(c)'
  PROVE  msg'[m].id = msg[m].id /\ msg'[m].body = msg[m].body
<1>1. m \in Live(msg, freeMsgs) /\ m \in Live(msg', freeMsgs')
  BY Zenon DEF LifeInv, QueuesOK, Queued, Elems
<1> QED BY <1>1, Zenon DEF MsgsStep, Live

\* A queue that stays holds the same Msgs.
LEMMA QueueStays ==
  ASSUME NEW c \in Client
  PROVE  /\ inMsgQueue'[c] = inMsgQueue[c] => Queued(c)' = Queued(c)
         /\ inMsgQueue'[c] = <<>> => Queued(c)' = {}
<1>1. \A q : q = <<>> => Elems(q) = {}
  BY SMT DEF Elems
<1>2. Queued(c)' = Elems(inMsgQueue'[c]) /\ Queued(c) = Elems(inMsgQueue[c])
  BY Zenon DEF Queued, Elems
<1> QED BY <1>1, <1>2, Zenon

\* The proxy's own replies are replies.
LEMMA OwnReplies ==
  ASSUME NEW id \in Nat, NEW k \in {"error", "timeout", "immediate"}
  PROVE  /\ Reply(id, k, {}) \in ReplyType /\ Reply(id, k, {}).kind # "data"
         /\ Reply(id, k, {}).id = id
<1>1. {} \in SUBSET Ids /\ k \in {"none", "data", "error", "timeout", "immediate"} /\ k # "data"
  BY Zenon
<1> QED BY <1>1, Zenon DEF Reply, ReplyType

\* The head of the task queue, when it is a timeout error, is one of the client's.
LEMMA HeadReply ==
  ASSUME TypeOK, LifeInv, tasks # <<>>, Head(tasks).op = "reply"
  PROVE  1 \in DOMAIN tasks /\ Head(tasks) = tasks[1] /\ Head(tasks).id \in Nat /\ Head(tasks).conn \in Client
<1>1. tasks \in Seq(TaskType)
  BY Zenon DEF TypeOK, ControlType
<1>2. Head(tasks) = tasks[1] /\ tasks[1] \in TaskType /\ 1 \in DOMAIN tasks
  BY <1>1, SeqHeadTail, SMT
<1> QED BY <1>2, Zenon DEF TaskType

-----------------------------------------------------------------------------
\* A client that has frags under way was accepted long ago.
LEMMA OwnerStays ==
  ASSUME TypeOK, LifeInv, NEW c \in Client, ClientStep(c), cconn'[c] = "open",
         NEW f \in DOMAIN frag, frag[f].owner = c
  PROVE  cconn[c] = "open"
<1>1. frag[f].req \in Elems(asked[c])
  BY ProxyAssumption, Zenon DEF LifeInv, FragsOK
<1>2. cconn[c] # "new"
  <2>1. Elems(<<>>) = {}
    BY SMT DEF Elems
  <2> QED BY <1>1, <2>1, Zenon DEF LifeInv, AskedOK
<1> QED BY <1>2, Zenon DEF ClientStep, Rests, Leaves, Asks, Joins, Refused, Immediate, Told, Gets

\* The elements of a queue that loses its head.
LEMMA ElemsTail ==
  ASSUME NEW S, NEW q \in Seq(S), q # <<>>
  PROVE  Elems(q) \subseteq Elems(Tail(q)) \cup {Head(q)}
<1>1. ASSUME NEW i \in DOMAIN q PROVE q[i] = Head(q) \/ (i - 1 \in DOMAIN Tail(q) /\ q[i] = Tail(q)[i - 1])
  BY SeqHeadTail, SMT
<1> QED BY <1>1, Zenon DEF Elems

\* Pool.Get gives an open connection, and opens no other.
LEMMA PoolGetOpens ==
  ASSUME ServersType, NEW s \in SConn, PoolGet(s)
  PROVE  sconn'[s] = "open" /\ \A t \in SConn : t # s => sconn'[t] = sconn[t]
BY Zenon DEF PoolGet, Dial, Rotate, Opened, ServersType
-----------------------------------------------------------------------------
(* Every step, as one client sees it.                                       *)

\* A client that neither the handler nor the step is about.
LEMMA RestsOther ==
  ASSUME NEW c \in Client, UNCHANGED <<asked[c], toClient[c], inMsgQueue[c], cconn[c]>>,
         ~Reacting(c), ~Reacting(c)'
  PROVE  Rests(c)
BY Zenon DEF Rests

\* While the loop is idle, it is at no request.
LEMMA IdleReacting ==
  ASSUME NEW c \in Client
  PROVE  (LoopFree => ~Reacting(c)) /\ (handling' = Idle => ~Reacting(c)')
BY IdleNotReact, Zenon DEF Reacting

\* A step that is quiet leaves the client alone or closes it.
LEMMA QuietClient ==
  ASSUME Quiet, NEW c \in Client
  PROVE  ClientStep(c)
<1>1. ClientQuiet(c) /\ HandlingQuiet /\ MsgsQuiet
  BY Zenon DEF Quiet
<1>2. asked'[c] = asked[c] /\ toClient'[c] = toClient[c] /\ msgId' = msgId
  BY <1>1, Zenon DEF MsgsQuiet
<1>3. CASE handling' = handling
  BY <1>1, <1>2, <1>3, Zenon DEF ClientQuiet, ClientStep, Rests, Leaves, Reacting
<1>4. CASE handling.op # "react" /\ handling'.op # "react"
  BY <1>1, <1>2, <1>4, Zenon DEF ClientQuiet, ClientStep, Rests, Leaves, Reacting
<1> QED BY <1>1, <1>3, <1>4, Zenon DEF HandlingQuiet

\* OnCReact answers at once.
LEMMA CReactImmediateClient ==
  ASSUME TypeOK, NEW d \in Client, NEW m \in freeMsgs \cup {Len(msg) + 1}, CReactImmediate(d, m),
         NEW c \in Client
  PROVE  ClientStep(c)
<1>1. /\ LoopFree /\ cconn[d] = "open" /\ "immediate" \in Faults /\ msgId' = msgId + 1
      /\ asked' = [asked EXCEPT ![d] = Append(@, msgId + 1)]
      /\ toClient' = [toClient EXCEPT ![d] = Append(@, Reply(msgId + 1, "immediate", {}))]
      /\ \/ inMsgQueue' = inMsgQueue /\ cconn' = cconn
         \/ inMsgQueue' = [inMsgQueue EXCEPT ![d] = <<>>] /\ cconn' = [cconn EXCEPT ![d] = "closed"]
      /\ handling' = handling
  BY Zenon DEF CReactImmediate, CloseClient
<1>2. ~Reacting(c) /\ ~Reacting(c)'
  BY <1>1, IdleNotReact, Zenon DEF Reacting
<1>3. ClientsType
  BY Zenon DEF TypeOK
<1>4. CASE c = d
  BY <1>1, <1>2, <1>3, <1>4, Zenon DEF ClientsType, ClientStep, Immediate
<1>5. CASE c # d
  <2>1. UNCHANGED <<asked[c], toClient[c], inMsgQueue[c], cconn[c]>>
    BY <1>1, <1>3, <1>5, Zenon DEF ClientsType
  <2> QED BY <1>2, <2>1, RestsOther, Zenon DEF ClientStep
<1> QED BY <1>4, <1>5, Zenon

\* A request is decoded.
LEMMA CReactClient ==
  ASSUME TypeOK, NEW d \in Client, NEW q \in Requests, NEW m, CReact(d, q, m), NEW c \in Client
  PROVE  ClientStep(c)
<1>1. /\ LoopFree /\ cconn[d] = "open" /\ msgId' = msgId + 1
      /\ asked' = [asked EXCEPT ![d] = Append(@, msgId + 1)]
      /\ UNCHANGED <<toClient, inMsgQueue, cconn>>
      /\ handling'.op = "react" /\ handling'.client = d
  BY Zenon DEF CReact
<1>2. ~Reacting(c) /\ (Reacting(c)' <=> c = d)
  BY <1>1, IdleNotReact, Zenon DEF Reacting
<1>3. ClientsType
  BY Zenon DEF TypeOK
<1>4. CASE c = d
  BY <1>1, <1>2, <1>3, <1>4, Zenon DEF ClientsType, ClientStep, Asks
<1>5. CASE c # d
  <2>1. UNCHANGED <<asked[c], toClient[c], inMsgQueue[c], cconn[c]>>
    BY <1>1, <1>3, <1>5, Zenon DEF ClientsType
  <2> QED BY <1>2, <1>5, <2>1, RestsOther, Zenon DEF ClientStep
<1> QED BY <1>4, <1>5, Zenon

\* A frag is dispatched.
LEMMA DispatchClient ==
  ASSUME TypeOK, LifeInv, NEW f \in DOMAIN frag, NEW s \in SConn, Dispatch(f, s), NEW c \in Client
  PROVE  ClientStep(c)
<1>1. /\ handling.op = "react" /\ handling \in ReactType /\ f \in handling.todo
      /\ frag'[f].owner = handling.client /\ \A g \in DOMAIN frag : g # f => frag'[g] = frag[g]
      /\ UNCHANGED <<msg, freeMsgs, msgId, asked, toClient, cconn>>
  BY DispatchFacts, Zenon
<1>2. handling.client \in Client
  BY <1>1, Zenon DEF ReactType
<1>3. PICK d : d = handling.client
  BY Zenon
<1>4. Reacting(c) <=> c = d
  BY <1>1, <1>3, Zenon DEF Reacting
<1>5. CASE handling.todo = {f}
  <2>1. handling' = Idle /\ inMsgQueue' = [inMsgQueue EXCEPT ![d] = Append(@, handling.msg)]
    BY <1>3, <1>5, Zenon DEF Dispatch, EnqueueInMsg
  <2>2. ~Reacting(c)'
    BY <2>1, IdleReacting, Zenon
  <2>3. inMsgQueue \in [Client -> Seq(DOMAIN msg)]
    BY Zenon DEF TypeOK, ClientsType
  <2>4. CASE c = d
    <3>1. inMsgQueue'[c] = Append(inMsgQueue[c], handling.msg)
      BY <1>2, <1>3, <2>1, <2>3, <2>4, Zenon
    <3>2. /\ \A g \in msg[handling.msg].body \ handling.todo : frag[g].owner = c
          /\ msg[handling.msg].body \subseteq DOMAIN frag
      <4>1. handling.msg \in DOMAIN msg
        BY <1>1, Zenon DEF ReactType
      <4> QED BY <1>1, <1>3, <2>4, <4>1, Zenon DEF LifeInv, ReactOK, TypeOK, MsgsType
    <3>3. \A g \in msg[handling.msg].body : frag'[g].owner = c
      BY <1>1, <1>3, <1>5, <2>4, <3>2, Zenon
    <3> QED BY <1>1, <1>4, <2>2, <2>4, <3>1, <3>3, Zenon DEF ClientStep, Joins
  <2>5. CASE c # d
    <3>1. inMsgQueue'[c] = inMsgQueue[c]
      BY <1>2, <1>3, <2>1, <2>3, <2>5, Zenon
    <3> QED BY <1>1, <1>4, <2>2, <2>5, <3>1, RestsOther, Zenon DEF ClientStep
  <2> QED BY <2>4, <2>5, Zenon
<1>6. CASE handling.todo # {f}
  <2>1. handling' = [handling EXCEPT !.todo = @ \ {f}] /\ inMsgQueue' = inMsgQueue
    BY <1>6, Zenon DEF Dispatch
  <2>2. handling'.op = handling.op /\ handling'.client = handling.client /\ handling'.msg = handling.msg
    BY <1>1, <2>1, Zenon DEF ReactType
  <2> QED BY <1>1, <2>1, <2>2, Zenon DEF ClientStep, Rests, Reacting
<1> QED BY <1>5, <1>6, Zenon

\* OnCReact gives up on a request.
LEMMA DispatchFailsClient ==
  ASSUME TypeOK, LifeInv, NEW f \in DOMAIN frag, DispatchFails(f), NEW c \in Client
  PROVE  ClientStep(c)
<1>1. PICK d, m : d = handling.client /\ m = handling.msg
  BY Zenon
<1>2. /\ handling.op = "react" /\ handling' = Idle /\ freeMsgs' = freeMsgs \cup {m}
      /\ toClient' = [toClient EXCEPT ![d] = Append(@, Reply(msg[m].id, "error", {}))]
      /\ UNCHANGED <<msgId, cconn, inMsgQueue, asked>>
  BY <1>1, Zenon DEF DispatchFails
<1>3. d \in Client /\ msg[m].id = msgId
  <2>1. handling \in ReactType
    BY <1>2, ReactHandling, Zenon DEF TypeOK
  <2> QED BY <1>1, <1>2, <2>1, Zenon DEF ReactType, LifeInv, ReactOK
<1>4. (Reacting(c) <=> c = d) /\ ~Reacting(c)'
  BY <1>1, <1>2, IdleReacting, Zenon DEF Reacting
<1>5. toClient \in [Client -> Seq(ReplyType)]
  BY Zenon DEF TypeOK, ClientsType
<1>6. CASE c = d
  <2>1. toClient'[c] = Append(toClient[c], Reply(msgId, "error", {}))
    BY <1>2, <1>3, <1>5, <1>6, Zenon
  <2>2. handling.msg \in freeMsgs'
    BY <1>1, <1>2, Zenon
  <2> QED BY <1>2, <1>4, <1>6, <2>1, <2>2, Zenon DEF ClientStep, Refused
<1>7. CASE c # d
  <2>1. toClient'[c] = toClient[c]
    BY <1>2, <1>5, <1>7, Zenon
  <2> QED BY <1>2, <1>4, <1>7, <2>1, RestsOther, Zenon DEF ClientStep
<1> QED BY <1>6, <1>7, Zenon

\* A timeout error is written.
LEMMA AsyncWriteClient ==
  ASSUME TypeOK, AsyncWrite, NEW c \in Client
  PROVE  ClientStep(c)
<1>1. PICK d : d = Head(tasks).conn
  BY Zenon
<1>2. /\ LoopFree /\ tasks # <<>> /\ Head(tasks).op = "reply" /\ tasks' = Tail(tasks)
      /\ toClient' = IF cconn[d] = "open"
                       THEN [toClient EXCEPT ![d] = Append(@, Reply(Head(tasks).id, "timeout", {}))]
                       ELSE toClient
      /\ UNCHANGED <<handling, cconn, inMsgQueue, asked>>
  BY <1>1, Zenon DEF AsyncWrite, RunTask
<1>3. ~Reacting(c) /\ ~Reacting(c)'
  BY <1>2, IdleNotReact, Zenon DEF Reacting
<1>4. toClient \in [Client -> Seq(ReplyType)]
  BY Zenon DEF TypeOK, ClientsType
<1>5. CASE c = d /\ cconn[d] = "open"
  <2>1. toClient'[c] = Append(toClient[c], Reply(Head(tasks).id, "timeout", {}))
    BY <1>2, <1>4, <1>5, Zenon
  <2> QED BY <1>2, <1>3, <2>1, Zenon DEF ClientStep, Told
<1>6. CASE c # d \/ cconn[d] # "open"
  <2>1. toClient'[c] = toClient[c]
    BY <1>2, <1>4, <1>6, Zenon
  <2> QED BY <1>2, <1>3, <2>1, RestsOther, Zenon DEF ClientStep
<1> QED BY <1>5, <1>6, Zenon

\* Redis answers a frag that was not done: its client gets nothing, or all it has
\* asked for.
LEMMA AnswerClient ==
  ASSUME TypeOK, TypeOK', LifeInv, NEW s \in SConn,
         SReadTooLarge(s) \/ SReadDefault(s) \/ SReadMGet(s) \/ SReadMSet(s) \/ SReadDel(s),
         NEW c \in Client
  PROVE  ClientStep(c)
<1>1. PICK d, mm : /\ d = frag[Answered(s)].owner /\ DOMAIN mm = DOMAIN msg
                   /\ \A n \in DOMAIN msg : n # Peer(s) => mm[n] = msg[n]
                   /\ SameRequest(mm[Peer(s)], msg[Peer(s)])
                   /\ \/ msg' = mm /\ freeMsgs' = freeMsgs /\ UNCHANGED <<msgId, clientVars>>
                      \/ Deliver(d, mm)
  BY AnswerMsgs, Zenon
<1>2. TakeReply(s) /\ handling' = handling /\ d # Nil /\ ~frag[Answered(s)].done
  BY <1>1, AnswerMsgs, Zenon
<1>3. Answered(s) \in DOMAIN frag /\ d \in Client /\ handling = Idle
  BY <1>1, <1>2, TakeReplyType, Zenon
<1>4. ~Reacting(c) /\ ~Reacting(c)'
  BY <1>2, <1>3, IdleNotReact, Zenon DEF Reacting
<1>5. ClientsType
  BY Zenon DEF TypeOK
<1>6. CASE UNCHANGED clientVars
  BY <1>4, <1>6, RestsOther, Zenon DEF ClientStep
<1>7. CASE asked' = asked /\ Withheld(d, mm)
  <2>1. CASE cconn'[c] = cconn[c] /\ inMsgQueue'[c] = inMsgQueue[c]
    BY <1>4, <1>7, <2>1, RestsOther, Zenon DEF ClientStep, Withheld
  <2>2. CASE cconn'[c] = "closed" /\ inMsgQueue'[c] = <<>>
    BY <1>4, <1>7, <2>2, Zenon DEF ClientStep, Withheld, Leaves
  <2>3. \/ cconn'[c] = cconn[c] /\ inMsgQueue'[c] = inMsgQueue[c]
        \/ cconn'[c] = "closed" /\ inMsgQueue'[c] = <<>>
    BY <1>5, <1>7, Zenon DEF Withheld, ClientsType
  <2> QED BY <2>1, <2>2, <2>3, Zenon
<1>8. CASE asked' = asked /\ Flushed(d, mm)
  <2>1. PICK q, rs : /\ q = inMsgQueue[d]
                     /\ rs = [i \in DOMAIN q |-> Reply(mm[q[i]].id, mm[q[i]].rsp.kind, mm[q[i]].rsp.from)]
    BY Zenon
  <2>2. /\ \A i \in DOMAIN q : mm[q[i]].done
        /\ toClient' = [toClient EXCEPT ![d] = @ \o rs] /\ freeMsgs' = freeMsgs \cup Elems(q)
        /\ inMsgQueue' = [inMsgQueue EXCEPT ![d] = <<>>] /\ cconn' = cconn /\ cconn[d] = "open"
    BY <1>8, <2>1, Zenon DEF Flushed
  <2>3. CASE c # d
    <3>1. toClient'[c] = toClient[c] /\ inMsgQueue'[c] = inMsgQueue[c]
      BY <1>5, <2>2, <2>3, Zenon DEF ClientsType
    <3> QED BY <1>4, <1>8, <2>2, <3>1, RestsOther, Zenon DEF ClientStep
  <2>4. CASE c = d
    <3>1. toClient'[c] = toClient[c] \o rs /\ inMsgQueue'[c] = <<>> /\ q \in Seq(DOMAIN msg)
      BY <1>3, <1>5, <2>1, <2>2, <2>4, Zenon DEF ClientsType
    <3>2. ASSUME NEW i \in DOMAIN q
          PROVE  mm[q[i]].id = msg[q[i]].id /\ ~Stuck(q[i], msg, freeMsgs, frag)
      <4>1. q[i] \in DOMAIN msg /\ mm[q[i]].done
        BY <2>2, <3>1, SeqFacts, Zenon
      <4>2. CASE q[i] # Peer(s)
        BY <1>1, <4>1, <4>2, Zenon DEF Stuck
      <4>3. CASE q[i] = Peer(s)
        <5>1. Answered(s) \in msg[Peer(s)].body
          BY <1>1, <1>2, <1>3, UndoneFrag, Zenon DEF LifeInv, Peer
        <5> QED BY <1>1, <1>2, <4>3, <5>1, Zenon DEF SameRequest, Stuck, Partial
      <4> QED BY <4>2, <4>3, Zenon
    <3>3. DOMAIN rs = DOMAIN q /\ \A i \in DOMAIN rs : rs[i].id = msg[q[i]].id
      BY <2>1, <3>2, Zenon DEF Reply
    <3>4. /\ Len(toClient'[c]) = Len(toClient[c]) + Len(q)
          /\ \A i \in DOMAIN toClient[c] : toClient'[c][i] = toClient[c][i]
          /\ \A i \in DOMAIN q : toClient'[c][Len(toClient[c]) + i] = rs[i]
      <4>1. PICK S, x : /\ S = ReplyType \cup {rs[i] : i \in DOMAIN q}
                        /\ x = toClient[c]
        BY Zenon
      <4>2. x \in Seq(S)
        <5>1. ReplyType \subseteq S /\ toClient[c] \in Seq(ReplyType)
          BY <1>5, <4>1, Zenon DEF ClientsType
        <5> QED BY <4>1, <5>1, SeqGrow, Zenon
      <4>3. rs \in Seq(S) /\ Len(rs) = Len(q)
        <5>1. rs \in [DOMAIN q -> S] /\ q \in Seq(DOMAIN msg)
          BY <2>1, <3>1, <4>1, Zenon
        <5> QED BY <5>1, SeqMap, SMT
      <4>4. PICK u : u = x \o rs
        BY Zenon
      <4>5. /\ Len(u) = Len(x) + Len(rs) /\ \A i \in DOMAIN x : u[i] = x[i]
            /\ \A i \in DOMAIN rs : u[Len(x) + i] = rs[i]
        <5>1. rs \in Seq(S)
          BY <4>3, Zenon
        <5> QED BY <4>2, <4>4, <5>1, SMT
      <4> QED BY <3>1, <3>3, <4>1, <4>3, <4>4, <4>5, Zenon
    <3>5. Queued(c) \subseteq freeMsgs' /\ \A m \in Queued(c) : ~Stuck(m, msg, freeMsgs, frag)
      BY <2>1, <2>2, <2>4, <3>2, Zenon DEF Queued, Elems
    <3>6. \A i \in DOMAIN inMsgQueue[c] : toClient'[c][Len(toClient[c]) + i].id = msg[inMsgQueue[c][i]].id
      <4>1. ASSUME NEW i \in DOMAIN q PROVE toClient'[c][Len(toClient[c]) + i].id = msg[q[i]].id
        BY <3>3, <3>4, Zenon
      <4> QED BY <2>1, <2>4, <4>1, Zenon
    <3>7. Len(toClient'[c]) = Len(toClient[c]) + Len(inMsgQueue[c])
      BY <2>1, <2>4, <3>4, Zenon
    <3>8. Gets(c)
      BY <1>4, <1>8, <2>2, <2>4, <3>1, <3>4, <3>5, <3>6, <3>7, Zenon DEF Gets
    <3> QED BY <3>8, Zenon DEF ClientStep
  <2> QED BY <2>3, <2>4, Zenon
<1> QED BY <1>1, <1>3, <1>6, <1>7, <1>8, DeliverCases, Zenon

\* Every step is one of these for every client.
LEMMA NextClient ==
  ASSUME TypeOK, TypeOK', LifeInv, Quiet \/ BusyStep
  PROVE  \A c \in Client : ClientStep(c)
<1> SUFFICES ASSUME NEW c \in Client PROVE ClientStep(c)
  BY Zenon
<1>1. ASSUME NEW f \in DOMAIN timeoutTree, MsgTimeout(f) PROVE ClientStep(c)
  <2>1. LoopFree /\ UNCHANGED <<handling, clientVars>>
    BY <1>1, Zenon DEF MsgTimeout
  <2>2. ~Reacting(c) /\ ~Reacting(c)'
    BY <2>1, IdleNotReact, Zenon DEF Reacting
  <2> QED BY <2>1, <2>2, RestsOther, Zenon DEF ClientStep
<1> QED BY <1>1, QuietClient, CReactImmediateClient, CReactClient, DispatchClient, DispatchFailsClient,
           AsyncWriteClient, AnswerClient, Zenon DEF BusyStep, OnCReact
=============================================================================

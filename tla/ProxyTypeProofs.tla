--------------------------- MODULE ProxyTypeProofs --------------------------
(***************************************************************************)
(* The actions of Proxy that leave Msgs and Frags alone keep the types,    *)
(* and LifeInv: they are quiet.  Then RouteInv: where OnCReact can reach   *)
(* every node it gives up on no request; and OwedInv: a frag that is not   *)
(* done belongs to a Msg its client waits for.                             *)
(***************************************************************************)
EXTENDS ProxyLemmas

USE DEF vars, control, msgVars, clientVars, serverVars, timeoutVars, poolVars, redisVars
-----------------------------------------------------------------------------
(* What a step does not touch keeps its type, and the pieces of the actions. *)

\* A step that changes no Msg and no Frag.
LEMMA SameMsgs ==
  ASSUME TypeOK, UNCHANGED <<msg, freeMsgs, msgId, frag>>,
         handling' = handling \/ handling'.op # "react"
  PROVE  MsgsType' /\ FragsType' /\ Growth
<1>1. MsgsType'
  BY Zenon DEF TypeOK, MsgsType
<1>2. FragsType'
  BY Zenon DEF TypeOK, FragsType
<1>3. Growth
  BY Zenon DEF Growth
<1> QED BY <1>1, <1>2, <1>3, Zenon

\* closeConn of a server connection.
LEMMA CloseServerType ==
  ASSUME ServersType, TimeoutsType, Growth, NEW s \in SConn, CloseServer(s)
  PROVE  ServersType' /\ TimeoutsType'
<1>1. TimeoutsType'
  BY TimeoutsDeleted, Zenon DEF CloseServer
<1>2. ServersType'
  <2>1. <<>> \in Seq(DOMAIN frag') /\ <<>> \in Seq(AnswerType')
    OBVIOUS
  <2>2. /\ outFragQueue' \in [SConn -> Seq(DOMAIN frag')]
        /\ inFragQueue' \in [SConn -> Seq(DOMAIN frag')]
        /\ toRedis' \in [SConn -> Seq(DOMAIN frag')]
    BY <2>1, QueuesGrow, Zenon DEF CloseServer
  <2>3. fromRedis' \in [SConn -> Seq(AnswerType')]
    BY <2>1, QueuesGrow, Zenon DEF CloseServer
  <2>4. sconn' \in [SConn -> {"new", "open", "closed"}]
    BY Zenon DEF CloseServer, ServersType
  <2> QED BY <2>2, <2>3, <2>4, Zenon DEF ServersType
<1> QED BY <1>1, <1>2, Zenon
-----------------------------------------------------------------------------
(* The actions.  One lemma each; under it, one step per group of variables  *)
(* that the action disturbs.                                                *)

\* Client connections opening.
LEMMA AcceptType ==
  ASSUME TypeOK, NEW c \in Client, Accept(c)
  PROVE  TypeOK'
<1>1. /\ control' = control /\ serverVars' = serverVars /\ timeoutVars' = timeoutVars
      /\ poolVars' = poolVars /\ redisVars' = redisVars
      /\ UNCHANGED <<handling, msg, freeMsgs, msgId, frag>>
  BY Zenon DEF Accept, control, msgVars
<1>2. MsgsType' /\ FragsType' /\ Growth
  BY <1>1, SameMsgs, Zenon
<1>3. ClientsType'
  BY <1>1, Zenon DEF Accept, TypeOK, ClientsType
<1> QED BY <1>1, <1>2, <1>3, FrameType, Zenon

\* Client connections closing.
LEMMA CCloseType ==
  ASSUME TypeOK, NEW c \in Client, CClose(c)
  PROVE  TypeOK'
<1>1. /\ control' = control /\ serverVars' = serverVars /\ timeoutVars' = timeoutVars
      /\ poolVars' = poolVars /\ redisVars' = redisVars
      /\ UNCHANGED <<handling, msg, freeMsgs, msgId, frag>>
  BY Zenon DEF CClose, control, msgVars
<1>2. MsgsType' /\ FragsType' /\ Growth
  BY <1>1, SameMsgs, Zenon
<1>3. ClientsType'
  BY <1>1, CloseClientType, Zenon DEF CClose, TypeOK
<1> QED BY <1>1, <1>2, <1>3, FrameType, Zenon
-----------------------------------------------------------------------------
(* TypeOK.  One lemma per action; under it, one step per group of variables *)
(* that the action disturbs.                                                *)

\* enqueueInFrag puts clients' frags into the timeout tree.
LEMMA PushToTimeoutQueueType ==
  ASSUME TimeoutsType, NEW q \in Seq(DOMAIN frag), PushToTimeoutQueue(q), frag' = frag
  PROVE  TimeoutsType'
<1> DEFINE sent == {f \in Elems(q) : RequestTimeout /\ frag[f].owner # Nil}
           all  == DOMAIN timeoutTree \cup sent
<1>0. /\ timeoutTree' = [f \in all |-> IF f \in sent THEN clock + (CHOOSE i \in DOMAIN q : q[i] = f)
                                       ELSE timeoutTree[f]]
      /\ clock' = IF all = {} THEN 0 ELSE clock + Len(q)
  BY Zenon DEF PushToTimeoutQueue
<1>1. /\ DOMAIN q = 1 .. Len(q) /\ Len(q) \in Nat /\ clock \in Nat
      /\ \A i \in DOMAIN q : q[i] \in DOMAIN frag
  BY SeqFacts, Zenon DEF TimeoutsType
<1>2. \A f \in sent : (CHOOSE i \in DOMAIN q : q[i] = f) \in Nat
  <2> TAKE f \in sent
  <2>1. \E i \in DOMAIN q : q[i] = f
    BY Zenon DEF Elems
  <2>2. (CHOOSE i \in DOMAIN q : q[i] = f) \in DOMAIN q
    BY <2>1, Zenon
  <2> QED BY <2>2, <1>1
<1>3. sent \subseteq {f \in DOMAIN frag : frag[f].owner # Nil}
  BY <1>1, Zenon DEF Elems
<1>4. \A f \in DOMAIN timeoutTree : timeoutTree[f] \in Nat
  BY Zenon DEF TimeoutsType
<1> HIDE DEF sent
<1>5. timeoutTree' \in [all -> Nat] /\ DOMAIN timeoutTree' = all
  BY <1>0, <1>1, <1>2, <1>4
<1>6. clock' \in Nat
  BY <1>0, <1>1
<1>7. all \subseteq {f \in DOMAIN frag' : frag'[f].owner # Nil}
  BY <1>3, Zenon DEF TimeoutsType
<1> QED BY <1>5, <1>6, <1>7, Zenon DEF TimeoutsType

\* handleWriteSignal.
LEMMA HandleWriteSignalType ==
  ASSUME TypeOK, HandleWriteSignal
  PROVE  TypeOK'
<1>0. ControlType /\ ServersType /\ TimeoutsType
  BY Zenon DEF TypeOK
<1> DEFINE s == Head(tasks).conn
<1>1. /\ UNCHANGED <<status, handling, ticks, msg, freeMsgs, msgId, frag, sconn, fromRedis>>
      /\ clientVars' = clientVars /\ poolVars' = poolVars /\ redisVars' = redisVars
      /\ tasks # <<>> /\ tasks' = Tail(tasks) /\ Head(tasks).op = "write"
  BY Zenon DEF HandleWriteSignal, RunTask, msgVars
<1>2. MsgsType' /\ FragsType' /\ Growth
  BY <1>1, SameMsgs, Zenon
<1>3. tasks' \in Seq(TaskType) /\ s \in SConn
  BY <1>0, <1>1, TaskTaken, Zenon
<1>4. ControlType'
  BY <1>0, <1>1, <1>2, <1>3, ControlGrow, Zenon
<1>5. CASE Opened(s)
  <2>1. /\ outFragQueue' = [outFragQueue EXCEPT ![s] = <<>>]
        /\ inFragQueue' = [inFragQueue EXCEPT ![s] = @ \o outFragQueue[s]]
        /\ toRedis' = [toRedis EXCEPT ![s] = @ \o outFragQueue[s]]
        /\ PushToTimeoutQueue(outFragQueue[s])
    BY <1>5, Zenon DEF HandleWriteSignal, DequeueOutFrags, EnqueueInFrags
  <2> HIDE DEF s
  <2>2. TimeoutsType'
    BY <1>0, <1>1, <1>3, <2>1, PushToTimeoutQueueType, Zenon DEF ServersType
  <2>3. /\ outFragQueue[s] \in Seq(DOMAIN frag) /\ inFragQueue[s] \in Seq(DOMAIN frag)
        /\ toRedis[s] \in Seq(DOMAIN frag) /\ <<>> \in Seq(DOMAIN frag)
    BY <1>0, <1>3 DEF ServersType
  <2>4. /\ inFragQueue[s] \o outFragQueue[s] \in Seq(DOMAIN frag)
        /\ toRedis[s] \o outFragQueue[s] \in Seq(DOMAIN frag)
    BY <2>3, SeqConcat, Zenon
  <2>5. /\ outFragQueue' \in [SConn -> Seq(DOMAIN frag)]
        /\ inFragQueue' \in [SConn -> Seq(DOMAIN frag)]
        /\ toRedis' \in [SConn -> Seq(DOMAIN frag)]
    BY <1>0, <2>1, <2>3, <2>4, Zenon DEF ServersType
  <2>6. ServersType'
    BY <1>0, <1>1, <2>5, Zenon DEF ServersType, AnswerType
  <2> QED BY <1>1, <1>2, <1>4, <2>2, <2>6, FrameType, Zenon
<1>6. CASE ~Opened(s)
  <2>1. serverVars' = serverVars /\ timeoutVars' = timeoutVars
    BY <1>1, <1>6, Zenon DEF HandleWriteSignal, serverVars, timeoutVars
  <2> QED BY <1>1, <1>2, <1>4, <2>1, FrameType, Zenon
<1> QED BY <1>5, <1>6, Zenon

\* The task of conn.Close.
LEMMA CloseTaskType ==
  ASSUME TypeOK, CloseTask
  PROVE  TypeOK'
<1>0. ControlType /\ ServersType /\ TimeoutsType
  BY Zenon DEF TypeOK
<1> DEFINE s == Head(tasks).conn
<1>1. /\ UNCHANGED <<status, handling, ticks, msg, freeMsgs, msgId, frag>>
      /\ clientVars' = clientVars /\ poolVars' = poolVars /\ redisVars' = redisVars
      /\ tasks # <<>> /\ tasks' = Tail(tasks) /\ Head(tasks).op = "close"
      /\ CloseServer(s) \/ (serverVars' = serverVars /\ timeoutVars' = timeoutVars)
  BY Zenon DEF CloseTask, RunTask, msgVars
<1>2. MsgsType' /\ FragsType' /\ Growth
  BY <1>1, SameMsgs, Zenon
<1>3. tasks' \in Seq(TaskType) /\ s \in SConn
  BY <1>0, <1>1, TaskTaken, Zenon
<1>4. ControlType'
  BY <1>0, <1>1, <1>2, <1>3, ControlGrow, Zenon
<1> HIDE DEF s
<1>5. CloseServer(s) => ServersType' /\ TimeoutsType'
  BY <1>0, <1>2, <1>3, CloseServerType, Zenon
<1> QED BY <1>1, <1>2, <1>4, <1>5, FrameType, Zenon

\* The task of AsyncWrite.
LEMMA AsyncWriteType ==
  ASSUME TypeOK, AsyncWrite
  PROVE  TypeOK'
<1>0. ControlType /\ ClientsType
  BY Zenon DEF TypeOK
<1> DEFINE c == Head(tasks).conn
           r == Reply(Head(tasks).id, "timeout", {})
<1>1. /\ UNCHANGED <<status, handling, ticks, msg, freeMsgs, msgId, frag, cconn, inMsgQueue, asked>>
      /\ serverVars' = serverVars /\ timeoutVars' = timeoutVars
      /\ poolVars' = poolVars /\ redisVars' = redisVars
      /\ tasks # <<>> /\ tasks' = Tail(tasks) /\ Head(tasks).op = "reply"
      /\ toClient' = toClient \/ toClient' = [toClient EXCEPT ![c] = Append(@, r)]
  BY Zenon DEF AsyncWrite, RunTask, msgVars
<1>2. MsgsType' /\ FragsType' /\ Growth
  BY <1>1, SameMsgs, Zenon
<1>3. tasks' \in Seq(TaskType) /\ c \in Client /\ Head(tasks).id \in Nat
  BY <1>0, <1>1, TaskTaken, Zenon
<1>4. ControlType'
  BY <1>0, <1>1, <1>2, <1>3, ControlGrow, Zenon
<1>5. r \in ReplyType
  BY <1>3, Zenon DEF Reply, ReplyType
<1> HIDE DEF c, r
<1>6. Append(toClient[c], r) \in Seq(ReplyType)
  BY <1>0, <1>3, <1>5, SeqAppend, Zenon DEF ClientsType
<1>7. ClientsType'
  BY <1>0, <1>1, <1>6, Zenon DEF ClientsType
<1> QED BY <1>1, <1>2, <1>4, <1>7, FrameType, Zenon
-----------------------------------------------------------------------------
(* Timeouts and the replies of Redis.                                       *)

\* sread of a reply that is dropped, whatever it does to the pool it looks up.
LEMMA SReadDropsType ==
  ASSUME TypeOK, NEW s \in SConn, SReadCluster(s) \/ SReadMovedFails(s) \/ SReadLate(s)
  PROVE  TypeOK'
<1>0. PoolsType
  BY Zenon DEF TypeOK
<1>1. /\ TakeReply(s) /\ UNCHANGED <<msg, freeMsgs, msgId, frag, sconn, outFragQueue>>
      /\ control' = control /\ clientVars' = clientVars /\ redisVars' = redisVars
      /\ handling' = handling
  BY Zenon DEF SReadCluster, SReadMovedFails, SReadLate, msgVars, control
<1>2. MsgsType' /\ FragsType' /\ Growth
  BY <1>1, SameMsgs, Zenon
<1>3. ServersType' /\ TimeoutsType'
  BY <1>1, <1>2, ReplyTakenServers, Zenon
<1>4. poolVars' = poolVars \/ PoolsType'
  <2>1. CASE SReadCluster(s) \/ SReadLate(s)
    BY <2>1, Zenon DEF SReadCluster, SReadLate
  <2>2. CASE SReadMovedFails(s)
    <3>1. /\ pools' = pools /\ slavePools' = slavePools /\ Slots2Node' = Slots2Node
          /\ active' = active \/ PoolGetNil(Answer(s).addr)
      BY <2>2, Zenon DEF SReadMovedFails
    <3>2. active' \in [Addr -> Seq(SConn)]
      BY <1>0, <3>1, PoolGetNilType, Zenon DEF PoolsType
    <3> QED BY <1>0, <3>1, <3>2, Zenon DEF PoolsType
  <2> QED BY <2>1, <2>2, Zenon
<1> QED BY <1>1, <1>2, <1>3, <1>4, FrameType, Zenon

\* OnMoved.
LEMMA SReadMovedType ==
  ASSUME TypeOK, NEW s \in SConn, NEW t \in SConn, SReadMoved(s, t)
  PROVE  TypeOK'
<1>0. ControlType /\ ServersType /\ TimeoutsType /\ PoolsType
  BY Zenon DEF TypeOK
<1>1. /\ TakeReply(s) /\ PoolGet(t)
      /\ UNCHANGED <<handling, ticks, msg, freeMsgs, msgId, frag, pools, slavePools,
                     Slots2Node>>
      /\ clientVars' = clientVars /\ redisVars' = redisVars
      /\ \/ status' = "panicked" /\ outFragQueue' = outFragQueue /\ tasks' = tasks
         \/ EnqueueOutFrag(t, Answered(s)) /\ status' = status
  BY Zenon DEF SReadMoved, msgVars
<1>2. MsgsType' /\ FragsType' /\ Growth
  BY <1>1, SameMsgs, Zenon
<1>3. Answered(s) \in DOMAIN frag
  BY <1>1, TakeReplyType, Zenon
<1>4. outFragQueue' \in [SConn -> Seq(DOMAIN frag)] /\ tasks' \in Seq(TaskType)
  BY <1>0, <1>1, <1>3, EnqueueOutFragType, Zenon DEF ControlType, ServersType
<1>5. ControlType'
  BY <1>0, <1>1, <1>4, Zenon DEF ControlType, ReactType
<1>6. active' \in [Addr -> Seq(SConn)] /\ sconn' \in [SConn -> {"new", "open", "closed"}]
  BY <1>0, <1>1, PoolGetType, Zenon
<1>7. PoolsType'
  BY <1>0, <1>1, <1>6, Zenon DEF PoolsType
<1>8. /\ TimeoutsType'
      /\ inFragQueue' \in [SConn -> Seq(DOMAIN frag')]
      /\ toRedis' \in [SConn -> Seq(DOMAIN frag')]
      /\ fromRedis' \in [SConn -> Seq(AnswerType')]
  BY <1>0, <1>1, <1>2, TakeReplyServers, Zenon
<1>9. ServersType'
  BY <1>1, <1>4, <1>6, <1>8, Zenon DEF ServersType
<1> QED BY <1>1, <1>2, <1>5, <1>7, <1>8, <1>9, FrameType, Zenon

\* A panic of MGet, or of OnCReact without a Msg.
LEMMA PanicType ==
  ASSUME TypeOK, Panic
  PROVE  TypeOK'
<1>0. ControlType
  BY Zenon DEF TypeOK
<1>1. /\ status' = "panicked"
      /\ UNCHANGED <<handling, tasks, ticks, msg, freeMsgs, msgId, frag>>
      /\ clientVars' = clientVars /\ serverVars' = serverVars /\ timeoutVars' = timeoutVars
      /\ poolVars' = poolVars /\ redisVars' = redisVars
  BY Zenon DEF Panic, msgVars
<1>2. MsgsType' /\ FragsType' /\ Growth
  BY <1>1, SameMsgs, Zenon
<1>3. ControlType'
  BY <1>0, <1>1, Zenon DEF ControlType, ReactType
<1> QED BY <1>1, <1>2, <1>3, FrameType, Zenon

\* Polling returns: every connection is closed.
LEMMA SReadShutdownType ==
  ASSUME TypeOK, NEW s \in SConn, SReadShutdown(s)
  PROVE  TypeOK'
<1>0. ControlType /\ ClientsType /\ ServersType
  BY Zenon DEF TypeOK
<1>1. /\ status' = "exited"
      /\ UNCHANGED <<handling, tasks, ticks, msg, freeMsgs, msgId, frag, asked, toClient>>
      /\ poolVars' = poolVars /\ redisVars' = redisVars
      /\ cconn' = [c \in Client |-> IF cconn[c] = "open" THEN "closed" ELSE cconn[c]]
      /\ inMsgQueue' = [c \in Client |-> <<>>]
      /\ sconn' = [t \in SConn |-> IF Opened(t) THEN "closed" ELSE sconn[t]]
      /\ outFragQueue' = [t \in SConn |-> <<>>] /\ inFragQueue' = [t \in SConn |-> <<>>]
      /\ toRedis' = [t \in SConn |-> <<>>] /\ fromRedis' = [t \in SConn |-> <<>>]
      /\ timeoutTree' = <<>> /\ clock' = 0
  BY Zenon DEF SReadShutdown, msgVars
<1>2. MsgsType' /\ FragsType' /\ Growth
  BY <1>1, SameMsgs, Zenon
<1>3. ControlType'
  BY <1>0, <1>1, Zenon DEF ControlType, ReactType
<1>4. ClientsType'
  <2>1. inMsgQueue' \in [Client -> Seq(DOMAIN msg')]
    BY <1>1
  <2>2. cconn' \in [Client -> {"new", "open", "closed"}]
    BY <1>0, <1>1, Zenon DEF ClientsType
  <2> QED BY <1>0, <1>1, <2>1, <2>2, Zenon DEF ClientsType
<1>5. ServersType'
  <2>1. /\ outFragQueue' \in [SConn -> Seq(DOMAIN frag')]
        /\ inFragQueue' \in [SConn -> Seq(DOMAIN frag')]
        /\ toRedis' \in [SConn -> Seq(DOMAIN frag')]
    BY <1>1
  <2>2. sconn' \in [SConn -> {"new", "open", "closed"}]
    BY <1>0, <1>1, Zenon DEF ServersType
  <2>3. fromRedis' \in [SConn -> Seq(AnswerType')]
    BY <1>1
  <2> QED BY <2>1, <2>2, <2>3, Zenon DEF ServersType
<1>6. TimeoutsType'
  BY <1>1 DEF TimeoutsType
<1> QED BY <1>1, <1>2, <1>3, <1>4, <1>5, <1>6, FrameType, Zenon

\* Redis hangs up.
LEMMA SCloseType ==
  ASSUME TypeOK, NEW s \in SConn, SClose(s)
  PROVE  TypeOK'
<1>0. ServersType /\ TimeoutsType
  BY Zenon DEF TypeOK
<1>1. /\ UNCHANGED <<handling, msg, freeMsgs, msgId, frag>> /\ control' = control
      /\ clientVars' = clientVars /\ poolVars' = poolVars /\ redisVars' = redisVars
      /\ CloseServer(s)
  BY Zenon DEF SClose, msgVars, control
<1>2. MsgsType' /\ FragsType' /\ Growth
  BY <1>1, SameMsgs, Zenon
<1>3. ServersType' /\ TimeoutsType'
  BY <1>0, <1>1, <1>2, CloseServerType, Zenon
<1> QED BY <1>1, <1>2, <1>3, FrameType, Zenon

\* Redis answers about the frag it was asked for, and redirects to a node.
LEMMA AnswersType ==
  ASSUME TypeOK, ProxyAssumption, NEW a \in Addr, NEW f \in DOMAIN frag, NEW r \in Answers(a, f)
  PROVE  r \in AnswerType
<1>0. RedisType /\ FragsType
  BY Zenon DEF TypeOK
<1> DEFINE k == frag[f].slot
<1>1. frag[f].owner # Nil => k \in Slot
  BY <1>0, Zenon DEF FragsType
<1>2. CASE frag[f].owner = Nil
  BY <1>2 DEF Answers, AnswerType
<1>3. CASE frag[f].owner # Nil /\ home[k] # a
  <2>1. home[k] \in Addr
    BY <1>0, <1>1, <1>3, Zenon DEF RedisType
  <2>2. r = [frag |-> f, kind |-> "moved", addr |-> home[k]]
    BY <1>3, Zenon DEF Answers
  <2> QED BY <2>1, <2>2, Zenon DEF AnswerType
<1>4. CASE frag[f].owner # Nil /\ home[k] = a
  <2>1. \/ \E x \in {"data", "error", "large", "auth"} : r = [frag |-> f, kind |-> x, addr |-> a]
        \/ migrating[k] # Nil /\ r = [frag |-> f, kind |-> "ask", addr |-> migrating[k]]
    BY <1>4, Zenon DEF Answers
  <2>2. migrating[k] # Nil => migrating[k] \in Addr
    BY <1>0, <1>1, <1>4, Zenon DEF RedisType
  <2> QED BY <2>1, <2>2, SMTT(20) DEF AnswerType
<1> QED BY <1>2, <1>3, <1>4, Zenon

\* Redis executes a request.
LEMMA ExecuteType ==
  ASSUME TypeOK, ProxyAssumption, NEW s \in SConn, Execute(s)
  PROVE  TypeOK'
<1>0. ServersType
  BY Zenon DEF TypeOK
<1>1. /\ UNCHANGED <<handling, msg, freeMsgs, msgId, frag, sconn, outFragQueue, inFragQueue>>
      /\ control' = control
      /\ clientVars' = clientVars /\ poolVars' = poolVars /\ redisVars' = redisVars
      /\ timeoutVars' = timeoutVars
      /\ toRedis[s] # <<>> /\ toRedis' = [toRedis EXCEPT ![s] = Tail(toRedis[s])]
  BY Zenon DEF Execute, msgVars, control
<1>2. MsgsType' /\ FragsType' /\ Growth
  BY <1>1, SameMsgs, Zenon
<1>3. PICK r \in Answers(s[1], Head(toRedis[s])) :
        fromRedis' = [fromRedis EXCEPT ![s] = Append(fromRedis[s], r)]
  BY Zenon DEF Execute
<1>4. toRedis[s] \in Seq(DOMAIN frag) /\ fromRedis[s] \in Seq(AnswerType)
  BY <1>0, Zenon DEF ServersType
<1>5. Head(toRedis[s]) \in DOMAIN frag /\ Tail(toRedis[s]) \in Seq(DOMAIN frag)
  <2> DEFINE q == toRedis[s]  fs == DOMAIN frag
  <2>1. q \in Seq(fs) /\ q # <<>>
    BY <1>1, <1>4, Zenon
  <2> HIDE DEF q, fs
  <2>2. Head(q) \in fs /\ Tail(q) \in Seq(fs)
    BY <2>1, SeqHeadTail
  <2> QED BY <2>2, Zenon DEF q, fs
<1>6. s[1] \in Addr
  BY Zenon DEF SConn
<1>7. Append(fromRedis[s], r) \in Seq(AnswerType)
  BY <1>4, <1>5, <1>6, AnswersType, SeqAppend, Zenon
<1>8. toRedis' \in [SConn -> Seq(DOMAIN frag)] /\ fromRedis' \in [SConn -> Seq(AnswerType)]
  BY <1>0, <1>1, <1>3, <1>5, <1>7, Zenon DEF ServersType
<1>9. ServersType'
  BY <1>0, <1>1, <1>8, Zenon DEF ServersType, AnswerType
<1> QED BY <1>1, <1>2, <1>9, FrameType, Zenon

\* OnTicker.
LEMMA OnTickerType ==
  ASSUME PoolsType, ServersType, tasks \in Seq(TaskType), NEW ps, OnTicker(ps)
  PROVE  /\ active' \in [Addr -> Seq(SConn)] /\ sconn' \in [SConn -> {"new", "open", "closed"}]
         /\ tasks' \in Seq(TaskType)
<1>1. CASE \E s \in SConn : PoolGet(s) /\ tasks' = Append(tasks, Task("cluster", s, 0))
  <2>1. PICK s \in SConn : PoolGet(s) /\ tasks' = Append(tasks, Task("cluster", s, 0))
    BY <1>1, Zenon
  <2>2. active' \in [Addr -> Seq(SConn)] /\ sconn' \in [SConn -> {"new", "open", "closed"}]
    BY <2>1, PoolGetType, Zenon
  <2>3. tasks' \in Seq(TaskType)
    BY <2>1, ServerTaskType, Zenon
  <2> QED BY <2>2, <2>3, Zenon
<1>2. CASE \E a \in ps : PoolGetNil(a) /\ UNCHANGED <<sconn, tasks>>
  BY <1>2, PoolGetNilType, Zenon DEF ServersType
<1> QED BY <1>1, <1>2, Zenon DEF OnTicker

\* A tick that finds the topology unchanged.
LEMMA TickerType ==
  ASSUME TypeOK, ProxyAssumption, Ticker
  PROVE  TypeOK'
<1>0. ControlType /\ ServersType /\ PoolsType
  BY Zenon DEF TypeOK
<1>1. /\ UNCHANGED <<status, handling, msg, freeMsgs, msgId, frag, outFragQueue, inFragQueue,
                     toRedis, fromRedis, pools, slavePools, Slots2Node>>
      /\ clientVars' = clientVars /\ timeoutVars' = timeoutVars /\ redisVars' = redisVars
      /\ ticks < MaxTick /\ ticks' = ticks + 1 /\ OnTicker(pools)
  BY Zenon DEF Ticker, msgVars
<1>2. MsgsType' /\ FragsType' /\ Growth
  BY <1>1, SameMsgs, Zenon
<1>3. /\ active' \in [Addr -> Seq(SConn)] /\ sconn' \in [SConn -> {"new", "open", "closed"}]
      /\ tasks' \in Seq(TaskType)
  BY <1>0, <1>1, OnTickerType, Zenon DEF ControlType
<1>4. ticks' \in 0 .. MaxTick
  BY <1>0, <1>1 DEF ControlType, ProxyAssumption
<1>5. ControlType'
  BY <1>0, <1>1, <1>3, <1>4, Zenon DEF ControlType, ReactType
<1>6. ServersType'
  BY <1>0, <1>1, <1>3, Zenon DEF ServersType, AnswerType
<1>7. PoolsType'
  BY <1>0, <1>1, <1>3, Zenon DEF PoolsType
<1> QED BY <1>1, <1>2, <1>5, <1>6, <1>7, FrameType, Zenon

\* A tick that finds another topology.
LEMMA TickerChangedType ==
  ASSUME TypeOK, ProxyAssumption, NEW t \in Topologies, TickerChanged(t)
  PROVE  TypeOK'
<1>0. ControlType
  BY Zenon DEF TypeOK
<1>1. /\ UNCHANGED <<status, tasks, msg, freeMsgs, msgId, frag>>
      /\ clientVars' = clientVars /\ serverVars' = serverVars /\ timeoutVars' = timeoutVars
      /\ poolVars' = poolVars /\ redisVars' = redisVars
      /\ ticks < MaxTick /\ ticks' = ticks + 1
      /\ handling' = [op |-> "ticker", topo |-> t] /\ handling'.op # "react"
  BY ZenonT(30) DEF TickerChanged, msgVars
<1>2. MsgsType' /\ FragsType' /\ Growth
  BY <1>1, SameMsgs, Zenon
<1>3. ticks' \in 0 .. MaxTick
  BY <1>0, <1>1, SMTT(30) DEF ControlType, ProxyAssumption
<1>4. handling' \in ReloadType
  BY <1>1, Zenon DEF ReloadType
<1>5. ControlType'
  BY <1>0, <1>1, <1>3, <1>4, Zenon DEF ControlType
<1> QED BY <1>1, <1>2, <1>5, FrameType, Zenon

\* Pool.Close of a node that is gone, Pool.SetIsSlave of one that stays.
LEMMA ReleaseType ==
  ASSUME TypeOK, NEW a \in Addr, TickerRemove(a) \/ SetIsSlave(a)
  PROVE  TypeOK'
<1>0. ControlType /\ PoolsType
  BY Zenon DEF TypeOK
<1> DEFINE closing == [i \in DOMAIN active[a] |-> Task("close", active[a][i], 0)]
<1>1. /\ UNCHANGED <<status, handling, ticks, msg, freeMsgs, msgId, frag, Slots2Node>>
      /\ clientVars' = clientVars /\ serverVars' = serverVars /\ timeoutVars' = timeoutVars
      /\ redisVars' = redisVars
      /\ tasks' = tasks \o closing
      /\ active' = [active EXCEPT ![a] = <<>>]
  BY Zenon DEF TickerRemove, SetIsSlave, Release, msgVars
<1>2. MsgsType' /\ FragsType' /\ Growth
  BY <1>1, SameMsgs, Zenon
<1>3. active[a] \in Seq(SConn)
  BY <1>0, Zenon DEF PoolsType
<1>4. /\ DOMAIN active[a] = 1 .. Len(active[a]) /\ Len(active[a]) \in Nat
      /\ \A i \in DOMAIN active[a] : active[a][i] \in SConn
  BY <1>3, SeqFacts, Zenon
<1>5. \A i \in DOMAIN active[a] : closing[i] \in TaskType
  BY <1>4, Zenon DEF Task, TaskType
<1>6. closing \in Seq(TaskType)
  BY <1>4, <1>5, FcnIsSeq, Zenon
<1> HIDE DEF closing
<1>7. tasks' \in Seq(TaskType)
  BY <1>0, <1>1, <1>6, SeqConcat, Zenon DEF ControlType
<1>8. ControlType'
  BY <1>0, <1>1, <1>2, <1>7, ControlGrow, Zenon
<1>9. active' \in [Addr -> Seq(SConn)]
  <2>1. <<>> \in Seq(SConn)
    OBVIOUS
  <2> QED BY <1>0, <1>1, <2>1, Zenon DEF PoolsType
<1>10. pools' \in SUBSET Addr /\ slavePools' \subseteq pools'
  <2>1. CASE TickerRemove(a)
    BY <1>0, <2>1, Zenon DEF TickerRemove, PoolsType
  <2>2. CASE SetIsSlave(a)
    BY <1>0, <2>2, Zenon DEF SetIsSlave, PoolsType
  <2> QED BY <2>1, <2>2, Zenon
<1>11. PoolsType'
  BY <1>0, <1>1, <1>9, <1>10, Zenon DEF PoolsType
<1> QED BY <1>1, <1>2, <1>8, <1>11, FrameType, Zenon

\* The new topology is in place.
LEMMA TickerLoadType ==
  ASSUME TypeOK, ProxyAssumption, TickerLoad
  PROVE  TypeOK'
<1>0. ControlType /\ ServersType /\ PoolsType
  BY Zenon DEF TypeOK
<1>1. /\ UNCHANGED <<status, ticks, msg, freeMsgs, msgId, frag, outFragQueue, inFragQueue,
                     toRedis, fromRedis>>
      /\ clientVars' = clientVars /\ timeoutVars' = timeoutVars /\ redisVars' = redisVars
      /\ handling.op = "ticker" /\ handling' = Idle /\ handling'.op # "react"
      /\ pools' = handling.topo.nodes /\ slavePools' = handling.topo.slaves
      /\ Slots2Node' = handling.topo.slots /\ OnTicker(handling.topo.nodes)
  BY Zenon  DEF TickerLoad, msgVars, Idle
<1>2. MsgsType' /\ FragsType' /\ Growth
  BY <1>1, SameMsgs, Zenon
<1>3. handling.topo \in Topologies
  <2>1. handling # Idle /\ handling \notin ReactType
    BY <1>1 DEF Idle, ReactType
  <2>2. handling \in ReloadType
    BY <1>0, <2>1, Zenon DEF ControlType
  <2> QED BY <2>2, Zenon DEF ReloadType
<1>4. /\ pools' \in SUBSET Addr /\ slavePools' \subseteq pools'
      /\ Slots2Node' \in [Slot -> Addr \cup {Nil}]
  <2>1. \A t \in Topologies : /\ t.nodes \in SUBSET Addr /\ t.slaves \subseteq t.nodes
                              /\ t.slots \in [Slot -> Addr \cup {Nil}]
    BY Zenon  DEF ProxyAssumption
  <2> QED BY <1>1, <1>3, <2>1, Zenon
<1>5. /\ active' \in [Addr -> Seq(SConn)] /\ sconn' \in [SConn -> {"new", "open", "closed"}]
      /\ tasks' \in Seq(TaskType)
  BY <1>0, <1>1, OnTickerType, Zenon DEF ControlType
<1>6. ControlType'
  BY <1>0, <1>1, <1>5, Zenon DEF ControlType
<1>7. ServersType'
  BY <1>0, <1>1, <1>5, Zenon DEF ServersType, AnswerType
<1>8. PoolsType'
  BY <1>4, <1>5, Zenon DEF PoolsType
<1> QED BY <1>1, <1>2, <1>6, <1>7, <1>8, FrameType, Zenon

\* The cluster moves a slot.
LEMMA MigrationType ==
  ASSUME TypeOK, ProxyAssumption, NEW k \in Slot, Migrated(k) \/ \E a \in Addr : Migrate(k, a)
  PROVE  TypeOK'
<1>0. RedisType
  BY Zenon DEF TypeOK
<1>1. /\ UNCHANGED <<handling, msg, freeMsgs, msgId, frag>> /\ control' = control
      /\ clientVars' = clientVars /\ serverVars' = serverVars /\ timeoutVars' = timeoutVars
      /\ poolVars' = poolVars
  BY Zenon  DEF Migrated, Migrate, msgVars, control
<1>2. MsgsType' /\ FragsType' /\ Growth
  BY <1>1, SameMsgs, Zenon
<1>3. CASE Migrated(k)
  <2>1. /\ home' = [home EXCEPT ![k] = migrating[k]] /\ migrating' = [migrating EXCEPT ![k] = Nil]
        /\ migrations' = migrations /\ migrating[k] # Nil
    BY <1>3, Zenon DEF Migrated
  <2>2. migrating[k] \in Addr
    BY <1>0, <2>1, Zenon DEF RedisType
  <2>3. RedisType'
    BY <1>0, <2>1, <2>2, Zenon DEF RedisType
  <2> QED BY <1>1, <1>2, <2>3, FrameType, Zenon
<1>4. CASE \E a \in Addr : Migrate(k, a)
  <2>1. PICK a \in Addr : Migrate(k, a)
    BY <1>4, Zenon
  <2>2. /\ home' = home /\ migrating' = [migrating EXCEPT ![k] = a]
        /\ migrations < MaxMigrate /\ migrations' = migrations + 1
    BY <2>1, Zenon DEF Migrate
  <2>3. migrations' \in 0 .. MaxMigrate
    BY <1>0, <2>2 DEF RedisType, ProxyAssumption
  <2>4. RedisType'
    BY <1>0, <2>2, <2>3, Zenon DEF RedisType
  <2> QED BY <1>1, <1>2, <2>4, FrameType, Zenon
<1> QED BY <1>3, <1>4, Zenon
-----------------------------------------------------------------------------
(* Steps that neither decode nor dispatch a request, nor answer one.        *)

\* Tasks that write no reply join the rest of the queue.
LEMMA RepliesPendingConcat ==
  ASSUME NEW q \in Seq(TaskType), NEW t \in Seq(TaskType), NEW d \in {0, 1},
         tasks \in Seq(TaskType),
         \A i \in DOMAIN q : i + d \in DOMAIN tasks /\ q[i] = tasks[i + d],
         \A i \in DOMAIN t : t[i].op # "reply", tasks' = q \o t
  PROVE  RepliesPending
<1>1. /\ DOMAIN tasks' = DOMAIN q \cup (Len(q) + 1 .. Len(q) + Len(t))
      /\ \A i \in DOMAIN q : tasks'[i] = q[i]
      /\ \A i \in Len(q) + 1 .. Len(q) + Len(t) : i - Len(q) \in DOMAIN t /\ tasks'[i] = t[i - Len(q)]
  BY SeqConcat
<1>2. \A i \in DOMAIN tasks' :
        tasks'[i].op = "reply" => i + d \in DOMAIN tasks /\ tasks'[i] = tasks[i + d]
  BY <1>1, Zenon
<1> QED BY <1>2, Zenon DEF RepliesPending

\* Closing a client while no handler is at it.
LEMMA QuietClose ==
  ASSUME TypeOK, handling.op # "react", handling' = handling, tasks' = tasks,
         UNCHANGED <<msgVars, frag, asked, toClient>>,
         NEW c \in Client, inMsgQueue' = [inMsgQueue EXCEPT ![c] = <<>>],
         cconn' = [cconn EXCEPT ![c] = "closed"]
  PROVE  Quiet
<1>1. RepliesPending
  BY RepliesPendingSame, Zenon DEF TypeOK, ControlType
<1>2. \A d \in Client : ClientQuiet(d)
  BY Zenon DEF ClientQuiet, TypeOK, ClientsType
<1>3. MsgsQuiet /\ FragsQuiet /\ HandlingQuiet
  BY Zenon DEF MsgsQuiet, FragsQuiet, HandlingQuiet
<1> QED BY <1>1, <1>2, <1>3, Zenon DEF Quiet

\* accept and OnCOpened.
LEMMA QuietAccept ==
  ASSUME TypeOK, NEW c \in Client, Accept(c)
  PROVE  Quiet
<1>0. tasks' = tasks
  BY Zenon DEF Accept
<1>1. RepliesPending
  BY <1>0, RepliesPendingSame, Zenon DEF TypeOK, ControlType
<1>2. PICK st \in {"open", "closed"} : cconn' = [cconn EXCEPT ![c] = st]
  BY Zenon DEF Accept
<1>3. handling.op # "react" /\ cconn[c] = "new" /\ inMsgQueue' = inMsgQueue
  BY IdleNotReact, Zenon DEF Accept
<1>4. \A d \in Client : ClientQuiet(d)
  BY <1>2, <1>3, Zenon DEF ClientQuiet, TypeOK, ClientsType
<1>5. MsgsQuiet /\ FragsQuiet /\ HandlingQuiet
  BY Zenon DEF MsgsQuiet, FragsQuiet, HandlingQuiet, Accept
<1> QED BY <1>1, <1>4, <1>5, Zenon DEF Quiet

\* handleWriteSignal, and the task of conn.Close.
LEMMA QuietTasks ==
  ASSUME TypeOK, HandleWriteSignal \/ CloseTask
  PROVE  Quiet
<1>1. tasks \in Seq(TaskType) /\ tasks # <<>> /\ tasks' = Tail(tasks)
  BY Zenon DEF TypeOK, ControlType, HandleWriteSignal, CloseTask, RunTask
<1>2. RepliesPending
  BY <1>1, RepliesPendingTail, Zenon
<1>3. UNCHANGED <<msgVars, frag, clientVars, handling>>
  BY Zenon DEF HandleWriteSignal, CloseTask
<1> QED BY <1>2, <1>3, QuietServer, Zenon DEF HandlingQuiet

\* Redis answers, and the reply changes nothing a client can see.
LEMMA QuietRead ==
  ASSUME TypeOK, NEW s \in SConn,
         SReadCluster(s) \/ SReadMovedFails(s) \/ SReadLate(s) \/ SReadMGetPanics(s)
           \/ SClose(s) \/ Execute(s)
  PROVE  Quiet
<1>1. UNCHANGED <<msgVars, frag, clientVars, handling, tasks>>
  <2>1. CASE SReadCluster(s) \/ SReadMovedFails(s) \/ SReadLate(s)
    BY <2>1, Zenon DEF SReadCluster, SReadMovedFails, SReadLate
  <2>2. CASE SReadMGetPanics(s) \/ SClose(s) \/ Execute(s)
    BY <2>2, Zenon DEF SReadMGetPanics, SClose, Execute, Panic
  <2> QED BY <2>1, <2>2, Zenon
<1>2. RepliesPending
  BY <1>1, RepliesPendingSame, Zenon DEF TypeOK, ControlType
<1> QED BY <1>1, <1>2, QuietServer, Zenon DEF HandlingQuiet

\* A panic.
LEMMA QuietPanic ==
  ASSUME TypeOK, Panic
  PROVE  Quiet
<1>1. UNCHANGED <<msgVars, frag, clientVars, handling, tasks>>
  BY Zenon DEF Panic
<1>2. RepliesPending
  BY <1>1, RepliesPendingSame, Zenon DEF TypeOK, ControlType
<1> QED BY <1>1, <1>2, QuietServer, Zenon DEF HandlingQuiet

\* OnMoved: the frag waits at another connection.
LEMMA QuietMoved ==
  ASSUME TypeOK, NEW s \in SConn, NEW t \in SConn, SReadMoved(s, t)
  PROVE  Quiet
<1>1. UNCHANGED <<msgVars, frag, clientVars, handling>>
  BY Zenon DEF SReadMoved
<1>2. tasks' = tasks \/ tasks' = Append(tasks, Task("write", t, 0))
  BY Zenon DEF SReadMoved, EnqueueOutFrag
<1>3. RepliesPending
  BY <1>2, RepliesPendingSame, RepliesPendingAppend, Zenon DEF TypeOK, ControlType
<1> QED BY <1>1, <1>3, QuietServer, Zenon DEF HandlingQuiet

\* run closes every connection.
LEMMA QuietShutdown ==
  ASSUME TypeOK, NEW s \in SConn, SReadShutdown(s)
  PROVE  Quiet
<1>1. /\ UNCHANGED <<msgVars, frag, asked, toClient, handling, tasks>> /\ handling.op # "react"
      /\ cconn' = [c \in Client |-> IF cconn[c] = "open" THEN "closed" ELSE cconn[c]]
      /\ inMsgQueue' = [c \in Client |-> <<>>]
  BY IdleNotReact, Zenon DEF SReadShutdown
<1>2. RepliesPending
  BY <1>1, RepliesPendingSame, Zenon DEF TypeOK, ControlType
<1>3. \A c \in Client : ClientQuiet(c)
  BY <1>1, Zenon DEF ClientQuiet
<1>4. MsgsQuiet /\ FragsQuiet /\ HandlingQuiet
  BY <1>1, Zenon DEF MsgsQuiet, FragsQuiet, HandlingQuiet
<1> QED BY <1>2, <1>3, <1>4, Zenon DEF Quiet

\* The ticker, and the reload of the topology.
LEMMA QuietTicker ==
  ASSUME TypeOK, ProxyAssumption,
         Ticker \/ (\E t \in Topologies : TickerChanged(t)) \/ Reload
  PROVE  Quiet
<1>0. tasks \in Seq(TaskType) /\ active \in [Addr -> Seq(SConn)]
  BY Zenon  DEF TypeOK, ControlType, PoolsType
<1>1. ASSUME NEW ps, OnTicker(ps) PROVE RepliesPending
  <2>1. tasks' = tasks \/ \E s \in SConn : tasks' = Append(tasks, Task("cluster", s, 0))
    BY <1>1, Zenon DEF OnTicker
  <2> QED BY <2>1, <1>0, RepliesPendingSame, RepliesPendingAppend, Zenon
<1>2. CASE Ticker
  BY <1>1, <1>2, QuietServer, Zenon DEF Ticker, HandlingQuiet
<1>3. ASSUME NEW t \in Topologies, TickerChanged(t) PROVE Quiet
  <2>1. handling.op # "react" /\ handling'.op # "react"
    BY <1>3, IdleNotReact, Zenon DEF TickerChanged
  <2>2. tasks' = tasks
    BY <1>3, Zenon DEF TickerChanged
  <2> QED BY <1>3, <2>1, <2>2, <1>0, RepliesPendingSame, QuietServer, Zenon DEF TickerChanged, HandlingQuiet
<1>4. CASE TickerLoad
  <2>1. handling.op # "react" /\ handling'.op # "react"
    BY <1>4, IdleNotReact, Zenon DEF TickerLoad
  <2> QED BY <1>1, <1>4, <2>1, QuietServer, Zenon DEF TickerLoad, HandlingQuiet
<1>5. ASSUME NEW a \in Addr, TickerRemove(a) \/ SetIsSlave(a) PROVE Quiet
  <2> DEFINE t == [i \in DOMAIN active[a] |-> Task("close", active[a][i], 0)]
  <2>1. active[a] \in Seq(SConn)
    BY <1>0, Zenon
  <2>2. \A i \in DOMAIN active[a] : t[i] \in TaskType /\ t[i].op # "reply"
    BY <2>1, SeqFacts, ServerTask
  <2>3. t \in Seq(TaskType) /\ DOMAIN t = DOMAIN active[a]
    <3>1. t \in [DOMAIN active[a] -> TaskType]
      BY <2>2, Zenon
    <3> HIDE DEF t
    <3> QED BY <2>1, <3>1, SeqMap, Zenon
  <2>4. tasks' = tasks \o t
    BY <1>5, Zenon DEF TickerRemove, SetIsSlave, Release
  <2>5. \A i \in DOMAIN tasks : i + 0 \in DOMAIN tasks /\ tasks[i] = tasks[i + 0]
    BY <1>0, SeqFacts
  <2> HIDE DEF t
  <2>6. RepliesPending
    BY <2>2, <2>3, <2>4, <2>5, <1>0, RepliesPendingConcat, Zenon
  <2> QED BY <1>5, <2>6, QuietServer, Zenon DEF TickerRemove, SetIsSlave, Release, HandlingQuiet
<1> QED BY <1>2, <1>3, <1>4, <1>5, Zenon DEF Reload

\* Migrations in the cluster, and stuttering.
LEMMA QuietCluster ==
  ASSUME TypeOK, (\E k \in Slot : Migrated(k) \/ \E a \in Addr : Migrate(k, a)) \/ UNCHANGED vars
  PROVE  Quiet
<1>1. UNCHANGED <<msgVars, frag, clientVars, handling, tasks>>
  <2>1. CASE \E k \in Slot : Migrated(k) \/ \E a \in Addr : Migrate(k, a)
    BY <2>1, Zenon DEF Migrate, Migrated
  <2>2. CASE UNCHANGED vars
    BY <2>2, Zenon
  <2> QED BY <2>1, <2>2, Zenon
<1>2. RepliesPending
  BY <1>1, RepliesPendingSame, Zenon DEF TypeOK, ControlType
<1> QED BY <1>1, <1>2, QuietServer, Zenon DEF HandlingQuiet
-----------------------------------------------------------------------------
(* What a step must not do, so that Msgs and replies stay as they are.      *)

\* A quiet step keeps the invariant.
LEMMA QuietLife ==
  ASSUME TypeOK, TypeOK', LifeInv, Quiet
  PROVE  LifeInv'
<1>0. /\ AskedOK /\ MsgsOK(msg, freeMsgs, frag) /\ FragsOK(msg, freeMsgs, frag)
      /\ QueuesOK(msg, freeMsgs) /\ ReactOK /\ TasksOK /\ RepliesOwn
      /\ MsgsQuiet /\ FragsQuiet /\ HandlingQuiet /\ RepliesPending
      /\ \A c \in Client : ClientQuiet(c)
  BY Zenon DEF LifeInv, Quiet
<1>1. FragsGrow /\ AskedGrow
  <2>1. FragsGrow
    BY <1>0, Zenon DEF FragsQuiet, FragsGrow
  <2>2. AskedGrow
    BY <1>0, Zenon DEF MsgsQuiet, AskedGrow
  <2> QED BY <2>1, <2>2, Zenon
<1>2. AskedOK'
  BY <1>0, Zenon DEF AskedOK, MsgsQuiet, ClientQuiet
<1>3. \A m \in Live(msg, freeMsgs) : msg[m].id \in Nat
  BY MsgFields, Zenon DEF Live
<1>4. \A m \in Live(msg, freeMsgs) :
        MsgSound(msg[m], frag') /\ (Partial(msg[m], frag') <=> Partial(msg[m], frag))
  <2> SUFFICES ASSUME NEW m \in Live(msg, freeMsgs)
               PROVE  MsgSound(msg[m], frag') /\ (Partial(msg[m], frag') <=> Partial(msg[m], frag))
    BY Zenon
  <2>1. MsgSound(msg[m], frag) /\ msg[m].id <= msgId /\ msg[m].id \in Nat
    BY <1>0, <1>3, Zenon DEF MsgsOK
  <2>2. \A f \in msg[m].body : frag'[f] = frag[f]
    BY <2>1, <1>0, Zenon DEF MsgSound, FragsQuiet
  <2> QED BY <2>1, <2>2, <1>1, MsgStays, Zenon
<1>5. MsgsOK(msg, freeMsgs, frag)'
  <2>1. msg' = msg /\ freeMsgs' = freeMsgs /\ msgId' = msgId
    BY <1>0, Zenon DEF MsgsQuiet
  <2> QED BY <2>1, <1>0, <1>4, Zenon DEF MsgsOK, Live
<1>6. FragsOK(msg, freeMsgs, frag)'
  BY <1>0, SMTT(20) DEF FragsOK, MsgsQuiet, FragsQuiet, Live, TypeOK, MsgsType
<1>7. QueuesOK(msg, freeMsgs)'
  BY <1>0, SMTT(20) DEF QueuesOK, MsgsQuiet, ClientQuiet, Live
<1>8. ReactOK'
  <2> SUFFICES ASSUME handling'.op = "react" PROVE ReactOK'
    BY Zenon DEF ReactOK
  <2>1. handling' = handling /\ handling.op = "react"
    BY <1>0, Zenon DEF HandlingQuiet
  <2>2. handling \in ReactType
    BY <2>1, ReactHandling, Zenon DEF TypeOK
  <2>3. \A c \in Client : inMsgQueue'[c] = inMsgQueue[c] /\ cconn'[c] = cconn[c]
    BY <1>0, <2>1, Zenon DEF ClientQuiet, ReactOK, AskedOK
  <2>4. msg[handling.msg].body \subseteq DOMAIN frag
    BY <2>2, Zenon DEF TypeOK, MsgsType, ReactType
  <2>5. \A f \in msg[handling.msg].body : frag'[f] = frag[f]
    BY <2>4, <1>0, Zenon DEF FragsQuiet
  <2> QED BY <2>1, <2>2, <2>3, <2>5, <1>0, Zenon DEF ReactOK, MsgsQuiet, ReactType, Live
<1>9. TasksOK' /\ RepliesOwn'
  BY <1>0, <1>1, TasksStay, RepliesStay, Zenon DEF MsgsQuiet
<1> QED BY <1>2, <1>5, <1>6, <1>7, <1>8, <1>9, Zenon DEF LifeInv
-----------------------------------------------------------------------------
(* OnCReact's loop.                                                         *)

\* The task of AsyncWrite.
LEMMA AsyncWriteLife ==
  ASSUME TypeOK, TypeOK', LifeInv, AsyncWrite
  PROVE  LifeInv'
<1>0. /\ AskedOK /\ MsgsOK(msg, freeMsgs, frag) /\ FragsOK(msg, freeMsgs, frag)
      /\ QueuesOK(msg, freeMsgs) /\ ReactOK /\ TasksOK /\ RepliesOwn
  BY Zenon DEF LifeInv
<1>1. /\ tasks \in Seq(TaskType) /\ tasks # <<>> /\ Head(tasks).op = "reply" /\ tasks' = Tail(tasks)
      /\ handling.op # "react"
  BY IdleNotReact, Zenon DEF TypeOK, ControlType, AsyncWrite, RunTask
<1>2. Head(tasks) = tasks[1] /\ 1 \in DOMAIN tasks /\ tasks[1] \in TaskType
  BY <1>1, SeqHeadTail, SMTT(20)
<1>3. PICK c \in Client : c = Head(tasks).conn
  BY <1>1, <1>2, Zenon DEF TaskType
<1>4. PICK r : r = Reply(Head(tasks).id, "timeout", {})
  BY Zenon
<1>5. UNCHANGED <<handling, msg, freeMsgs, msgId, frag, cconn, inMsgQueue, asked>>
  BY Zenon DEF AsyncWrite
<1>6. FragsGrow /\ AskedGrow
  <2>1. FragsGrow
    BY <1>5, Zenon DEF FragsGrow
  <2>2. AskedGrow
    BY <1>5, Zenon DEF AskedGrow
  <2> QED BY <2>1, <2>2, Zenon
<1>7. TasksOK'
  <2>1. RepliesPending
    BY <1>1, RepliesPendingTail, Zenon
  <2> QED BY <2>1, <1>0, <1>6, TasksStay, Zenon
<1>8. RepliesOwn'
  <2>1. CASE toClient' = toClient
    BY <2>1, <1>0, <1>6, RepliesStay, Zenon
  <2>2. CASE toClient' = [toClient EXCEPT ![c] = Append(@, r)]
    <3>1. Head(tasks).id \in Elems(asked[c]) /\ Head(tasks).id \in Nat
      BY <1>0, <1>1, <1>2, <1>3, Zenon DEF TasksOK, TaskType
    <3>2. r \in ReplyType /\ r.id = Head(tasks).id /\ r.kind # "data"
      BY <3>1, <1>4, Zenon DEF Reply, ReplyType
    <3>3. r.id \in Elems(asked'[c])
      BY <3>1, <3>2, <1>5, Zenon
    <3>4. ReplyOK(r, c)'
      BY <3>2, <3>3, Zenon DEF ReplyOK
    <3> QED BY <2>2, <3>2, <3>4, <1>0, <1>6, ReplyAdded, Zenon
  <2> QED BY <2>1, <2>2, <1>3, <1>4, Zenon DEF AsyncWrite
<1>9. MsgsOK(msg, freeMsgs, frag)' /\ FragsOK(msg, freeMsgs, frag)'
  BY <1>0, <1>5, Zenon DEF MsgsOK, FragsOK
<1>10. AskedOK' /\ QueuesOK(msg, freeMsgs)' /\ ReactOK'
  BY <1>0, <1>1, <1>5, Zenon DEF AskedOK, QueuesOK, ReactOK
<1> QED BY <1>7, <1>8, <1>9, <1>10, Zenon DEF LifeInv
-----------------------------------------------------------------------------
(* Frags of one Msg are marked as done, and its Msg is changed.             *)

\* msgTimeout of a frag that is not done.
LEMMA MsgTimeoutLife ==
  ASSUME TypeOK, TypeOK', LifeInv, RequestTimeout, NEW f \in DOMAIN timeoutTree, MsgTimeout(f)
  PROVE  LifeInv'
<1>0. /\ AskedOK /\ MsgsOK(msg, freeMsgs, frag) /\ FragsOK(msg, freeMsgs, frag)
      /\ QueuesOK(msg, freeMsgs) /\ ReactOK /\ TasksOK /\ RepliesOwn
  BY Zenon DEF LifeInv
<1>1. /\ UNCHANGED <<handling, msg, freeMsgs, msgId, cconn, inMsgQueue, asked, toClient>>
      /\ f \in DOMAIN frag /\ frag[f].owner # Nil /\ handling.op # "react"
      /\ tasks \in Seq(TaskType)
  BY IdleNotReact, Zenon DEF MsgTimeout, TypeOK, TimeoutsType, ControlType
<1>2. CASE frag[f].done
  <2>1. tasks' = tasks /\ frag' = frag
    BY <1>2, Zenon DEF MsgTimeout
  <2>2. RepliesPending
    BY <2>1, <1>1, RepliesPendingSame, Zenon
  <2>3. Quiet
    BY <2>1, <2>2, <1>1, QuietServer, Zenon DEF HandlingQuiet
  <2> QED BY <2>3, QuietLife, Zenon
<1>3. CASE ~frag[f].done
  <2>1. PICK c, p, b : c = frag[f].owner /\ p = frag[f].peer /\ b = msg[p].body
    BY Zenon
  <2>2. /\ p \in Live(msg, freeMsgs) /\ c \in Client /\ MsgSound(msg[p], frag) /\ f \in msg[p].body
        /\ frag[f].req \in Elems(asked[c]) /\ frag[f].req \in Nat
    BY <2>1, <1>0, <1>1, <1>3, UndoneFrag, FragFields, Zenon
  <2>3. /\ frag' = AllDone(b)
        /\ tasks' = tasks \/ tasks' = Append(tasks, Task("reply", c, frag[f].req))
    BY <2>1, <1>3, Zenon DEF MsgTimeout
  <2>4. Marked(frag, frag', b)
    BY <2>3, AllDoneMarked, Zenon
  <2>5. MsgSound(msg[p], frag')
    <3>1. PICK r : r = msg[p]
      BY Zenon
    <3> QED BY <3>1, <2>1, <2>2, <2>4, <1>3, SoundFailed, Zenon DEF SameRequest
  <2>6. /\ MsgsOK(msg, freeMsgs, frag') /\ FragsOK(msg, freeMsgs, frag') /\ FragsGrow
    <3>1. PICK mm : mm = msg
      BY Zenon
    <3> QED BY <3>1, <2>1, <2>2, <2>4, <2>5, <1>0, MarkedLife, Zenon
  <2>7. MsgsOK(msg, freeMsgs, frag)' /\ FragsOK(msg, freeMsgs, frag)'
    BY <2>6, <1>1, Zenon DEF MsgsOK, FragsOK
  <2>8. QueuesOK(msg, freeMsgs)' /\ AskedOK' /\ ReactOK'
    BY <1>0, <1>1, Zenon DEF QueuesOK, AskedOK, ReactOK
  <2>9. AskedGrow
    BY <1>1, Zenon DEF AskedGrow
  <2>10. RepliesOwn'
    BY <2>6, <2>9, <1>0, <1>1, RepliesStay, Zenon
  <2>11. TasksOK'
    <3>1. PICK t : t = Task("reply", c, frag[f].req)
      BY Zenon
    <3>2. t \in TaskType /\ t.conn = c /\ t.id = frag[f].req
      BY <3>1, <2>2, Zenon DEF Task, TaskType
    <3>3. CASE tasks' = tasks
      BY <3>3, <1>0, <1>1, Zenon DEF TasksOK
    <3>4. CASE tasks' = Append(tasks, t)
      <4>1. /\ DOMAIN tasks' = DOMAIN tasks \cup {Len(tasks) + 1}
            /\ \A i \in DOMAIN tasks : tasks'[i] = tasks[i]
            /\ tasks'[Len(tasks) + 1] = t
        BY <3>2, <3>4, <1>1, SeqAppend, SMTT(20)
      <4> QED BY <4>1, <3>2, <2>2, <1>0, <1>1, Zenon DEF TasksOK
    <3> QED BY <3>1, <3>3, <3>4, <2>3, Zenon
  <2> QED BY <2>7, <2>8, <2>10, <2>11, Zenon DEF LifeInv
<1> QED BY <1>2, <1>3, Zenon
-----------------------------------------------------------------------------
(* When OnCReact gives up on a request, and when a frag times out.          *)

\* What an action other than those of the ticker does to them.
RouteStep ==
  /\ pools' = pools /\ Slots2Node' = Slots2Node
  /\ handling' = handling \/ handling.op # "ticker"
  /\ DOMAIN timeoutTree' \subseteq DOMAIN timeoutTree

\* Taking frags out of the timeout tree.
LEMMA DeletedDeadlines ==
  ASSUME NEW fs, DeleteFromTimeoutQueue(fs)
  PROVE  DOMAIN timeoutTree' \subseteq DOMAIN timeoutTree
BY Zenon DEF DeleteFromTimeoutQueue

\* Reading a reply, whatever comes of it.
LEMMA RouteRead ==
  ASSUME NEW s \in SConn, SRead(s) \/ SClose(s) \/ Execute(s)
  PROVE  RouteStep
<1>0. ASSUME LoopFree PROVE handling.op # "ticker"
  BY <1>0, Zenon DEF LoopFree, Idle
<1>1. CASE TakeReply(s)
  <2>1. DOMAIN timeoutTree' \subseteq DOMAIN timeoutTree /\ handling.op # "ticker"
    BY <1>0, <1>1, DeletedDeadlines, Zenon DEF TakeReply
  <2>2. pools' = pools /\ Slots2Node' = Slots2Node
    <3>1. CASE SReadCluster(s) \/ SReadMovedFails(s) \/ SReadLate(s) \/ \E t \in SConn : SReadMoved(s, t)
      BY <3>1, Zenon DEF SReadCluster, SReadMovedFails, SReadLate, SReadMoved
    <3>2. CASE SReadTooLarge(s) \/ SReadDefault(s) \/ SReadMGet(s) \/ SReadMSet(s) \/ SReadDel(s)
      BY <3>2, Zenon DEF SReadTooLarge, SReadDefault, SReadMGet, SReadMSet, SReadDel, TakeAnswer
    <3>3. CASE SReadMGetPanics(s) \/ SReadShutdown(s) \/ SClose(s) \/ Execute(s)
      BY <3>3, Zenon DEF SReadMGetPanics, Panic, SReadShutdown, SClose, Execute
    <3> QED BY <3>1, <3>2, <3>3, Zenon DEF SRead
  <2> QED BY <2>1, <2>2, Zenon DEF RouteStep
<1>2. CASE SReadMGetPanics(s) \/ Execute(s)
  BY <1>2, Zenon DEF SReadMGetPanics, Panic, Execute, RouteStep
<1>3. CASE SReadShutdown(s)
  BY <1>3 DEF SReadShutdown, RouteStep
<1>4. CASE SClose(s)
  BY <1>4, DeletedDeadlines, Zenon DEF SClose, CloseServer, RouteStep
<1>5. SReadCluster(s) \/ SReadMovedFails(s) \/ SReadLate(s) \/ (\E t \in SConn : SReadMoved(s, t))
        \/ SReadTooLarge(s) \/ SReadDefault(s) \/ SReadMGet(s) \/ SReadMSet(s) \/ SReadDel(s)
      => TakeReply(s)
  BY Zenon DEF SReadCluster, SReadMovedFails, SReadLate, SReadMoved, SReadTooLarge, SReadDefault,
     SReadMGet, SReadMSet, SReadDel, TakeAnswer
<1> QED BY <1>1, <1>2, <1>3, <1>4, <1>5, Zenon DEF SRead

\* Every action.
LEMMA NextRoute ==
  ASSUME TypeOK, RouteInv, [Next]_vars
  PROVE  RouteInv'
<1>0. ASSUME LoopFree \/ handling.op = "react" PROVE handling.op # "ticker"
  BY <1>0 DEF LoopFree, Idle
<1>1. CASE RouteStep
  BY <1>1, Zenon DEF RouteInv, RouteStep
<1>2. CASE \E c \in Client : Accept(c) \/ CClose(c) \/ CReactNil(c)
  BY <1>1, <1>2, Zenon DEF Accept, CClose, CReactNil, Panic, RouteStep
<1>3. ASSUME NEW c \in Client, NEW m, CReactImmediate(c, m) \/ \E q \in Requests : CReact(c, q, m)
      PROVE  RouteInv'
  <2>1. CASE CReactImmediate(c, m)
    BY <1>1, <2>1, Zenon DEF CReactImmediate, RouteStep
  <2>2. ASSUME NEW q, CReact(c, q, m) PROVE RouteStep
    BY <1>0, <2>2, Zenon DEF CReact, RouteStep
  <2> QED BY <1>1, <1>3, <2>1, <2>2, Zenon
<1>4. CASE OnCReact
  BY <1>0, <1>1, <1>4, Zenon DEF OnCReact, Dispatch, DispatchFails, RouteStep
<1>5. CASE HandleWriteSignal
  <2>1. ASSUME NEW q, PushToTimeoutQueue(q), ~RequestTimeout
        PROVE  DOMAIN timeoutTree' \subseteq DOMAIN timeoutTree
    BY <2>1 DEF PushToTimeoutQueue
  <2>2. ~RequestTimeout => DOMAIN timeoutTree' \subseteq DOMAIN timeoutTree
    BY <1>5, <2>1, Zenon DEF HandleWriteSignal
  <2>3. pools' = pools /\ Slots2Node' = Slots2Node /\ handling' = handling
    BY <1>5, Zenon DEF HandleWriteSignal
  <2> QED BY <2>2, <2>3, Zenon DEF RouteInv
<1>6. CASE WriteClusterNodes \/ CloseTask \/ AsyncWrite
  <2>1. DOMAIN timeoutTree' \subseteq DOMAIN timeoutTree
    BY <1>6, DeletedDeadlines, Zenon DEF WriteClusterNodes, CloseTask, CloseServer, AsyncWrite
  <2>2. pools' = pools /\ Slots2Node' = Slots2Node /\ handling' = handling
    BY <1>6, Zenon DEF WriteClusterNodes, CloseTask, AsyncWrite
  <2> QED BY <1>1, <2>1, <2>2, Zenon DEF RouteStep
<1>7. CASE \E f \in DOMAIN timeoutTree : MsgTimeout(f)
  BY <1>1, <1>7, DeletedDeadlines, Zenon DEF MsgTimeout, RouteStep
<1>8. CASE Ticker
  BY <1>1, <1>8, Zenon DEF Ticker, RouteStep
<1>9. CASE \E t \in Topologies : TickerChanged(t)
  BY <1>9 DEF TickerChanged, RouteInv
<1>10. CASE \E a \in Addr : TickerRemove(a) \/ SetIsSlave(a)
  BY <1>10, Zenon DEF TickerRemove, SetIsSlave, Release, RouteInv
<1>11. CASE TickerLoad
  <2>1. handling.topo \in Topologies
    <3>1. handling # Idle /\ handling \notin ReactType
      BY <1>11 DEF TickerLoad, Idle, ReactType
    <3>2. handling \in ReloadType
      BY <3>1, Zenon DEF TypeOK, ControlType
    <3> QED BY <3>2, Zenon DEF ReloadType
  <2>2. /\ pools' = handling.topo.nodes /\ Slots2Node' = handling.topo.slots
        /\ timeoutTree' = timeoutTree
    BY <1>11, Zenon DEF TickerLoad
  <2> QED BY <2>1, <2>2, Zenon DEF RouteInv, Reachable
<1>12. CASE \E k \in Slot : Migrated(k) \/ \E a \in Addr : Migrate(k, a)
  BY <1>1, <1>12, Zenon DEF Migrated, Migrate, RouteStep
<1>13. CASE UNCHANGED vars
  BY <1>1, <1>13, Zenon DEF RouteStep
<1> QED BY <1>1, <1>2, <1>3, <1>4, <1>5, <1>6, <1>7, <1>8, <1>9, <1>10, <1>11, <1>12, <1>13,
     RouteRead, Zenon DEF Next, RunTasks, Reload

\* OnCReact gives up only on a request no frag of which is under way.
LEMMA GiveUpWhole ==
  ASSUME NoPartial, TypeOK, LifeInv, RouteInv, NEW f \in DOMAIN frag, DispatchFails(f)
  PROVE  handling.todo = msg[handling.msg].body
<1>1. /\ handling.op = "react" /\ f \in handling.todo
      /\ Slots2Node[frag[f].slot] \notin pools \/ "dial" \in Faults
  BY Zenon DEF DispatchFails, PoolGetNil
<1>2. /\ MsgSound(msg[handling.msg], frag) /\ handling.todo \subseteq msg[handling.msg].body
  BY <1>1, Zenon DEF LifeInv, ReactOK, MsgsOK
<1>3. CASE Single
  BY <1>1, <1>2, <1>3, Zenon DEF MsgSound
<1>4. CASE Reachable
  <2>1. frag[f].slot \in Slot
    BY <1>1, Zenon DEF TypeOK, FragsType
  <2> QED BY <1>1, <1>4, <2>1, Zenon DEF Reachable, RouteInv
<1> QED BY <1>3, <1>4, Zenon DEF NoPartial
-----------------------------------------------------------------------------
(* What the clients are owed.                                               *)

\* The Msgs after a reply to a frag that was not done.
LEMMA AnswerKeepsMsgs ==
  ASSUME TypeOK, NEW s \in SConn,
         SReadTooLarge(s) \/ SReadDefault(s) \/ SReadMGet(s) \/ SReadMSet(s) \/ SReadDel(s)
  PROVE  MsgsStep
<1>1. PICK d, mm : /\ d = frag[Answered(s)].owner /\ DOMAIN mm = DOMAIN msg
                   /\ \A n \in DOMAIN msg : n # Peer(s) => mm[n] = msg[n]
                   /\ SameRequest(mm[Peer(s)], msg[Peer(s)])
                   /\ (msg' = mm /\ freeMsgs' = freeMsgs) \/ Deliver(d, mm)
  BY AnswerMsgs, Zenon
<1>2. TakeReply(s) /\ d # Nil
  BY <1>1, AnswerMsgs, Zenon
<1>3. d \in Client
  BY <1>1, <1>2, TakeReplyType, Zenon
<1>4. \A m \in DOMAIN msg : mm[m].id = msg[m].id /\ mm[m].body = msg[m].body
  BY <1>1, Zenon DEF SameRequest
<1>5. CASE msg' = mm
  BY <1>1, <1>4, <1>5, Zenon DEF MsgsStep, Live
<1>6. CASE Flushed(d, mm)
  <2>1. PICK q : /\ msg' = [m \in DOMAIN mm |-> IF m \in Elems(q) THEN PutMsg ELSE mm[m]]
                 /\ freeMsgs' = freeMsgs \cup Elems(q)
    BY <1>6, Zenon DEF Flushed
  <2> QED BY <1>1, <1>4, <2>1, Zenon DEF MsgsStep, Live
<1>7. CASE Withheld(d, mm)
  BY <1>5, <1>7, Zenon DEF Withheld
<1> QED BY <1>1, <1>3, <1>5, <1>6, <1>7, DeliverCases, Zenon

\* Every step keeps the Msgs it does not put back, and makes frags without owners.
LEMMA NextMsgs ==
  ASSUME TypeOK, LifeInv, Quiet \/ BusyStep
  PROVE  MsgsStep
<1>1. CASE msg' = msg
  BY <1>1, Zenon DEF MsgsStep, Live
<1>2. ASSUME NEW c \in Client, NEW m \in freeMsgs \cup {Len(msg) + 1}, CReactImmediate(c, m)
      PROVE  MsgsStep
  <2>1. Live(msg', freeMsgs') = Live(msg, freeMsgs) /\ \A n \in Live(msg, freeMsgs) : msg'[n] = msg[n]
    BY <1>2, CReactImmediateFacts, Zenon
  <2> QED BY <2>1, Zenon DEF MsgsStep, Live
<1>3. ASSUME NEW c \in Client, NEW q \in Requests, NEW m \in freeMsgs \cup {Len(msg) + 1}, CReact(c, q, m)
      PROVE  MsgsStep
  <2>1. /\ m \notin Live(msg, freeMsgs) /\ Live(msg', freeMsgs') = Live(msg, freeMsgs) \cup {m}
        /\ \A n \in DOMAIN msg : n # m => msg'[n] = msg[n]
    BY <1>3, CReactFacts, Zenon DEF LifeInv
  <2> QED BY <2>1, Zenon DEF MsgsStep, Live
<1>4. ASSUME NEW f \in DOMAIN frag, DispatchFails(f)
      PROVE  MsgsStep
  <2>1. PICK m : msg' = [msg EXCEPT ![m] = PutMsg] /\ freeMsgs' = freeMsgs \cup {m}
    BY <1>4, Zenon DEF DispatchFails
  <2> QED BY <2>1, Zenon DEF MsgsStep, Live
<1>5. ASSUME NEW f \in DOMAIN frag, NEW s \in SConn, Dispatch(f, s)
      PROVE  msg' = msg
  BY <1>5, Zenon DEF Dispatch
<1>6. AsyncWrite => msg' = msg
  BY Zenon DEF AsyncWrite
<1>7. ASSUME NEW f \in DOMAIN timeoutTree, MsgTimeout(f)
      PROVE  msg' = msg
  BY <1>7, Zenon DEF MsgTimeout
<1>8. Quiet => msg' = msg
  BY Zenon DEF Quiet, MsgsQuiet
<1> QED BY <1>1, <1>2, <1>3, <1>4, <1>5, <1>6, <1>7, <1>8, AnswerKeepsMsgs, Zenon DEF BusyStep, OnCReact

\* The request in OnCReact's loop: it stays there, joins the queue or is put back.
LEMMA ReactOwed ==
  ASSUME TypeOK, LifeInv, LifeInv', FragsKept, \A c \in Client : ClientStep(c), handling.op = "react",
         NEW f \in DOMAIN frag, frag[f].peer = handling.msg, f \in msg[handling.msg].body,
         frag'[f].owner # Nil, ~frag'[f].done
  PROVE  frag'[f].peer \in Elems(inMsgQueue'[frag'[f].owner]) \/ (handling'.op = "react" /\ frag'[f].peer = handling'.msg)
<1>1. PICK c \in Client : c = handling.client
  BY ReactHandling, Zenon DEF TypeOK, ControlType, ReactType
<1>2. Reacting(c) /\ ClientStep(c) /\ frag'[f].peer = handling.msg /\ f \in DOMAIN frag'
  BY <1>1, Zenon DEF Reacting, FragsKept
<1>3. CASE Rests(c)
  BY <1>2, <1>3, Zenon DEF Rests, Reacting
<1>4. CASE Joins(c)
  <2>1. frag'[f].owner = c
    BY <1>4, Zenon DEF Joins
  <2>2. handling.msg \in Elems(inMsgQueue'[c])
    <3>1. PICK m, q, p : m = handling.msg /\ q = inMsgQueue[c] /\ p = inMsgQueue'[c]
      BY Zenon
    <3>2. q \in Seq(DOMAIN msg) /\ m \in DOMAIN msg /\ p = Append(q, m)
      BY <1>2, <1>4, <3>1, Zenon DEF TypeOK, ClientsType, LifeInv, ReactOK, Live, Joins
    <3>3. p[Len(q) + 1] = m /\ Len(q) + 1 \in DOMAIN p
      BY <3>2, SeqAppend, SMT
    <3> QED BY <3>1, <3>3, Zenon DEF Elems
  <2> QED BY <1>2, <2>1, <2>2, Zenon
<1>5. CASE Refused(c)
  <2>1. handling.msg \in freeMsgs'
    BY <1>5, Zenon DEF Refused
  <2>2. frag'[f].peer \in Live(msg', freeMsgs')
    BY <1>2, Zenon DEF LifeInv, FragsOK
  <2> QED BY <1>2, <2>1, <2>2, Zenon DEF Live
<1> QED BY <1>2, <1>3, <1>4, <1>5, Zenon DEF ClientStep, Leaves, Asks, Immediate, Told, Gets

\* The requests in the queue of a client: they stay there, or are put back.
LEMMA QueueOwed ==
  ASSUME TypeOK, LifeInv, LifeInv', NEW c \in Client, ClientStep(c), cconn'[c] = "open",
         NEW m \in Queued(c), m \notin freeMsgs'
  PROVE  m \in Queued(c)'
<1>1. inMsgQueue'[c] = inMsgQueue[c] => Queued(c)' = Queued(c)
  BY QueueStays, Zenon
<1>2. CASE Joins(c)
  <2>1. PICK n, q, p : n = handling.msg /\ q = inMsgQueue[c] /\ p = inMsgQueue'[c]
    BY Zenon
  <2>2. q \in Seq(DOMAIN msg) /\ n \in DOMAIN msg /\ p = Append(q, n)
    BY <1>2, <2>1, Zenon DEF TypeOK, ClientsType, LifeInv, ReactOK, Live, Joins, Reacting
  <2>3. DOMAIN q \subseteq DOMAIN p /\ \A i \in DOMAIN q : p[i] = q[i]
    BY <2>2, SeqAppend, SMT
  <2> QED BY <2>1, <2>3, Zenon DEF Queued, Elems
<1>3. ~Leaves(c) /\ ~Gets(c)
  BY Zenon DEF Leaves, Gets
<1> QED BY <1>1, <1>2, <1>3, Zenon DEF ClientStep, Rests, Asks, Refused, Immediate, Told

\* The Msgs in a queue belong to its client, and have been dispatched.
LEMMA QueueOwned ==
  ASSUME TypeOK, LifeInv, LifeInv', MsgsStep, FragsKept, OwedInv, NEW c \in Client, ClientStep(c),
         NEW m \in Queued(c)'
  PROVE  cconn'[c] = "open" /\ \A f \in msg'[m].body : frag'[f].owner = c
<1>1. (inMsgQueue'[c] = inMsgQueue[c] => Queued(c)' = Queued(c)) /\ inMsgQueue'[c] # <<>>
  BY QueueStays, Zenon
<1>2. ASSUME m \in Queued(c)
      PROVE  cconn[c] = "open" /\ \A f \in msg'[m].body : frag'[f].owner = c
  <2>1. cconn[c] = "open" /\ \A f \in msg[m].body : frag[f].owner = c
    BY <1>2, Zenon DEF OwedInv
  <2>2. msg'[m].body = msg[m].body
    BY <1>2, QueuedKept, Zenon
  <2>3. msg[m].body \subseteq DOMAIN frag
    BY <1>2, Zenon DEF LifeInv, QueuesOK, Queued, Elems, Live, TypeOK, MsgsType
  <2>4. c # Nil
    BY ProxyAssumption, Zenon
  <2>5. \A f \in msg[m].body : ~(handling.op = "react" /\ f \in handling.todo)
    BY <2>1, <2>4, Zenon DEF LifeInv, ReactOK
  <2> QED BY <2>1, <2>2, <2>3, <2>5, Zenon DEF FragsKept
<1>3. CASE Joins(c)
  <2>1. cconn[c] = "open" /\ cconn'[c] = cconn[c] /\ msg' = msg
    BY <1>3, Zenon DEF Joins, LifeInv, ReactOK, Reacting
  <2>2. m \in Queued(c) \/ m = handling.msg
    <3>1. PICK n, q, p : n = handling.msg /\ q = inMsgQueue[c] /\ p = inMsgQueue'[c]
      BY Zenon
    <3>2. q \in Seq(DOMAIN msg) /\ n \in DOMAIN msg /\ p = Append(q, n)
      BY <1>3, <3>1, Zenon DEF TypeOK, ClientsType, LifeInv, ReactOK, Live, Joins, Reacting
    <3>3. Elems(p) = Elems(q) \cup {n}
      BY <3>2, ElemsAppend, SMT
    <3> QED BY <3>1, <3>3, Zenon DEF Queued
  <2>3. CASE m = handling.msg
    BY <1>3, <2>1, <2>3, Zenon DEF Joins
  <2> QED BY <1>2, <2>1, <2>2, <2>3, Zenon
<1>4. CASE Rests(c) \/ Asks(c) \/ Refused(c) \/ Immediate(c) \/ Told(c)
  <2>1. inMsgQueue'[c] = inMsgQueue[c] /\ (cconn'[c] = cconn[c] \/ cconn[c] = "new")
    BY <1>1, <1>4, Zenon DEF Rests, Asks, Refused, Immediate, Told
  <2> QED BY <1>1, <1>2, <2>1, Zenon
<1> QED BY <1>1, <1>3, <1>4, Zenon DEF ClientStep, Leaves, Gets

\* Every step keeps what the clients are owed.
LEMMA NextOwed ==
  ASSUME TypeOK, TypeOK', LifeInv, LifeInv', MsgsStep, FragsKept, OwedInv, \A c \in Client : ClientStep(c)
  PROVE  OwedInv'
<1>1. ASSUME NEW f \in DOMAIN frag', frag'[f].owner # Nil, ~frag'[f].done, cconn'[frag'[f].owner] = "open"
      PROVE  frag'[f].peer \in Elems(inMsgQueue'[frag'[f].owner]) \/ (handling'.op = "react" /\ frag'[f].peer = handling'.msg)
  <2>1. f \in DOMAIN frag /\ ~frag[f].done /\ frag'[f].peer = frag[f].peer
    BY <1>1, Zenon DEF FragsKept, Made
  <2>2. CASE handling.op = "react" /\ f \in handling.todo
    <3>1. frag[f].peer = handling.msg /\ f \in msg[handling.msg].body
      BY <2>2, Zenon DEF LifeInv, ReactOK
    <3> QED BY <1>1, <2>1, <2>2, <3>1, ReactOwed, Zenon
  <2>3. CASE ~(handling.op = "react" /\ f \in handling.todo)
    <3>1. PICK c : c = frag[f].owner
      BY Zenon
    <3>2. frag'[f].owner = c /\ c # Nil
      BY <1>1, <2>1, <2>3, <3>1, Zenon DEF FragsKept
    <3>3. c \in Client /\ f \in msg[frag[f].peer].body
      BY <2>1, <3>1, <3>2, UndoneFrag, Zenon DEF LifeInv
    <3>4. cconn[c] = "open" /\ cconn'[c] = "open" /\ ClientStep(c)
      BY <1>1, <2>1, <3>1, <3>2, <3>3, OwnerStays, Zenon
    <3>5. frag[f].peer \in Queued(c) \/ (handling.op = "react" /\ frag[f].peer = handling.msg)
      BY <2>1, <3>1, <3>2, <3>4, Zenon DEF OwedInv
    <3>6. CASE frag[f].peer \in Queued(c)
      <4>1. frag[f].peer \notin freeMsgs'
        BY <1>1, <2>1, Zenon DEF LifeInv, FragsOK, Live
      <4>2. frag[f].peer \in Queued(c)'
        BY <3>3, <3>4, <3>6, <4>1, QueueOwed, Zenon
      <4> QED BY <2>1, <3>2, <4>2, Zenon DEF Queued
    <3>7. CASE handling.op = "react" /\ frag[f].peer = handling.msg
      BY <1>1, <2>1, <3>3, <3>7, ReactOwed, Zenon
    <3> QED BY <3>5, <3>6, <3>7, Zenon
  <2> QED BY <2>2, <2>3, Zenon
<1>2. \A c \in Client : \A m \in Queued(c)' : cconn'[c] = "open" /\ \A f \in msg'[m].body : frag'[f].owner = c
  BY QueueOwned, Zenon
<1> QED BY <1>1, <1>2, Zenon DEF OwedInv, Queued
-----------------------------------------------------------------------------
(* Initial states and stuttering, and the two kinds of steps.               *)

\* The proxy starts with empty queues and the pools of the boot configuration.
LEMMA InitType ==
  ASSUME Init
  PROVE  TypeOK
<1>1. ControlType
  BY ProxyAssumption DEF Init, ControlType
<1>2. MsgsType /\ FragsType
  BY ProxyAssumption DEF Init, MsgsType, FragsType, Idle
<1>3. ClientsType
  BY DEF Init, ClientsType
<1>4. ServersType
  BY DEF Init, ServersType
<1>5. TimeoutsType
  BY DEF Init, TimeoutsType
<1>6. PoolsType
  BY ProxyAssumption DEF Init, PoolsType
<1>7. RedisType
  BY ProxyAssumption DEF Init, RedisType
<1> QED BY <1>1, <1>2, <1>3, <1>4, <1>5, <1>6, <1>7, Zenon DEF TypeOK

\* Nothing changes in a stuttering step.
LEMMA StutterType ==
  ASSUME TypeOK, UNCHANGED vars
  PROVE  TypeOK'
<1>1. /\ control' = control /\ clientVars' = clientVars /\ serverVars' = serverVars
      /\ timeoutVars' = timeoutVars /\ poolVars' = poolVars /\ redisVars' = redisVars
      /\ UNCHANGED <<handling, msg, freeMsgs, msgId, frag>>
  BY Zenon
<1>2. MsgsType' /\ FragsType' /\ Growth
  BY <1>1, SameMsgs, Zenon
<1> QED BY <1>1, <1>2, FrameType, Zenon

\* At the start there are no requests.
LEMMA InitLife ==
  ASSUME Init
  PROVE  LifeInv /\ RouteInv
<1>1. /\ msg = <<>> /\ freeMsgs = {} /\ frag = <<>> /\ tasks = <<>> /\ handling.op = "idle"
      /\ \A c \in Client : asked[c] = <<>> /\ inMsgQueue[c] = <<>> /\ toClient[c] = <<>>
      /\ timeoutTree = <<>> /\ pools = Boot.nodes /\ Slots2Node = Boot.slots
  BY Zenon DEF Init, Idle
<1>2. DOMAIN <<>> = {} /\ Elems(<<>>) = {}
  BY DEF Elems
<1>3. AskedOK /\ RepliesOwn /\ TasksOK /\ ReactOK
  BY <1>1, <1>2, Zenon DEF AskedOK, RepliesOwn, TasksOK, ReactOK
<1>4. MsgsOK(msg, freeMsgs, frag) /\ FragsOK(msg, freeMsgs, frag) /\ QueuesOK(msg, freeMsgs)
  BY <1>1, <1>2, Zenon DEF MsgsOK, FragsOK, QueuesOK, Live
<1>5. RouteInv
  BY <1>1, <1>2, Zenon DEF RouteInv, Reachable
<1> QED BY <1>3, <1>4, <1>5, Zenon DEF LifeInv

\* A step that is none of the busy ones leaves requests alone.
LEMMA QuietOrBusy ==
  ASSUME TypeOK, [Next]_vars
  PROVE  Quiet \/ BusyStep
<1>1. ASSUME NEW c \in Client, CClose(c) PROVE Quiet
  <2>1. /\ handling.op # "react" /\ UNCHANGED <<handling, tasks, msg, freeMsgs, msgId, frag, asked, toClient>>
        /\ inMsgQueue' = [inMsgQueue EXCEPT ![c] = <<>>]
        /\ cconn' = [cconn EXCEPT ![c] = "closed"]
    BY <1>1, IdleNotReact, Zenon DEF CClose, CloseClient
  <2> QED BY <2>1, QuietClose, Zenon
<1>2. CASE \E c \in Client : Accept(c) \/ CClose(c) \/ CReactNil(c)
  BY <1>1, <1>2, QuietAccept, QuietPanic, Zenon DEF CReactNil
<1>3. CASE RunTasks
  BY <1>3, QuietTasks, QuietWriteClusterNodes, Zenon DEF RunTasks, BusyStep
<1>4. CASE \E s \in SConn : SRead(s) \/ SClose(s) \/ Execute(s)
  BY <1>4, QuietRead, QuietMoved, QuietShutdown, Zenon DEF SRead, BusyStep
<1>5. CASE Ticker \/ (\E t \in Topologies : TickerChanged(t)) \/ Reload
  BY <1>5, ProxyAssumption, QuietTicker, Zenon
<1>6. CASE (\E k \in Slot : Migrated(k) \/ \E a \in Addr : Migrate(k, a)) \/ UNCHANGED vars
  BY <1>6, QuietCluster, Zenon
<1>7. CASE BusyStep
  BY <1>7, Zenon
<1> QED BY <1>2, <1>3, <1>4, <1>5, <1>6, <1>7, Zenon DEF Next, BusyStep
=============================================================================

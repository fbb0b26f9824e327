-------------------------- MODULE ProxyServerProofs -------------------------
(***************************************************************************)
(* Proxy's connections to Redis, given TypeOK: replies find their own      *)
(* frags (WireMatch), no frag is left without a write task                 *)
(* (SignalPending), no frag waits twice (UniqueInFlight), the pools stay   *)
(* within their bound (PoolBound) and lose no open connection (NoLeak).    *)
(* Each part says what a step may do to one connection or list, that every *)
(* action does one of these things, and that they keep the invariant.      *)
(***************************************************************************)
EXTENDS ProxyLemmas

USE DEF vars, control, msgVars, clientVars, serverVars, timeoutVars, poolVars, redisVars
-----------------------------------------------------------------------------
(* WireMatch.                                                               *)

\* WireMatch is about each connection by itself.
LEMMA WireMatchDef ==
  WireMatch <=> \A s \in SConn : Wired(inFragQueue[s], fromRedis[s], toRedis[s])
BY Zenon  DEF WireMatch, Wired

\* handleWriteSignal: the frags that are written enter both queues at the end.
LEMMA WiredSend ==
  ASSUME NEW S, NEW A, NEW q \in Seq(S), NEW r \in Seq(A), NEW t \in Seq(S), NEW u \in Seq(S),
         Wired(q, r, t)
  PROVE  Wired(q \o u, r, t \o u)
<1>1. /\ Len(q \o u) = Len(q) + Len(u) /\ Len(t \o u) = Len(t) + Len(u)
      /\ Len(q) \in Nat /\ Len(r) \in Nat /\ Len(t) \in Nat /\ Len(u) \in Nat
      /\ Len(q) = Len(r) + Len(t)
  <2>1. Len(q \o u) = Len(q) + Len(u) /\ Len(t \o u) = Len(t) + Len(u)
    BY SeqConcat, Zenon
  <2>2. Len(q) \in Nat /\ Len(r) \in Nat /\ Len(t) \in Nat /\ Len(u) \in Nat
    BY SeqFacts, Zenon
  <2> QED BY <2>1, <2>2, Zenon DEF Wired
<1>2. \A i \in 1 .. Len(r) : (q \o u)[i] = r[i].frag
  <2> SUFFICES ASSUME NEW i \in 1 .. Len(r) PROVE (q \o u)[i] = r[i].frag
    BY Zenon
  <2>1. i \in DOMAIN q
    BY <1>1
  <2>2. (q \o u)[i] = q[i]
    BY <2>1, SeqConcat, Zenon
  <2> QED BY <2>2, Zenon DEF Wired
<1>3. \A i \in DOMAIN (t \o u) : (q \o u)[Len(r) + i] = (t \o u)[i]
  <2> SUFFICES ASSUME NEW i \in 1 .. Len(t) + Len(u) PROVE (q \o u)[Len(r) + i] = (t \o u)[i]
    BY <1>1, SMTT(20)
  <2>1. CASE i <= Len(t)
    <3>1. i \in DOMAIN t /\ Len(r) + i \in DOMAIN q
      BY <1>1, <2>1
    <3>2. (q \o u)[Len(r) + i] = q[Len(r) + i] /\ (t \o u)[i] = t[i]
      BY <3>1, SeqConcat, Zenon
    <3> QED BY <3>1, <3>2, Zenon DEF Wired
  <2>2. CASE i > Len(t)
    <3>1. /\ i \in Len(t) + 1 .. Len(t) + Len(u)
          /\ Len(r) + i \in Len(q) + 1 .. Len(q) + Len(u)
      BY <1>1, <2>2
    <3>2. (q \o u)[Len(r) + i] = u[Len(r) + i - Len(q)] /\ (t \o u)[i] = u[i - Len(t)]
      BY <3>1, SeqConcat
    <3>3. Len(r) + i - Len(q) = i - Len(t)
      BY <1>1
    <3> QED BY <3>2, <3>3, Zenon
  <2> QED BY <1>1, <2>1, <2>2, SMTT(20)
<1> QED BY <1>1, <1>2, <1>3, SMTT(20) DEF Wired

\* Decode: the first reply leaves with the first frag.
LEMMA WiredTake ==
  ASSUME NEW S, NEW A, NEW q \in Seq(S), NEW r \in Seq(A), NEW t \in Seq(S),
         q # <<>>, r # <<>>, Wired(q, r, t)
  PROVE  Wired(Tail(q), Tail(r), t)
<1>1. /\ Len(q) \in Nat \ {0} /\ Len(r) \in Nat \ {0} /\ Len(t) \in Nat /\ DOMAIN t = 1 .. Len(t)
      /\ Len(Tail(q)) = Len(q) - 1 /\ Len(Tail(r)) = Len(r) - 1 /\ Len(q) = Len(r) + Len(t)
      /\ \A i \in 1 .. Len(q) - 1 : Tail(q)[i] = q[i + 1]
      /\ \A i \in 1 .. Len(r) - 1 : Tail(r)[i] = r[i + 1]
  BY SeqFacts, SeqHeadTail, Zenon DEF Wired
<1>2. \A i \in 1 .. Len(r) - 1 : Tail(q)[i] = Tail(r)[i].frag
  <2> SUFFICES ASSUME NEW i \in 1 .. Len(r) - 1 PROVE Tail(q)[i] = Tail(r)[i].frag
    BY Zenon
  <2>1. i \in 1 .. Len(q) - 1 /\ i + 1 \in 1 .. Len(r)
    BY <1>1
  <2> QED BY <1>1, <2>1, Zenon DEF Wired
<1>3. \A i \in DOMAIN t : Tail(q)[Len(r) - 1 + i] = t[i]
  <2> SUFFICES ASSUME NEW i \in DOMAIN t PROVE Tail(q)[Len(r) - 1 + i] = t[i]
    BY Zenon
  <2>1. Len(r) - 1 + i \in 1 .. Len(q) - 1 /\ Len(r) - 1 + i + 1 = Len(r) + i
    BY <1>1
  <2>2. Tail(q)[Len(r) - 1 + i] = q[Len(r) + i]
    BY <1>1, <2>1, Zenon
  <2> QED BY <2>2, Zenon DEF Wired
<1> QED BY <1>1, <1>2, <1>3 DEF Wired

\* Redis answers the first request it has.
LEMMA WiredExecute ==
  ASSUME NEW S, NEW A, NEW q \in Seq(S), NEW r \in Seq(A), NEW t \in Seq(S), NEW a \in A,
         t # <<>>, a.frag = Head(t), Wired(q, r, t)
  PROVE  Wired(q, Append(r, a), Tail(t))
<1>1. /\ Len(q) \in Nat /\ Len(r) \in Nat /\ Len(t) \in Nat \ {0} /\ DOMAIN t = 1 .. Len(t)
      /\ Len(Tail(t)) = Len(t) - 1 /\ Len(Append(r, a)) = Len(r) + 1 /\ Len(q) = Len(r) + Len(t)
      /\ DOMAIN Tail(t) = 1 .. Len(t) - 1
      /\ \A i \in 1 .. Len(t) - 1 : Tail(t)[i] = t[i + 1]
      /\ \A i \in 1 .. Len(r) : Append(r, a)[i] = r[i]
      /\ Append(r, a)[Len(r) + 1] = a /\ Head(t) = t[1]
  BY SeqFacts, SeqHeadTail, SeqAppend, SMTT(20) DEF Wired
<1>2. \A i \in 1 .. Len(r) + 1 : q[i] = Append(r, a)[i].frag
  <2> SUFFICES ASSUME NEW i \in 1 .. Len(r) + 1 PROVE q[i] = Append(r, a)[i].frag
    BY Zenon
  <2>1. CASE i \in 1 .. Len(r)
    BY <1>1, <2>1, Zenon DEF Wired
  <2>2. CASE i = Len(r) + 1
    <3>1. 1 \in DOMAIN t
      BY <1>1
    <3>2. q[Len(r) + 1] = t[1]
      BY <3>1, Zenon DEF Wired
    <3> QED BY <1>1, <2>2, <3>2, Zenon
  <2> QED BY <1>1, <2>1, <2>2
<1>3. \A i \in DOMAIN Tail(t) : q[Len(r) + 1 + i] = Tail(t)[i]
  <2> SUFFICES ASSUME NEW i \in 1 .. Len(t) - 1 PROVE q[Len(r) + 1 + i] = Tail(t)[i]
    BY <1>1, Zenon
  <2>1. i + 1 \in DOMAIN t /\ Len(r) + 1 + i = Len(r) + (i + 1)
    BY <1>1
  <2>2. q[Len(r) + (i + 1)] = t[i + 1]
    BY <2>1, Zenon DEF Wired
  <2> QED BY <1>1, <2>1, <2>2, Zenon
<1> QED BY <1>1, <1>2, <1>3, SMTT(20) DEF Wired

\* Such steps keep replies and frags in step.
LEMMA WireStepKeeps ==
  ASSUME ServersType, NEW s \in SConn, WireStep(s),
         Wired(inFragQueue[s], fromRedis[s], toRedis[s])
  PROVE  Wired(inFragQueue'[s], fromRedis'[s], toRedis'[s])
<1> DEFINE q == inFragQueue[s]  r == fromRedis[s]  t == toRedis[s]  fs == DOMAIN frag
<1>1. q \in Seq(fs) /\ r \in Seq(AnswerType) /\ t \in Seq(fs)
  BY Zenon  DEF ServersType
<1>2. /\ \A u \in Seq(fs) : Wired(q \o u, r, t \o u)
      /\ q # <<>> /\ r # <<>> => Wired(Tail(q), Tail(r), t)
      /\ t # <<>> => \A a : a.frag = Head(t) => Wired(q, Append(r, a), Tail(t))
  <2> HIDE DEF q, r, t, fs
  <2>1. Wired(q, r, t)
    BY Zenon DEF q, r, t
  <2>2. ASSUME t # <<>>, NEW a, a.frag = Head(t) PROVE Wired(q, Append(r, a), Tail(t))
    <3> DEFINE A == AnswerType \cup {a}
    <3>1. r \in Seq(A) /\ a \in A
      BY <1>1, SeqGrow, Zenon
    <3> HIDE DEF A
    <3> QED BY <1>1, <2>1, <2>2, <3>1, WiredExecute, Zenon
  <2> QED BY <1>1, <2>1, <2>2, WiredSend, WiredTake, Zenon
<1>3. Wired(<<>>, <<>>, <<>>)
  BY DEF Wired
<1> QED BY <1>2, <1>3, Zenon DEF WireStep

\* closeConn empties the queues of one connection.
LEMMA CloseServerWire ==
  ASSUME ServersType, NEW s \in SConn, CloseServer(s), NEW t \in SConn
  PROVE  WireStep(t)
BY Zenon DEF CloseServer, ServersType, WireStep

\* Decode takes a reply and a frag from one connection.
LEMMA TakeReplyWire ==
  ASSUME ServersType, NEW s \in SConn, TakeReply(s), NEW t \in SConn
  PROVE  WireStep(t)
BY Zenon DEF TakeReply, ServersType, WireStep

\* The actions that neither write nor read a server connection.
LEMMA UnwiredSteps ==
  ASSUME \/ \E c \in Client : Accept(c) \/ CClose(c) \/ CReactNil(c)
         \/ \E c \in Client, m \in freeMsgs \cup {Len(msg) + 1} :
              CReactImmediate(c, m) \/ \E q \in Requests : CReact(c, q, m)
         \/ OnCReact \/ WriteClusterNodes \/ AsyncWrite
         \/ \E f \in DOMAIN timeoutTree : MsgTimeout(f)
         \/ Ticker \/ (\E t \in Topologies : TickerChanged(t)) \/ Reload
         \/ \E k \in Slot : Migrated(k) \/ \E a \in Addr : Migrate(k, a)
         \/ UNCHANGED vars
  PROVE  UNCHANGED <<inFragQueue, fromRedis, toRedis>>
BY ZenonT(40) DEF Accept, CClose, CReactNil, Panic, CReactImmediate, CReact, OnCReact, Dispatch, DispatchFails,
       WriteClusterNodes, AsyncWrite, MsgTimeout, Ticker, TickerChanged, Reload, TickerLoad,
       TickerRemove, SetIsSlave, Release, Migrated, Migrate, vars, serverVars

\* Every action does one of these things to every connection.
LEMMA NextWire ==
  ASSUME TypeOK, [Next]_vars, NEW t \in SConn
  PROVE  WireStep(t)
<1>0. ServersType /\ ControlType
  BY Zenon DEF TypeOK
<1>1. CASE UNCHANGED <<inFragQueue, fromRedis, toRedis>>
  BY <1>1, Zenon DEF WireStep
<1>2. CASE HandleWriteSignal
  <2> DEFINE s == Head(tasks).conn
  <2>1. CASE Opened(s)
    <3>1. /\ inFragQueue' = [inFragQueue EXCEPT ![s] = @ \o outFragQueue[s]]
          /\ toRedis' = [toRedis EXCEPT ![s] = @ \o outFragQueue[s]]
          /\ fromRedis' = fromRedis
      BY <1>2, <2>1, Zenon DEF HandleWriteSignal, EnqueueInFrags
    <3>2. outFragQueue[t] \in Seq(DOMAIN frag)
      BY <1>0, Zenon DEF ServersType
    <3>3. CASE t = s
      <4>1. /\ inFragQueue'[t] = inFragQueue[t] \o outFragQueue[t]
            /\ toRedis'[t] = toRedis[t] \o outFragQueue[t] /\ fromRedis'[t] = fromRedis[t]
        BY <1>0, <3>1, <3>3, SMTT(20), Zenon DEF ServersType
      <4> QED BY <3>2, <4>1, Zenon DEF WireStep
    <3>4. CASE t # s
      <4>1. UNCHANGED <<inFragQueue[t], fromRedis[t], toRedis[t]>>
        BY <1>0, <3>1, <3>4, Zenon DEF ServersType
      <4> QED BY <4>1, Zenon DEF WireStep
    <3> QED BY <3>3, <3>4, Zenon
  <2>2. CASE ~Opened(s)
    BY <1>1, <1>2, <2>2, Zenon DEF HandleWriteSignal
  <2> QED BY <2>1, <2>2, Zenon
<1>3. CASE CloseTask
  <2>1. tasks # <<>> /\ Head(tasks).op = "close"
    BY <1>3, Zenon DEF CloseTask, RunTask
  <2>2. Head(tasks).conn \in SConn
    <3>1. Head(tasks) \in TaskType
      BY <1>0, <2>1, SeqHeadTail, Zenon DEF ControlType
    <3> QED BY <2>1, <3>1, Zenon DEF TaskType
  <2>3. CloseServer(Head(tasks).conn) \/ UNCHANGED <<inFragQueue, fromRedis, toRedis>>
    BY <1>3, Zenon DEF CloseTask, serverVars
  <2> QED BY <1>0, <1>1, <2>2, <2>3, CloseServerWire, Zenon
<1>4. ASSUME NEW s \in SConn, SRead(s) \/ SClose(s) \/ Execute(s)
      PROVE  WireStep(t)
  <2>1. CASE SReadShutdown(s)
    BY <2>1, Zenon DEF SReadShutdown, WireStep
  <2>2. CASE SReadMGetPanics(s)
    BY <1>1, <2>2, Zenon DEF SReadMGetPanics, Panic, serverVars
  <2>3. CASE TakeReply(s)
    BY <1>0, <2>3, TakeReplyWire, Zenon
  <2>4. CASE SClose(s)
    BY <1>0, <2>4, CloseServerWire, Zenon DEF SClose
  <2>5. CASE Execute(s)
    <3>1. /\ toRedis[s] # <<>> /\ toRedis' = [toRedis EXCEPT ![s] = Tail(@)]
          /\ inFragQueue' = inFragQueue
      BY <2>5, Zenon DEF Execute
    <3>2. PICK r \in Answers(s[1], Head(toRedis[s])) :
            fromRedis' = [fromRedis EXCEPT ![s] = Append(@, r)]
      BY <2>5, Zenon DEF Execute
    <3>3. r.frag = Head(toRedis[s])
      BY DEF Answers
    <3>4. CASE t = s
      <4>1. /\ toRedis'[t] = Tail(toRedis[t]) /\ fromRedis'[t] = Append(fromRedis[t], r)
            /\ inFragQueue'[t] = inFragQueue[t] /\ toRedis[t] # <<>> /\ r.frag = Head(toRedis[t])
        BY <1>0, <3>1, <3>2, <3>3, <3>4, Zenon DEF ServersType
      <4> QED BY <4>1, Zenon DEF WireStep
    <3>5. CASE t # s
      <4>1. UNCHANGED <<inFragQueue[t], fromRedis[t], toRedis[t]>>
        BY <1>0, <3>1, <3>2, <3>5, Zenon DEF ServersType
      <4> QED BY <4>1, Zenon DEF WireStep
    <3> QED BY <3>4, <3>5, Zenon
  <2>6. SRead(s) => SReadShutdown(s) \/ SReadMGetPanics(s) \/ TakeReply(s)
    BY Zenon DEF SRead, SReadCluster, SReadMovedFails, SReadLate, SReadTooLarge, SReadDefault,
           SReadMGet, SReadMSet, SReadDel, SReadMoved, TakeAnswer
  <2> QED BY <1>4, <2>1, <2>2, <2>3, <2>4, <2>5, <2>6, Zenon
<1> QED BY <1>1, <1>2, <1>3, <1>4, UnwiredSteps, Zenon DEF Next, RunTasks
-----------------------------------------------------------------------------
(* SignalPending.                                                           *)

\* Trigger adds a task and takes none away.
LEMMA PendingAppend ==
  ASSUME NEW T, NEW ts \in Seq(T), NEW e, NEW op, NEW s
  PROVE  /\ Pending(ts, op, s) => Pending(Append(ts, e), op, s)
         /\ e.op = op /\ e.conn = s => Pending(Append(ts, e), op, s)
<1> DEFINE S == T \cup {e}
<1>1. ts \in Seq(S) /\ e \in S
  BY SeqGrow, Zenon
<1> HIDE DEF S
<1>2. /\ DOMAIN Append(ts, e) = DOMAIN ts \cup {Len(ts) + 1}
      /\ \A i \in DOMAIN ts : Append(ts, e)[i] = ts[i]
      /\ Append(ts, e)[Len(ts) + 1] = e
  BY <1>1, SeqAppend
<1> QED BY <1>2, Zenon DEF Pending

\* Several tasks at once.
LEMMA PendingConcat ==
  ASSUME NEW T, NEW ts \in Seq(T), NEW us \in Seq(T), NEW op, NEW s
  PROVE  /\ Pending(ts, op, s) => Pending(ts \o us, op, s)
         /\ Pending(us, op, s) => Pending(ts \o us, op, s)
<1>1. /\ DOMAIN (ts \o us) = DOMAIN ts \cup (Len(ts) + 1 .. Len(ts) + Len(us))
      /\ \A i \in DOMAIN ts : (ts \o us)[i] = ts[i]
      /\ \A i \in Len(ts) + 1 .. Len(ts) + Len(us) : (ts \o us)[i] = us[i - Len(ts)]
      /\ DOMAIN us = 1 .. Len(us) /\ Len(us) \in Nat /\ Len(ts) \in Nat
  BY SeqConcat
<1>2. Pending(ts, op, s) => Pending(ts \o us, op, s)
  BY <1>1, Zenon DEF Pending
<1>3. ASSUME NEW i \in DOMAIN us, us[i].op = op /\ us[i].conn = s
      PROVE  Pending(ts \o us, op, s)
  <2>1. Len(ts) + i \in Len(ts) + 1 .. Len(ts) + Len(us) /\ Len(ts) + i - Len(ts) = i
    BY <1>1
  <2>2. (ts \o us)[Len(ts) + i] = us[i] /\ Len(ts) + i \in DOMAIN (ts \o us)
    BY <1>1, <2>1
  <2> QED BY <1>3, <2>2, Zenon DEF Pending
<1> QED BY <1>2, <1>3, Zenon DEF Pending

\* The task that is run leaves the queue, the others stay.
LEMMA PendingTail ==
  ASSUME NEW T, NEW ts \in Seq(T), ts # <<>>, NEW op, NEW s,
         Head(ts).op # op \/ Head(ts).conn # s, Pending(ts, op, s)
  PROVE  Pending(Tail(ts), op, s)
<1>1. PICK i \in DOMAIN ts : ts[i].op = op /\ ts[i].conn = s
  BY Zenon DEF Pending
<1>2. /\ Head(ts) = ts[1] /\ Len(ts) \in Nat \ {0} /\ DOMAIN ts = 1 .. Len(ts)
      /\ DOMAIN Tail(ts) = 1 .. Len(ts) - 1
      /\ \A j \in 1 .. Len(ts) - 1 : Tail(ts)[j] = ts[j + 1]
  BY SeqHeadTail, Zenon
<1>3. i # 1
  BY <1>1, <1>2, Zenon
<1>4. i - 1 \in 1 .. Len(ts) - 1 /\ i - 1 + 1 = i
  BY <1>2, <1>3
<1>5. Tail(ts)[i - 1] = ts[i]
  BY <1>2, <1>4, Zenon
<1> QED BY <1>1, <1>2, <1>4, <1>5, Zenon DEF Pending

\* It says what SignalPending says, and more.
LEMMA SignalInvImplies ==
  SignalInv => SignalPending
BY Zenon DEF SignalInv, SignalPending, Pending

\* What a step may do to the frags that connection s has to send.
SignalStep(s) ==
  \/ outFragQueue'[s] = <<>>
  \/ sconn'[s] = "open" /\ Pending(tasks', "write", s)
  \/ /\ outFragQueue'[s] = outFragQueue[s]
     /\ sconn'[s] \in {sconn[s], "open"} /\ status' \in {status, "panicked"}
     /\ Pending(tasks, "write", s) => Pending(tasks', "write", s)

\* Such steps keep the invariant.
LEMMA SignalStepKeeps ==
  ASSUME SignalInv, \A s \in SConn : SignalStep(s)
  PROVE  SignalInv'
BY Zenon DEF SignalInv, SignalStep, Opened

\* The actions that touch neither tasks nor the frags to be sent.
SignalIdle == UNCHANGED <<status, tasks, sconn, outFragQueue>>

\* They are those that only serve clients, take a reply, or are Redis's own.
LEMMA IdleSteps ==
  ASSUME \/ \E c \in Client : Accept(c) \/ CClose(c)
         \/ \E c \in Client, m \in freeMsgs \cup {Len(msg) + 1} :
              CReactImmediate(c, m) \/ \E q \in Requests : CReact(c, q, m)
         \/ \E f \in DOMAIN frag : DispatchFails(f)
         \/ \E s \in SConn : \/ SReadCluster(s) \/ SReadMovedFails(s) \/ SReadLate(s)
                             \/ SReadTooLarge(s) \/ SReadDefault(s) \/ SReadMGet(s)
                             \/ SReadMSet(s) \/ SReadDel(s) \/ Execute(s)
         \/ \E t \in Topologies : TickerChanged(t)
         \/ \E k \in Slot : Migrated(k) \/ \E a \in Addr : Migrate(k, a)
         \/ UNCHANGED vars
  PROVE  SignalIdle
<1>1. CASE \E c \in Client : Accept(c) \/ CClose(c)
  BY <1>1, Zenon DEF Accept, CClose, control, serverVars, SignalIdle
<1>2. CASE \E c \in Client, m \in freeMsgs \cup {Len(msg) + 1} :
             CReactImmediate(c, m) \/ \E q \in Requests : CReact(c, q, m)
  BY <1>2, ZenonT(60) DEF CReactImmediate, CReact, control, serverVars, SignalIdle
<1>3. CASE \E f \in DOMAIN frag : DispatchFails(f)
  BY <1>3, Zenon DEF DispatchFails, control, serverVars, SignalIdle
<1>4. CASE \E s \in SConn : \/ SReadCluster(s) \/ SReadMovedFails(s) \/ SReadLate(s)
                           \/ SReadTooLarge(s) \/ SReadDefault(s) \/ SReadMGet(s)
                           \/ SReadMSet(s) \/ SReadDel(s) \/ Execute(s)
  BY <1>4, Zenon DEF SReadCluster, SReadMovedFails, SReadLate, SReadTooLarge, SReadDefault, SReadMGet,
              SReadMSet, SReadDel, TakeAnswer, Execute, control, serverVars, SignalIdle
<1>5. CASE \E t \in Topologies : TickerChanged(t)
  BY <1>5, Zenon DEF TickerChanged, control, serverVars, SignalIdle
<1>6. CASE \E k \in Slot : Migrated(k) \/ \E a \in Addr : Migrate(k, a)
  BY <1>6, Zenon DEF Migrated, Migrate, control, serverVars, SignalIdle
<1>7. CASE UNCHANGED vars
  BY <1>7, Zenon DEF vars, control, serverVars, SignalIdle
<1> QED BY <1>1, <1>2, <1>3, <1>4, <1>5, <1>6, <1>7, Zenon

\* EnqueueOutFrag triggers a write task of the connection it adds a frag to.
LEMMA EnqueueSignal ==
  ASSUME ServersType, tasks \in Seq(TaskType), NEW s \in SConn, PoolGet(s), NEW f,
         EnqueueOutFrag(s, f), status' = status, NEW t \in SConn
  PROVE  SignalStep(t)
<1> DEFINE e == Task("write", s, 0)
<1>1. /\ outFragQueue' = [outFragQueue EXCEPT ![s] = Append(@, f)] /\ tasks' = Append(tasks, e)
      /\ e.op = "write" /\ e.conn = s
  BY Zenon  DEF EnqueueOutFrag, Task
<1>2. sconn'[s] = "open" /\ (t # s => sconn'[t] = sconn[t])
  BY PoolGetOpens, Zenon
<1> HIDE DEF e
<1>3. Pending(tasks', "write", s) /\ (Pending(tasks, "write", t) => Pending(tasks', "write", t))
  BY <1>1, PendingAppend, Zenon
<1>4. t # s => outFragQueue'[t] = outFragQueue[t]
  BY <1>1, Zenon DEF ServersType
<1> QED BY <1>2, <1>3, <1>4, Zenon DEF SignalStep

\* OnTicker adds a cluster task, perhaps.
LEMMA OnTickerSignal ==
  ASSUME ServersType, tasks \in Seq(TaskType), NEW ps, OnTicker(ps), status' = status,
         outFragQueue' = outFragQueue, NEW t \in SConn
  PROVE  SignalStep(t)
<1>1. sconn'[t] \in {sconn[t], "open"} /\ (tasks' = tasks \/ \E e : tasks' = Append(tasks, e))
  BY PoolGetOpens, Zenon DEF OnTicker
<1>2. Pending(tasks, "write", t) => Pending(tasks', "write", t)
  BY <1>1, PendingAppend, Zenon
<1> QED BY <1>1, <1>2, Zenon DEF SignalStep

\* closeConn drops the frags to be sent.
LEMMA CloseServerSignal ==
  ASSUME ServersType, NEW s \in SConn, CloseServer(s), status' = status, NEW t \in SConn,
         Pending(tasks, "write", t) => Pending(tasks', "write", t)
  PROVE  SignalStep(t)
BY Zenon DEF CloseServer, ServersType, SignalStep

\* A task of another kind than write is run.
LEMMA TaskSignal ==
  ASSUME TypeOK, NEW t \in SConn, WriteClusterNodes \/ CloseTask \/ AsyncWrite
  PROVE  SignalStep(t)
<1>0. ServersType /\ ControlType
  BY Zenon DEF TypeOK
<1> DEFINE s == Head(tasks).conn
<1>1. /\ tasks # <<>> /\ Head(tasks).op # "write" /\ status' = status /\ tasks \in Seq(TaskType)
  BY <1>0, Zenon DEF WriteClusterNodes, CloseTask, AsyncWrite, RunTask, ControlType
<1>2. Pending(tasks, "write", t) => Pending(Tail(tasks), "write", t)
  BY <1>1, PendingTail, Zenon
<1>3. Head(tasks) \in TaskType /\ Tail(tasks) \in Seq(TaskType)
  BY <1>1, SeqHeadTail, Zenon
<1>4. CASE tasks' = Tail(tasks) /\ UNCHANGED <<sconn, outFragQueue>>
  BY <1>1, <1>2, <1>4, Zenon DEF SignalStep
<1>5. CASE WriteClusterNodes
  <2>1. CASE Opened(s)
    <3> DEFINE e == Task("write", s, 0)
    <3>1. /\ outFragQueue' = [outFragQueue EXCEPT ![s] = Append(@, Len(frag) + 1)]
          /\ tasks' = Append(Tail(tasks), e) /\ sconn' = sconn /\ sconn[s] = "open"
      BY <1>5, <2>1, Zenon DEF WriteClusterNodes, Opened
    <3>2. e.op = "write" /\ e.conn = s
      BY Zenon DEF Task
    <3> HIDE DEF e, s
    <3>3. Pending(tasks', "write", s) /\ (Pending(tasks, "write", t) => Pending(tasks', "write", t))
      BY <1>2, <1>3, <3>1, <3>2, PendingAppend, Zenon
    <3>4. t # s => outFragQueue'[t] = outFragQueue[t]
      BY <1>0, <3>1, Zenon DEF ServersType
    <3> QED BY <1>1, <3>1, <3>3, <3>4, Zenon DEF SignalStep
  <2>2. CASE ~Opened(s)
    BY <1>4, <1>5, <2>2, Zenon DEF WriteClusterNodes
  <2> QED BY <2>1, <2>2, Zenon
<1>6. CASE CloseTask
  <2>1. s \in SConn /\ tasks' = Tail(tasks)
    BY <1>3, <1>6, Zenon DEF CloseTask, RunTask, TaskType
  <2>2. CloseServer(s) \/ UNCHANGED <<sconn, outFragQueue>>
    BY <1>6, Zenon DEF CloseTask, serverVars
  <2> HIDE DEF s
  <2> QED BY <1>0, <1>1, <1>2, <1>4, <2>1, <2>2, CloseServerSignal, Zenon
<1>7. CASE AsyncWrite
  BY <1>4, <1>7, Zenon DEF AsyncWrite, RunTask, serverVars
<1> QED BY <1>5, <1>6, <1>7, Zenon

\* Every action is such a step for every connection.
LEMMA NextSignal ==
  ASSUME TypeOK, SignalInv, [Next]_vars, NEW t \in SConn
  PROVE  SignalStep(t)
<1>0. ServersType /\ ControlType /\ PoolsType /\ tasks \in Seq(TaskType)
  BY Zenon DEF TypeOK, ControlType
<1>1. CASE SignalIdle
  BY <1>1, Zenon DEF SignalIdle, SignalStep
<1>2. CASE HandleWriteSignal
  <2> DEFINE s == Head(tasks).conn
  <2>1. tasks # <<>> /\ tasks' = Tail(tasks) /\ sconn' = sconn /\ status' = status
    BY <1>2, Zenon DEF HandleWriteSignal, RunTask
  <2>2. CASE t = s
    <3>1. CASE Opened(s)
      <4>1. outFragQueue'[t] = <<>>
        BY <1>0, <1>2, <2>2, <3>1, Zenon DEF HandleWriteSignal, DequeueOutFrags, ServersType
      <4> QED BY <4>1, Zenon DEF SignalStep
    <3>2. CASE ~Opened(s)
      <4>1. outFragQueue' = outFragQueue
        BY <1>2, <3>2, Zenon DEF HandleWriteSignal
      <4> QED BY <2>2, <3>2, <4>1, Zenon DEF SignalInv, SignalStep
    <3> QED BY <3>1, <3>2, Zenon
  <2>3. CASE t # s
    <3>1. outFragQueue'[t] = outFragQueue[t]
      BY <1>0, <1>2, <2>3, Zenon DEF HandleWriteSignal, DequeueOutFrags, ServersType
    <3>2. Pending(tasks, "write", t) => Pending(tasks', "write", t)
      BY <1>0, <2>1, <2>3, PendingTail, Zenon
    <3> QED BY <2>1, <3>1, <3>2, Zenon DEF SignalStep
  <2> QED BY <2>2, <2>3, Zenon
<1>3. ASSUME NEW s \in SConn, NEW f \in DOMAIN frag, Dispatch(f, s)
      PROVE  SignalStep(t)
  <2>1. PoolGet(s) /\ EnqueueOutFrag(s, f) /\ status' = status
    BY <1>3, Zenon DEF Dispatch
  <2> QED BY <1>0, <2>1, EnqueueSignal, Zenon
<1>4. ASSUME NEW s \in SConn, NEW u \in SConn, SReadMoved(s, u)
      PROVE  SignalStep(t)
  <2>1. /\ PoolGet(u)
        /\ \/ EnqueueOutFrag(u, Answered(s)) /\ status' = status
           \/ status' = "panicked" /\ outFragQueue' = outFragQueue /\ tasks' = tasks
    BY <1>4, Zenon DEF SReadMoved
  <2>2. sconn'[t] \in {sconn[t], "open"}
    BY <1>0, <2>1, PoolGetOpens, Zenon
  <2>3. CASE status' = "panicked" /\ outFragQueue' = outFragQueue /\ tasks' = tasks
    BY <2>2, <2>3, Zenon DEF SignalStep
  <2> QED BY <1>0, <2>1, <2>3, EnqueueSignal, Zenon
<1>5. ASSUME NEW s \in SConn, SReadMGetPanics(s) \/ SReadShutdown(s) \/ SClose(s)
      PROVE  SignalStep(t)
  <2>1. CASE SReadMGetPanics(s)
    BY <2>1, Zenon DEF SReadMGetPanics, Panic, serverVars, SignalStep
  <2>2. CASE SReadShutdown(s)
    BY <2>2, Zenon DEF SReadShutdown, SignalStep
  <2>3. CASE SClose(s)
    BY <1>0, <2>3, CloseServerSignal, Zenon DEF SClose, control
  <2> QED BY <1>5, <2>1, <2>2, <2>3, Zenon
<1>6. ASSUME NEW f \in DOMAIN timeoutTree, MsgTimeout(f)
      PROVE  SignalStep(t)
  <2>1. /\ UNCHANGED <<status, sconn, outFragQueue>>
        /\ tasks' = tasks \/ \E e : tasks' = Append(tasks, e)
    BY <1>6, Zenon DEF MsgTimeout, serverVars
  <2>2. Pending(tasks, "write", t) => Pending(tasks', "write", t)
    BY <1>0, <2>1, PendingAppend, Zenon
  <2> QED BY <2>1, <2>2, Zenon DEF SignalStep
<1>7. CASE Ticker
  BY <1>0, <1>7, OnTickerSignal, Zenon DEF Ticker
<1>8. CASE TickerLoad
  BY <1>0, <1>8, OnTickerSignal, Zenon DEF TickerLoad
<1>9. ASSUME NEW a \in Addr, TickerRemove(a) \/ SetIsSlave(a)
      PROVE  SignalStep(t)
  <2> DEFINE us == [i \in DOMAIN active[a] |-> Task("close", active[a][i], 0)]
  <2>1. UNCHANGED <<status, sconn, outFragQueue>> /\ tasks' = tasks \o us
    BY <1>9, Zenon DEF TickerRemove, SetIsSlave, Release, serverVars
  <2>2. us \in Seq(TaskType)
    BY <1>0, SMTT(20) DEF PoolsType, Task, TaskType
  <2> HIDE DEF us
  <2>3. Pending(tasks, "write", t) => Pending(tasks', "write", t)
    BY <1>0, <2>1, <2>2, PendingConcat, Zenon
  <2> QED BY <2>1, <2>3, Zenon DEF SignalStep
<1>10. ASSUME NEW c \in Client, CReactNil(c)
       PROVE  SignalStep(t)
  BY <1>10, Zenon DEF CReactNil, Panic, serverVars, SignalStep
<1> QED BY <1>1, <1>2, <1>3, <1>4, <1>5, <1>6, <1>7, <1>8, <1>9, <1>10, IdleSteps, TaskSignal, Zenon
       DEF Next, OnCReact, RunTasks, SRead, Reload
-----------------------------------------------------------------------------
(* UniqueInFlight.                                                          *)

\* The elements of two queues, one after the other.
LEMMA ConcatAt ==
  ASSUME NEW S, NEW p \in Seq(S), NEW q \in Seq(S), NEW k \in DOMAIN (p \o q)
  PROVE  /\ Len(p) \in Nat /\ k \in Nat
         /\ \/ k \in DOMAIN p /\ (p \o q)[k] = p[k]
            \/ k - Len(p) \in DOMAIN q /\ (p \o q)[k] = q[k - Len(p)]
OBVIOUS

\* No frag is there twice if none was.
LEMMA NoDupConcat ==
  ASSUME NEW S, NEW p \in Seq(S), NEW q \in Seq(S), Distinct(p, q)
  PROVE  NoDup(p \o q) /\ Elems(p \o q) \subseteq Elems(p) \cup Elems(q)
<1>1. Elems(p \o q) \subseteq Elems(p) \cup Elems(q)
  BY ConcatAt DEF Elems
<1>2. NoDup(p \o q)
  <2> SUFFICES ASSUME NEW i \in DOMAIN (p \o q), NEW j \in DOMAIN (p \o q), (p \o q)[i] = (p \o q)[j]
               PROVE  i = j
    BY Zenon DEF NoDup
  <2>0. PICK n : n = Len(p)
    BY Zenon
  <2>1. ASSUME NEW k \in DOMAIN (p \o q)
        PROVE  /\ n \in Nat /\ k \in Nat
               /\ (k \in DOMAIN p /\ (p \o q)[k] = p[k]) \/ (k - n \in DOMAIN q /\ (p \o q)[k] = q[k - n])
    BY <2>0, ConcatAt, Zenon
  <2>4. PICK e : e = (p \o q)[i] /\ e = (p \o q)[j]
    BY Zenon
  <2>5. /\ n \in Nat /\ i \in Nat
        /\ (i \in DOMAIN p /\ e = p[i]) \/ (i - n \in DOMAIN q /\ e = q[i - n])
    BY <2>1, <2>4, Zenon
  <2>6. /\ j \in Nat
        /\ (j \in DOMAIN p /\ e = p[j]) \/ (j - n \in DOMAIN q /\ e = q[j - n])
    BY <2>1, <2>4, Zenon
  <2>2. \/ i \in DOMAIN p /\ j \in DOMAIN p /\ p[i] = p[j]
        \/ i - n \in DOMAIN q /\ j - n \in DOMAIN q /\ q[i - n] = q[j - n]
    BY <2>5, <2>6, Zenon DEF Distinct, Elems
  <2>3. i = j \/ i - n = j - n
    BY <2>2, Zenon DEF Distinct, NoDup
  <2> QED BY <2>3, <2>5, <2>6
<1> QED BY <1>1, <1>2, Zenon

\* A frag that is new to a queue.
LEMMA NoDupAppend ==
  ASSUME NEW S, NEW q \in Seq(S), NEW e \in S, NoDup(q), e \notin Elems(q)
  PROVE  NoDup(Append(q, e)) /\ Elems(Append(q, e)) = Elems(q) \cup {e}
<1>1. /\ DOMAIN Append(q, e) = DOMAIN q \cup {Len(q) + 1} /\ Append(q, e)[Len(q) + 1] = e
      /\ \A i \in DOMAIN q : Append(q, e)[i] = q[i]
  BY SeqAppend
<1>2. Elems(Append(q, e)) = Elems(q) \cup {e}
  BY <1>1, Zenon DEF Elems
<1>3. NoDup(Append(q, e))
  BY <1>1, Zenon DEF NoDup, Elems
<1> QED BY <1>2, <1>3, Zenon

\* It says what UniqueInFlight says, and more.
LEMMA FlightInvImplies ==
  ASSUME ServersType, FlightInv
  PROVE  UniqueInFlight
<1> SUFFICES ASSUME NEW s \in SConn, NEW t \in SConn,
                    NEW i \in DOMAIN (outFragQueue[s] \o inFragQueue[s]),
                    NEW j \in DOMAIN (outFragQueue[t] \o inFragQueue[t]),
                    (outFragQueue[s] \o inFragQueue[s])[i] = (outFragQueue[t] \o inFragQueue[t])[j]
             PROVE  s = t /\ i = j
  BY Zenon DEF UniqueInFlight
<1>1. ASSUME NEW u \in SConn
      PROVE  outFragQueue[u] \in Seq(DOMAIN frag) /\ inFragQueue[u] \in Seq(DOMAIN frag)
  BY <1>1, Zenon DEF ServersType
<1>2. s = t
  <2>1. ASSUME NEW u \in SConn, NEW k \in DOMAIN (outFragQueue[u] \o inFragQueue[u])
        PROVE  (outFragQueue[u] \o inFragQueue[u])[k] \in Waits(u)
    <3>1. PICK o, q : o = outFragQueue[u] /\ q = inFragQueue[u]
      BY Zenon
    <3>2. o \in Seq(DOMAIN frag) /\ q \in Seq(DOMAIN frag) /\ k \in DOMAIN (o \o q)
      BY <1>1, <2>1, <3>1, Zenon
    <3>3. \/ k \in DOMAIN o /\ (o \o q)[k] = o[k]
          \/ k - Len(o) \in DOMAIN q /\ (o \o q)[k] = q[k - Len(o)]
      BY <3>2, ConcatAt, Zenon
    <3>4. (o \o q)[k] \in Elems(o) \cup Elems(q)
      BY <3>3, Zenon DEF Elems
    <3> QED BY <3>1, <3>4, Zenon DEF Waits
  <2>2. PICK e : e \in Waits(s) /\ e \in Waits(t)
    BY <2>1, Zenon
  <2> QED BY <2>2, Zenon DEF FlightInv
<1>3. i = j
  <2>1. PICK o, q : o = outFragQueue[s] /\ q = inFragQueue[s]
    BY Zenon
  <2>2. /\ o \in Seq(DOMAIN frag) /\ q \in Seq(DOMAIN frag) /\ Distinct(o, q)
        /\ i \in DOMAIN (o \o q) /\ j \in DOMAIN (o \o q) /\ (o \o q)[i] = (o \o q)[j]
    BY <1>1, <1>2, <2>1, Zenon DEF FlightInv
  <2>3. NoDup(o \o q)
    BY <2>2, NoDupConcat, Zenon
  <2> QED BY <2>2, <2>3, Zenon DEF NoDup
<1> QED BY <1>2, <1>3, Zenon

\* What a step may do to the queues of one connection, other than adding a frag.
Moves(s) ==
  \/ outFragQueue'[s] = outFragQueue[s] /\ inFragQueue'[s] = inFragQueue[s]
  \/ outFragQueue'[s] = <<>> /\ inFragQueue'[s] = <<>>
  \/ outFragQueue'[s] = <<>> /\ inFragQueue'[s] = inFragQueue[s] \o outFragQueue[s]
  \/ /\ outFragQueue'[s] = outFragQueue[s]
     /\ inFragQueue[s] # <<>> /\ inFragQueue'[s] = Tail(inFragQueue[s])

\* Such a step keeps the frags of the connection apart, and adds none.
LEMMA MovesKeep ==
  ASSUME ServersType, NEW s \in SConn, Distinct(outFragQueue[s], inFragQueue[s]), Moves(s)
  PROVE  Distinct(outFragQueue[s], inFragQueue[s])' /\ Waits(s)' \subseteq Waits(s)
<1>1. outFragQueue[s] \in Seq(DOMAIN frag) /\ inFragQueue[s] \in Seq(DOMAIN frag)
  BY Zenon DEF ServersType
<1>2. DOMAIN <<>> = {} /\ Elems(<<>>) = {} /\ NoDup(<<>>)
  BY DEF Elems, NoDup
<1>3. CASE outFragQueue'[s] = outFragQueue[s] /\ inFragQueue'[s] = inFragQueue[s]
  BY <1>3, Zenon DEF Distinct, Waits
<1>4. CASE outFragQueue'[s] = <<>> /\ inFragQueue'[s] = <<>>
  BY <1>2, <1>4, Zenon DEF Distinct, Waits
<1>5. CASE outFragQueue'[s] = <<>> /\ inFragQueue'[s] = inFragQueue[s] \o outFragQueue[s]
  <2>1. Distinct(inFragQueue[s], outFragQueue[s])
    BY Zenon DEF Distinct
  <2>2. /\ NoDup(inFragQueue'[s])
        /\ Elems(inFragQueue'[s]) \subseteq Elems(outFragQueue[s]) \cup Elems(inFragQueue[s])
    BY <1>1, <1>5, <2>1, NoDupConcat
  <2> QED BY <1>2, <1>5, <2>2, Zenon DEF Distinct, Waits
<1>6. CASE /\ outFragQueue'[s] = outFragQueue[s]
           /\ inFragQueue[s] # <<>> /\ inFragQueue'[s] = Tail(inFragQueue[s])
  <2>1. NoDup(inFragQueue'[s]) /\ Elems(inFragQueue'[s]) \subseteq Elems(inFragQueue[s])
    BY <1>1, <1>6, NoDupTail, Zenon DEF Distinct
  <2> QED BY <1>6, <2>1, Zenon DEF Distinct, Waits
<1> QED BY <1>3, <1>4, <1>5, <1>6, Zenon DEF Moves

\* A step that sends no frag anew.
LEMMA FlightMoves ==
  ASSUME ServersType, FlightInv, \A s \in SConn : Moves(s),
         handling'.op = "react" =>
           \A f \in handling'.todo :
             f \notin DOMAIN frag \/ (handling.op = "react" /\ f \in handling.todo)
  PROVE  FlightInv'
<1>1. \A s \in SConn : Distinct(outFragQueue[s], inFragQueue[s])' /\ Waits(s)' \subseteq Waits(s)
  BY MovesKeep, Zenon DEF FlightInv
<1>2. \A s \in SConn : Waits(s) \subseteq DOMAIN frag
  BY DEF ServersType, Waits, Elems
<1>3. \A s, t \in SConn : s # t => (Waits(s) \cap Waits(t) = {})'
  BY <1>1, Zenon DEF FlightInv
<1>4. handling'.op = "react" => \A f \in handling'.todo, s \in SConn : f \notin Waits(s)'
  BY <1>1, <1>2, Zenon DEF FlightInv
<1> QED BY <1>1, <1>3, <1>4, Zenon DEF FlightInv

\* A step that gives connection t frag f to send: f waits nowhere else, although it
\* may have been the next one of a connection.
LEMMA FlightJoins ==
  ASSUME TypeOK, FlightInv, NEW t \in SConn, NEW f \in Nat,
         outFragQueue' = [outFragQueue EXCEPT ![t] = Append(@, f)],
         \A s \in SConn : \/ inFragQueue'[s] = inFragQueue[s]
                          \/ inFragQueue[s] # <<>> /\ inFragQueue'[s] = Tail(inFragQueue[s]),
         \A s \in SConn : f \notin Elems(outFragQueue[s]) /\ f \notin Elems(inFragQueue'[s]),
         handling'.op = "react" => /\ handling.op = "react" /\ handling'.todo \subseteq handling.todo
                                   /\ f \notin handling'.todo
  PROVE  FlightInv'
<1>1. \A s \in SConn : outFragQueue[s] \in Seq(Nat) /\ inFragQueue[s] \in Seq(Nat)
  <2>1. DOMAIN frag \subseteq Nat
    BY SeqFacts DEF TypeOK, FragsType
  <2> QED BY <2>1, SeqGrow, Zenon DEF TypeOK, ServersType
<1>2. \A s \in SConn : /\ NoDup(inFragQueue'[s]) /\ Elems(inFragQueue'[s]) \subseteq Elems(inFragQueue[s])
  BY <1>1, NoDupTail DEF FlightInv, Distinct
<1>3. /\ outFragQueue'[t] = Append(outFragQueue[t], f)
      /\ \A s \in SConn : s # t => outFragQueue'[s] = outFragQueue[s]
  BY Zenon DEF TypeOK, ServersType
<1>4. NoDup(outFragQueue'[t]) /\ Elems(outFragQueue'[t]) = Elems(outFragQueue[t]) \cup {f}
  BY <1>1, <1>3, NoDupAppend DEF FlightInv, Distinct
<1>5. \A s \in SConn : Distinct(outFragQueue[s], inFragQueue[s])'
  BY <1>2, <1>3, <1>4 DEF FlightInv, Distinct
<1>6. \A s \in SConn : Waits(s)' \subseteq Waits(s) \cup {f} /\ (s # t => f \notin Waits(s)')
  BY <1>2, <1>3, <1>4, Zenon DEF Waits
<1>7. \A s, u \in SConn : s # u => (Waits(s) \cap Waits(u) = {})'
  BY <1>6, Zenon DEF FlightInv
<1>8. handling'.op = "react" => \A g \in handling'.todo, s \in SConn : g \notin Waits(s)'
  BY <1>6, Zenon DEF FlightInv
<1> QED BY <1>5, <1>7, <1>8, Zenon DEF FlightInv

\* The handler that a step starts, goes on with or ends: one that starts has new
\* frags to dispatch.
TodoStep ==
  handling'.op = "react" =>
    \A f \in handling'.todo : f \notin DOMAIN frag \/ (handling.op = "react" /\ f \in handling.todo)

\* Steps that leave the queues of Redis's connections alone.
FlightIdle == UNCHANGED <<outFragQueue, inFragQueue>> /\ TodoStep

\* They are those that serve clients, tick, or are Redis's own.
LEMMA FlightIdleSteps ==
  ASSUME \/ \E c \in Client : Accept(c) \/ CClose(c) \/ CReactNil(c)
         \/ \E c \in Client, m \in freeMsgs \cup {Len(msg) + 1} : CReactImmediate(c, m)
         \/ \E f \in DOMAIN frag : DispatchFails(f)
         \/ AsyncWrite
         \/ \E s \in SConn : SReadMGetPanics(s) \/ Execute(s)
         \/ \E f \in DOMAIN timeoutTree : MsgTimeout(f)
         \/ Ticker \/ (\E t \in Topologies : TickerChanged(t)) \/ Reload
         \/ \E k \in Slot : Migrated(k) \/ \E a \in Addr : Migrate(k, a)
         \/ UNCHANGED vars
  PROVE  FlightIdle
<1>1. UNCHANGED <<outFragQueue, inFragQueue>>
  BY ZenonT(40) DEF Accept, CClose, CReactNil, CReactImmediate, DispatchFails, AsyncWrite, SReadMGetPanics, Panic,
         Execute, MsgTimeout, Ticker, TickerChanged, Reload, TickerLoad, TickerRemove, SetIsSlave, Release,
         Migrated, Migrate
<1>2. handling' = handling \/ handling' = Idle \/ \E t : handling' = [op |-> "ticker", topo |-> t]
  BY ZenonT(40) DEF Accept, CClose, CReactNil, CReactImmediate, DispatchFails, AsyncWrite, RunTask, SReadMGetPanics, Panic,
         Execute, MsgTimeout, Ticker, TickerChanged, Reload, TickerLoad, TickerRemove, SetIsSlave, Release,
         Migrated, Migrate
<1>3. TodoStep
  BY <1>2 DEF TodoStep, Idle
<1> QED BY <1>1, <1>3, Zenon DEF FlightIdle

\* Decode makes new frags.
LEMMA CReactFlight ==
  ASSUME TypeOK, NEW c \in Client, NEW q \in Requests, NEW m, CReact(c, q, m)
  PROVE  FlightIdle
<1>1. /\ UNCHANGED <<outFragQueue, inFragQueue>>
      /\ handling' = [op |-> "react", client |-> c, msg |-> m,
                      todo |-> Len(frag) + 1 .. Len(frag) + Len(q.slots)]
  BY Zenon DEF CReact
<1>2. DOMAIN frag = 1 .. Len(frag) /\ Len(frag) \in Nat
  BY SeqFacts, Zenon DEF TypeOK, FragsType
<1>3. Len(q.slots) \in Nat
  BY ProxyAssumption
<1>4. handling'.todo = Len(frag) + 1 .. Len(frag) + Len(q.slots)
  BY <1>1, Zenon
<1>5. \A f \in handling'.todo : f \notin DOMAIN frag
  BY <1>2, <1>3, <1>4
<1> QED BY <1>1, <1>5, Zenon DEF FlightIdle, TodoStep

\* A turn of OnCReact's loop: the frag waits nowhere yet.
LEMMA DispatchFlight ==
  ASSUME TypeOK, FlightInv, NEW f \in DOMAIN frag, NEW s \in SConn, Dispatch(f, s)
  PROVE  FlightInv'
<1>1. /\ handling.op = "react" /\ f \in handling.todo
      /\ outFragQueue' = [outFragQueue EXCEPT ![s] = Append(@, f)] /\ inFragQueue' = inFragQueue
      /\ handling' = Idle \/ handling' = [handling EXCEPT !.todo = @ \ {f}]
  BY Zenon DEF Dispatch, EnqueueOutFrag
<1>2. handling \in ReactType
  BY <1>1 DEF TypeOK, ControlType, Idle, ReloadType
<1>3. handling'.op = "react" => /\ handling'.todo \subseteq handling.todo
                                /\ f \notin handling'.todo
  BY <1>1, <1>2 DEF Idle, ReactType
<1>4. \A t \in SConn : f \notin Elems(outFragQueue[t]) /\ f \notin Elems(inFragQueue[t])
  BY <1>1, Zenon DEF FlightInv, Waits
<1>5. f \in Nat
  BY SeqFacts DEF TypeOK, FragsType
<1>6. \A t \in SConn : inFragQueue'[t] = inFragQueue[t] /\ f \notin Elems(inFragQueue'[t])
  BY <1>1, <1>4, Zenon
<1> QED BY <1>1, <1>3, <1>4, <1>5, <1>6, FlightJoins, Zenon

\* writeClusterNodes: the frag is new.
LEMMA WriteClusterNodesFlight ==
  ASSUME TypeOK, FlightInv, WriteClusterNodes
  PROVE  FlightInv'
<1> DEFINE s == Head(tasks).conn
<1>1. /\ inFragQueue' = inFragQueue /\ handling' = handling /\ handling = Idle
      /\ tasks # <<>> /\ Head(tasks).op = "cluster"
      /\ \/ outFragQueue' = outFragQueue
         \/ outFragQueue' = [outFragQueue EXCEPT ![s] = Append(@, Len(frag) + 1)]
  BY Zenon DEF WriteClusterNodes, LoopFree
<1>2. handling'.op # "react"
  BY <1>1, Zenon DEF Idle
<1>3. CASE outFragQueue' = outFragQueue
  <2>1. \A t \in SConn : Moves(t)
    BY <1>1, <1>3, Zenon DEF Moves
  <2> QED BY <1>2, <2>1, FlightMoves, Zenon DEF TypeOK
<1>4. CASE outFragQueue' = [outFragQueue EXCEPT ![s] = Append(@, Len(frag) + 1)]
  <2>1. s \in SConn
    <3>1. Head(tasks) \in TaskType
      BY <1>1, SeqHeadTail DEF TypeOK, ControlType
    <3> QED BY <1>1, <3>1, Zenon DEF TaskType
  <2>2. Len(frag) + 1 \in Nat /\ Len(frag) + 1 \notin DOMAIN frag
    BY SeqFacts DEF TypeOK, FragsType
  <2>3. \A t \in SConn : Elems(outFragQueue[t]) \subseteq DOMAIN frag /\ Elems(inFragQueue[t]) \subseteq DOMAIN frag
    BY DEF TypeOK, ServersType, Elems
  <2>4. \A t \in SConn : /\ Len(frag) + 1 \notin Elems(outFragQueue[t])
                         /\ Len(frag) + 1 \notin Elems(inFragQueue'[t]) /\ inFragQueue'[t] = inFragQueue[t]
    BY <1>1, <2>2, <2>3, Zenon
  <2> HIDE DEF s
  <2> QED BY <1>2, <1>4, <2>1, <2>2, <2>4, FlightJoins, Zenon
<1> QED BY <1>1, <1>3, <1>4, Zenon

\* OnMoved: the frag leaves the queue it was the first of.
LEMMA SReadMovedFlight ==
  ASSUME TypeOK, FlightInv, NEW s \in SConn, NEW t \in SConn, SReadMoved(s, t)
  PROVE  FlightInv'
<1>1. /\ inFragQueue[s] # <<>> /\ inFragQueue' = [inFragQueue EXCEPT ![s] = Tail(@)]
      /\ handling' = handling /\ handling = Idle
      /\ \/ outFragQueue' = outFragQueue
         \/ outFragQueue' = [outFragQueue EXCEPT ![t] = Append(@, Answered(s))]
  BY Zenon DEF SReadMoved, TakeReply, LoopFree, EnqueueOutFrag
<1>2. handling'.op # "react"
  BY <1>1, Zenon DEF Idle
<1>3. /\ inFragQueue'[s] = Tail(inFragQueue[s])
      /\ \A u \in SConn : u # s => inFragQueue'[u] = inFragQueue[u]
  BY <1>1, Zenon DEF TypeOK, ServersType
<1>4. CASE outFragQueue' = outFragQueue
  <2>1. \A u \in SConn : Moves(u)
    BY <1>1, <1>3, <1>4, Zenon DEF Moves
  <2> QED BY <1>2, <2>1, FlightMoves, Zenon DEF TypeOK
<1>5. CASE outFragQueue' = [outFragQueue EXCEPT ![t] = Append(@, Answered(s))]
  <2>1. inFragQueue[s] \in Seq(DOMAIN frag) /\ NoDup(inFragQueue[s])
    BY Zenon DEF TypeOK, ServersType, FlightInv, Distinct
  <2>2. /\ Answered(s) \in Elems(inFragQueue[s]) /\ Answered(s) \notin Elems(inFragQueue'[s])
    BY <1>1, <1>3, <2>1, NoDupTail, Zenon DEF Answered
  <2>3. Answered(s) \in Nat
    <3>1. DOMAIN frag \subseteq Nat
      BY SeqFacts DEF TypeOK, FragsType
    <3> QED BY <1>1, <2>1, <3>1, SeqHeadTail DEF Answered
  <2>4. Elems(outFragQueue[s]) \cap Elems(inFragQueue[s]) = {} /\ \A u \in SConn : u # s => Answered(s) \notin Waits(u)
    BY <2>2, Zenon DEF FlightInv, Distinct, Waits
  <2>5. \A u \in SConn : Answered(s) \notin Elems(outFragQueue[u]) /\ Answered(s) \notin Elems(inFragQueue'[u])
    BY <1>3, <2>2, <2>4, Zenon DEF Waits
  <2>6. PICK f \in Nat : f = Answered(s)
    BY <2>3, Zenon
  <2>7. \A u \in SConn : \/ inFragQueue'[u] = inFragQueue[u]
                         \/ inFragQueue[u] # <<>> /\ inFragQueue'[u] = Tail(inFragQueue[u])
    BY <1>1, <1>3, Zenon
  <2> QED BY <1>2, <1>5, <2>5, <2>6, <2>7, FlightJoins, Zenon
<1> QED BY <1>1, <1>4, <1>5, Zenon

\* handleWriteSignal moves the frags of a connection from one queue to the other.
LEMMA HandleWriteSignalMoves ==
  ASSUME TypeOK, HandleWriteSignal
  PROVE  \A t \in SConn : Moves(t)
<1>0. TAKE t \in SConn
<1> DEFINE s == Head(tasks).conn
<1>1. CASE Opened(s)
  <2>1. /\ inFragQueue' = [inFragQueue EXCEPT ![s] = @ \o outFragQueue[s]]
        /\ outFragQueue' = [outFragQueue EXCEPT ![s] = <<>>]
    BY <1>1, Zenon DEF HandleWriteSignal, EnqueueInFrags, DequeueOutFrags
  <2>2. CASE t = s
    BY <2>1, <2>2, Zenon DEF TypeOK, ServersType, Moves
  <2>3. CASE t # s
    BY <2>1, <2>3, Zenon DEF TypeOK, ServersType, Moves
  <2> QED BY <2>2, <2>3, Zenon
<1>2. CASE ~Opened(s)
  BY <1>2, Zenon DEF HandleWriteSignal, Moves
<1> QED BY <1>1, <1>2, Zenon

\* A connection that is closed forgets its frags.
LEMMA CloseServerMoves ==
  ASSUME TypeOK, NEW s \in SConn, CloseServer(s)
  PROVE  \A t \in SConn : Moves(t)
BY Zenon DEF CloseServer, TypeOK, ServersType, Moves

\* A reply takes a frag from its connection.
LEMMA TakeReplyMoves ==
  ASSUME TypeOK, NEW s \in SConn, TakeReply(s), outFragQueue' = outFragQueue
  PROVE  \A t \in SConn : Moves(t)
BY Zenon DEF TakeReply, TypeOK, ServersType, Moves

\* conn.Close, which comes from the pools.
LEMMA CloseTaskMoves ==
  ASSUME TypeOK, CloseTask
  PROVE  \A t \in SConn : Moves(t)
<1>1. tasks # <<>> /\ Head(tasks).op = "close"
  BY Zenon DEF CloseTask, RunTask
<1>2. Head(tasks).conn \in SConn
  <2>1. Head(tasks) \in TaskType
    BY <1>1, SeqHeadTail, Zenon DEF TypeOK, ControlType
  <2> QED BY <1>1, <2>1, Zenon DEF TaskType
<1>3. CloseServer(Head(tasks).conn) \/ UNCHANGED <<inFragQueue, outFragQueue>>
  BY Zenon DEF CloseTask
<1>4. CASE UNCHANGED <<inFragQueue, outFragQueue>>
  BY <1>4, Zenon DEF Moves
<1>5. CASE CloseServer(Head(tasks).conn)
  BY <1>2, <1>5, CloseServerMoves, Zenon
<1> QED BY <1>3, <1>4, <1>5, Zenon

\* The steps that send no frag anew.
LEMMA MovingSteps ==
  ASSUME TypeOK,
         \/ HandleWriteSignal \/ CloseTask
         \/ \E s \in SConn : \/ SReadCluster(s) \/ SReadMovedFails(s) \/ SReadLate(s) \/ SReadTooLarge(s)
                             \/ SReadDefault(s) \/ SReadMGet(s) \/ SReadMSet(s) \/ SReadDel(s)
                             \/ SReadShutdown(s) \/ SClose(s)
  PROVE  handling' = handling /\ \A t \in SConn : Moves(t)
<1>1. handling' = handling
  BY ZenonT(40) DEF HandleWriteSignal, CloseTask, SReadCluster, SReadMovedFails, SReadLate, SReadTooLarge, SReadDefault,
                    SReadMGet, SReadMSet, SReadDel, SReadShutdown, SClose, TakeAnswer
<1>3. CASE HandleWriteSignal \/ CloseTask
  BY <1>1, <1>3, HandleWriteSignalMoves, CloseTaskMoves, Zenon
<1>4. ASSUME NEW s \in SConn, SReadShutdown(s)
      PROVE  \A t \in SConn : Moves(t)
  BY <1>4, Zenon DEF SReadShutdown, Moves
<1>5. ASSUME NEW s \in SConn, SClose(s)
      PROVE  \A t \in SConn : Moves(t)
  BY <1>5, CloseServerMoves, Zenon DEF SClose
<1>6. ASSUME NEW s \in SConn,
             \/ SReadCluster(s) \/ SReadMovedFails(s) \/ SReadLate(s) \/ SReadTooLarge(s)
             \/ SReadDefault(s) \/ SReadMGet(s) \/ SReadMSet(s) \/ SReadDel(s)
      PROVE  \A t \in SConn : Moves(t)
  <2>1. TakeReply(s) /\ outFragQueue' = outFragQueue
    BY <1>6, Zenon DEF SReadCluster, SReadMovedFails, SReadLate, SReadTooLarge, SReadDefault,
                       SReadMGet, SReadMSet, SReadDel, TakeAnswer
  <2> QED BY <2>1, TakeReplyMoves, Zenon
<1> QED BY <1>1, <1>3, <1>4, <1>5, <1>6, Zenon

\* Every action keeps the frags apart.
LEMMA NextFlight ==
  ASSUME TypeOK, FlightInv, [Next]_vars
  PROVE  FlightInv'
<1>0. ServersType
  BY Zenon DEF TypeOK
<1>1. ASSUME FlightIdle PROVE FlightInv'
  <2>1. \A t \in SConn : Moves(t)
    BY <1>1, Zenon DEF FlightIdle, Moves
  <2> QED BY <1>0, <1>1, <2>1, FlightMoves, Zenon DEF FlightIdle, TodoStep
<1>2. ASSUME handling' = handling, \A t \in SConn : Moves(t) PROVE FlightInv'
  BY <1>0, <1>2, FlightMoves, Zenon
<1> QED BY <1>1, <1>2, FlightIdleSteps, CReactFlight, DispatchFlight, WriteClusterNodesFlight,
           SReadMovedFlight, MovingSteps, Zenon
        DEF Next, OnCReact, RunTasks, SRead
-----------------------------------------------------------------------------
(* NoPanic.                                                                 *)

\* Every step does that.
LEMMA NextWaits ==
  ASSUME TypeOK, FlightInv, [Next]_vars
  PROVE  WaitsStep
<1> SUFFICES ASSUME NEW u \in SConn, NEW f \in Waits(u)'
             PROVE  \/ \E t \in SConn : f \in Waits(t)
                    \/ f \in DOMAIN frag /\ \E t \in SConn : Dispatch(f, t)
                    \/ f \notin DOMAIN frag /\ frag'[f].owner = Nil
  BY Zenon DEF WaitsStep
<1>0. ServersType
  BY Zenon DEF TypeOK
<1>1. CASE \A t \in SConn : Moves(t)
  BY <1>0, <1>1, MovesKeep, Zenon DEF FlightInv
<1>2. CASE FlightIdle
  BY <1>2, Zenon DEF FlightIdle, Waits
<1>3. ASSUME NEW t \in SConn, NEW g, outFragQueue' = [outFragQueue EXCEPT ![t] = Append(@, g)],
             g \in Nat,
             \A s \in SConn : Elems(inFragQueue'[s]) \subseteq Elems(inFragQueue[s])
      PROVE  f = g \/ f \in Waits(u)
  <2>1. outFragQueue[t] \in Seq(Nat) /\ outFragQueue \in [SConn -> Seq(DOMAIN frag)]
    <3>1. DOMAIN frag \subseteq Nat /\ outFragQueue \in [SConn -> Seq(DOMAIN frag)]
      BY <1>0, SeqFacts, SMTT(20) DEF TypeOK, FragsType, ServersType
    <3> QED BY <3>1, SeqGrow, Zenon
  <2>2. Elems(Append(outFragQueue[t], g)) = Elems(outFragQueue[t]) \cup {g}
    BY <1>3, <2>1, ElemsAppend
  <2>3. outFragQueue'[t] = Append(outFragQueue[t], g) /\ \A s \in SConn : s # t => outFragQueue'[s] = outFragQueue[s]
    BY <1>3, <2>1, Zenon
  <2> QED BY <1>3, <2>2, <2>3, Zenon DEF Waits
<1>4. ASSUME NEW g \in DOMAIN frag, NEW t \in SConn, Dispatch(g, t)
      PROVE  f = g \/ f \in Waits(u)
  <2>1. outFragQueue' = [outFragQueue EXCEPT ![t] = Append(@, g)] /\ inFragQueue' = inFragQueue
    BY <1>4, Zenon DEF Dispatch, EnqueueOutFrag
  <2>2. g \in Nat
    BY SeqFacts DEF TypeOK, FragsType
  <2> QED BY <1>3, <2>1, <2>2, Zenon
<1>5. CASE WriteClusterNodes
  <2>1. PICK t : t = Head(tasks).conn
    BY Zenon
  <2>2. /\ inFragQueue' = inFragQueue /\ tasks # <<>> /\ Head(tasks).op = "cluster"
        /\ \/ outFragQueue' = outFragQueue
           \/ /\ outFragQueue' = [outFragQueue EXCEPT ![t] = Append(@, Len(frag) + 1)]
              /\ frag' = Append(frag, NewFrag(0, Nil, 0))
    BY <1>5, <2>1, Zenon DEF WriteClusterNodes, RunTask, EnqueueOutFrag
  <2>3. t \in SConn
    <3>1. Head(tasks) \in TaskType
      BY <2>2, SeqHeadTail DEF TypeOK, ControlType
    <3> QED BY <2>1, <2>2, <3>1, Zenon DEF TaskType
  <2>4. CASE outFragQueue' = outFragQueue
    BY <2>2, <2>4, Zenon DEF Waits
  <2>5. CASE outFragQueue' = [outFragQueue EXCEPT ![t] = Append(@, Len(frag) + 1)] /\ frag' = Append(frag, NewFrag(0, Nil, 0))
    <3>1. Len(frag) + 1 \in Nat /\ Len(frag) + 1 \notin DOMAIN frag
      BY SeqFacts DEF TypeOK, FragsType
    <3>2. f = Len(frag) + 1 \/ f \in Waits(u)
      BY <1>3, <2>2, <2>3, <2>5, <3>1, Zenon
    <3>3. frag'[Len(frag) + 1] = NewFrag(0, Nil, 0)
      BY <2>5, SeqFacts DEF TypeOK, FragsType
    <3>4. NewFrag(0, Nil, 0).owner = Nil
      BY Zenon DEF NewFrag
    <3> QED BY <3>1, <3>2, <3>3, <3>4, Zenon
  <2> QED BY <2>2, <2>4, <2>5, Zenon
<1>6. ASSUME NEW s \in SConn, NEW t \in SConn, SReadMoved(s, t)
      PROVE  \E v \in SConn : f \in Waits(v)
  <2>1. /\ inFragQueue[s] # <<>> /\ inFragQueue' = [inFragQueue EXCEPT ![s] = Tail(@)]
        /\ \/ outFragQueue' = outFragQueue
           \/ outFragQueue' = [outFragQueue EXCEPT ![t] = Append(@, Answered(s))]
    BY <1>6, Zenon DEF SReadMoved, TakeReply, EnqueueOutFrag
  <2>2. /\ inFragQueue[s] \in Seq(DOMAIN frag) /\ NoDup(inFragQueue[s])
        /\ inFragQueue'[s] = Tail(inFragQueue[s]) /\ \A v \in SConn : v # s => inFragQueue'[v] = inFragQueue[v]
    BY <1>0, <2>1, Zenon DEF ServersType, FlightInv, Distinct
  <2>3. /\ \A v \in SConn : Elems(inFragQueue'[v]) \subseteq Elems(inFragQueue[v])
        /\ Answered(s) \in Elems(inFragQueue[s])
    BY <2>1, <2>2, NoDupTail, Zenon DEF Answered
  <2>4. Answered(s) \in Nat
    BY <2>2, <2>3, SeqFacts DEF TypeOK, FragsType, Elems
  <2>5. CASE outFragQueue' = outFragQueue
    BY <2>3, <2>5, Zenon DEF Waits
  <2>6. CASE outFragQueue' = [outFragQueue EXCEPT ![t] = Append(@, Answered(s))]
    <3>1. f = Answered(s) \/ f \in Waits(u)
      BY <1>3, <2>3, <2>4, <2>6, Zenon
    <3> QED BY <2>3, <3>1, Zenon DEF Waits
  <2> QED BY <2>1, <2>5, <2>6, Zenon
<1> QED BY <1>1, <1>2, <1>4, <1>5, <1>6, FlightIdleSteps, CReactFlight, MovingSteps, Zenon
        DEF Next, OnCReact, RunTasks, SRead
-----------------------------------------------------------------------------
(* PoolBound and NoLeak.                                                    *)

\* A connection in front of a list.
LEMMA SeqCons ==
  ASSUME NEW S, NEW q \in Seq(S), NEW e \in S
  PROVE  /\ Len(<<e>> \o q) = Len(q) + 1 /\ Len(q) \in Nat
         /\ e \in Elems(<<e>> \o q) /\ Elems(q) \subseteq Elems(<<e>> \o q)
<1>1. <<e>> \in Seq(S) /\ Len(<<e>>) = 1 /\ <<e>>[1] = e
  OBVIOUS
<1> DEFINE r == <<e>>
<1>2. r \in Seq(S) /\ Len(r) = 1 /\ r[1] = e
  BY <1>1, Zenon
<1> HIDE DEF r
<1>3. /\ Len(r \o q) = Len(r) + Len(q) /\ Len(q) \in Nat /\ DOMAIN q = 1 .. Len(q)
      /\ DOMAIN r = 1 .. Len(r)
      /\ DOMAIN (r \o q) = DOMAIN r \cup (Len(r) + 1 .. Len(r) + Len(q))
      /\ \A i \in DOMAIN r : (r \o q)[i] = r[i]
      /\ \A i \in Len(r) + 1 .. Len(r) + Len(q) : (r \o q)[i] = q[i - Len(r)]
  BY <1>2, SeqConcat, SMTT(20)
<1>4. 1 \in DOMAIN (r \o q) /\ (r \o q)[1] = e
  BY <1>2, <1>3
<1>5. \A i \in DOMAIN q : 1 + i \in DOMAIN (r \o q) /\ (r \o q)[1 + i] = q[i]
  <2> SUFFICES ASSUME NEW i \in DOMAIN q
               PROVE  1 + i \in DOMAIN (r \o q) /\ (r \o q)[1 + i] = q[i]
    BY Zenon
  <2>1. 1 + i \in Len(r) + 1 .. Len(r) + Len(q) /\ 1 + i - Len(r) = i
    BY <1>2, <1>3
  <2> QED BY <1>3, <2>1
<1>6. Elems(q) \subseteq Elems(r \o q)
  BY <1>5, Zenon DEF Elems
<1>7. e \in Elems(r \o q)
  BY <1>4, Zenon DEF Elems
<1> QED BY <1>2, <1>3, <1>6, <1>7 DEF r

\* What Get keeps of a list is short enough for one connection more, and has all
\* the open connections when Get dials.
LEMMA KeptFacts ==
  ASSUME PoolsType, MaxActive \in Nat \ {0}, NEW a \in Addr, MustDial(a)
  PROVE  /\ Kept(a) \in Seq(SConn) /\ Len(Kept(a)) < MaxActive
         /\ \A t \in Elems(active[a]) : Opened(t) => t \in Elems(Kept(a))
<1>1. active[a] \in Seq(SConn) /\ Len(active[a]) \in Nat
  BY DEF PoolsType
<1>2. CASE Len(active[a]) < MaxActive
  BY <1>1, <1>2, Zenon DEF Kept
<1>3. CASE ~(Len(active[a]) < MaxActive)
  <2>1. Kept(a) = <<>> /\ \A t \in Elems(active[a]) : ~Opened(t)
    BY <1>3, Zenon DEF Kept, MustDial
  <2> QED BY <2>1
<1> QED BY <1>2, <1>3, Zenon

\* What Get does to a pool: the list of one node changes, stays within the bound,
\* has the connection it gives, and loses no open connection.
LEMMA PoolGetList ==
  ASSUME PoolsType, PoolBound, MaxActive \in Nat \ {0}, NEW s \in SConn, PoolGet(s)
  PROVE  /\ s[1] \in Addr
         /\ \E l : /\ active' = [active EXCEPT ![s[1]] = l] /\ Len(l) <= MaxActive
                   /\ s \in Elems(l)
                   /\ \A t \in Elems(active[s[1]]) : Opened(t) => t \in Elems(l)
<1>1. s[1] \in Addr
  BY Zenon DEF SConn
<1>2. CASE Dial(s)
  <2> DEFINE k == Kept(s[1])
  <2>1. MustDial(s[1]) /\ active' = [active EXCEPT ![s[1]] = <<s>> \o k]
    BY <1>2, Zenon DEF Dial
  <2>2. /\ k \in Seq(SConn) /\ Len(k) < MaxActive
        /\ \A t \in Elems(active[s[1]]) : Opened(t) => t \in Elems(k)
    BY <1>1, <2>1, KeptFacts, Zenon
  <2> HIDE DEF k
  <2>3. /\ Len(<<s>> \o k) = Len(k) + 1 /\ Len(k) \in Nat
        /\ s \in Elems(<<s>> \o k) /\ Elems(k) \subseteq Elems(<<s>> \o k)
    BY <2>2, SeqCons, Zenon
  <2>4. Len(<<s>> \o k) <= MaxActive
    BY <2>2, <2>3
  <2> QED BY <1>1, <2>1, <2>2, <2>3, <2>4, Zenon
<1>3. CASE Rotate(s)
  <2> DEFINE l == active[s[1]]
  <2>1. PICK k \in DOMAIN l :
          /\ l[k] = s /\ \A j \in k + 1 .. Len(l) : ~Opened(l[j])
          /\ active' = [active EXCEPT ![s[1]] = <<s>> \o SubSeq(l, 1, k - 1)]
    BY <1>3, Zenon DEF Rotate
  <2>2. l \in Seq(SConn) /\ Len(l) <= MaxActive
    BY <1>1, Zenon DEF PoolsType, PoolBound
  <2> DEFINE b == SubSeq(l, 1, k - 1)
  <2> HIDE DEF l
  <2>3. /\ b \in Seq(SConn) /\ Len(b) = k - 1 /\ \A i \in 1 .. k - 1 : b[i] = l[i]
        /\ DOMAIN l = 1 .. Len(l) /\ Len(l) \in Nat
    BY <2>2, SeqBefore, SeqFacts, Zenon
  <2> HIDE DEF b
  <2>4. /\ Len(<<s>> \o b) = Len(b) + 1
        /\ s \in Elems(<<s>> \o b) /\ Elems(b) \subseteq Elems(<<s>> \o b)
    BY <2>3, SeqCons, Zenon
  <2>5. Len(<<s>> \o b) <= MaxActive
    BY <2>2, <2>3, <2>4
  <2>6. ASSUME NEW t \in Elems(l), Opened(t) PROVE t \in Elems(<<s>> \o b)
    <3>1. PICK j \in DOMAIN l : l[j] = t
      BY Zenon DEF Elems
    <3>2. j \notin k + 1 .. Len(l)
      BY <2>1, <2>6, <3>1, Zenon
    <3>3. j \in 1 .. k - 1 \/ j = k
      BY <2>3, <3>2
    <3>4. CASE j \in 1 .. k - 1
      <4>1. j \in DOMAIN b /\ b[j] = t
        BY <2>3, <3>1, <3>4, SeqFacts, Zenon
      <4> QED BY <2>4, <4>1, Zenon DEF Elems
    <3> QED BY <2>1, <2>4, <3>1, <3>3, <3>4, Zenon
  <2> QED BY <1>1, <2>1, <2>4, <2>5, <2>6, Zenon DEF l, b
<1> QED BY <1>1, <1>2, <1>3, Zenon DEF PoolGet

\* Pool.Get is such a step, whether it finds a connection or not.
LEMMA PoolGetListStep ==
  ASSUME PoolsType, PoolBound, MaxActive \in Nat \ {0},
         (\E s \in SConn : PoolGet(s)) \/ (\E a \in Addr : PoolGetNil(a))
  PROVE  ListStep
<1>1. ASSUME NEW s \in SConn, PoolGet(s) PROVE ListStep
  BY <1>1, PoolGetList, Zenon DEF ListStep
<1>2. ASSUME NEW a \in Addr, PoolGetNil(a) PROVE ListStep
  <2>1. MustDial(a) /\ active' = [active EXCEPT ![a] = Kept(a)]
    BY <1>2, Zenon DEF PoolGetNil
  <2>2. /\ Kept(a) \in Seq(SConn) /\ Len(Kept(a)) < MaxActive
        /\ \A t \in Elems(active[a]) : Opened(t) => t \in Elems(Kept(a))
    BY <2>1, KeptFacts, Zenon
  <2>3. Len(Kept(a)) <= MaxActive
    BY <2>2
  <2> QED BY <2>1, <2>2, <2>3, Zenon DEF ListStep
<1> QED BY <1>1, <1>2, Zenon

\* Connection s is in the pool of its node.
Held(s) == s[1] \in pools /\ s \in Elems(active[s[1]])

\* What a step may do to connection s: close it, end the loop, put it in a pool,
\* have a task to close it, or leave it where it is.
LeakStep(s) ==
  \/ sconn'[s] # "open" \/ status' # "running"
  \/ Held(s)' \/ Pending(tasks', "close", s)
  \/ /\ sconn'[s] = sconn[s] /\ status' = status
     /\ Opened(s) /\ Held(s) => Held(s)'
     /\ Pending(tasks, "close", s) => Pending(tasks', "close", s)

\* Such steps leak no connection.
LEMMA LeakStepKeeps ==
  ASSUME NoLeak, \A s \in SConn : LeakStep(s)
  PROVE  NoLeak'
BY Zenon DEF NoLeak, LeakStep, Opened, Held, Pending

\* A step that leaves the pools alone.
LEMMA SamePoolsLeak ==
  ASSUME UNCHANGED <<status, pools, active>>, NEW t \in SConn, sconn'[t] \in {sconn[t], "closed"},
         Pending(tasks, "close", t) => Pending(tasks', "close", t)
  PROVE  LeakStep(t)
BY Zenon DEF LeakStep, Held

\* A list that changes keeps its open connections in the pool.
LEMMA ListHeld ==
  ASSUME PoolsType, ListStep, pools \subseteq pools', NEW t, Opened(t), Held(t)
  PROVE  Held(t)'
<1>0. PICK a \in Addr :
        \E l : /\ active' = [active EXCEPT ![a] = l]
               /\ \A u \in Elems(active[a]) : Opened(u) => u \in Elems(l)
  BY Zenon DEF ListStep
<1>1. PICK l : /\ active' = [active EXCEPT ![a] = l]
               /\ \A u \in Elems(active[a]) : Opened(u) => u \in Elems(l)
  BY <1>0, Zenon
<1>2. t[1] \in Addr
  BY Zenon DEF PoolsType, Held
<1>3. active'[t[1]] = IF t[1] = a THEN l ELSE active[t[1]]
  BY <1>1, <1>2, Zenon DEF PoolsType
<1>4. t \in Elems(active'[t[1]])
  BY <1>1, <1>3, Zenon DEF Held
<1> QED BY <1>4, Zenon DEF Held

\* Pool.Get puts the connection it gives in the pool.
LEMMA PoolGetLeak ==
  ASSUME PoolsType, ServersType, PoolBound, MaxActive \in Nat \ {0}, NEW s \in SConn, PoolGet(s),
         s[1] \in pools', pools \subseteq pools', status' = status, NEW t \in SConn,
         Pending(tasks, "close", t) => Pending(tasks', "close", t)
  PROVE  LeakStep(t)
<1>1. ListStep
  BY PoolGetListStep, Zenon
<1>2. CASE t = s
  <2>1. PICK l : active' = [active EXCEPT ![s[1]] = l] /\ s \in Elems(l)
    BY PoolGetList, Zenon
  <2>2. active'[s[1]] = l
    BY <2>1, PoolGetList, Zenon DEF PoolsType
  <2> QED BY <1>2, <2>1, <2>2, Zenon DEF LeakStep, Held
<1>3. CASE t # s
  <2>1. sconn'[t] = sconn[t]
    BY <1>3, PoolGetOpens, Zenon
  <2>2. Opened(t) /\ Held(t) => Held(t)'
    BY <1>1, ListHeld, Zenon
  <2> QED BY <2>1, <2>2, Zenon DEF LeakStep
<1> QED BY <1>2, <1>3, Zenon

\* OnTicker is a Pool.Get too.
LEMMA OnTickerList ==
  ASSUME PoolsType, PoolBound, MaxActive \in Nat \ {0}, NEW ps \in SUBSET Addr, OnTicker(ps)
  PROVE  ListStep
BY PoolGetListStep, Zenon DEF OnTicker

\* It leaks no connection, whether it finds one or not.
LEMMA OnTickerLeak ==
  ASSUME PoolsType, ServersType, PoolBound, MaxActive \in Nat \ {0}, tasks \in Seq(TaskType),
         NEW ps \in SUBSET Addr, OnTicker(ps), ps \subseteq pools', pools \subseteq pools',
         status' = status, NEW t \in SConn
  PROVE  LeakStep(t)
<1>1. CASE \E s \in SConn : s[1] \in ps /\ PoolGet(s) /\ tasks' = Append(tasks, Task("cluster", s, 0))
  <2>1. PICK s \in SConn : s[1] \in ps /\ PoolGet(s) /\ tasks' = Append(tasks, Task("cluster", s, 0))
    BY <1>1, Zenon
  <2>2. Pending(tasks, "close", t) => Pending(tasks', "close", t)
    BY <2>1, PendingAppend, Zenon
  <2>3. s[1] \in pools'
    BY <2>1, Zenon
  <2> QED BY <2>1, <2>2, <2>3, PoolGetLeak, Zenon
<1>2. CASE \E a \in ps : PoolGetNil(a) /\ UNCHANGED <<sconn, tasks>>
  <2>1. ListStep /\ UNCHANGED <<sconn, tasks>>
    BY <1>2, PoolGetListStep, Zenon
  <2>2. Opened(t) /\ Held(t) => Held(t)'
    BY <2>1, ListHeld, Zenon
  <2> QED BY <2>1, <2>2, Zenon DEF LeakStep
<1> QED BY <1>1, <1>2, Zenon DEF OnTicker

\* No list gets too long.
LEMMA BoundStepKeeps ==
  ASSUME PoolsType, PoolBound, MaxActive \in Nat \ {0}, BoundStep
  PROVE  PoolBound'
<1>1. ASSUME NEW a \in Addr, NEW l, active' = [active EXCEPT ![a] = l], Len(l) <= MaxActive
      PROVE  PoolBound'
  BY <1>1, Zenon DEF PoolsType, PoolBound
<1>2. Len(<<>>) <= MaxActive
  OBVIOUS
<1>3. CASE active' = active
  BY <1>3, Zenon DEF PoolBound
<1> QED BY <1>1, <1>2, <1>3, Zenon DEF BoundStep, ListStep

\* The actions that leave tasks and connections alone, and at most try Pool.Get.
LEMMA IdlePools ==
  ASSUME TypeOK, PoolBound, MaxActive \in Nat \ {0},
         UNCHANGED <<status, tasks, sconn, pools>>,
         active' = active \/ \E a \in pools : PoolGetNil(a), NEW t \in SConn
  PROVE  LeakStep(t)
<1>0. PoolsType
  BY Zenon DEF TypeOK
<1>1. CASE active' = active
  BY <1>1, SamePoolsLeak, Zenon
<1>2. CASE \E a \in pools : PoolGetNil(a)
  <2>1. ListStep
    BY <1>0, <1>2, PoolGetListStep, Zenon DEF PoolsType
  <2>2. Opened(t) /\ Held(t) => Held(t)'
    BY <1>0, <2>1, ListHeld, Zenon
  <2> QED BY <2>1, <2>2, Zenon DEF LeakStep
<1> QED BY <1>1, <1>2, Zenon

\* Which these are.
LEMMA IdlePoolSteps ==
  ASSUME \/ \E c \in Client : Accept(c) \/ CClose(c)
         \/ \E c \in Client, m \in freeMsgs \cup {Len(msg) + 1} :
              CReactImmediate(c, m) \/ \E q \in Requests : CReact(c, q, m)
         \/ \E f \in DOMAIN frag : DispatchFails(f)
         \/ \E s \in SConn : \/ SReadCluster(s) \/ SReadMovedFails(s) \/ SReadLate(s)
                             \/ SReadTooLarge(s) \/ SReadDefault(s) \/ SReadMGet(s)
                             \/ SReadMSet(s) \/ SReadDel(s) \/ Execute(s)
         \/ \E t \in Topologies : TickerChanged(t)
         \/ \E k \in Slot : Migrated(k) \/ \E a \in Addr : Migrate(k, a)
         \/ UNCHANGED vars
  PROVE  /\ UNCHANGED <<status, tasks, sconn, pools>>
         /\ active' = active \/ \E a \in pools : PoolGetNil(a)
<1>1. UNCHANGED <<status, tasks, sconn>>
  BY IdleSteps, Zenon DEF SignalIdle
<1>2. pools' = pools /\ (active' = active \/ \E a \in pools : PoolGetNil(a))
  <2>1. CASE \E c \in Client : Accept(c) \/ CClose(c)
    BY <2>1, Zenon DEF Accept, CClose, poolVars
  <2>2. CASE \E c \in Client, m \in freeMsgs \cup {Len(msg) + 1} :
               CReactImmediate(c, m) \/ \E q \in Requests : CReact(c, q, m)
    BY <2>2, ZenonT(60) DEF CReactImmediate, CReact, poolVars
  <2>3. CASE \E f \in DOMAIN frag : DispatchFails(f)
    BY <2>3, Zenon DEF DispatchFails, poolVars
  <2>4. CASE \E s \in SConn : \/ SReadCluster(s) \/ SReadMovedFails(s) \/ SReadLate(s)
                             \/ SReadTooLarge(s) \/ SReadDefault(s) \/ SReadMGet(s)
                             \/ SReadMSet(s) \/ SReadDel(s) \/ Execute(s)
    BY <2>4, Zenon DEF SReadCluster, SReadMovedFails, SReadLate, SReadTooLarge, SReadDefault, SReadMGet,
                SReadMSet, SReadDel, TakeAnswer, Execute, poolVars
  <2>5. CASE \E t \in Topologies : TickerChanged(t)
    BY <2>5, Zenon DEF TickerChanged, poolVars
  <2>6. CASE \E k \in Slot : Migrated(k) \/ \E a \in Addr : Migrate(k, a)
    BY <2>6, Zenon DEF Migrated, Migrate, poolVars
  <2>7. CASE UNCHANGED vars
    BY <2>7, Zenon DEF vars, poolVars
  <2> QED BY <2>1, <2>2, <2>3, <2>4, <2>5, <2>6, <2>7, Zenon
<1> QED BY <1>1, <1>2, Zenon

\* Running a task leaves the pools alone; a close task closes its connection.
LEMMA TaskLeak ==
  ASSUME TypeOK, NEW t \in SConn, RunTasks
  PROVE  active' = active /\ LeakStep(t)
<1>0. ServersType /\ ControlType /\ tasks \in Seq(TaskType)
  BY Zenon DEF TypeOK, ControlType
<1> DEFINE s == Head(tasks).conn
<1>1. UNCHANGED <<status, pools, active>> /\ tasks # <<>>
  BY Zenon DEF RunTasks, HandleWriteSignal, WriteClusterNodes, CloseTask, AsyncWrite, RunTask, poolVars
<1>2. Tail(tasks) \in Seq(TaskType)
  BY <1>0, <1>1, SeqHeadTail, Zenon
<1>3. CASE CloseTask
  <2>1. tasks' = Tail(tasks) /\ Head(tasks).op = "close"
    BY <1>3, Zenon DEF CloseTask, RunTask
  <2>2. CASE t = s
    <3>1. sconn'[t] # "open"
      BY <1>0, <1>3, <2>2, Zenon DEF CloseTask, CloseServer, serverVars, Opened, ServersType
    <3> QED BY <1>1, <3>1, Zenon DEF LeakStep
  <2>3. CASE t # s
    <3>1. sconn'[t] = sconn[t]
      BY <1>0, <1>3, <2>3, Zenon DEF CloseTask, CloseServer, serverVars, ServersType
    <3>2. Pending(tasks, "close", t) => Pending(tasks', "close", t)
      BY <1>0, <1>1, <2>1, <2>3, PendingTail, Zenon
    <3> QED BY <1>1, <3>1, <3>2, SamePoolsLeak, Zenon
  <2> QED BY <1>1, <2>2, <2>3, Zenon
<1>4. CASE HandleWriteSignal \/ WriteClusterNodes \/ AsyncWrite
  <2>1. /\ Head(tasks).op # "close" /\ sconn' = sconn
        /\ tasks' = Tail(tasks) \/ \E e : tasks' = Append(Tail(tasks), e)
    BY <1>4, Zenon DEF HandleWriteSignal, WriteClusterNodes, AsyncWrite, RunTask, serverVars
  <2>2. Pending(tasks, "close", t) => Pending(Tail(tasks), "close", t)
    BY <1>0, <1>1, <2>1, PendingTail, Zenon
  <2>3. Pending(tasks, "close", t) => Pending(tasks', "close", t)
    BY <1>2, <2>1, <2>2, PendingAppend, Zenon
  <2> QED BY <1>1, <2>1, <2>3, SamePoolsLeak, Zenon
<1> QED BY <1>3, <1>4, Zenon DEF RunTasks

\* The nodes of the topology that the ticker is loading.
LEMMA ReloadNodes ==
  ASSUME ControlType, ProxyAssumption, handling.op = "ticker"
  PROVE  handling.topo.nodes \in SUBSET Addr
<1>1. handling # Idle /\ handling \notin ReactType
  BY DEF Idle, ReactType
<1>2. handling \in ReloadType
  BY <1>1, Zenon DEF ControlType
<1>3. handling.topo \in Topologies
  BY <1>2, Zenon DEF ReloadType
<1>4. \A top \in Topologies : top.nodes \in SUBSET Addr
  BY Zenon DEF ProxyAssumption
<1> QED BY <1>3, <1>4, Zenon

\* Every action keeps the lists within the bound.
LEMMA NextBound ==
  ASSUME TypeOK, PoolBound, ProxyAssumption, [Next]_vars
  PROVE  BoundStep
<1>0. PoolsType /\ ControlType /\ MaxActive \in Nat \ {0}
  BY Zenon DEF TypeOK, ProxyAssumption
<1>1. CASE active' = active
  BY <1>1, Zenon DEF BoundStep
<1>2. CASE \E s \in SConn : PoolGet(s)
  BY <1>0, <1>2, PoolGetListStep, Zenon DEF BoundStep
<1>3. CASE \E a \in pools : PoolGetNil(a)
  BY <1>0, <1>3, PoolGetListStep, Zenon DEF BoundStep, PoolsType
<1>4. CASE Ticker
  BY <1>0, <1>4, OnTickerList, Zenon DEF Ticker, BoundStep, PoolsType
<1>5. CASE TickerLoad
  <2>1. OnTicker(handling.topo.nodes)
    BY <1>5, Zenon DEF TickerLoad
  <2>2. handling.topo.nodes \in SUBSET Addr
    BY <1>0, <1>5, ReloadNodes, Zenon DEF TickerLoad
  <2>3. ListStep
    BY <1>0, <2>1, <2>2, OnTickerList, Zenon
  <2> QED BY <2>3, Zenon DEF BoundStep
<1>6. ASSUME NEW a \in Addr, TickerRemove(a) \/ SetIsSlave(a) PROVE BoundStep
  BY <1>6, Zenon DEF TickerRemove, SetIsSlave, Release, BoundStep
<1>7. CASE RunTasks
  BY <1>1, <1>7, Zenon DEF RunTasks, HandleWriteSignal, WriteClusterNodes, CloseTask, AsyncWrite, poolVars
<1>8. ASSUME NEW f \in DOMAIN frag, NEW s \in SConn, Dispatch(f, s) PROVE BoundStep
  BY <1>2, <1>8, Zenon DEF Dispatch
<1>9. ASSUME NEW s \in SConn,
             \/ SReadMGetPanics(s) \/ SReadShutdown(s) \/ SClose(s)
             \/ \E u \in SConn : SReadMoved(s, u)
      PROVE  BoundStep
  BY <1>1, <1>2, <1>9, Zenon DEF SReadMGetPanics, Panic, SReadShutdown, SClose, SReadMoved, poolVars
<1>10. ASSUME NEW f \in DOMAIN timeoutTree, MsgTimeout(f) PROVE BoundStep
  BY <1>1, <1>10, Zenon DEF MsgTimeout, poolVars
<1>11. ASSUME NEW c \in Client, CReactNil(c) PROVE BoundStep
  BY <1>1, <1>11, Zenon DEF CReactNil, Panic, poolVars
<1> QED BY <1>1, <1>3, <1>4, <1>5, <1>6, <1>7, <1>8, <1>9, <1>10, <1>11, IdlePoolSteps, Zenon
       DEF Next, OnCReact, SRead, Reload

\* Every action is a LeakStep for every connection.
LEMMA NextLeak ==
  ASSUME TypeOK, PoolBound, ProxyAssumption, [Next]_vars, NEW t \in SConn
  PROVE  LeakStep(t)
<1>0. /\ ServersType /\ ControlType /\ PoolsType /\ tasks \in Seq(TaskType)
      /\ MaxActive \in Nat \ {0}
  BY Zenon DEF TypeOK, ControlType, ProxyAssumption
<1>1. CASE /\ UNCHANGED <<status, tasks, sconn, pools>>
           /\ active' = active \/ \E a \in pools : PoolGetNil(a)
  BY <1>0, <1>1, IdlePools, Zenon
<1>2. CASE RunTasks
  BY <1>2, TaskLeak, Zenon
<1>3. ASSUME NEW s \in SConn, NEW f \in DOMAIN frag, Dispatch(f, s)
      PROVE  LeakStep(t)
  <2>1. /\ PoolGet(s) /\ status' = status /\ s[1] \in pools /\ pools' = pools
        /\ \E e : tasks' = Append(tasks, e)
    BY <1>3, Zenon DEF Dispatch, EnqueueOutFrag
  <2>2. Pending(tasks, "close", t) => Pending(tasks', "close", t)
    BY <1>0, <2>1, PendingAppend
  <2> QED BY <1>0, <2>1, <2>2, PoolGetLeak, Zenon
<1>4. ASSUME NEW s \in SConn, NEW u \in SConn, SReadMoved(s, u)
      PROVE  LeakStep(t)
  <2>1. /\ PoolGet(u) /\ u[1] \in pools /\ pools' = pools
        /\ status' = "panicked" \/ (status' = status /\ \E e : tasks' = Append(tasks, e))
    BY <1>4, Zenon DEF SReadMoved, EnqueueOutFrag
  <2>2. CASE status' = "panicked"
    BY <2>2, Zenon DEF LeakStep
  <2>3. CASE status' = status /\ \E e : tasks' = Append(tasks, e)
    <3>1. Pending(tasks, "close", t) => Pending(tasks', "close", t)
      BY <1>0, <2>3, PendingAppend
    <3> QED BY <1>0, <2>1, <2>3, <3>1, PoolGetLeak, Zenon
  <2> QED BY <2>1, <2>2, <2>3, Zenon
<1>5. ASSUME NEW s \in SConn, SReadMGetPanics(s) \/ SReadShutdown(s)
      PROVE  LeakStep(t)
  BY <1>5, Zenon DEF SReadMGetPanics, Panic, SReadShutdown, LeakStep
<1>6. ASSUME NEW s \in SConn, SClose(s)
      PROVE  LeakStep(t)
  <2>1. UNCHANGED <<status, tasks, pools, active>> /\ sconn'[t] \in {sconn[t], "closed"}
    BY <1>0, <1>6, Zenon DEF SClose, CloseServer, control, poolVars, ServersType
  <2> QED BY <2>1, SamePoolsLeak, Zenon
<1>7. ASSUME NEW f \in DOMAIN timeoutTree, MsgTimeout(f)
      PROVE  LeakStep(t)
  <2>1. /\ UNCHANGED <<status, sconn, pools, active>>
        /\ tasks' = tasks \/ \E e : tasks' = Append(tasks, e)
    BY <1>7, Zenon DEF MsgTimeout, serverVars, poolVars
  <2>2. Pending(tasks, "close", t) => Pending(tasks', "close", t)
    <3>1. CASE tasks' = tasks
      BY <3>1, Zenon
    <3>2. ASSUME NEW e, tasks' = Append(tasks, e)
          PROVE  Pending(tasks, "close", t) => Pending(tasks', "close", t)
      BY <1>0, <3>2, PendingAppend, Zenon
    <3> QED BY <2>1, <3>1, <3>2, Zenon
  <2> QED BY <2>1, <2>2, SamePoolsLeak, Zenon
<1>8. CASE Ticker
  <2>1. status' = status /\ OnTicker(pools) /\ pools' = pools /\ pools \in SUBSET Addr
    BY <1>0, <1>8, Zenon DEF Ticker, PoolsType
  <2> QED BY <1>0, <2>1, OnTickerLeak, Zenon
<1>9. CASE TickerLoad
  <2>1. /\ status' = status /\ OnTicker(pools') /\ pools \subseteq pools'
        /\ pools' = handling.topo.nodes /\ handling.op = "ticker"
    BY <1>9, Zenon DEF TickerLoad
  <2>2. pools' \in SUBSET Addr
    BY <1>0, <2>1, ReloadNodes, Zenon
  <2> QED BY <1>0, <2>1, <2>2, OnTickerLeak, Zenon
<1>10. ASSUME NEW a \in Addr, TickerRemove(a) \/ SetIsSlave(a)
       PROVE  LeakStep(t)
  <2> DEFINE l == active[a]
             us == [i \in DOMAIN l |-> Task("close", l[i], 0)]
  <2>1. /\ UNCHANGED <<status, sconn>> /\ tasks' = tasks \o us
        /\ active' = [active EXCEPT ![a] = <<>>] /\ pools \ {a} \subseteq pools'
    BY <1>10, Zenon DEF TickerRemove, SetIsSlave, Release, serverVars
  <2>2. l \in Seq(SConn)
    BY <1>0, Zenon DEF PoolsType
  <2> HIDE DEF l
  <2>3. us \in Seq(TaskType)
    BY <2>2 DEF Task, TaskType
  <2>4. t \in Elems(l) => Pending(us, "close", t)
    BY Zenon DEF Elems, Pending, Task
  <2> HIDE DEF us
  <2>5. /\ Pending(tasks, "close", t) => Pending(tasks', "close", t)
        /\ Pending(us, "close", t) => Pending(tasks', "close", t)
    BY <1>0, <2>1, <2>3, PendingConcat, Zenon
  <2>6. CASE t \in Elems(l)
    BY <2>4, <2>5, <2>6, Zenon DEF LeakStep
  <2>7. CASE t \notin Elems(l)
    <3>1. Held(t) => t[1] # a
      BY <2>7, Zenon DEF Held, l
    <3>2. t[1] # a => active'[t[1]] = active[t[1]]
      BY <1>0, <2>1, Zenon DEF PoolsType, SConn
    <3>3. Held(t) => Held(t)'
      BY <2>1, <3>1, <3>2, Zenon DEF Held
    <3> QED BY <2>1, <2>5, <3>3, Zenon DEF LeakStep
  <2> QED BY <2>6, <2>7, Zenon
<1>11. ASSUME NEW c \in Client, CReactNil(c)
       PROVE  LeakStep(t)
  BY <1>11, Zenon DEF CReactNil, Panic, LeakStep
<1> QED BY <1>1, <1>2, <1>3, <1>4, <1>5, <1>6, <1>7, <1>8, <1>9, <1>10, <1>11, IdlePoolSteps, Zenon
       DEF Next, OnCReact, SRead, Reload
USE DEF vars, control, msgVars, clientVars, serverVars, timeoutVars, poolVars, redisVars
-----------------------------------------------------------------------------
(* The invariants, from the initial state on.                               *)

\* The connections start with empty queues.
LEMMA InitServers ==
  ASSUME Init
  PROVE  WireMatch /\ SignalInv /\ NoLeak
<1>1. \A s \in SConn : /\ inFragQueue[s] = <<>> /\ fromRedis[s] = <<>> /\ toRedis[s] = <<>>
  BY Zenon DEF Init
<1>2. Wired(<<>>, <<>>, <<>>)
  BY DEF Wired
<1>3. \A s \in SConn : Wired(inFragQueue[s], fromRedis[s], toRedis[s])
  BY <1>1, <1>2, Zenon
<1>4. SignalInv
  BY DEF Init, SignalInv
<1>5. NoLeak
  BY DEF Init, NoLeak, Opened
<1> QED BY <1>3, <1>4, <1>5, WireMatchDef, Zenon

\* The lists of the pools are empty.
LEMMA InitBound ==
  ASSUME Init
  PROVE  PoolBound
BY ProxyAssumption DEF Init, PoolBound

\* Every step keeps WireMatch.
LEMMA WireKept ==
  ASSUME TypeOK, TypeOK', WireMatch, [Next]_vars
  PROVE  WireMatch'
<1>1. ServersType
  BY Zenon DEF TypeOK
<1>2. ASSUME NEW s \in SConn
      PROVE  Wired(inFragQueue'[s], fromRedis'[s], toRedis'[s])
  <2>1. WireStep(s) /\ Wired(inFragQueue[s], fromRedis[s], toRedis[s])
    BY NextWire, WireMatchDef, Zenon
  <2> QED BY <1>1, <2>1, WireStepKeeps, Zenon
<1>3. WireMatch' <=> \A s \in SConn : Wired(inFragQueue'[s], fromRedis'[s], toRedis'[s])
  BY Zenon DEF WireMatch, Wired
<1> QED BY <1>2, <1>3, Zenon

\* Every step keeps PoolBound and NoLeak.
LEMMA PoolsKept ==
  ASSUME TypeOK, PoolBound, NoLeak, [Next]_vars
  PROVE  PoolBound' /\ NoLeak'
<1>0. MaxActive \in Nat \ {0}
  BY ProxyAssumption
<1>1. PoolsType
  BY Zenon DEF TypeOK
<1>2. BoundStep
  BY ProxyAssumption, NextBound, Zenon
<1>3. PoolBound'
  BY <1>0, <1>1, <1>2, BoundStepKeeps, Zenon
<1> QED BY <1>3, ProxyAssumption, NextLeak, LeakStepKeeps, Zenon
=============================================================================

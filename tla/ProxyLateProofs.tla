--------------------------- MODULE ProxyLateProofs --------------------------
(***************************************************************************)
(* Frags that were sent, given LifeInv and FlightInv: each has a deadline  *)
(* (TimeoutArmed), one that is answered when it is done already finds its  *)
(* Msg where it was, so that the loop never panics (NoPanic), and one that *)
(* is not done waits at an open connection (UnderwayInv).                  *)
(***************************************************************************)
EXTENDS ProxyLemmas

USE DEF vars, control, msgVars, clientVars, serverVars, timeoutVars, poolVars, redisVars
-----------------------------------------------------------------------------
(* TimeoutArmed.                                                            *)

\* Setting Done is such a step.
LEMMA MarkedKept ==
  ASSUME NEW b, Marked(frag, frag', b)
  PROVE  FragsKept
BY Zenon DEF Marked, FragsKept, Made

\* A reply sets Done of its frag.
LEMMA AnswerMarksOne ==
  ASSUME TypeOK, NEW s \in SConn, SReadDefault(s) \/ SReadMGet(s) \/ SReadMSet(s) \/ SReadDel(s)
  PROVE  Marked(frag, frag', {Answered(s)})
<1>1. TakeReply(s)
  BY Zenon DEF SReadDefault, SReadMGet, SReadMSet, SReadDel, TakeAnswer
<1>2. Answered(s) \in DOMAIN frag
  BY <1>1, TakeReplyType, Zenon
<1>3. Answer(s).frag \in Nat
  <2>1. fromRedis[s] # <<>> /\ fromRedis[s] \in Seq(AnswerType) /\ DOMAIN frag \subseteq Nat
    BY <1>1, SeqFacts DEF TakeReply, TypeOK, ServersType, FragsType
  <2>2. Answer(s) \in AnswerType
    BY <2>1, SeqHeadTail, Zenon DEF Answer
  <2> QED BY <2>1, <2>2, Zenon DEF AnswerType
<1>4. PICK a, r, b : a = Answered(s) /\ r = Answer(s).frag /\ b = (Answer(s).kind = "data") /\ b \in BOOLEAN
  BY Zenon
<1>5. frag' = [frag EXCEPT ![a].done = TRUE] \/ frag' = Bytes(a, r) \/ frag' = BytesOk(a, r, b)
  <2>1. SReadDefault(s) \/ SReadDel(s) => frag' = [frag EXCEPT ![a].done = TRUE]
    BY <1>4, Zenon DEF SReadDefault, SReadDel, Continue, Complete
  <2>2. SReadMGet(s) => frag' = Bytes(a, r)
    BY <1>4, Zenon DEF SReadMGet, Continue, Complete, Bytes
  <2>3. SReadMSet(s) => frag' = BytesOk(a, r, b)
    BY <1>4, Zenon DEF SReadMSet, Continue, Complete, BytesOk
  <2> QED BY <2>1, <2>2, <2>3, Zenon
<1>6. a \in DOMAIN frag /\ r \in Nat /\ b \in BOOLEAN
  BY <1>2, <1>3, <1>4, Zenon
<1>7. Marked(frag, frag', {a})
  BY <1>5, <1>6, AnsweredMarked, Zenon
<1> QED BY <1>4, <1>7, Zenon

\* A reply that is too large sets Done of every frag of its Msg.
LEMMA AnswerMarks ==
  ASSUME TypeOK, NEW s \in SConn,
         SReadTooLarge(s) \/ SReadDefault(s) \/ SReadMGet(s) \/ SReadMSet(s) \/ SReadDel(s)
  PROVE  \E b : Marked(frag, frag', b)
<1>1. CASE SReadTooLarge(s)
  <2>1. PICK b : frag' = AllDone(b)
    BY <1>1, Zenon DEF SReadTooLarge
  <2> QED BY <2>1, AllDoneMarked, Zenon
<1>2. CASE ~SReadTooLarge(s)
  BY <1>2, AnswerMarksOne, Zenon
<1> QED BY <1>1, <1>2, Zenon

\* The actions that change no frag.
LEMMA SameFrags ==
  ASSUME \/ \E c \in Client : Accept(c) \/ CClose(c) \/ CReactNil(c)
         \/ \E c \in Client, m \in freeMsgs \cup {Len(msg) + 1} : CReactImmediate(c, m)
         \/ \E f \in DOMAIN frag : DispatchFails(f)
         \/ HandleWriteSignal \/ CloseTask \/ AsyncWrite
         \/ \E s \in SConn : \/ SReadCluster(s) \/ SReadMovedFails(s) \/ SReadLate(s) \/ SReadMGetPanics(s)
                             \/ SReadShutdown(s) \/ SClose(s) \/ Execute(s) \/ \E t \in SConn : SReadMoved(s, t)
         \/ Ticker \/ (\E t \in Topologies : TickerChanged(t)) \/ Reload
         \/ \E k \in Slot : Migrated(k) \/ \E a \in Addr : Migrate(k, a)
         \/ UNCHANGED vars
  PROVE  frag' = frag
BY ZenonT(40) DEF Accept, CClose, CReactNil, CReactImmediate, DispatchFails, HandleWriteSignal, CloseTask, AsyncWrite,
     SReadCluster, SReadMovedFails, SReadLate, SReadMGetPanics, Panic, SReadShutdown, SClose, Execute, SReadMoved,
     Ticker, TickerChanged, Reload, TickerLoad, TickerRemove, SetIsSlave, Release, Migrated, Migrate

\* Decode adds its frags, which nobody owns yet, to those there are.
LEMMA CReactFrags ==
  ASSUME TypeOK, NEW c \in Client, NEW q \in Requests, NEW m, CReact(c, q, m)
  PROVE  /\ DOMAIN frag \subseteq DOMAIN frag' /\ \A f \in DOMAIN frag : frag'[f] = frag[f]
         /\ \A f \in Made : frag'[f].owner = Nil
<1>1. PICK a : a = [i \in 1 .. Len(q.slots) |-> NewFrag(m, q.slots[i], msgId + 1)]
  BY Zenon
<1>2. frag' = frag \o a
  BY <1>1, Zenon DEF CReact
<1>3. PICK S : S = FragType \cup {a[i] : i \in 1 .. Len(q.slots)}
  BY Zenon
<1>4. Len(q.slots) \in Nat
  BY ProxyAssumption
<1>5. a \in Seq(S)
  BY <1>1, <1>3, <1>4
<1>6. frag \in Seq(S)
  BY <1>3, SeqGrow, Zenon DEF TypeOK, FragsType
<1>7. /\ DOMAIN frag' = DOMAIN frag \cup (Len(frag) + 1 .. Len(frag) + Len(a))
      /\ \A f \in DOMAIN frag : frag'[f] = frag[f]
      /\ \A f \in Len(frag) + 1 .. Len(frag) + Len(a) : frag'[f] = a[f - Len(frag)]
  BY <1>2, <1>5, <1>6, SeqConcat, SMT
<1>8. \A f \in Len(frag) + 1 .. Len(frag) + Len(a) : f - Len(frag) \in DOMAIN a
  BY <1>5, <1>6, SMT
<1>9. \A i \in DOMAIN a : a[i].owner = Nil
  BY <1>1, Zenon DEF NewFrag
<1> QED BY <1>7, <1>8, <1>9, Zenon DEF Made

\* Every step keeps the frags.
LEMMA NextFragsKept ==
  ASSUME TypeOK, [Next]_vars
  PROVE  FragsKept
<1>1. CASE frag' = frag
  BY <1>1, Zenon DEF FragsKept, Made
<1>2. ASSUME NEW c \in Client, NEW q \in Requests, NEW m, CReact(c, q, m)
      PROVE  FragsKept
  BY <1>2, CReactFrags, Zenon DEF FragsKept
<1>3. ASSUME NEW f \in DOMAIN frag, NEW s \in SConn, Dispatch(f, s)
      PROVE  FragsKept
  BY <1>3, DispatchFacts, Zenon DEF FragsKept, Made
<1>4. CASE WriteClusterNodes
  <2>1. FragsQuiet
    BY <1>4, QuietWriteClusterNodes, Zenon DEF Quiet
  <2> QED BY <2>1, Zenon DEF FragsQuiet, FragsKept, Made
<1>5. ASSUME NEW f \in DOMAIN timeoutTree, MsgTimeout(f)
      PROVE  FragsKept
  <2>1. frag' = frag \/ \E b : frag' = AllDone(b)
    BY <1>5, Zenon DEF MsgTimeout
  <2> QED BY <1>1, <2>1, AllDoneMarked, MarkedKept, Zenon
<1>6. ASSUME NEW s \in SConn,
             SReadTooLarge(s) \/ SReadDefault(s) \/ SReadMGet(s) \/ SReadMSet(s) \/ SReadDel(s)
      PROVE  FragsKept
  BY <1>6, AnswerMarks, MarkedKept, Zenon
<1> QED BY <1>1, <1>2, <1>3, <1>4, <1>5, <1>6, SameFrags, Zenon DEF Next, OnCReact, RunTasks, SRead

\* The frags Redis has not answered.
Unanswered == UNION {Sent(s) : s \in SConn}

\* That is: they are in some inFragQueue.
LEMMA UnansweredDef == \A f : f \in Unanswered <=> \E s \in SConn : f \in Elems(inFragQueue[s])
BY Zenon DEF Unanswered, Sent

\* Deadlines come with the frags that are sent, go with those that are answered or
\* closed, and pass: the frag is then done.
LEMMA ArmedKept ==
  ASSUME TypeOK, FlightInv, TimeoutArmed, FragsKept, NEW gone, NEW new, NEW late,
         Unanswered' = (Unanswered \ gone) \cup new,
         DOMAIN timeoutTree' = (DOMAIN timeoutTree \ (gone \cup late))
                                 \cup {f \in new : RequestTimeout /\ frag[f].owner # Nil},
         \A f \in new : \E s \in SConn : f \in Waits(s),
         \A f \in late : frag'[f].done
  PROVE  TimeoutArmed'
<1> DEFINE sent == {f \in Unanswered : frag[f].owner # Nil}
           sentN == {f \in Unanswered' : frag'[f].owner # Nil}
<1>1. DOMAIN timeoutTree \subseteq sent /\ (RequestTimeout => \A f \in sent : frag[f].done \/ f \in DOMAIN timeoutTree)
  BY Zenon DEF TimeoutArmed, Unanswered
<1>2. ASSUME NEW f, \E s \in SConn : f \in Waits(s)
      PROVE  frag'[f].owner = frag[f].owner /\ (frag[f].done => frag'[f].done)
  <2>1. f \in DOMAIN frag
    BY <1>2 DEF Waits, Elems, TypeOK, ServersType
  <2>2. ~(handling.op = "react" /\ f \in handling.todo)
    BY <1>2, Zenon DEF FlightInv
  <2> QED BY <2>1, <2>2, Zenon DEF FragsKept
<1>3. \A f \in Unanswered : \E s \in SConn : f \in Waits(s)
  BY UnansweredDef, Zenon DEF Waits
<1>4. \A f \in Unanswered \cup new : frag'[f].owner = frag[f].owner /\ (frag[f].done => frag'[f].done)
  BY <1>2, <1>3, Zenon
<1> HIDE DEF sent, sentN
<1>5. /\ \A f : f \in sent <=> f \in Unanswered /\ frag[f].owner # Nil
      /\ \A f : f \in sentN <=> f \in Unanswered' /\ frag'[f].owner # Nil
  BY Zenon DEF sent, sentN
<1>6. DOMAIN timeoutTree' \subseteq sentN
  BY <1>1, <1>4, <1>5, Zenon
<1>7. RequestTimeout => \A f \in sentN : frag'[f].done \/ f \in DOMAIN timeoutTree'
  BY <1>1, <1>4, <1>5, Zenon
<1>8. sentN = {f \in UNION {Sent(s) : s \in SConn} : frag[f].owner # Nil}'
  BY Zenon DEF sentN, Unanswered
<1> QED BY <1>6, <1>7, <1>8, Zenon DEF TimeoutArmed

\* No deadline comes or goes.
LEMMA ArmedIdle ==
  ASSUME TypeOK, FlightInv, TimeoutArmed, FragsKept, inFragQueue' = inFragQueue, timeoutTree' = timeoutTree
  PROVE  TimeoutArmed'
<1>1. Unanswered' = (Unanswered \ {}) \cup {}
  BY Zenon DEF Unanswered, Sent
<1>2. DOMAIN timeoutTree' = (DOMAIN timeoutTree \ ({} \cup {})) \cup {f \in {} : RequestTimeout /\ frag[f].owner # Nil}
  BY Zenon
<1> QED BY <1>1, <1>2, ArmedKept, Zenon

\* The deadlines that are left.
LEMMA DeletedDomain ==
  ASSUME NEW fs, DeleteFromTimeoutQueue(fs)
  PROVE  DOMAIN timeoutTree' = DOMAIN timeoutTree \ fs
BY Zenon DEF DeleteFromTimeoutQueue

\* Decode takes a frag and its deadline.
LEMMA TakeReplyArmed ==
  ASSUME TypeOK, FlightInv, TimeoutArmed, FragsKept, NEW s \in SConn, TakeReply(s)
  PROVE  TimeoutArmed'
<1>1. /\ inFragQueue[s] # <<>> /\ inFragQueue' = [inFragQueue EXCEPT ![s] = Tail(@)]
      /\ DOMAIN timeoutTree' = DOMAIN timeoutTree \ {Answered(s)}
  BY DeletedDomain, Zenon DEF TakeReply
<1>2. /\ inFragQueue[s] \in Seq(DOMAIN frag) /\ NoDup(inFragQueue[s])
      /\ inFragQueue'[s] = Tail(inFragQueue[s])
      /\ \A u \in SConn : u # s => inFragQueue'[u] = inFragQueue[u]
  BY <1>1, Zenon DEF TypeOK, ServersType, FlightInv, Distinct
<1>3. /\ Answered(s) \in Elems(inFragQueue[s]) /\ Answered(s) \notin Elems(inFragQueue'[s])
      /\ \A f \in Elems(inFragQueue[s]) : f # Answered(s) => f \in Elems(inFragQueue'[s])
      /\ Elems(inFragQueue'[s]) \subseteq Elems(inFragQueue[s])
  <2>1. \A i \in DOMAIN inFragQueue[s] : inFragQueue[s][i] = Answered(s) \/ inFragQueue[s][i] \in Elems(Tail(inFragQueue[s]))
    <3> TAKE i \in DOMAIN inFragQueue[s]
    <3>1. /\ Answered(s) = inFragQueue[s][1] /\ DOMAIN inFragQueue[s] = 1 .. Len(inFragQueue[s])
          /\ Len(inFragQueue[s]) \in Nat /\ DOMAIN Tail(inFragQueue[s]) = 1 .. Len(inFragQueue[s]) - 1
          /\ \A j \in 1 .. Len(inFragQueue[s]) - 1 : Tail(inFragQueue[s])[j] = inFragQueue[s][j + 1]
      BY <1>1, <1>2, SeqHeadTail DEF Answered
    <3>2. CASE i = 1
      BY <3>1, <3>2, Zenon
    <3>3. CASE i # 1
      <4>1. i - 1 \in DOMAIN Tail(inFragQueue[s]) /\ i - 1 + 1 = i
        BY <3>1, <3>3
      <4>2. Tail(inFragQueue[s])[i - 1] = inFragQueue[s][i]
        BY <3>1, <4>1, Zenon
      <4> QED BY <4>1, <4>2, Zenon DEF Elems
    <3> QED BY <3>2, <3>3, Zenon
  <2>2. /\ Answered(s) \in Elems(inFragQueue[s]) /\ Answered(s) \notin Elems(inFragQueue'[s])
        /\ Elems(inFragQueue'[s]) \subseteq Elems(inFragQueue[s])
    BY <1>1, <1>2, NoDupTail, Zenon DEF Answered
  <2> QED BY <1>2, <2>1, <2>2 DEF Elems
<1>4. \A u \in SConn : u # s => Answered(s) \notin Elems(inFragQueue[u])
  BY <1>3, Zenon DEF FlightInv, Waits
<1>5. \A f : f \in Unanswered' <=> \E u \in SConn : f \in Elems(inFragQueue'[u])
  BY Zenon DEF Unanswered, Sent
<1>6. \A f : f \in Unanswered' <=> f \in Unanswered /\ f # Answered(s)
  BY <1>2, <1>3, <1>4, <1>5, UnansweredDef, Zenon
<1>7. Unanswered' = (Unanswered \ {Answered(s)}) \cup {}
  BY <1>6, Zenon
<1>8. DOMAIN timeoutTree' = (DOMAIN timeoutTree \ ({Answered(s)} \cup {})) \cup {f \in {} : RequestTimeout /\ frag[f].owner # Nil}
  BY <1>1, Zenon
<1>9. PICK gone, none : gone = {Answered(s)} /\ none = {}
  BY Zenon
<1>10. /\ Unanswered' = (Unanswered \ gone) \cup none
       /\ DOMAIN timeoutTree' = (DOMAIN timeoutTree \ (gone \cup none))
                                  \cup {f \in none : RequestTimeout /\ frag[f].owner # Nil}
       /\ \A f : f \notin none
  BY <1>7, <1>8, <1>9, Zenon
<1> QED BY <1>10, ArmedKept, Zenon

\* OnSClosed takes all of a connection.
LEMMA CloseServerArmed ==
  ASSUME TypeOK, FlightInv, TimeoutArmed, FragsKept, NEW s \in SConn, CloseServer(s)
  PROVE  TimeoutArmed'
<1>1. /\ inFragQueue' = [inFragQueue EXCEPT ![s] = <<>>]
      /\ DOMAIN timeoutTree' = DOMAIN timeoutTree \ Elems(inFragQueue[s])
  BY DeletedDomain, Zenon DEF CloseServer
<1>2. /\ inFragQueue'[s] = <<>> /\ Elems(<<>>) = {}
      /\ \A u \in SConn : u # s => inFragQueue'[u] = inFragQueue[u]
  BY <1>1 DEF TypeOK, ServersType, Elems
<1>3. \A u \in SConn : u # s => Elems(inFragQueue[u]) \cap Elems(inFragQueue[s]) = {}
  BY Zenon DEF FlightInv, Waits
<1>4. \A f : f \in Unanswered' <=> \E u \in SConn : f \in Elems(inFragQueue'[u])
  BY Zenon DEF Unanswered, Sent
<1>5. \A f : f \in Unanswered' <=> f \in Unanswered /\ f \notin Elems(inFragQueue[s])
  BY <1>2, <1>3, <1>4, UnansweredDef, Zenon
<1>6. Unanswered' = (Unanswered \ Elems(inFragQueue[s])) \cup {}
  BY <1>5, Zenon
<1>7. DOMAIN timeoutTree' = (DOMAIN timeoutTree \ (Elems(inFragQueue[s]) \cup {}))
                              \cup {f \in {} : RequestTimeout /\ frag[f].owner # Nil}
  BY <1>1, Zenon
<1>8. PICK gone, none : gone = Elems(inFragQueue[s]) /\ none = {}
  BY Zenon
<1>9. /\ Unanswered' = (Unanswered \ gone) \cup none
       /\ DOMAIN timeoutTree' = (DOMAIN timeoutTree \ (gone \cup none))
                                  \cup {f \in none : RequestTimeout /\ frag[f].owner # Nil}
       /\ \A f : f \notin none
  BY <1>6, <1>7, <1>8, Zenon
<1> QED BY <1>9, ArmedKept, Zenon

\* The end of run: nothing is left.
LEMMA ShutdownArmed ==
  ASSUME NEW s \in SConn, SReadShutdown(s)
  PROVE  TimeoutArmed'
<1>1. timeoutTree' = <<>> /\ inFragQueue' = [t \in SConn |-> <<>>]
  BY Zenon DEF SReadShutdown
<1>2. DOMAIN timeoutTree' = {}
  BY <1>1
<1>3. \A t \in SConn : Sent(t)' = {}
  BY <1>1 DEF Sent, Elems
<1> QED BY <1>2, <1>3, Zenon DEF TimeoutArmed

\* handleWriteSignal gives deadlines to the frags of clients.
LEMMA HandleWriteSignalArmed ==
  ASSUME TypeOK, FlightInv, TimeoutArmed, FragsKept, HandleWriteSignal
  PROVE  TimeoutArmed'
<1> DEFINE s == Head(tasks).conn
<1>1. CASE ~Opened(s)
  <2>1. inFragQueue' = inFragQueue /\ timeoutTree' = timeoutTree
    BY <1>1, Zenon DEF HandleWriteSignal
  <2> QED BY <2>1, ArmedIdle, Zenon
<1>2. CASE Opened(s)
  <2>1. /\ inFragQueue' = [inFragQueue EXCEPT ![s] = @ \o outFragQueue[s]]
        /\ PushToTimeoutQueue(outFragQueue[s])
        /\ tasks # <<>> /\ Head(tasks).op = "write"
    BY <1>2, Zenon DEF HandleWriteSignal, EnqueueInFrags, RunTask
  <2>2. s \in SConn
    <3>1. Head(tasks) \in TaskType
      BY <2>1, SeqHeadTail, Zenon DEF TypeOK, ControlType
    <3> QED BY <2>1, <3>1, Zenon DEF TaskType
  <2>3. PICK new, none : new = Elems(outFragQueue[s]) /\ none = {}
    BY Zenon
  <2> HIDE DEF s
  <2>4. /\ inFragQueue'[s] = inFragQueue[s] \o outFragQueue[s]
        /\ \A u \in SConn : u # s => inFragQueue'[u] = inFragQueue[u]
        /\ inFragQueue[s] \in Seq(DOMAIN frag) /\ outFragQueue[s] \in Seq(DOMAIN frag)
    BY <2>1, <2>2, Zenon DEF TypeOK, ServersType
  <2>5. Elems(inFragQueue'[s]) = Elems(inFragQueue[s]) \cup new
    BY <2>3, <2>4, ElemsConcat
  <2>6. \A f : f \in Unanswered' <=> \E u \in SConn : f \in Elems(inFragQueue'[u])
    BY Zenon DEF Unanswered, Sent
  <2>7. \A f : f \in Unanswered' <=> f \in Unanswered \/ f \in new
    BY <2>2, <2>4, <2>5, <2>6, UnansweredDef, Zenon
  <2>8. Unanswered' = (Unanswered \ none) \cup new
    BY <2>3, <2>7, Zenon
  <2>9. DOMAIN timeoutTree' = (DOMAIN timeoutTree \ (none \cup none))
                                \cup {f \in new : RequestTimeout /\ frag[f].owner # Nil}
    BY <2>1, <2>3, Zenon DEF PushToTimeoutQueue
  <2>10. (\A f \in new : \E u \in SConn : f \in Waits(u)) /\ \A f : f \notin none
    BY <2>2, <2>3, Zenon DEF Waits
  <2> QED BY <2>8, <2>9, <2>10, ArmedKept, Zenon
<1> QED BY <1>1, <1>2, Zenon

\* msgTimeout takes a deadline, and the frag is done.
LEMMA MsgTimeoutArmed ==
  ASSUME TypeOK, LifeInv, FlightInv, TimeoutArmed, FragsKept, NEW f \in DOMAIN timeoutTree, MsgTimeout(f)
  PROVE  TimeoutArmed'
<1>1. inFragQueue' = inFragQueue /\ DOMAIN timeoutTree' = DOMAIN timeoutTree \ {f}
  BY DeletedDomain, Zenon DEF MsgTimeout
<1>2. f \in DOMAIN frag /\ frag[f].owner # Nil
  BY Zenon DEF TypeOK, TimeoutsType
<1>3. frag'[f].done
  <2>1. CASE frag[f].done
    BY <1>2, <2>1, Zenon DEF FragsKept
  <2>2. CASE ~frag[f].done
    <3>1. f \in msg[frag[f].peer].body
      BY <1>2, <2>2, UndoneFrag, Zenon DEF LifeInv
    <3>2. PICK b : b = msg[frag[f].peer].body
      BY Zenon
    <3>3. frag' = AllDone(b)
      BY <2>2, <3>2, Zenon DEF MsgTimeout
    <3>4. Marked(frag, frag', b)
      BY <3>3, AllDoneMarked, Zenon
    <3> QED BY <1>2, <3>1, <3>2, <3>4, Zenon DEF Marked
  <2> QED BY <2>1, <2>2, Zenon
<1>4. PICK none, late : none = {} /\ late = {f}
  BY Zenon
<1>5. /\ Unanswered' = (Unanswered \ none) \cup none
      /\ DOMAIN timeoutTree' = (DOMAIN timeoutTree \ (none \cup late))
                                 \cup {g \in none : RequestTimeout /\ frag[g].owner # Nil}
      /\ (\A g : g \notin none) /\ \A g \in late : frag'[g].done
  BY <1>1, <1>3, <1>4, Zenon DEF Unanswered, Sent
<1> QED BY <1>5, ArmedKept, Zenon

\* The actions that leave the frags Redis has to answer, and the deadlines, alone.
LEMMA ArmedIdleSteps ==
  ASSUME \/ \E c \in Client : Accept(c) \/ CClose(c) \/ CReactNil(c)
         \/ \E c \in Client, m \in freeMsgs \cup {Len(msg) + 1} :
              CReactImmediate(c, m) \/ \E q \in Requests : CReact(c, q, m)
         \/ OnCReact \/ WriteClusterNodes \/ AsyncWrite
         \/ \E s \in SConn : SReadMGetPanics(s) \/ Execute(s)
         \/ Ticker \/ (\E t \in Topologies : TickerChanged(t)) \/ Reload
         \/ \E k \in Slot : Migrated(k) \/ \E a \in Addr : Migrate(k, a)
         \/ UNCHANGED vars
  PROVE  inFragQueue' = inFragQueue /\ timeoutTree' = timeoutTree
BY ZenonT(40) DEF Accept, CClose, CReactNil, CReactImmediate, CReact, OnCReact, Dispatch, DispatchFails,
     WriteClusterNodes, AsyncWrite, SReadMGetPanics, Panic, Execute, Ticker, TickerChanged, Reload, TickerLoad,
     TickerRemove, SetIsSlave, Release,
     Migrated, Migrate

\* Every action keeps TimeoutArmed.
LEMMA NextArmed ==
  ASSUME TypeOK, LifeInv, FlightInv, TimeoutArmed, [Next]_vars
  PROVE  TimeoutArmed'
<1>0. FragsKept
  BY NextFragsKept, Zenon
<1>1. ASSUME inFragQueue' = inFragQueue, timeoutTree' = timeoutTree PROVE TimeoutArmed'
  BY <1>0, <1>1, ArmedIdle, Zenon
<1>2. CASE CloseTask
  <2>1. tasks # <<>> /\ Head(tasks).op = "close"
    BY <1>2, Zenon DEF CloseTask, RunTask
  <2>2. Head(tasks).conn \in SConn
    <3>1. Head(tasks) \in TaskType
      BY <2>1, SeqHeadTail, Zenon DEF TypeOK, ControlType
    <3> QED BY <2>1, <3>1, Zenon DEF TaskType
  <2>3. CloseServer(Head(tasks).conn) \/ (inFragQueue' = inFragQueue /\ timeoutTree' = timeoutTree)
    BY <1>2, Zenon DEF CloseTask
  <2> QED BY <1>0, <1>1, <2>2, <2>3, CloseServerArmed, Zenon
<1>3. ASSUME NEW s \in SConn, SRead(s) \/ SClose(s)
      PROVE  SReadMGetPanics(s) \/ SReadShutdown(s) \/ TakeReply(s) \/ CloseServer(s)
  BY <1>3, Zenon DEF SRead, SClose, SReadCluster, SReadMovedFails, SReadLate, SReadTooLarge, SReadDefault, SReadMGet,
                     SReadMSet, SReadDel, SReadMoved, TakeAnswer
<1> QED BY <1>0, <1>1, <1>2, <1>3, ArmedIdleSteps, HandleWriteSignalArmed, TakeReplyArmed, CloseServerArmed,
           ShutdownArmed, MsgTimeoutArmed, Zenon DEF Next, RunTasks
-----------------------------------------------------------------------------
(* NoPanic.                                                                 *)

\* A Msg that is left alone stays as it is.
LEMMA StuckKept ==
  ASSUME TypeOK, FragsKept, NEW p, Stuck(p, msg, freeMsgs, frag), p \in Live(msg', freeMsgs'), msg'[p] = msg[p]
  PROVE  Stuck(p, msg, freeMsgs, frag)'
<1>1. p \in Live(msg, freeMsgs) /\ ~msg[p].done /\ ~Partial(msg[p], frag)
  BY Zenon DEF Stuck
<1>2. msg[p].body \subseteq DOMAIN frag
  BY <1>1, Zenon DEF TypeOK, MsgsType, Live
<1>3. \A f \in msg[p].body : frag'[f].done
  BY <1>1, <1>2, Zenon DEF Partial, FragsKept
<1>4. ~msg'[p].done /\ ~Partial(msg'[p], frag')
  BY <1>1, <1>3, Zenon DEF Partial
<1> QED BY <1>4, Zenon DEF Stuck

\* Nor does OnCReact disturb it, with a Msg from the pool or a new one.
LEMMA ReactStuck ==
  ASSUME TypeOK, LifeInv, FragsKept, NEW c \in Client, NEW m \in freeMsgs \cup {Len(msg) + 1},
         CReactImmediate(c, m) \/ \E q \in Requests : CReact(c, q, m),
         NEW p, Stuck(p, msg, freeMsgs, frag)
  PROVE  Stuck(p, msg, freeMsgs, frag)'
<1>0. p \in Live(msg, freeMsgs) /\ MsgsOK(msg, freeMsgs, frag)
  BY Zenon DEF Stuck, LifeInv
<1>1. CASE CReactImmediate(c, m)
  <2>1. Live(msg', freeMsgs') = Live(msg, freeMsgs) /\ \A n \in Live(msg, freeMsgs) : msg'[n] = msg[n]
    BY <1>1, CReactImmediateFacts, Zenon
  <2>2. p \in Live(msg', freeMsgs') /\ msg'[p] = msg[p]
    BY <1>0, <2>1, Zenon
  <2> QED BY <2>2, StuckKept, Zenon
<1>2. ASSUME NEW q \in Requests, CReact(c, q, m) PROVE Stuck(p, msg, freeMsgs, frag)'
  <2>1. /\ m \notin Live(msg, freeMsgs) /\ Live(msg', freeMsgs') = Live(msg, freeMsgs) \cup {m}
        /\ \A n \in DOMAIN msg : n # m => msg'[n] = msg[n]
    BY <1>0, <1>2, CReactFacts, Zenon
  <2>2. p \in Live(msg', freeMsgs') /\ msg'[p] = msg[p]
    BY <1>0, <2>1, Zenon DEF Live
  <2> QED BY <2>2, StuckKept, Zenon
<1> QED BY <1>1, <1>2, Zenon

\* What OnCReact gives up is another Msg, whose frags are not done.
LEMMA DispatchFailsStuck ==
  ASSUME TypeOK, LifeInv, FragsKept, NEW f \in DOMAIN frag, DispatchFails(f),
         NEW p, Stuck(p, msg, freeMsgs, frag)
  PROVE  Stuck(p, msg, freeMsgs, frag)'
<1>1. PICK m : m = handling.msg
  BY Zenon
<1>2. /\ handling.op = "react" /\ f \in handling.todo
      /\ msg' = [msg EXCEPT ![m] = PutMsg] /\ freeMsgs' = freeMsgs \cup {m}
  BY <1>1, Zenon DEF DispatchFails
<1>3. f \in msg[m].body /\ ~frag[f].done
  BY <1>1, <1>2, Zenon DEF LifeInv, ReactOK
<1>4. p # m /\ p \in Live(msg, freeMsgs)
  BY <1>3, Zenon DEF Stuck, Partial
<1>5. p \in Live(msg', freeMsgs') /\ msg'[p] = msg[p]
  BY <1>2, <1>4, Zenon DEF Live
<1> QED BY <1>5, StuckKept, Zenon

\* A reply changes a Msg one frag of which was not done, and only Msgs that are done
\* are put back.
LEMMA AnswerStuck ==
  ASSUME TypeOK, LifeInv, FragsKept, NEW s \in SConn,
         SReadTooLarge(s) \/ SReadDefault(s) \/ SReadMGet(s) \/ SReadMSet(s) \/ SReadDel(s),
         NEW p, Stuck(p, msg, freeMsgs, frag)
  PROVE  Stuck(p, msg, freeMsgs, frag)'
<1>1. PICK c, mm : /\ c = frag[Answered(s)].owner /\ DOMAIN mm = DOMAIN msg
                   /\ \A n \in DOMAIN msg : n # Peer(s) => mm[n] = msg[n]
                   /\ (msg' = mm /\ freeMsgs' = freeMsgs) \/ Deliver(c, mm)
  BY AnswerMsgs, Zenon
<1>2. TakeReply(s) /\ frag[Answered(s)].owner # Nil /\ ~frag[Answered(s)].done
  BY AnswerMsgs, Zenon
<1>3. Answered(s) \in DOMAIN frag /\ c \in Client
  BY <1>1, <1>2, TakeReplyType, Zenon
<1>4. Answered(s) \in msg[Peer(s)].body
  BY <1>2, <1>3, UndoneFrag, Zenon DEF LifeInv, Peer
<1>5. p # Peer(s) /\ p \in Live(msg, freeMsgs) /\ ~msg[p].done
  BY <1>2, <1>4, Zenon DEF Stuck, Partial
<1>6. p \in DOMAIN mm /\ mm[p] = msg[p] /\ ~mm[p].done /\ p \notin freeMsgs
  BY <1>1, <1>5, Zenon DEF Live
<1>7. p \in Live(msg', freeMsgs') /\ msg'[p] = msg[p]
  <2>1. CASE msg' = mm /\ freeMsgs' = freeMsgs
    BY <2>1, <1>6, Zenon DEF Live
  <2>2. CASE Flushed(c, mm)
    <3>1. PICK q : q = inMsgQueue[c]
      BY Zenon
    <3>2. /\ \A i \in DOMAIN q : mm[q[i]].done
          /\ msg' = [m \in DOMAIN mm |-> IF m \in Elems(q) THEN PutMsg ELSE mm[m]]
          /\ freeMsgs' = freeMsgs \cup Elems(q)
      BY <2>2, <3>1, Zenon DEF Flushed
    <3>3. p \notin Elems(q)
      BY <1>6, <3>2, Zenon DEF Elems
    <3> QED BY <1>6, <3>2, <3>3, Zenon DEF Live
  <2>3. CASE Withheld(c, mm)
    BY <2>3, <1>6, Zenon DEF Live, Withheld
  <2> QED BY <1>1, <1>3, <2>1, <2>2, <2>3, DeliverCases, Zenon
<1> QED BY <1>7, StuckKept, Zenon

\* The other actions leave the Msgs alone.
LEMMA MsgsUntouched ==
  ASSUME \/ \E c \in Client : Accept(c) \/ CClose(c) \/ CReactNil(c)
         \/ \E f \in DOMAIN frag, s \in SConn : Dispatch(f, s)
         \/ RunTasks
         \/ \E f \in DOMAIN timeoutTree : MsgTimeout(f)
         \/ \E s \in SConn : \/ SReadCluster(s) \/ SReadMovedFails(s) \/ SReadLate(s) \/ SReadMGetPanics(s)
                             \/ SReadShutdown(s) \/ SClose(s) \/ Execute(s) \/ \E t \in SConn : SReadMoved(s, t)
         \/ Ticker \/ (\E t \in Topologies : TickerChanged(t)) \/ Reload
         \/ \E k \in Slot : Migrated(k) \/ \E a \in Addr : Migrate(k, a)
         \/ UNCHANGED vars
  PROVE  msg' = msg /\ freeMsgs' = freeMsgs
BY ZenonT(60) DEF Accept, CClose, CReactNil, Dispatch, RunTasks, HandleWriteSignal, WriteClusterNodes, CloseTask, AsyncWrite,
     MsgTimeout, SReadCluster, SReadMovedFails, SReadLate, SReadMGetPanics, Panic, SReadShutdown, SClose, Execute,
     SReadMoved, Ticker, TickerChanged, Reload, TickerLoad, TickerRemove, SetIsSlave, Release, Migrated, Migrate

\* Every step leaves a Msg that timed out where it is.
LEMMA NextStuck ==
  ASSUME TypeOK, LifeInv, FragsKept, [Next]_vars, NEW p, Stuck(p, msg, freeMsgs, frag)
  PROVE  Stuck(p, msg, freeMsgs, frag)'
<1>1. ASSUME msg' = msg, freeMsgs' = freeMsgs PROVE Stuck(p, msg, freeMsgs, frag)'
  <2>1. p \in Live(msg', freeMsgs') /\ msg'[p] = msg[p]
    BY <1>1, Zenon DEF Stuck
  <2> QED BY <2>1, StuckKept, Zenon
<1> QED BY <1>1, MsgsUntouched, ReactStuck, DispatchFailsStuck, AnswerStuck, Zenon DEF Next, OnCReact, SRead

\* A reply takes its frag from where it waits.
LEMMA TakenGone ==
  ASSUME TypeOK, FlightInv, NEW s \in SConn, TakeReply(s), outFragQueue' = outFragQueue, NEW u \in SConn
  PROVE  Answered(s) \notin Waits(u)'
<1>1. inFragQueue[s] # <<>> /\ inFragQueue' = [inFragQueue EXCEPT ![s] = Tail(@)]
  BY Zenon DEF TakeReply
<1>2. /\ inFragQueue[s] \in Seq(DOMAIN frag) /\ NoDup(inFragQueue[s])
      /\ Elems(outFragQueue[s]) \cap Elems(inFragQueue[s]) = {}
      /\ inFragQueue'[s] = Tail(inFragQueue[s]) /\ \A v \in SConn : v # s => inFragQueue'[v] = inFragQueue[v]
  BY <1>1, Zenon DEF TypeOK, ServersType, FlightInv, Distinct
<1>3. Answered(s) \in Elems(inFragQueue[s]) /\ Answered(s) \notin Elems(Tail(inFragQueue[s]))
  BY <1>1, <1>2, NoDupTail, Zenon DEF Answered
<1>4. CASE u = s
  BY <1>2, <1>3, <1>4, Zenon DEF Waits
<1>5. CASE u # s
  <2>1. Waits(s) \cap Waits(u) = {}
    BY <1>5, Zenon DEF FlightInv
  <2> QED BY <1>2, <1>3, <1>5, <2>1, Zenon DEF Waits
<1> QED BY <1>4, <1>5, Zenon

\* The frags that a step sets Done of: the one whose reply is taken, or those of the
\* Msg that times out.
LEMMA NextDone ==
  ASSUME TypeOK, AnswerKinds, Faults \cap {"error", "large", "auth"} = {}, [Next]_vars, NEW f \in DOMAIN frag, frag'[f].done, ~frag[f].done
  PROVE  \/ \E s \in SConn : TakeReply(s) /\ outFragQueue' = outFragQueue /\ f = Answered(s)
         \/ \E g \in DOMAIN timeoutTree : /\ ~frag[g].done /\ f \in msg[frag[g].peer].body
                                          /\ frag' = AllDone(msg[frag[g].peer].body)
                                          /\ msg' = msg /\ freeMsgs' = freeMsgs
<1>1. frag' # frag
  BY Zenon
<1>2. ASSUME NEW c \in Client, NEW q \in Requests, NEW m, CReact(c, q, m)
      PROVE  FALSE
  BY <1>2, CReactFrags, Zenon
<1>3. ASSUME NEW g \in DOMAIN frag, NEW s \in SConn, Dispatch(g, s)
      PROVE  FALSE
  BY <1>3, DispatchFacts, Zenon
<1>4. ~WriteClusterNodes
  <2> SUFFICES ASSUME WriteClusterNodes PROVE FALSE
    BY Zenon
  <2>1. FragsQuiet
    BY QuietWriteClusterNodes, Zenon DEF Quiet
  <2> QED BY <2>1, Zenon DEF FragsQuiet
<1>5. ASSUME NEW g \in DOMAIN timeoutTree, MsgTimeout(g)
      PROVE  /\ ~frag[g].done /\ f \in msg[frag[g].peer].body
             /\ frag' = AllDone(msg[frag[g].peer].body) /\ msg' = msg /\ freeMsgs' = freeMsgs
  <2>1. PICK b : b = msg[frag[g].peer].body
    BY Zenon
  <2>2. ~frag[g].done /\ frag' = AllDone(b) /\ msg' = msg /\ freeMsgs' = freeMsgs
    BY <1>1, <1>5, <2>1, Zenon DEF MsgTimeout
  <2>3. Marked(frag, frag', b)
    BY <2>2, AllDoneMarked, Zenon
  <2>4. f \in b
    BY <2>3, Zenon DEF Marked
  <2> QED BY <2>1, <2>2, <2>4, Zenon
<1>6. ASSUME NEW s \in SConn, SReadDefault(s) \/ SReadMGet(s) \/ SReadMSet(s) \/ SReadDel(s)
      PROVE  TakeReply(s) /\ outFragQueue' = outFragQueue /\ f = Answered(s)
  <2>1. TakeReply(s) /\ outFragQueue' = outFragQueue
    BY <1>6, AnswerMsgs, Zenon
  <2>2. Marked(frag, frag', {Answered(s)})
    BY <1>6, AnswerMarksOne, Zenon
  <2>3. f \in {Answered(s)}
    BY <2>2, Zenon DEF Marked
  <2> QED BY <2>1, <2>3, Zenon
<1>7. ASSUME NEW s \in SConn PROVE ~SReadTooLarge(s)
  <2> SUFFICES ASSUME SReadTooLarge(s) PROVE FALSE
    BY Zenon
  <2>1. fromRedis[s] # <<>> /\ Answer(s).kind \in {"large"}
    BY Zenon DEF SReadTooLarge, TakeAnswer, TakeReply
  <2>2. Answer(s) = fromRedis[s][1] /\ 1 \in DOMAIN fromRedis[s]
    BY <2>1, SeqHeadTail, SeqFacts DEF TypeOK, ServersType, Answer
  <2> QED BY <2>1, <2>2, Zenon DEF AnswerKinds, Absent
<1> QED BY <1>1, <1>2, <1>3, <1>4, <1>5, <1>6, <1>7, SameFrags, Zenon DEF Next, OnCReact, RunTasks, SRead

\* Every step keeps LateInv.
LEMMA NextLate ==
  ASSUME TypeOK, LifeInv, FlightInv, AnswerKinds, Faults \cap {"error", "large", "auth"} = {}, LateInv, WaitsStep, [Next]_vars
  PROVE  LateInv'
<1>0. FragsKept
  BY NextFragsKept, Zenon
<1> SUFFICES ASSUME NEW u \in SConn, NEW f \in Waits(u)', frag'[f].owner # Nil, frag'[f].done
             PROVE  Stuck(frag[f].peer, msg, freeMsgs, frag)'
  BY Zenon DEF LateInv
<1>1. CASE f \notin DOMAIN frag /\ frag'[f].owner = Nil
  BY <1>1, Zenon
<1>2. CASE f \in DOMAIN frag /\ \E t \in SConn : Dispatch(f, t)
  <2>1. ~frag'[f].done
    BY <1>2, DispatchFacts, Zenon DEF LifeInv, ReactOK
  <2> QED BY <2>1, Zenon
<1>3. ASSUME NEW t \in SConn, f \in Waits(t)
      PROVE  Stuck(frag[f].peer, msg, freeMsgs, frag)'
  <2>1. f \in DOMAIN frag
    BY <1>3, SMTT(20) DEF Waits, Elems, TypeOK, ServersType
  <2>2. ~(handling.op = "react" /\ f \in handling.todo)
    BY <1>3, Zenon DEF FlightInv
  <2>3. frag'[f].owner = frag[f].owner /\ frag'[f].peer = frag[f].peer
    BY <1>0, <2>1, <2>2, Zenon DEF FragsKept
  <2>4. PICK p : p = frag[f].peer
    BY Zenon
  <2>5. CASE frag[f].done
    <3>1. Stuck(p, msg, freeMsgs, frag)
      BY <1>3, <2>3, <2>4, <2>5, Zenon DEF LateInv
    <3>2. Stuck(p, msg, freeMsgs, frag)'
      BY <1>0, <3>1, NextStuck, Zenon
    <3> QED BY <2>3, <2>4, <3>2, Zenon DEF Stuck
  <2>6. CASE ~frag[f].done
    <3>1. PICK g \in DOMAIN timeoutTree : /\ ~frag[g].done /\ f \in msg[frag[g].peer].body
                                          /\ frag' = AllDone(msg[frag[g].peer].body)
                                          /\ msg' = msg /\ freeMsgs' = freeMsgs
      BY <2>1, <2>6, NextDone, TakenGone, Zenon
    <3>2. g \in DOMAIN frag /\ frag[g].owner # Nil
      BY Zenon DEF TypeOK, TimeoutsType
    <3>3. /\ p \in Live(msg, freeMsgs) /\ MsgSound(msg[p], frag) /\ f \in msg[p].body
      BY <2>1, <2>3, <2>4, <2>6, UndoneFrag, Zenon DEF LifeInv
    <3>4. frag[g].peer \in Live(msg, freeMsgs) /\ MsgSound(msg[frag[g].peer], frag)
      BY <3>1, <3>2, UndoneFrag, Zenon DEF LifeInv
    <3>5. msg[p].id = msg[frag[g].peer].id
      BY <3>1, <3>3, <3>4, Zenon DEF MsgSound
    <3>6. frag[g].peer = p
      BY <3>3, <3>4, <3>5, Zenon DEF LifeInv, MsgsOK
    <3>7. ~msg[p].done
      BY <2>6, <3>3, Zenon DEF MsgSound, Finished
    <3>8. Marked(frag, frag', msg[p].body)
      BY <3>1, <3>6, AllDoneMarked, Zenon
    <3>9. msg[p].body \subseteq DOMAIN frag
      BY <3>3, Zenon DEF MsgSound
    <3>10. ~Partial(msg'[p], frag')
      BY <3>1, <3>8, <3>9, Zenon DEF Partial, Marked
    <3> QED BY <2>3, <2>4, <3>1, <3>3, <3>7, <3>10, Zenon DEF Stuck
  <2> QED BY <2>5, <2>6, Zenon
<1> QED BY <1>1, <1>2, <1>3, Zenon DEF WaitsStep

\* The replies on their way, after a step of Redis.
LEMMA ExecuteKinds ==
  ASSUME TypeOK, AnswerKinds, NEW s \in SConn, Execute(s)
  PROVE  AnswerKinds'
<1>1. PICK r \in Answers(s[1], Head(toRedis[s])) : fromRedis' = [fromRedis EXCEPT ![s] = Append(@, r)]
  BY Zenon DEF Execute
<1>2. r.kind \notin Absent
  BY <1>1, SMTT(20) DEF Answers, Absent
<1>3. fromRedis[s] \in Seq(AnswerType) /\ fromRedis \in [SConn -> Seq(AnswerType)]
  BY Zenon  DEF TypeOK, ServersType
<1>4. PICK S : S = AnswerType \cup {r}
  BY Zenon
<1>5. fromRedis[s] \in Seq(S) /\ r \in S
  BY <1>3, <1>4, SeqGrow, Zenon
<1>6. \A i \in DOMAIN Append(fromRedis[s], r) :
        Append(fromRedis[s], r)[i] = r \/ (i \in DOMAIN fromRedis[s] /\ Append(fromRedis[s], r)[i] = fromRedis[s][i])
  BY <1>5, SMTT(20)
<1>7. /\ fromRedis'[s] = Append(fromRedis[s], r)
      /\ \A t \in SConn : t # s => fromRedis'[t] = fromRedis[t]
  BY <1>1, <1>3, Zenon
<1> SUFFICES ASSUME NEW t \in SConn, NEW i \in DOMAIN fromRedis'[t]
             PROVE  fromRedis'[t][i].kind \notin Absent
  BY Zenon DEF AnswerKinds
<1>8. CASE t = s
  BY <1>2, <1>6, <1>7, <1>8, Zenon DEF AnswerKinds
<1>9. CASE t # s
  BY <1>7, <1>9, Zenon DEF AnswerKinds
<1> QED BY <1>8, <1>9, Zenon

\* Every step keeps AnswerKinds.
LEMMA NextKinds ==
  ASSUME TypeOK, AnswerKinds, [Next]_vars
  PROVE  AnswerKinds'
<1>0. fromRedis \in [SConn -> Seq(AnswerType)]
  BY Zenon  DEF TypeOK, ServersType
<1>1. ASSUME fromRedis' = fromRedis PROVE AnswerKinds'
  BY <1>1, Zenon DEF AnswerKinds
<1>2. ASSUME NEW s \in SConn, fromRedis[s] # <<>>, fromRedis' = [fromRedis EXCEPT ![s] = Tail(@)]
      PROVE  AnswerKinds'
  <2>1. /\ fromRedis'[s] = Tail(fromRedis[s]) /\ fromRedis[s] \in Seq(AnswerType)
        /\ \A t \in SConn : t # s => fromRedis'[t] = fromRedis[t]
    BY <1>0, <1>2, Zenon
  <2>2. \A i \in DOMAIN Tail(fromRedis[s]) : i + 1 \in DOMAIN fromRedis[s] /\ Tail(fromRedis[s])[i] = fromRedis[s][i + 1]
    BY <1>2, <2>1, SeqHeadTail
  <2> SUFFICES ASSUME NEW t \in SConn, NEW i \in DOMAIN fromRedis'[t]
               PROVE  fromRedis'[t][i].kind \notin Absent
    BY Zenon DEF AnswerKinds
  <2>3. CASE t = s
    BY <2>1, <2>2, <2>3, Zenon DEF AnswerKinds
  <2>4. CASE t # s
    BY <2>1, <2>4, Zenon DEF AnswerKinds
  <2> QED BY <2>3, <2>4, Zenon
<1>3. ASSUME NEW s \in SConn, fromRedis' = [fromRedis EXCEPT ![s] = <<>>]
      PROVE  AnswerKinds'
  BY <1>0, <1>3 DEF AnswerKinds
<1>4. ASSUME NEW s \in SConn, SReadShutdown(s)
      PROVE  AnswerKinds'
  BY <1>4 DEF SReadShutdown, AnswerKinds
<1>5. CASE CloseTask
  <2>1. tasks # <<>> /\ Head(tasks).op = "close"
    BY <1>5, Zenon DEF CloseTask, RunTask
  <2>2. Head(tasks).conn \in SConn
    <3>1. Head(tasks) \in TaskType
      BY <2>1, SeqHeadTail DEF TypeOK, ControlType
    <3> QED BY <2>1, <3>1, Zenon DEF TaskType
  <2>3. fromRedis' = [fromRedis EXCEPT ![Head(tasks).conn] = <<>>] \/ fromRedis' = fromRedis
    BY <1>5, Zenon DEF CloseTask, CloseServer
  <2> QED BY <1>1, <1>3, <2>2, <2>3, Zenon
<1>6. ASSUME NEW s \in SConn, SRead(s) \/ SClose(s)
      PROVE  \/ SReadMGetPanics(s) \/ SReadShutdown(s)
             \/ fromRedis[s] # <<>> /\ fromRedis' = [fromRedis EXCEPT ![s] = Tail(@)]
             \/ fromRedis' = [fromRedis EXCEPT ![s] = <<>>]
  BY <1>6, Zenon DEF SRead, SClose, SReadCluster, SReadMovedFails, SReadLate, SReadTooLarge, SReadDefault, SReadMGet,
                     SReadMSet, SReadDel, SReadMoved, TakeAnswer, TakeReply, CloseServer
<1>7. ASSUME \/ \E c \in Client : Accept(c) \/ CClose(c) \/ CReactNil(c)
             \/ \E c \in Client, m \in freeMsgs \cup {Len(msg) + 1} :
                  CReactImmediate(c, m) \/ \E q \in Requests : CReact(c, q, m)
             \/ OnCReact \/ HandleWriteSignal \/ WriteClusterNodes \/ AsyncWrite
             \/ \E f \in DOMAIN timeoutTree : MsgTimeout(f)
             \/ \E s \in SConn : SReadMGetPanics(s)
             \/ Ticker \/ (\E t \in Topologies : TickerChanged(t)) \/ Reload
             \/ \E k \in Slot : Migrated(k) \/ \E a \in Addr : Migrate(k, a)
             \/ UNCHANGED vars
      PROVE  fromRedis' = fromRedis
  BY <1>7, ZenonT(60) DEF Accept, CClose, CReactNil, CReactImmediate, CReact, OnCReact, Dispatch, DispatchFails,
     HandleWriteSignal, WriteClusterNodes, AsyncWrite, MsgTimeout, SReadMGetPanics, Panic, Ticker, TickerChanged, Reload, TickerLoad,
     TickerRemove, SetIsSlave, Release, Migrated, Migrate
<1> QED BY <1>1, <1>2, <1>3, <1>4, <1>5, <1>6, <1>7, ExecuteKinds, Zenon DEF Next, RunTasks

\* The Msg of a frag that is redirected is not in the pool.
LEMMA MovedLive ==
  ASSUME TypeOK, LifeInv, LateInv, NEW s \in SConn, TakeReply(s), frag[Answered(s)].owner # Nil
  PROVE  msg[frag[Answered(s)].peer].id # 0
<1>1. PICK f : f = Answered(s)
  BY Zenon
<1>2. f \in DOMAIN frag /\ f \in Waits(s)
  <2>1. inFragQueue[s] # <<>> /\ inFragQueue[s] \in Seq(DOMAIN frag)
    BY Zenon  DEF TakeReply, TypeOK, ServersType
  <2>2. Answered(s) = inFragQueue[s][1] /\ 1 \in DOMAIN inFragQueue[s] /\ inFragQueue[s][1] \in DOMAIN frag
    BY <2>1, SeqHeadTail, SeqFacts DEF Answered
  <2> QED BY <1>1, <2>2, Zenon DEF Waits, Elems
<1>3. frag[f].peer \in Live(msg, freeMsgs)
  <2>1. CASE frag[f].done
    BY <1>1, <1>2, <2>1, Zenon DEF LateInv, Stuck
  <2>2. CASE ~frag[f].done
    BY <1>1, <1>2, <2>2, UndoneFrag, Zenon DEF LifeInv
  <2> QED BY <2>1, <2>2, Zenon
<1>4. MsgSound(msg[frag[f].peer], frag)
  BY <1>3, Zenon DEF LifeInv, MsgsOK
<1> QED BY <1>1, <1>4, Zenon DEF MsgSound

\* When the last frag of an MGET is answered, the others have brought their values.
LEMMA MGetWhole ==
  ASSUME FiniteSetFacts, TypeOK, LifeInv, AnswerKinds, Faults \cap {"error", "large", "auth"} = {}, NEW s \in SConn
  PROVE  ~SReadMGetPanics(s)
<1> SUFFICES ASSUME SReadMGetPanics(s) PROVE FALSE
  BY Zenon
<1>1. PICK f, r : f = Answered(s) /\ r = msg[frag[f].peer]
  BY Zenon
<1>2. /\ fromRedis[s] # <<>> /\ inFragQueue[s] # <<>>
      /\ frag[f].owner # Nil /\ ~frag[f].done /\ r.type = "mget"
      /\ \/ Answer(s).kind \in {"error", "auth"}
         \/ ~Waiting(s) /\ \E g \in r.body \ {f} : frag[g].rsp = 0
  BY <1>1, Zenon DEF SReadMGetPanics
<1>3. Answer(s).kind \notin {"error", "auth"}
  <2>1. fromRedis[s] \in Seq(AnswerType)
    BY Zenon  DEF TypeOK, ServersType
  <2>2. Answer(s) = fromRedis[s][1] /\ 1 \in DOMAIN fromRedis[s]
    BY <1>2, <2>1, SeqHeadTail, SeqFacts DEF Answer
  <2> QED BY <2>2, Zenon DEF AnswerKinds, Absent
<1>4. f \in DOMAIN frag
  <2>1. inFragQueue[s] \in Seq(DOMAIN frag)
    BY Zenon  DEF TypeOK, ServersType
  <2> QED BY <1>1, <1>2, <2>1, SeqHeadTail, SeqFacts DEF Answered
<1>5. MsgSound(r, frag) /\ f \in r.body /\ frag[f].peer \in Live(msg, freeMsgs)
  BY <1>1, <1>2, <1>4, UndoneFrag, Zenon DEF LifeInv
<1>6. /\ r.ndone = Cardinality(DoneOf(r.body, frag)) /\ \A g \in r.body : frag[g].done => frag[g].rsp = g
      /\ r.body \subseteq DOMAIN frag /\ IsFiniteSet(r.body)
  BY <1>2, <1>5, Zenon DEF MsgSound, Partial, Gathered
<1>7. PICK fs : fs = [frag EXCEPT ![f].done = TRUE]
  BY Zenon
<1>8. Marked(frag, fs, {f})
  <2>1. 0 \in Nat /\ TRUE \in BOOLEAN
    BY Zenon
  <2> QED BY <1>4, <1>7, <2>1, AnsweredMarked, Zenon
<1>9. /\ Cardinality(DoneOf(r.body, fs)) = Cardinality(DoneOf(r.body, frag)) + 1
      /\ Cardinality(DoneOf(r.body, fs)) >= Cardinality(r.body) => \A g \in r.body : fs[g].done
      /\ Cardinality(r.body) \in Nat /\ Cardinality(DoneOf(r.body, frag)) \in Nat
  <2>1. f \in r.body /\ r.body \subseteq DOMAIN frag /\ IsFiniteSet(r.body) /\ ~frag[f].done
    BY <1>2, <1>5, <1>6, Zenon
  <2> QED BY <1>8, <2>1, DoneGrows, Zenon
<1>10. ~Waiting(s) => Cardinality(DoneOf(r.body, fs)) >= Cardinality(r.body)
  BY <1>1, <1>6, <1>9 DEF Waiting, Peer
<1>11. \A g \in r.body \ {f} : fs[g].done => frag[g].rsp = g /\ g # 0
  <2>1. \A g \in r.body : g \in DOMAIN frag /\ g # 0
    BY <1>6, SeqFacts DEF TypeOK, FragsType
  <2>2. \A g \in r.body \ {f} : fs[g] = frag[g]
    BY <1>6, <1>8, Zenon DEF Marked
  <2> QED BY <1>6, <2>1, <2>2, Zenon
<1> QED BY <1>2, <1>3, <1>9, <1>10, <1>11, Zenon

\* No step panics.
LEMMA NextNoPanic ==
  ASSUME FiniteSetFacts, TypeOK, LifeInv, LateInv, AnswerKinds, NoPanic, [Next]_vars,
         Faults \cap {"error", "large", "auth", "empty"} = {}
  PROVE  NoPanic'
<1>1. ASSUME NEW s \in SConn, NEW t \in SConn, SReadMoved(s, t) PROVE status' = status
  BY <1>1, MovedLive, Zenon DEF SReadMoved, IsRedirect
<1>2. ASSUME \/ \E c \in Client : Accept(c) \/ CClose(c)
             \/ \E c \in Client, m \in freeMsgs \cup {Len(msg) + 1} :
                  CReactImmediate(c, m) \/ \E q \in Requests : CReact(c, q, m)
             \/ OnCReact \/ RunTasks
             \/ \E f \in DOMAIN timeoutTree : MsgTimeout(f)
             \/ \E s \in SConn : SReadCluster(s) \/ SReadMovedFails(s) \/ SReadLate(s) \/ SClose(s) \/ Execute(s)
             \/ Ticker \/ (\E t \in Topologies : TickerChanged(t)) \/ Reload
             \/ \E k \in Slot : Migrated(k) \/ \E a \in Addr : Migrate(k, a)
             \/ UNCHANGED vars
      PROVE  status' = status
  BY <1>2, ZenonT(60) DEF Accept, CClose, CReactImmediate, CReact, OnCReact, Dispatch, DispatchFails, RunTasks,
     HandleWriteSignal, WriteClusterNodes, CloseTask, AsyncWrite, MsgTimeout, SReadCluster, SReadMovedFails, SReadLate,
     SClose, Execute, Ticker, TickerChanged, Reload, TickerLoad, TickerRemove, SetIsSlave, Release, Migrated, Migrate
<1>3. ASSUME NEW s \in SConn, SReadTooLarge(s) \/ SReadDefault(s) \/ SReadMGet(s) \/ SReadMSet(s) \/ SReadDel(s)
      PROVE  status' = status
  BY <1>3, Zenon DEF SReadTooLarge, SReadDefault, SReadMGet, SReadMSet, SReadDel, TakeAnswer
<1>4. ASSUME NEW s \in SConn, SReadShutdown(s) PROVE status' = "exited"
  BY <1>4, Zenon DEF SReadShutdown
<1>5. "exited" # "panicked"
  BY Zenon
<1>6. ASSUME NEW c \in Client, CReactNil(c) PROVE FALSE
  BY <1>6, Zenon DEF CReactNil
<1>7. ASSUME NEW s \in SConn, SReadMGetPanics(s) PROVE FALSE
  BY <1>7, MGetWhole, Zenon
<1> QED BY <1>1, <1>2, <1>3, <1>4, <1>5, <1>6, <1>7, Zenon DEF Next, SRead, NoPanic
-----------------------------------------------------------------------------
(* No client is closed.                                                     *)

\* The actions that change no client connection.
LEMMA SameConns ==
  ASSUME \/ \E c \in Client : CReactNil(c)
         \/ \E c \in Client, m \in freeMsgs \cup {Len(msg) + 1} : \E q \in Requests : CReact(c, q, m)
         \/ OnCReact \/ RunTasks
         \/ \E s \in SConn : \/ SReadCluster(s) \/ SReadMovedFails(s) \/ SReadLate(s) \/ SReadMGetPanics(s)
                             \/ SClose(s) \/ Execute(s) \/ \E t \in SConn : SReadMoved(s, t)
         \/ \E f \in DOMAIN timeoutTree : MsgTimeout(f)
         \/ Ticker \/ (\E t \in Topologies : TickerChanged(t)) \/ Reload
         \/ \E k \in Slot : Migrated(k) \/ \E a \in Addr : Migrate(k, a)
         \/ UNCHANGED vars
  PROVE  cconn' = cconn
BY ZenonT(40) DEF CReactNil, CReact, OnCReact, Dispatch, DispatchFails, RunTasks, HandleWriteSignal, WriteClusterNodes,
     CloseTask, AsyncWrite, SReadCluster, SReadMovedFails, SReadLate, SReadMGetPanics, Panic, SClose, Execute, SReadMoved,
     MsgTimeout, Ticker, TickerChanged, Reload, TickerLoad, TickerRemove, SetIsSlave, Release, Migrated, Migrate

\* The reply to a frag finds its Msg in the queue of its client.
LEMMA AnswerConns ==
  ASSUME TypeOK, OwedInv, "clientWrite" \notin Faults, NEW s \in SConn,
         SReadTooLarge(s) \/ SReadDefault(s) \/ SReadMGet(s) \/ SReadMSet(s) \/ SReadDel(s)
  PROVE  cconn' = cconn
<1>1. /\ TakeReply(s) /\ frag[Answered(s)].owner # Nil /\ ~frag[Answered(s)].done
      /\ \E mm : (\/ msg' = mm /\ freeMsgs' = freeMsgs /\ UNCHANGED <<msgId, clientVars>>
                  \/ Deliver(frag[Answered(s)].owner, mm))
  BY AnswerMsgs, Zenon
<1>2. PICK c, f : f = Answered(s) /\ c = frag[f].owner
  BY Zenon
<1>3. f \in DOMAIN frag /\ handling.op # "react"
  BY <1>1, <1>2, TakeReplyType, IdleNotReact, Zenon DEF TakeReply
<1>4. ASSUME NEW mm, Deliver(c, mm) PROVE cconn' = cconn
  <2>1. cconn[c] = "open" => inMsgQueue[c] # <<>>
    <3>1. cconn[c] = "open" => frag[f].peer \in Elems(inMsgQueue[c])
      BY <1>1, <1>2, <1>3, Zenon DEF OwedInv, Queued
    <3>2. Elems(<<>>) = {}
      BY SMT DEF Elems
    <3> QED BY <3>1, <3>2, Zenon
  <2> QED BY <1>4, <2>1, Zenon DEF Deliver
<1> QED BY <1>1, <1>2, <1>4, Zenon

\* Every step keeps ClientKept, unless a client or Redis gives a reason to close one.
LEMMA NextConns ==
  ASSUME TypeOK, OwedInv, AnswerKinds, ClientKept, [Next]_vars,
         Faults \cap {"clientClose", "clientWrite", "unauthorized", "immediate", "auth"} = {}
  PROVE  ClientKept'
<1>0. cconn \in [Client -> {"new", "open", "closed"}]
  BY Zenon DEF TypeOK, ClientsType
<1>1. CASE cconn' = cconn
  BY <1>1, Zenon DEF ClientKept
<1>2. ASSUME NEW c \in Client, Accept(c) PROVE ClientKept'
  <2>1. cconn' = [cconn EXCEPT ![c] = "open"]
    BY <1>2, Zenon DEF Accept
  <2> QED BY <1>0, <2>1, Zenon DEF ClientKept
<1>3. ASSUME NEW c \in Client, CClose(c) PROVE FALSE
  BY <1>3, Zenon DEF CClose
<1>4. ASSUME NEW c \in Client, NEW m, CReactImmediate(c, m) PROVE FALSE
  BY <1>4, Zenon DEF CReactImmediate
<1>5. ASSUME NEW s \in SConn, SReadShutdown(s) PROVE FALSE
  <2>1. fromRedis[s] # <<>> /\ fromRedis[s] \in Seq(AnswerType) /\ Answer(s).kind = "auth"
    BY <1>5, Zenon DEF SReadShutdown, TypeOK, ServersType
  <2>2. Answer(s) = fromRedis[s][1] /\ 1 \in DOMAIN fromRedis[s]
    BY <2>1, SeqHeadTail, SMT DEF Answer
  <2>3. "auth" \in Absent
    BY Zenon DEF Absent
  <2> QED BY <2>1, <2>2, <2>3, Zenon DEF AnswerKinds
<1>6. ASSUME NEW s \in SConn,
             SReadTooLarge(s) \/ SReadDefault(s) \/ SReadMGet(s) \/ SReadMSet(s) \/ SReadDel(s)
      PROVE  cconn' = cconn
  BY <1>6, AnswerConns, Zenon
<1> QED BY <1>1, <1>2, <1>3, <1>4, <1>5, <1>6, SameConns, Zenon DEF Next, SRead
-----------------------------------------------------------------------------
(* No frag is lost on its way to Redis.                                     *)

\* A task taken off the queue, or one that closes nothing put on it.
LEMMA ClosingKept ==
  ASSUME NEW ts \in Seq(TaskType), NoClosing(ts)
  PROVE  /\ ts # <<>> => NoClosing(Tail(ts)) /\ Tail(ts) \in Seq(TaskType)
         /\ \A t \in TaskType : t.op # "close" => NoClosing(Append(ts, t))
<1>1. ASSUME ts # <<>> PROVE NoClosing(Tail(ts)) /\ Tail(ts) \in Seq(TaskType)
  <2>1. Tail(ts) \in Seq(TaskType) /\ \A i \in DOMAIN Tail(ts) : i + 1 \in DOMAIN ts /\ Tail(ts)[i] = ts[i + 1]
    BY <1>1, SeqHeadTail, SMT
  <2> QED BY <2>1, Zenon DEF NoClosing
<1>2. ASSUME NEW t \in TaskType, t.op # "close" PROVE NoClosing(Append(ts, t))
  <2>1. \A i \in DOMAIN Append(ts, t) : Append(ts, t)[i] = t \/ (i \in DOMAIN ts /\ Append(ts, t)[i] = ts[i])
    BY SeqAppend, SMT
  <2>2. ASSUME NEW i \in DOMAIN Append(ts, t) PROVE Append(ts, t)[i].op # "close"
    <3>1. CASE Append(ts, t)[i] = t
      BY <1>2, <3>1, Zenon
    <3>2. CASE i \in DOMAIN ts /\ Append(ts, t)[i] = ts[i]
      BY <3>2, Zenon DEF NoClosing
    <3> QED BY <2>1, <3>1, <3>2, Zenon
  <2> QED BY <2>2, Zenon DEF NoClosing
<1> QED BY <1>1, <1>2, Zenon

\* The actions that change neither the tasks nor the pools.
LEMMA SameTasks ==
  ASSUME \/ \E c \in Client : Accept(c) \/ CClose(c) \/ CReactNil(c)
         \/ \E c \in Client, m \in freeMsgs \cup {Len(msg) + 1} :
              CReactImmediate(c, m) \/ \E q \in Requests : CReact(c, q, m)
         \/ \E f \in DOMAIN frag : DispatchFails(f)
         \/ \E s \in SConn : \/ SReadCluster(s) \/ SReadMovedFails(s) \/ SReadLate(s) \/ SReadMGetPanics(s)
                             \/ SReadTooLarge(s) \/ SReadDefault(s) \/ SReadMGet(s) \/ SReadMSet(s) \/ SReadDel(s)
                             \/ SReadShutdown(s) \/ SClose(s) \/ Execute(s)
         \/ \E t \in Topologies : TickerChanged(t)
         \/ \E k \in Slot : Migrated(k) \/ \E a \in Addr : Migrate(k, a)
         \/ UNCHANGED vars
  PROVE  UNCHANGED <<pools, slavePools, tasks>>
<1>1. ASSUME NEW s \in SConn,
             \/ SReadTooLarge(s) \/ SReadDefault(s) \/ SReadMGet(s) \/ SReadMSet(s) \/ SReadDel(s)
             \/ SReadCluster(s) \/ SReadMovedFails(s) \/ SReadLate(s) \/ SReadMGetPanics(s)
             \/ SReadShutdown(s) \/ SClose(s) \/ Execute(s)
      PROVE  UNCHANGED <<pools, slavePools, tasks>>
  <2>1. CASE SReadTooLarge(s) \/ SReadDefault(s) \/ SReadMGet(s) \/ SReadMSet(s) \/ SReadDel(s)
    BY <2>1, Zenon DEF SReadTooLarge, SReadDefault, SReadMGet, SReadMSet, SReadDel, TakeAnswer
  <2>2. CASE \/ SReadCluster(s) \/ SReadMovedFails(s) \/ SReadLate(s) \/ SReadMGetPanics(s)
             \/ SReadShutdown(s) \/ SClose(s) \/ Execute(s)
    BY <2>2, Zenon DEF SReadCluster, SReadMovedFails, SReadLate, SReadMGetPanics, Panic, SReadShutdown, SClose, Execute
  <2> QED BY <1>1, <2>1, <2>2, Zenon
<1>2. ASSUME NEW c \in Client, NEW m, Accept(c) \/ CClose(c) \/ CReactNil(c) \/ CReactImmediate(c, m)
      PROVE  UNCHANGED <<pools, slavePools, tasks>>
  BY <1>2, Zenon DEF Accept, CClose, CReactNil, Panic, CReactImmediate
<1>3. ASSUME NEW c \in Client, NEW m, NEW q, CReact(c, q, m)
      PROVE  UNCHANGED <<pools, slavePools, tasks>>
  BY <1>3, Zenon DEF CReact
<1>4. ASSUME NEW f, DispatchFails(f) PROVE UNCHANGED <<pools, slavePools, tasks>>
  BY <1>4, Zenon DEF DispatchFails
<1>5. ASSUME NEW k \in Slot, Migrated(k) \/ \E a \in Addr : Migrate(k, a)
      PROVE  UNCHANGED <<pools, slavePools, tasks>>
  BY <1>5, Zenon DEF Migrated, Migrate
<1>6. ASSUME NEW t \in Topologies, TickerChanged(t) PROVE UNCHANGED <<pools, slavePools, tasks>>
  BY <1>6, Zenon DEF TickerChanged
<1>7. UNCHANGED vars => UNCHANGED <<pools, slavePools, tasks>>
  BY Zenon
<1> QED BY <1>1, <1>2, <1>3, <1>4, <1>5, <1>6, <1>7, Zenon

\* While every topology has every node in its role, no pool is closed.
LEMMA NextClosing ==
  ASSUME TypeOK, Steady, pools = Addr, slavePools = Boot.slaves, NoClosing(tasks), [Next]_vars
  PROVE  pools' = Addr /\ slavePools' = Boot.slaves /\ NoClosing(tasks')
<1>0. tasks \in Seq(TaskType)
  BY Zenon DEF TypeOK, ControlType
<1>1. CASE UNCHANGED <<pools, slavePools, tasks>>
  BY <1>1, Zenon
<1>2. ASSUME NEW s \in SConn, NEW op \in {"write", "cluster"} PROVE Task(op, s, 0) \in TaskType /\ Task(op, s, 0).op # "close"
  BY SMT DEF Task, TaskType
<1>3. ASSUME NEW s \in SConn, NEW f, EnqueueOutFrag(s, f) PROVE NoClosing(tasks')
  <2>1. tasks' = Append(tasks, Task("write", s, 0))
    BY <1>3, Zenon DEF EnqueueOutFrag
  <2> QED BY <1>0, <1>2, <2>1, ClosingKept, Zenon
<1>4. ASSUME NEW ps, OnTicker(ps) PROVE NoClosing(tasks')
  <2>1. ASSUME NEW s \in SConn, tasks' = Append(tasks, Task("cluster", s, 0)) PROVE NoClosing(tasks')
    BY <1>0, <1>2, <2>1, ClosingKept, Zenon
  <2> QED BY <1>4, <2>1, Zenon DEF OnTicker
<1>5. ASSUME NEW f \in DOMAIN frag, NEW s \in SConn, Dispatch(f, s)
      PROVE  pools' = Addr /\ slavePools' = Boot.slaves /\ NoClosing(tasks')
  BY <1>3, <1>5, Zenon DEF Dispatch
<1>6. ASSUME NEW s \in SConn, NEW t \in SConn, SReadMoved(s, t)
      PROVE  pools' = Addr /\ slavePools' = Boot.slaves /\ NoClosing(tasks')
  BY <1>3, <1>6, Zenon DEF SReadMoved
<1>7. CASE HandleWriteSignal \/ CloseTask \/ AsyncWrite
  <2>1. tasks # <<>> /\ tasks' = Tail(tasks) /\ UNCHANGED <<pools, slavePools>>
    BY <1>7, Zenon DEF HandleWriteSignal, CloseTask, AsyncWrite, RunTask
  <2> QED BY <1>0, <2>1, ClosingKept, Zenon
<1>8. CASE WriteClusterNodes
  <2>1. PICK s : s = Head(tasks).conn
    BY Zenon
  <2>2. /\ tasks # <<>> /\ Head(tasks).op = "cluster" /\ UNCHANGED <<pools, slavePools>>
        /\ tasks' = Tail(tasks) \/ tasks' = Append(Tail(tasks), Task("write", s, 0))
    BY <1>8, <2>1, Zenon DEF WriteClusterNodes
  <2>3. s \in SConn
    <3>1. Head(tasks) \in TaskType
      BY <1>0, <2>2, SeqHeadTail, Zenon
    <3> QED BY <2>1, <2>2, <3>1, Zenon DEF TaskType
  <2>4. NoClosing(Tail(tasks)) /\ Tail(tasks) \in Seq(TaskType)
    BY <1>0, <2>2, ClosingKept, Zenon
  <2>5. NoClosing(Append(Tail(tasks), Task("write", s, 0)))
    BY <1>2, <2>3, <2>4, ClosingKept, Zenon
  <2> QED BY <2>2, <2>4, <2>5, Zenon
<1>9. ASSUME NEW f \in DOMAIN timeoutTree, MsgTimeout(f)
      PROVE  pools' = Addr /\ slavePools' = Boot.slaves /\ NoClosing(tasks')
  <2>1. /\ UNCHANGED <<pools, slavePools>>
        /\ (tasks' = tasks \/ tasks' = Append(tasks, Task("reply", frag[f].owner, frag[f].req)))
    BY <1>9, Zenon DEF MsgTimeout
  <2>2. f \in DOMAIN frag /\ frag[f].owner \in Client /\ frag[f].req \in Nat
    BY FragFields, Zenon DEF TypeOK, TimeoutsType
  <2>3. Task("reply", frag[f].owner, frag[f].req) \in TaskType /\ Task("reply", frag[f].owner, frag[f].req).op # "close"
    BY <2>2, SMT DEF Task, TaskType
  <2> QED BY <1>0, <2>1, <2>3, ClosingKept, Zenon
<1>10. CASE Ticker
  BY <1>4, <1>10, Zenon DEF Ticker
<1>11. handling.op = "ticker" => handling.topo.nodes = Addr /\ handling.topo.slaves = Boot.slaves
  <2>1. handling.op = "ticker" => handling \in ReloadType
    BY IdleNotReact, Zenon DEF TypeOK, ControlType, ReactType
  <2> QED BY <2>1, Zenon DEF ReloadType, Steady
<1>12. CASE TickerLoad
  BY <1>4, <1>11, <1>12, Zenon DEF TickerLoad
<1>13. ASSUME NEW a \in Addr, TickerRemove(a) \/ SetIsSlave(a) PROVE FALSE
  BY <1>11, <1>13, Zenon DEF TickerRemove, SetIsSlave
<1> QED BY <1>1, <1>5, <1>6, <1>7, <1>8, <1>9, <1>10, <1>12, <1>13, SameTasks, Zenon
        DEF Next, OnCReact, RunTasks, SRead, Reload

\* What waits at connection s, after a frag joins the queue of connection t.
LEMMA WaitsAppend ==
  ASSUME TypeOK, NEW t \in SConn, NEW g \in Nat, outFragQueue' = [outFragQueue EXCEPT ![t] = Append(@, g)],
         NEW s \in SConn, NEW f, f \in Elems(outFragQueue[s])
  PROVE  f \in Elems(outFragQueue'[s])
<1>1. outFragQueue \in [SConn -> Seq(DOMAIN frag)] /\ DOMAIN frag \subseteq Nat
  BY SeqFacts, SMT DEF TypeOK, ServersType, FragsType
<1>2. PICK q, p : q = outFragQueue[t] /\ p = outFragQueue'[t]
  BY Zenon
<1>3. p = Append(q, g) /\ \A u \in SConn : u # t => outFragQueue'[u] = outFragQueue[u]
  BY <1>1, <1>2, Zenon
<1>4. q \in Seq(Nat)
  BY <1>1, <1>2, SeqGrow, Zenon
<1>5. Elems(p) = Elems(q) \cup {g}
  BY <1>3, <1>4, ElemsAppend, SMT
<1> QED BY <1>2, <1>3, <1>5, Zenon

\* The frag that joins it.
LEMMA WaitsJoined ==
  ASSUME TypeOK, NEW t \in SConn, NEW g \in Nat, outFragQueue' = [outFragQueue EXCEPT ![t] = Append(@, g)]
  PROVE  g \in Elems(outFragQueue'[t])
<1>1. outFragQueue \in [SConn -> Seq(DOMAIN frag)] /\ DOMAIN frag \subseteq Nat
  BY SeqFacts, SMT DEF TypeOK, ServersType, FragsType
<1>2. PICK q, p : q = outFragQueue[t] /\ p = outFragQueue'[t]
  BY Zenon
<1>3. p = Append(q, g)
  BY <1>1, <1>2, Zenon
<1>4. q \in Seq(Nat)
  BY <1>1, <1>2, SeqGrow, Zenon
<1>5. Elems(p) = Elems(q) \cup {g}
  BY <1>3, <1>4, ElemsAppend, SMT
<1> QED BY <1>2, <1>5, Zenon

\* Decode takes no frag from a queue but the one it answers.
LEMMA WaitsTaken ==
  ASSUME TypeOK, NEW u \in SConn, TakeReply(u), NEW s \in SConn, NEW f, f \in Elems(inFragQueue[s])
  PROVE  f \in Elems(inFragQueue'[s]) \/ f = Answered(u)
<1>1. /\ inFragQueue \in [SConn -> Seq(DOMAIN frag)] /\ inFragQueue[u] # <<>>
      /\ inFragQueue' = [inFragQueue EXCEPT ![u] = Tail(@)]
  BY Zenon DEF TypeOK, ServersType, TakeReply
<1>2. inFragQueue'[u] = Tail(inFragQueue[u]) /\ \A v \in SConn : v # u => inFragQueue'[v] = inFragQueue[v]
  BY <1>1, Zenon
<1>3. Elems(inFragQueue[u]) \subseteq Elems(Tail(inFragQueue[u])) \cup {Head(inFragQueue[u])}
  BY <1>1, ElemsTail, Zenon
<1> QED BY <1>2, <1>3, Zenon DEF Answered

\* handleWriteSignal takes none away.
LEMMA WaitsWritten ==
  ASSUME TypeOK, HandleWriteSignal, NEW s \in SConn, NEW f \in Waits(s)
  PROVE  f \in Waits(s)'
<1>0. /\ outFragQueue \in [SConn -> Seq(DOMAIN frag)] /\ inFragQueue \in [SConn -> Seq(DOMAIN frag)]
      /\ tasks \in Seq(TaskType)
  BY Zenon DEF TypeOK, ServersType, ControlType
<1>1. PICK u : u = Head(tasks).conn
  BY Zenon
<1>2. \/ outFragQueue' = outFragQueue /\ inFragQueue' = inFragQueue
      \/ /\ outFragQueue' = [outFragQueue EXCEPT ![u] = <<>>]
         /\ inFragQueue' = [inFragQueue EXCEPT ![u] = @ \o outFragQueue[u]]
  BY <1>1, Zenon DEF HandleWriteSignal, DequeueOutFrags, EnqueueInFrags
<1>3. u \in SConn
  <2>1. tasks # <<>> /\ Head(tasks).op = "write"
    BY Zenon DEF HandleWriteSignal, RunTask
  <2>2. Head(tasks) \in TaskType
    BY <1>0, <2>1, SeqHeadTail, Zenon
  <2> QED BY <1>1, <2>1, <2>2, Zenon DEF TaskType
<1>4. CASE outFragQueue' = outFragQueue /\ inFragQueue' = inFragQueue
  BY <1>4, Zenon DEF Waits
<1>5. CASE /\ outFragQueue' = [outFragQueue EXCEPT ![u] = <<>>]
           /\ inFragQueue' = [inFragQueue EXCEPT ![u] = @ \o outFragQueue[u]]
  <2>1. /\ inFragQueue'[u] = inFragQueue[u] \o outFragQueue[u]
        /\ \A v \in SConn : v # u => inFragQueue'[v] = inFragQueue[v] /\ outFragQueue'[v] = outFragQueue[v]
    BY <1>0, <1>3, <1>5, Zenon
  <2>2. Elems(inFragQueue[u] \o outFragQueue[u]) = Elems(inFragQueue[u]) \cup Elems(outFragQueue[u])
    <3>1. inFragQueue[u] \in Seq(DOMAIN frag) /\ outFragQueue[u] \in Seq(DOMAIN frag)
      BY <1>0, <1>3, Zenon
    <3> QED BY <3>1, ElemsConcat, Zenon
  <2> QED BY <2>1, <2>2, Zenon DEF Waits
<1> QED BY <1>2, <1>4, <1>5, Zenon

\* OnCReact's loop is not interrupted.
LEMMA ReactRuns ==
  ASSUME handling.op = "react", [Next]_vars
  PROVE  OnCReact \/ frag' = frag
<1>0. ~LoopFree
  BY IdleNotReact, Zenon
<1>1. ASSUME NEW c \in Client, NEW m,
             Accept(c) \/ CClose(c) \/ CReactNil(c) \/ CReactImmediate(c, m) \/ \E q \in Requests : CReact(c, q, m)
      PROVE  FALSE
  BY <1>0, <1>1, Zenon DEF Accept, CClose, CReactNil, Panic, CReactImmediate, CReact
<1>2. ~RunTasks
  BY <1>0, Zenon DEF RunTasks, HandleWriteSignal, WriteClusterNodes, CloseTask, AsyncWrite, RunTask
<1>3. ASSUME NEW s \in SConn, SRead(s) \/ SClose(s) PROVE FALSE
  BY <1>0, <1>3, Zenon DEF SRead, SClose, SReadCluster, SReadMovedFails, SReadLate, SReadTooLarge, SReadDefault, SReadMGet,
       SReadMGetPanics, SReadMSet, SReadDel, SReadMoved, SReadShutdown, TakeAnswer, TakeReply
<1>4. ASSUME NEW f \in DOMAIN timeoutTree, MsgTimeout(f) PROVE FALSE
  BY <1>0, <1>4, Zenon DEF MsgTimeout
<1>5. ~Ticker /\ ~Reload
  BY <1>0, Zenon DEF Ticker, Reload, TickerLoad, TickerRemove, SetIsSlave, Release
<1>6. ASSUME NEW t \in Topologies, TickerChanged(t) PROVE FALSE
  BY <1>0, <1>6, Zenon DEF TickerChanged
<1>7. ASSUME NEW s \in SConn, Execute(s) PROVE frag' = frag
  BY <1>7, Zenon DEF Execute
<1>8. ASSUME NEW k \in Slot, Migrated(k) \/ \E a \in Addr : Migrate(k, a) PROVE frag' = frag
  BY <1>8, Zenon DEF Migrated, Migrate
<1>9. CASE UNCHANGED vars
  BY <1>9, Zenon
<1> QED BY <1>1, <1>2, <1>3, <1>4, <1>5, <1>6, <1>7, <1>8, <1>9, Zenon DEF Next

\* A frag gets its owner when it is dispatched: it waits at an open connection.
LEMMA DispatchedWaits ==
  ASSUME TypeOK, [Next]_vars, NEW f \in DOMAIN frag, handling.op = "react",
         frag[f].owner = Nil, frag'[f].owner # Nil
  PROVE  \E s \in SConn : Opened(s)' /\ f \in Waits(s)'
<1>1. PICK g \in DOMAIN frag : DispatchFails(g) \/ \E s \in SConn : Dispatch(g, s)
  <2>1. frag' # frag
    BY Zenon
  <2> QED BY <2>1, ReactRuns, Zenon DEF OnCReact
<1>2. PICK s \in SConn : Dispatch(g, s)
  <2>1. DispatchFails(g) => frag' = frag
    BY Zenon DEF DispatchFails
  <2> QED BY <1>1, <2>1, Zenon
<1>3. f = g
  BY <1>2, DispatchFacts, Zenon
<1>4. outFragQueue' = [outFragQueue EXCEPT ![s] = Append(@, f)] /\ PoolGet(s)
  BY <1>2, <1>3, Zenon DEF Dispatch, EnqueueOutFrag
<1>5. f \in Nat
  BY SeqFacts, SMT DEF TypeOK, FragsType
<1>6. f \in Elems(outFragQueue'[s])
  BY <1>4, <1>5, WaitsJoined, Zenon
<1>7. sconn'[s] = "open"
  BY <1>4, PoolGetOpens, Zenon DEF TypeOK
<1> QED BY <1>6, <1>7, Zenon DEF Waits, Opened

\* The actions that change no queue of frags, and close no connection to Redis.
LEMMA SameWaits ==
  ASSUME TypeOK,
         \/ \E c \in Client : Accept(c) \/ CClose(c) \/ CReactNil(c)
         \/ \E c \in Client, m \in freeMsgs \cup {Len(msg) + 1} :
              CReactImmediate(c, m) \/ \E q \in Requests : CReact(c, q, m)
         \/ \E f \in DOMAIN frag : DispatchFails(f)
         \/ AsyncWrite \/ (\E f \in DOMAIN timeoutTree : MsgTimeout(f))
         \/ \E s \in SConn : SReadMGetPanics(s) \/ Execute(s)
         \/ Ticker \/ (\E t \in Topologies : TickerChanged(t)) \/ Reload
         \/ \E k \in Slot : Migrated(k) \/ \E a \in Addr : Migrate(k, a)
         \/ UNCHANGED vars
  PROVE  /\ outFragQueue' = outFragQueue /\ inFragQueue' = inFragQueue
         /\ \A s \in SConn : Opened(s) => Opened(s)'
<1>1. ASSUME outFragQueue' = outFragQueue, inFragQueue' = inFragQueue, sconn' = sconn
      PROVE  /\ outFragQueue' = outFragQueue /\ inFragQueue' = inFragQueue
             /\ \A s \in SConn : Opened(s) => Opened(s)'
  BY <1>1, Zenon DEF Opened
<1>2. ASSUME NEW c \in Client, NEW m, Accept(c) \/ CClose(c) \/ CReactNil(c) \/ CReactImmediate(c, m)
      PROVE  outFragQueue' = outFragQueue /\ inFragQueue' = inFragQueue /\ sconn' = sconn
  BY <1>2, Zenon DEF Accept, CClose, CReactNil, Panic, CReactImmediate
<1>3. ASSUME NEW c \in Client, NEW m, NEW q, CReact(c, q, m)
      PROVE  outFragQueue' = outFragQueue /\ inFragQueue' = inFragQueue /\ sconn' = sconn
  BY <1>3, Zenon DEF CReact
<1>4. ASSUME NEW f, DispatchFails(f) \/ MsgTimeout(f) \/ AsyncWrite
      PROVE  outFragQueue' = outFragQueue /\ inFragQueue' = inFragQueue /\ sconn' = sconn
  BY <1>4, Zenon DEF DispatchFails, MsgTimeout, AsyncWrite
<1>5. ASSUME NEW s \in SConn, SReadMGetPanics(s) \/ Execute(s)
      PROVE  outFragQueue' = outFragQueue /\ inFragQueue' = inFragQueue /\ sconn' = sconn
  BY <1>5, Zenon DEF SReadMGetPanics, Panic, Execute
<1>6. ASSUME NEW k \in Slot, Migrated(k) \/ \E a \in Addr : Migrate(k, a)
      PROVE  outFragQueue' = outFragQueue /\ inFragQueue' = inFragQueue /\ sconn' = sconn
  BY <1>6, Zenon DEF Migrated, Migrate
<1>7. ASSUME NEW t, TickerChanged(t) \/ TickerRemove(t) \/ SetIsSlave(t)
      PROVE  outFragQueue' = outFragQueue /\ inFragQueue' = inFragQueue /\ sconn' = sconn
  BY <1>7, Zenon DEF TickerChanged, TickerRemove, SetIsSlave, Release
<1>8. ASSUME NEW ps, OnTicker(ps) PROVE \A s \in SConn : Opened(s) => Opened(s)'
  <2>1. ASSUME NEW t \in SConn, PoolGet(t) PROVE \A s \in SConn : Opened(s) => Opened(s)'
    <3>1. sconn'[t] = "open" /\ \A s \in SConn : s # t => sconn'[s] = sconn[s]
      BY <2>1, PoolGetOpens, Zenon DEF TypeOK
    <3> QED BY <3>1, Zenon DEF Opened
  <2>2. sconn' = sconn => \A s \in SConn : Opened(s) => Opened(s)'
    BY Zenon DEF Opened
  <2> QED BY <1>8, <2>1, <2>2, Zenon DEF OnTicker
<1>9. CASE Ticker \/ TickerLoad
  <2>1. outFragQueue' = outFragQueue /\ inFragQueue' = inFragQueue /\ \E ps : OnTicker(ps)
    BY <1>9, Zenon DEF Ticker, TickerLoad
  <2> QED BY <1>8, <2>1, Zenon
<1>10. UNCHANGED vars => outFragQueue' = outFragQueue /\ inFragQueue' = inFragQueue /\ sconn' = sconn
  BY Zenon
<1> QED BY <1>1, <1>2, <1>3, <1>4, <1>5, <1>6, <1>7, <1>9, <1>10, Zenon DEF Reload

\* A reply to a frag that is not done and belongs to a client: the frag is done, or
\* goes to another open connection.
LEMMA AnsweredWaits ==
  ASSUME TypeOK, LifeInv, Steady, pools = Addr, NEW u \in SConn, TakeReply(u),
         \/ SReadCluster(u) \/ SReadMovedFails(u) \/ SReadLate(u) \/ SReadTooLarge(u)
         \/ SReadDefault(u) \/ SReadMGet(u) \/ SReadMSet(u) \/ SReadDel(u)
         \/ \E t \in SConn : SReadMoved(u, t),
         frag[Answered(u)].owner # Nil, ~frag[Answered(u)].done
  PROVE  frag'[Answered(u)].done \/ \E t \in SConn : Opened(t)' /\ Answered(u) \in Waits(t)'
<1>1. PICK f : f = Answered(u)
  BY Zenon
<1>2. f \in DOMAIN frag /\ f \in Nat /\ Answer(u).addr \in Addr
  <2>1. DOMAIN frag \subseteq Nat
    BY SeqFacts, SMT DEF TypeOK, FragsType
  <2>2. Answer(u) \in AnswerType
    BY TakeReplyType, Zenon
  <2> QED BY <1>1, <2>1, <2>2, TakeReplyType, Zenon DEF AnswerType
<1>3. CASE SReadDefault(u) \/ SReadMGet(u) \/ SReadMSet(u) \/ SReadDel(u)
  <2>1. Marked(frag, frag', {f})
    BY <1>1, <1>3, AnswerMarksOne, Zenon
  <2> QED BY <1>1, <1>2, <2>1, Zenon DEF Marked
<1>4. CASE SReadTooLarge(u)
  <2>1. frag' = AllDone(msg[frag[f].peer].body)
    BY <1>1, <1>4, Zenon DEF SReadTooLarge, Peer
  <2>2. f \in msg[frag[f].peer].body
    BY <1>1, <1>2, UndoneFrag, Zenon DEF LifeInv
  <2> QED BY <1>1, <1>2, <2>1, <2>2, AllDoneMarked, Zenon DEF Marked
<1>5. ASSUME NEW t \in SConn, SReadMoved(u, t)
      PROVE  \E v \in SConn : Opened(v)' /\ f \in Waits(v)'
  <2>1. msg[frag[f].peer].id # 0
    BY <1>1, <1>2, UndoneFrag, Zenon DEF LifeInv, MsgSound
  <2>2. PoolGet(t) /\ outFragQueue' = [outFragQueue EXCEPT ![t] = Append(@, f)]
    BY <1>1, <1>5, <2>1, Zenon DEF SReadMoved, EnqueueOutFrag
  <2>3. f \in Elems(outFragQueue'[t])
    BY <1>2, <2>2, WaitsJoined, Zenon
  <2>4. sconn'[t] = "open"
    BY <2>2, PoolGetOpens, Zenon DEF TypeOK
  <2> QED BY <2>3, <2>4, Zenon DEF Waits, Opened
<1>6. ~SReadMovedFails(u)
  BY <1>2, Zenon DEF SReadMovedFails, PoolGetNil, Steady, Reachable
<1>7. ~SReadCluster(u) /\ ~SReadLate(u)
  BY Zenon DEF SReadCluster, SReadLate
<1> QED BY <1>1, <1>3, <1>4, <1>5, <1>6, <1>7, Zenon

\* What waits at connection s goes on waiting there when another frag is answered.
LEMMA OthersWait ==
  ASSUME TypeOK, NEW u \in SConn, TakeReply(u),
         \/ SReadCluster(u) \/ SReadMovedFails(u) \/ SReadLate(u) \/ SReadTooLarge(u)
         \/ SReadDefault(u) \/ SReadMGet(u) \/ SReadMSet(u) \/ SReadDel(u)
         \/ \E t \in SConn : SReadMoved(u, t),
         NEW s \in SConn, Opened(s), NEW f \in Waits(s), f # Answered(u)
  PROVE  Opened(s)' /\ f \in Waits(s)'
<1>1. f \in Elems(inFragQueue[s]) => f \in Elems(inFragQueue'[s])
  BY WaitsTaken, Zenon
<1>2. CASE outFragQueue' = outFragQueue /\ sconn' = sconn
  BY <1>1, <1>2, Zenon DEF Waits, Opened
<1>3. ASSUME NEW t \in SConn, SReadMoved(u, t) PROVE Opened(s)' /\ f \in Waits(s)'
  <2>1. /\ PoolGet(t)
        /\ outFragQueue' = outFragQueue \/ outFragQueue' = [outFragQueue EXCEPT ![t] = Append(@, Answered(u))]
    BY <1>3, Zenon DEF SReadMoved, EnqueueOutFrag
  <2>2. Answered(u) \in Nat
    <3>1. DOMAIN frag \subseteq Nat
      BY SeqFacts, SMT DEF TypeOK, FragsType
    <3> QED BY <3>1, TakeReplyType, Zenon
  <2>3. f \in Elems(outFragQueue[s]) => f \in Elems(outFragQueue'[s])
    BY <2>1, <2>2, WaitsAppend, Zenon
  <2>4. sconn'[s] = "open"
    BY <2>1, PoolGetOpens, Zenon DEF TypeOK, Opened
  <2> QED BY <1>1, <2>3, <2>4, Zenon DEF Waits, Opened
<1>4. ASSUME \/ SReadCluster(u) \/ SReadMovedFails(u) \/ SReadLate(u) \/ SReadTooLarge(u)
             \/ SReadDefault(u) \/ SReadMGet(u) \/ SReadMSet(u) \/ SReadDel(u)
      PROVE  outFragQueue' = outFragQueue /\ sconn' = sconn
  BY <1>4, Zenon DEF SReadCluster, SReadMovedFails, SReadLate, SReadTooLarge, SReadDefault, SReadMGet, SReadMSet, SReadDel,
       TakeAnswer
<1> QED BY <1>2, <1>3, <1>4, Zenon

\* A client's frag that is not done goes on waiting at an open connection, until it is
\* done or the client gone.
LEMMA NextWaiting ==
  ASSUME TypeOK, LifeInv, Steady, pools = Addr, NoClosing(tasks), [Next]_vars,
         NEW s \in SConn, Opened(s), NEW f \in DOMAIN frag, f \in Waits(s),
         frag[f].owner # Nil, ~frag[f].done, ~frag'[f].done, cconn'[frag[f].owner] = "open"
  PROVE  \E t \in SConn : Opened(t)' /\ f \in Waits(t)'
<1>1. ASSUME outFragQueue' = outFragQueue, inFragQueue' = inFragQueue, \A t \in SConn : Opened(t) => Opened(t)'
      PROVE  \E t \in SConn : Opened(t)' /\ f \in Waits(t)'
  BY <1>1, Zenon DEF Waits
<1>2. ASSUME NEW g \in DOMAIN frag, NEW t \in SConn, Dispatch(g, t)
      PROVE  Opened(s)' /\ f \in Waits(s)'
  <2>1. PoolGet(t) /\ inFragQueue' = inFragQueue /\ outFragQueue' = [outFragQueue EXCEPT ![t] = Append(@, g)]
    BY <1>2, Zenon DEF Dispatch, EnqueueOutFrag
  <2>2. g \in Nat
    BY SeqFacts, SMT DEF TypeOK, FragsType
  <2>3. f \in Elems(outFragQueue[s]) => f \in Elems(outFragQueue'[s])
    BY <2>1, <2>2, WaitsAppend, Zenon
  <2>4. sconn'[s] = "open"
    BY <2>1, PoolGetOpens, Zenon DEF TypeOK, Opened
  <2> QED BY <2>1, <2>3, <2>4, Zenon DEF Waits, Opened
<1>3. CASE HandleWriteSignal
  <2>1. sconn' = sconn
    BY <1>3, Zenon DEF HandleWriteSignal
  <2>2. f \in Waits(s)'
    BY <1>3, WaitsWritten, Zenon
  <2> QED BY <2>1, <2>2, Zenon DEF Opened
<1>4. CASE WriteClusterNodes
  <2>1. PICK t : t = Head(tasks).conn
    BY Zenon
  <2>2. /\ sconn' = sconn /\ inFragQueue' = inFragQueue /\ tasks # <<>> /\ Head(tasks).op = "cluster"
        /\ outFragQueue' = outFragQueue \/ outFragQueue' = [outFragQueue EXCEPT ![t] = Append(@, Len(frag) + 1)]
    BY <1>4, <2>1, Zenon DEF WriteClusterNodes
  <2>3. t \in SConn
    <3>1. tasks \in Seq(TaskType)
      BY Zenon DEF TypeOK, ControlType
    <3>2. Head(tasks) \in TaskType
      BY <2>2, <3>1, SeqHeadTail, SMT
    <3> QED BY <2>1, <2>2, <3>2, Zenon DEF TaskType
  <2>4. Len(frag) + 1 \in Nat
    BY SMT DEF TypeOK, FragsType
  <2>5. f \in Elems(outFragQueue[s]) => f \in Elems(outFragQueue'[s])
    BY <2>2, <2>3, <2>4, WaitsAppend, Zenon
  <2> QED BY <2>2, <2>5, Zenon DEF Waits, Opened
<1>5. ~CloseTask
  <2>1. tasks # <<>> => Head(tasks) = tasks[1] /\ 1 \in DOMAIN tasks
    BY SeqHeadTail, SMT DEF TypeOK, ControlType
  <2> QED BY <2>1, Zenon DEF CloseTask, RunTask, NoClosing
<1>6. ASSUME NEW u \in SConn, SClose(u) PROVE FALSE
  BY <1>6, Zenon DEF SClose, Steady
<1>7. ASSUME NEW u \in SConn, SReadShutdown(u) PROVE FALSE
  <2>1. cconn' = [c \in Client |-> IF cconn[c] = "open" THEN "closed" ELSE cconn[c]]
    BY <1>7, Zenon DEF SReadShutdown
  <2>2. frag[f].owner \in Client
    BY FragFields, Zenon
  <2> QED BY <2>1, <2>2, Zenon
<1>8. ASSUME NEW u \in SConn,
             \/ SReadCluster(u) \/ SReadMovedFails(u) \/ SReadLate(u) \/ SReadTooLarge(u)
             \/ SReadDefault(u) \/ SReadMGet(u) \/ SReadMSet(u) \/ SReadDel(u)
             \/ \E t \in SConn : SReadMoved(u, t)
      PROVE  \E t \in SConn : Opened(t)' /\ f \in Waits(t)'
  <2>1. TakeReply(u)
    BY <1>8, Zenon DEF SReadCluster, SReadMovedFails, SReadLate, SReadTooLarge, SReadDefault, SReadMGet, SReadMSet, SReadDel,
         SReadMoved, TakeAnswer
  <2>2. CASE f = Answered(u)
    BY <1>8, <2>1, <2>2, AnsweredWaits, Zenon
  <2>3. CASE f # Answered(u)
    BY <1>8, <2>1, <2>3, OthersWait, Zenon
  <2> QED BY <2>2, <2>3, Zenon
<1> QED BY <1>1, <1>2, <1>3, <1>4, <1>5, <1>6, <1>7, <1>8, SameWaits, Zenon DEF Next, OnCReact, RunTasks, SRead

\* Every step keeps the invariant behind RequestUnderway.
LEMMA NextUnderway ==
  ASSUME TypeOK, TypeOK', LifeInv, Steady, UnderwayInv, FragsKept, [Next]_vars, \A c \in Client : ClientStep(c)
  PROVE  UnderwayInv'
<1>1. pools' = Addr /\ slavePools' = Boot.slaves /\ NoClosing(tasks')
  BY NextClosing, Zenon DEF UnderwayInv
<1>2. ASSUME NEW f \in DOMAIN frag', frag'[f].owner # Nil, ~frag'[f].done, cconn'[frag'[f].owner] = "open"
      PROVE  \E t \in SConn : Opened(t)' /\ f \in Waits(t)'
  <2>1. /\ f \in DOMAIN frag /\ ~frag[f].done
        /\ frag'[f].owner = frag[f].owner \/ (handling.op = "react" /\ f \in handling.todo)
    BY <1>2, Zenon DEF FragsKept, Made
  <2>2. CASE frag[f].owner = Nil
    BY <1>2, <2>1, <2>2, DispatchedWaits, Zenon
  <2>3. CASE frag[f].owner # Nil
    <3>1. frag'[f].owner = frag[f].owner
      BY <2>1, <2>3, Zenon DEF LifeInv, ReactOK
    <3>2. frag[f].owner \in Client
      BY <2>1, <2>3, FragFields, Zenon
    <3>3. cconn[frag[f].owner] = "open" /\ cconn'[frag[f].owner] = "open"
      BY <1>2, <2>1, <3>1, <3>2, OwnerStays, Zenon
    <3>4. PICK s \in SConn : Opened(s) /\ f \in Waits(s)
      BY <2>1, <2>3, <3>3, Zenon DEF UnderwayInv
    <3> QED BY <1>2, <2>1, <2>3, <3>3, <3>4, NextWaiting, Zenon DEF UnderwayInv
  <2> QED BY <2>2, <2>3, Zenon
<1> QED BY <1>1, <1>2, Zenon DEF UnderwayInv

\* With it, a request that is not done waits for Redis.
LEMMA UnderwayImplies ==
  ASSUME TypeOK, LifeInv, OwedInv, UnderwayInv, ~RequestTimeout
  PROVE  RequestUnderway
<1> SUFFICES ASSUME NEW c \in Client, NEW m \in Queued(c), ~msg[m].done
             PROVE  \E f \in msg[m].body, s \in SConn : ~frag[f].done /\ Opened(s) /\ f \in Elems(outFragQueue[s]) \cup Sent(s)
  BY Zenon DEF RequestUnderway
<1>1. m \in Live(msg, freeMsgs)
  BY Zenon DEF LifeInv, QueuesOK, Queued, Elems
<1>2. PICK f \in msg[m].body : ~frag[f].done
  BY <1>1, Zenon DEF LifeInv, MsgsOK, Partial
<1>3. f \in DOMAIN frag /\ frag[f].owner = c /\ cconn[c] = "open" /\ c # Nil
  <2>1. msg[m].body \subseteq DOMAIN frag
    BY <1>1, Zenon DEF LifeInv, MsgsOK, MsgSound
  <2>2. c # Nil
    BY ProxyAssumption, Zenon
  <2>3. cconn[c] = "open" /\ \A g \in msg[m].body : frag[g].owner = c
    BY Zenon DEF OwedInv
  <2> QED BY <1>2, <2>1, <2>2, <2>3, Zenon
<1>4. PICK s \in SConn : Opened(s) /\ f \in Waits(s)
  BY <1>2, <1>3, Zenon DEF UnderwayInv
<1> QED BY <1>2, <1>4, Zenon DEF Waits, Sent
-----------------------------------------------------------------------------
(* The initial states.                                                      *)

\* Nothing waits for Redis at the start.
LEMMA InitFlight ==
  ASSUME Init
  PROVE  FlightInv /\ LateInv /\ AnswerKinds /\ TimeoutArmed /\ NoPanic
<1>1. /\ handling.op = "idle" /\ status = "running" /\ timeoutTree = <<>>
      /\ \A s \in SConn : outFragQueue[s] = <<>> /\ inFragQueue[s] = <<>> /\ fromRedis[s] = <<>>
  BY Zenon DEF Init, Idle
<1>2. DOMAIN <<>> = {} /\ Elems(<<>>) = {}
  BY DEF Elems
<1>3. \A s \in SConn : Waits(s) = {} /\ Sent(s) = {}
  BY <1>1, <1>2, Zenon DEF Waits, Sent
<1>4. FlightInv
  <2>1. Distinct(<<>>, <<>>)
    BY <1>2, Zenon DEF Distinct, NoDup
  <2>2. \A s \in SConn : Distinct(outFragQueue[s], inFragQueue[s])
    BY <1>1, <2>1, Zenon
  <2> QED BY <1>1, <1>3, <2>2, Zenon DEF FlightInv
<1>5. TimeoutArmed
  <2>1. UNION {Sent(s) : s \in SConn} = {}
    BY <1>3, Zenon
  <2> QED BY <1>1, <1>2, <2>1, Zenon DEF TimeoutArmed
<1>6. LateInv /\ AnswerKinds /\ NoPanic
  BY <1>1, <1>2, <1>3, Zenon DEF LateInv, AnswerKinds, NoPanic
<1> QED BY <1>4, <1>5, <1>6, Zenon

\* Nobody waits for anything at the start.
LEMMA InitClients ==
  ASSUME Init
  PROVE  /\ OwedInv /\ DataInv /\ OrderInv /\ OnceInv /\ ClientKept
         /\ Steady => UnderwayInv
<1>1. /\ frag = <<>> /\ tasks = <<>> /\ handling.op = "idle"
      /\ pools = Boot.nodes /\ slavePools = Boot.slaves
      /\ \A c \in Client : /\ asked[c] = <<>> /\ inMsgQueue[c] = <<>> /\ toClient[c] = <<>>
                           /\ cconn[c] = "new"
  BY Zenon DEF Init, Idle
<1>2. DOMAIN <<>> = {} /\ Elems(<<>>) = {} /\ Len(<<>>) = 0
  BY DEF Elems
<1>3. \A c \in Client : Queued(c) = {} /\ ~Reacting(c)
  BY <1>1, <1>2, Zenon DEF Queued, Reacting, Elems
<1>4. OwedInv /\ ClientKept
  BY <1>1, <1>2, <1>3, Zenon DEF OwedInv, ClientKept
<1>5. DataInv
  BY <1>1, <1>2, <1>3, Zenon DEF DataInv, QueuedInOrder
<1>6. OrderInv
  <2>1. ASSUME NEW c \in Client PROVE Lined(c)
    <3>1. ~Reacting(c) /\ inMsgQueue[c] = <<>> /\ Len(asked[c]) = 0 /\ Len(toClient[c]) = 0
      BY <1>1, <1>2, <1>3, Zenon
    <3>2. Len(asked[c]) = Len(toClient[c]) + Len(inMsgQueue[c]) + (IF Reacting(c) THEN 1 ELSE 0)
      BY <1>2, <3>1, SMT
    <3> QED BY <1>2, <3>1, <3>2, Zenon DEF Lined
  <2>2. InOrder
    BY <1>1, <1>2, Zenon DEF InOrder
  <2> QED BY <1>1, <1>2, <2>1, <2>2, Zenon DEF OrderInv
<1>7. OnceInv
  <2>1. Due = {} /\ \A c \in Client : Out(c) = {}
    BY <1>1, <1>2, Zenon DEF Due, Out
  <2> QED BY <1>1, <1>2, <1>3, <2>1, Zenon DEF OnceInv, DueOnce, OnceFor
<1>8. Steady => UnderwayInv
  BY <1>1, <1>2, Zenon DEF Steady, UnderwayInv, NoClosing
<1> QED BY <1>4, <1>5, <1>6, <1>7, <1>8, Zenon
=============================================================================

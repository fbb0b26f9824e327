----------------------------- MODULE ProxyProofs ----------------------------
(***************************************************************************)
(* The theorems about Proxy, for any number of clients, nodes, slots,      *)
(* requests and connections: TypeOK, the invariants of its connections and *)
(* pools, and, as long as OnCReact never gives up on a request halfway,    *)
(* what its clients can rely on.                                           *)
(***************************************************************************)
EXTENDS ProxyMsgProofs, ProxyTypeProofs, ProxyServerProofs, ProxyRequestProofs, ProxyLateProofs

USE DEF vars, control, msgVars, clientVars, serverVars, timeoutVars, poolVars, redisVars

LOCAL INSTANCE FiniteSetTheorems

\* The library's theorems about finite sets are those the lemmas rest on.
LEMMA FiniteSetsHold == FiniteSetFacts
<1>1. IsFiniteSet({}) /\ Cardinality({}) = 0
  BY FS_EmptySet, Zenon
<1>2. \A S : IsFiniteSet(S) => Cardinality(S) \in Nat
  BY FS_CardinalityType, Zenon
<1>3. \A S : IsFiniteSet(S) =>
        \A T \in SUBSET S : /\ IsFiniteSet(T) /\ Cardinality(T) <= Cardinality(S)
                            /\ Cardinality(S) = Cardinality(T) => S = T
  BY FS_Subset, Zenon
<1>4. \A S : IsFiniteSet(S) =>
        \A x : /\ IsFiniteSet(S \cup {x})
               /\ Cardinality(S \cup {x}) = IF x \in S THEN Cardinality(S) ELSE Cardinality(S) + 1
  BY FS_AddElement, Zenon
<1>5. \A a, b \in Int : IsFiniteSet(a .. b)
  BY FS_Interval, Zenon
<1> QED BY <1>1, <1>2, <1>3, <1>4, <1>5, PTL DEF FiniteSetFacts
-----------------------------------------------------------------------------
(* Every step of the event loop, of the clients and of Redis.               *)

\* It keeps the types.
LEMMA NextType ==
  ASSUME TypeOK, Next
  PROVE  TypeOK'
<1>1. CASE \E c \in Client : Accept(c) \/ CClose(c) \/ CReactNil(c)
  BY <1>1, AcceptType, CCloseType, PanicType, Zenon DEF CReactNil
<1>2. CASE \E c \in Client, m \in freeMsgs \cup {Len(msg) + 1} :
             CReactImmediate(c, m) \/ \E q \in Requests : CReact(c, q, m)
  BY <1>2, ProxyAssumption, CReactImmediateType, CReactType, Zenon
<1>3. CASE OnCReact
  BY <1>3, ProxyAssumption, DispatchType, DispatchFailsType, Zenon DEF OnCReact
<1>4. CASE RunTasks
  BY <1>4, ProxyAssumption, HandleWriteSignalType, WriteClusterNodesType, CloseTaskType,
     AsyncWriteType, Zenon DEF RunTasks
<1>5. ASSUME NEW s \in SConn, SRead(s) PROVE TypeOK'
  BY <1>5, FiniteSetsHold, BodiesAreFinite, SReadDropsType, SReadAnswersType, SReadMovedType,
     PanicType, SReadShutdownType, Zenon DEF SRead, SReadMGetPanics
<1>6. ASSUME NEW s \in SConn, SClose(s) \/ Execute(s) PROVE TypeOK'
  BY <1>6, ProxyAssumption, SCloseType, ExecuteType, Zenon
<1>7. CASE \E f \in DOMAIN timeoutTree : MsgTimeout(f)
  BY <1>7, ProxyAssumption, MsgTimeoutType, Zenon
<1>8. CASE Ticker \/ (\E t \in Topologies : TickerChanged(t)) \/ Reload
  BY <1>8, ProxyAssumption, TickerType, TickerChangedType, TickerLoadType, ReleaseType,
     Zenon DEF Reload
<1>9. CASE \E k \in Slot : Migrated(k) \/ \E a \in Addr : Migrate(k, a)
  BY <1>9, ProxyAssumption, MigrationType, Zenon
<1> QED BY <1>1, <1>2, <1>3, <1>4, <1>5, <1>6, <1>7, <1>8, <1>9, Zenon DEF Next

\* It keeps what holds of requests.
LEMMA NextLife ==
  ASSUME NoPartial, TypeOK, TypeOK', LifeInv, RouteInv, WireMatch, [Next]_vars
  PROVE  LifeInv'
<1>1. CASE Quiet
  BY <1>1, QuietLife, Zenon
<1>2. ASSUME NEW c \in Client, NEW m \in freeMsgs \cup {Len(msg) + 1}, CReactImmediate(c, m)
      PROVE  LifeInv'
  BY <1>2, CReactImmediateLife, Zenon
<1>3. ASSUME NEW c \in Client, NEW m \in freeMsgs \cup {Len(msg) + 1}, NEW q \in Requests, CReact(c, q, m)
      PROVE  LifeInv'
  BY <1>3, FiniteSetsHold, CReactLife, Zenon
<1>4. CASE OnCReact
  BY <1>4, GiveUpWhole, DispatchFailsLife, DispatchLife, Zenon DEF OnCReact
<1>5. CASE AsyncWrite
  BY <1>5, AsyncWriteLife, Zenon
<1>6. CASE \E s \in SConn : SReadTooLarge(s) \/ SReadDefault(s) \/ SReadMGet(s) \/ SReadMSet(s) \/ SReadDel(s)
  BY <1>6, FiniteSetsHold, SReadTooLargeLife, SReadDefaultLife, SReadMGetLife, SReadMSetLife, SReadDelLife,
     Zenon
<1>7. CASE \E f \in DOMAIN timeoutTree : MsgTimeout(f)
  <2>1. RequestTimeout
    BY <1>7, Zenon DEF RouteInv
  <2> QED BY <1>7, <2>1, FiniteSetsHold, MsgTimeoutLife, Zenon
<1> QED BY <1>1, <1>2, <1>3, <1>4, <1>5, <1>6, <1>7, QuietOrBusy, Zenon DEF BusyStep

\* What a step does to Msgs, Frags, tasks and clients.
StepsOK ==
  MsgsStep /\ TasksStep /\ FragsKept /\ StuckStays /\ \A c \in Client : ClientStep(c)

\* It does no more to them than that.
LEMMA NextSteps ==
  ASSUME TypeOK, TypeOK', LifeInv, [Next]_vars
  PROVE  StepsOK
<1>1. Quiet \/ BusyStep
  BY QuietOrBusy, Zenon
<1>2. FragsKept
  BY NextFragsKept, Zenon
<1>3. StuckStays
  BY <1>2, NextStuck, Zenon DEF StuckStays
<1> QED BY <1>1, <1>2, <1>3, NextMsgs, NextTasks, NextClient, Zenon DEF StepsOK
-----------------------------------------------------------------------------
(* Connections and pools.                                                   *)

\* No queue, handler, timeout entry, Msg or Frag of the proxy ever refers to a
\* Msg or Frag that does not exist, and every variable keeps its type.
THEOREM ProxyTypeOK == Spec => []TypeOK
<1>1. TypeOK /\ [Next]_vars => TypeOK'
  BY NextType, StutterType, Zenon
<1> QED BY <1>1, InitType, PTL DEF Spec

\* Decode pairs every reply with the frag it answers, on every connection at all
\* times, although replies carry no identifier: through batched writes, closed
\* connections, redirections, timeouts and reloads of the topology.
THEOREM ProxyWireMatch == Spec => []WireMatch
<1>1. Init => WireMatch
  BY InitServers, Zenon
<1> QED BY <1>1, WireKept, ProxyTypeOK, PTL DEF Spec

\* While the loop runs, a connection with frags to send has a write task: no
\* request stays behind in an outFragQueue (EnqueueOutFrag, handleWriteSignal).
THEOREM ProxySignalPending == Spec => []SignalPending
<1>1. Init => SignalInv
  BY InitServers, Zenon
<1>2. TypeOK /\ SignalInv /\ [Next]_vars => SignalInv'
  BY NextSignal, SignalStepKeeps, Zenon
<1> QED BY <1>1, <1>2, SignalInvImplies, ProxyTypeOK, PTL DEF Spec

\* What holds of the pools at all times.
LEMMA AlwaysPools == Spec => [](PoolBound /\ NoLeak)
<1>1. Init => PoolBound /\ NoLeak
  BY InitBound, InitServers, Zenon
<1> QED BY <1>1, PoolsKept, ProxyTypeOK, PTL DEF Spec

\* A pool never has more than RedisServerConnections connections in its list,
\* however connections fail, are dialed again or are rotated (Pool.Get).
THEOREM ProxyPoolBound == Spec => []PoolBound
BY AlwaysPools, PTL

\* While the loop runs, no open connection to Redis is forgotten: it is in the
\* pool of its node or a task will close it (Pool.Get, Pool.Close, ticker).
THEOREM ProxyNoLeak == Spec => []NoLeak
BY AlwaysPools, PTL
-----------------------------------------------------------------------------
(* Requests.                                                                *)

\* What holds of requests at all times.
LEMMA AlwaysLife == NoPartial /\ Spec => [](TypeOK /\ LifeInv /\ RouteInv)
<1> SUFFICES ASSUME NoPartial PROVE Spec => [](TypeOK /\ LifeInv /\ RouteInv)
  OBVIOUS
<1>1. TypeOK /\ TypeOK' /\ WireMatch /\ LifeInv /\ RouteInv /\ [Next]_vars => (LifeInv /\ RouteInv)'
  BY NextLife, NextRoute, Zenon
<1> QED BY <1>1, InitLife, ProxyTypeOK, ProxyWireMatch, PTL DEF Spec

\* The proxy never mixes up replies: a client gets replies to its own requests
\* only, and the data in each is that of all the frags of that request and of no
\* other, although Msgs are recycled, replies carry no identifier, frags time out,
\* are redirected, or come back after their client has gone.  Where OnCReact can
\* give up on a request halfway this is false (the run stale_msg shows how).
THEOREM ProxyRepliesOwn == NoPartial /\ Spec => []RepliesOwn
<1>1. LifeInv => RepliesOwn
  BY Zenon DEF LifeInv
<1> QED BY <1>1, AlwaysLife, PTL

\* A Msg is Done only when all its frags are (Msg.Done), whichever of them fails,
\* times out or is answered last.
THEOREM ProxyDoneMeansAll == NoPartial /\ Spec => []DoneMeansAll
BY LifeDone, AlwaysLife, PTL

\* FragDoneNumber is the number of frags that are done, for as long as no request
\* times out: msgTimeout marks frags that nobody counts.
THEOREM ProxyFragDoneNumberExact == NoPartial /\ ~RequestTimeout /\ Spec => []FragDoneNumberExact
<1> SUFFICES ASSUME ~RequestTimeout PROVE NoPartial /\ Spec => []FragDoneNumberExact
  OBVIOUS
<1>1. TypeOK /\ LifeInv => FragDoneNumberExact
  BY LifeCount, Zenon
<1> QED BY <1>1, AlwaysLife, PTL

\* What holds of the frags a client is owed, at all times.
LEMMA AlwaysOwed == NoPartial /\ Spec => []OwedInv
<1>1. Init => OwedInv
  BY InitClients, Zenon
<1>2. TypeOK /\ TypeOK' /\ LifeInv /\ LifeInv' /\ OwedInv /\ [Next]_vars => OwedInv'
  BY NextSteps, NextOwed, Zenon DEF StepsOK
<1> QED BY <1>1, <1>2, AlwaysLife, PTL DEF Spec

\* A client gets at most one reply to each of its requests, be it the data, an
\* error or the error of msgTimeout: a request that timed out is never answered
\* again when its data comes after all.
THEOREM ProxyAtMostOnce == NoPartial /\ Spec => []AtMostOnce
<1>1. Init => OnceInv
  BY InitClients, Zenon
<1>2. TypeOK /\ TypeOK' /\ LifeInv /\ LifeInv' /\ OwedInv /\ OnceInv /\ [Next]_vars => OnceInv'
  BY NextSteps, NextOnce, Zenon DEF StepsOK
<1> QED BY <1>1, <1>2, OnceImplies, AlwaysLife, AlwaysOwed, PTL DEF Spec

\* A client gets the data of its requests in the order in which it asked, whichever
\* node answers first and whatever the proxy itself says in between (EnqueueInMsg,
\* sread).
THEOREM ProxyQueuedInOrder == NoPartial /\ Spec => []QueuedInOrder
<1>1. Init => DataInv
  BY InitClients, Zenon
<1>2. TypeOK /\ TypeOK' /\ LifeInv /\ LifeInv' /\ DataInv /\ [Next]_vars => DataInv'
  BY NextSteps, NextData, Zenon DEF StepsOK
<1>3. DataInv => QueuedInOrder
  BY Zenon DEF DataInv
<1> QED BY <1>1, <1>2, <1>3, AlwaysLife, PTL DEF Spec

\* Pipelined requests are answered in order, without exception, where nothing is
\* answered out of turn: every node can be dialed, OnCReact has no reply of its own
\* and no request times out.
THEOREM ProxyInOrder ==
  Reachable /\ "immediate" \notin Faults /\ ~RequestTimeout /\ Spec => []InOrder
<1> SUFFICES ASSUME Reachable, "immediate" \notin Faults, ~RequestTimeout PROVE Spec => []InOrder
  OBVIOUS
<1>0. NoPartial
  BY Zenon DEF NoPartial
<1>1. Init => OrderInv
  BY InitClients, Zenon
<1>2. TypeOK /\ TypeOK' /\ LifeInv /\ LifeInv' /\ RouteInv /\ OrderInv /\ [Next]_vars => OrderInv'
  BY NextSteps, NextOrder, Zenon DEF StepsOK
<1>3. OrderInv => InOrder
  BY Zenon DEF OrderInv
<1> QED BY <1>0, <1>1, <1>2, <1>3, AlwaysLife, PTL DEF Spec
-----------------------------------------------------------------------------
(* Frags that were sent.                                                    *)

\* Where frags wait, at all times.
LEMMA AlwaysFlight == Spec => []FlightInv
<1>1. Init => FlightInv
  BY InitFlight, Zenon
<1> QED BY <1>1, NextFlight, ProxyTypeOK, PTL DEF Spec

\* No frag waits twice: it is in the queues of one connection, once, whether it is
\* still to be sent or a reply to it is due, through redirections, errors and
\* reloads (EnqueueOutFrag, enqueueInFrag, sread).
THEOREM ProxyUniqueInFlight == Spec => []UniqueInFlight
<1>1. TypeOK /\ FlightInv => UniqueInFlight
  BY FlightInvImplies, Zenon DEF TypeOK
<1> QED BY <1>1, AlwaysFlight, ProxyTypeOK, PTL

\* With a request timeout every frag that waits for its reply is in the timeout
\* tree, and nothing else is (enqueueInFrag, dequeueInFrag, msgTimeout).
THEOREM ProxyTimeoutArmed == NoPartial /\ Spec => []TimeoutArmed
<1>1. Init => TimeoutArmed
  BY InitFlight, Zenon
<1> QED BY <1>1, NextArmed, AlwaysLife, AlwaysFlight, PTL DEF Spec

\* How Redis answers, at all times.
LEMMA AlwaysKinds == Spec => []AnswerKinds
<1>1. Init => AnswerKinds
  BY InitFlight, Zenon
<1> QED BY <1>1, NextKinds, ProxyTypeOK, PTL DEF Spec

\* The loop never panics as long as Redis answers with data or redirections and
\* no client sends an array of no elements (for which Decode returns neither a Msg
\* nor an error): a frag that is answered after it timed out finds a Msg that was
\* not put back, and an mget is put together only when every one of its frags has
\* its reply.
THEOREM ProxyNoPanic ==
  NoPartial /\ Faults \cap {"error", "large", "auth", "empty"} = {} /\ Spec => []NoPanic
<1> SUFFICES ASSUME Faults \cap {"error", "large", "auth", "empty"} = {}
             PROVE  NoPartial /\ Spec => []NoPanic
  OBVIOUS
<1>0. Faults \cap {"error", "large", "auth"} = {}
  BY Zenon
<1>1. Init => LateInv /\ NoPanic
  BY InitFlight, Zenon
<1>2. TypeOK /\ LifeInv /\ FlightInv /\ AnswerKinds /\ LateInv /\ [Next]_vars => LateInv'
  BY <1>0, NextLate, NextWaits, Zenon
<1>3. TypeOK /\ LifeInv /\ LateInv /\ AnswerKinds /\ NoPanic /\ [Next]_vars => NoPanic'
  BY FiniteSetsHold, NextNoPanic, Zenon
<1> QED BY <1>1, <1>2, <1>3, AlwaysLife, AlwaysFlight, AlwaysKinds, PTL DEF Spec

\* The proxy closes no client that behaves: where no client leaves or fails to
\* read, none is refused or told something by OnCReact itself, and Redis asks for
\* no password, a client that was accepted stays connected.
THEOREM ProxyClientKept ==
  NoPartial /\ Faults \cap {"clientClose", "clientWrite", "unauthorized", "immediate", "auth"} = {}
    /\ Spec => []ClientKept
<1> SUFFICES ASSUME Faults \cap {"clientClose", "clientWrite", "unauthorized", "immediate", "auth"} = {}
             PROVE  NoPartial /\ Spec => []ClientKept
  OBVIOUS
<1>1. Init => ClientKept
  BY InitClients, Zenon
<1>2. TypeOK /\ OwedInv /\ AnswerKinds /\ ClientKept /\ [Next]_vars => ClientKept'
  BY NextConns, Zenon
<1> QED BY <1>1, <1>2, AlwaysLife, AlwaysOwed, AlwaysKinds, PTL DEF Spec

\* No request is lost: where no connection to Redis fails and no request times
\* out, a request that is not done has a frag at an open connection, still to be
\* sent or waiting for its reply, through redirections and through reloads that
\* remove no node and change no role (a node that is gone, or is now a slave, has
\* its connections closed with the frags on them: Release).
THEOREM ProxyRequestUnderway == Steady /\ ~RequestTimeout /\ Spec => []RequestUnderway
<1> SUFFICES ASSUME Steady, ~RequestTimeout PROVE Spec => []RequestUnderway
  OBVIOUS
<1>0. NoPartial
  BY Zenon DEF NoPartial, Steady
<1>1. Init => UnderwayInv
  BY InitClients, Zenon
<1>2. TypeOK /\ TypeOK' /\ LifeInv /\ UnderwayInv /\ [Next]_vars => UnderwayInv'
  BY NextSteps, NextUnderway, Zenon DEF StepsOK
<1>3. TypeOK /\ LifeInv /\ OwedInv /\ UnderwayInv => RequestUnderway
  BY UnderwayImplies, Zenon
<1> QED BY <1>0, <1>1, <1>2, <1>3, AlwaysLife, AlwaysOwed, PTL DEF Spec
=============================================================================

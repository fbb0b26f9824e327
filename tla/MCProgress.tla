------------------------------ MODULE MCProgress ------------------------------
(* What must happen in the end, in the parts around the event loop: bytes reach   *)
(* the peer, a Dequeue ends, overdue frags are reported, a new connection to     *)
(* Redis answers its frags, the pools recover, the topology is followed, a       *)
(* shutdown completes. They are checked side by side: turn names the part that   *)
(* runs, the others keep their initial state. Instances are small: liveness is   *)
(* checked on every cycle of the state graph.                                  *)
EXTENDS BufferSizes, TLC

VARIABLES turn,
          outboundBuffer, opened, fd, interest, bs, oPc, sock, peer, lost, stray, oRet, oArrived, oTaken,
          head, tail, length, value, next, qPc, loc, qTaken, sawEmpty,
          now, Timeout, out, sent, Done, timeoutTree, reported, round,
          initStep, initStatus, inFragQueue, written, wire, inbound, answer, sread, accepted,
          up, master, slaves, pool, mpc, req, failovers,
          cluster, changes, asked, clusterChan, gpc, allNodes, serverMap, replicasets,
          lastServerNames, serverChanged, tpc, proxyPool, proxyAddrs, slots2Node,
          main, el, epoll, loop, connections, allEngines, once, urgent, inShutdown, stop

Line(addr, role, masterId, slots) ==
  [addr |-> addr, role |-> role, masterId |-> masterId, slots |-> slots,
   flags |-> "ok", link |-> "connected", loading |-> FALSE, up |-> TRUE]

(* Two masters and a slave; a failover with a new slave; a slot that has moved    *)
(* to n2; a slot without a master.                                             *)
Steady == {Line("n1", "master", "", <<<<0, 1>>>>), Line("n2", "master", "", <<<<2>>>>),
           Line("n3", "slave", "n1", << >>)}
Failover == {[Line("n1", "master", "", <<<<0, 1>>>>) EXCEPT !.flags = "fail"],
             Line("n2", "master", "", <<<<2>>>>), Line("n3", "master", "", <<<<0, 1>>>>),
             Line("n4", "slave", "n3", << >>)}
Migrated == {Line("n1", "master", "", <<<<0>>, << >>>>), Line("n2", "master", "", <<<<1, 2>>>>),
             Line("n3", "slave", "n1", << >>)}
Uncovered == {Line("n1", "master", "", <<<<0>>>>), Line("n2", "master", "", <<<<2>>>>),
              Line("n3", "slave", "n1", << >>)}

Out == INSTANCE Outbound WITH
  maxStaticBytes <- 1, PoolSizes <- {0}, iovMax <- 2, SndBuf <- 1, MaxBuffered <- 1,
  Slices <- {<<<<0>>>>, <<<<0>>, <<0>>, <<0>>>>}, PeerFails <- TRUE, Closes <- TRUE,
  pc <- oPc, ret <- oRet, arrived <- oArrived, taken <- oTaken
Tasks == INSTANCE LockFreeQueue WITH
  Nodes <- 1..3, nil <- 0, Tasks <- {"t1"}, Producers <- {"p1", "p2"}, Consumers <- {"c1"},
  pc <- qPc, taken <- qTaken
Deadlines == INSTANCE Timeouts WITH
  Frags <- 1..3, Peer <- (1 :> "a") @@ (2 :> "a") @@ (3 :> "b"), RequestTimeout <- 2, Horizon <- 6,
  Coarse <- FALSE
Opening == INSTANCE ServerInit WITH
  Commands <- {<<>>, <<"AUTH">>, <<"READONLY">>, <<"AUTH", "READONLY">>},
  InitReplies <- {"+OK", "-ERR invalid password", "-LOADING"}, Kinds <- {"+OK", "$bulk"}, MaxFrags <- 3
Pools == INSTANCE RedisPool WITH
  Node <- {"m", "s1"}, InitMaster <- "m", InitSlaves <- <<"s1">>, MaxOrder <- 1, maxActive <- 1,
  MaxFailovers <- 0, Removal <- TRUE, Fragile <- {"s1"}
Topology == INSTANCE Cluster WITH
  Node <- {"n1", "n2", "n3", "n4"}, Slot <- {0, 1, 2},
  Layouts <- {Steady, Failover, Migrated, Uncovered}, Seeds <- {"n1"}, MinNodes <- 3,
  ChanCap <- 3, MaxAsked <- 2, MaxChanges <- 0, Faults <- {}
Shutdown == INSTANCE Engine WITH Stoppers <- {"s1", "s2"}

outVars == <<outboundBuffer, opened, fd, interest, bs, oPc, sock, peer, lost, stray, oRet, oArrived, oTaken>>
taskVars == <<head, tail, length, value, next, qPc, loc, qTaken, sawEmpty>>
timeoutVars == <<now, Timeout, out, sent, Done, timeoutTree, reported, round>>
openVars == <<initStep, initStatus, inFragQueue, written, wire, inbound, answer, sread, accepted>>
poolVars == <<up, master, slaves, pool, mpc, req, failovers>>
clusterVars == <<cluster, changes, asked, clusterChan, gpc, allNodes, serverMap, replicasets,
                 lastServerNames, serverChanged, tpc, proxyPool, proxyAddrs, slots2Node>>
engineVars == <<main, el, epoll, loop, connections, allEngines, once, urgent, inShutdown, stop>>
vars == <<turn, outVars, taskVars, timeoutVars, openVars, poolVars, clusterVars, engineVars>>

(* A component with several initial states starts in one of them when idle.     *)
Init ==
  /\ turn \in {"outbound", "tasks", "deadlines", "opening", "pools", "topology", "shutdown"}
  /\ Out!Init /\ Tasks!Init /\ Deadlines!Init
  /\ Opening!Init /\ (turn # "opening" => initStep = 0)
  /\ Pools!Init
  /\ Topology!Init /\ (turn # "topology" => cluster = Steady)
  /\ Shutdown!Init

Next ==
  \/ /\ turn = "outbound" /\ Out!Next
     /\ UNCHANGED <<turn, taskVars, timeoutVars, openVars, poolVars, clusterVars, engineVars>>
  \/ /\ turn = "tasks" /\ Tasks!Next
     /\ UNCHANGED <<turn, outVars, timeoutVars, openVars, poolVars, clusterVars, engineVars>>
  \/ /\ turn = "deadlines" /\ Deadlines!Next
     /\ UNCHANGED <<turn, outVars, taskVars, openVars, poolVars, clusterVars, engineVars>>
  \/ /\ turn = "opening" /\ Opening!Next
     /\ UNCHANGED <<turn, outVars, taskVars, timeoutVars, poolVars, clusterVars, engineVars>>
  \/ /\ turn = "pools" /\ Pools!Next
     /\ UNCHANGED <<turn, outVars, taskVars, timeoutVars, openVars, clusterVars, engineVars>>
  \/ /\ turn = "topology" /\ Topology!Next
     /\ UNCHANGED <<turn, outVars, taskVars, timeoutVars, openVars, poolVars, engineVars>>
  \/ /\ turn = "shutdown" /\ Shutdown!Next
     /\ UNCHANGED <<turn, outVars, taskVars, timeoutVars, openVars, poolVars, clusterVars>>

(* The fairness of each component, while it runs.                               *)
Fairness ==
  /\ WF_outVars(turn = "outbound" /\ Out!LoopStep)
  /\ WF_outVars(turn = "outbound" /\ Out!OutEvent)
  /\ WF_outVars(turn = "outbound" /\ (Out!FlushStep \/ Out!FlushEnd))
  /\ WF_outVars(turn = "outbound" /\ Out!Drain)
  /\ WF_taskVars(turn = "tasks" /\ Tasks!DequeueRest("c1"))
  /\ WF_timeoutVars(turn = "deadlines" /\ Deadlines!Tick)
  /\ WF_timeoutVars(turn = "deadlines" /\ Deadlines!EventsHandled)
  /\ WF_timeoutVars(turn = "deadlines" /\ Deadlines!MsgTimeout)
  /\ WF_openVars(turn = "opening" /\ Opening!SReadStep)
  /\ WF_poolVars(turn = "pools" /\ Pools!Serve)
  /\ \A a \in {"m", "s1"} : WF_poolVars(turn = "pools" /\ Pools!Monitor(a))
  /\ WF_clusterVars(turn = "topology" /\ Topology!Goroutine)
  /\ WF_clusterVars(turn = "topology" /\ Topology!Ticker)
  /\ WF_clusterVars(turn = "topology" /\ Topology!SRead)
  /\ WF_engineVars(turn = "shutdown" /\ Shutdown!MainStep)
  /\ WF_engineVars(turn = "shutdown" /\ Shutdown!LoopStep)
  /\ \A t \in {"s1", "s2"} : WF_engineVars(turn = "shutdown" /\ Shutdown!StopStep(t))

Spec == Init /\ [][Next]_vars /\ Fairness

-----------------------------------------------------------------------------
(* The poller stays open while the loop runs, and a Stop that returned nil left   *)
(* no loop and no connection behind (engine.stop, Stop).                        *)
StopMeansStopped == turn = "shutdown" => Shutdown!StopMeansStopped

(* Every byte a handler has written reaches the peer, unless the connection is    *)
(* closed or reset (write, writev, el.write).                                   *)
Delivered == Out!Delivered

(* A Dequeue ends even when a producer stops for ever in the middle of Enqueue.   *)
DequeueEnds == Tasks!DequeueEnds

(* A frag Redis has not answered stays in the timeout tree until its request is   *)
(* done, and while rounds with events go on, msgTimeout reaches every overdue     *)
(* frag (PushToTimeoutQueue, DeleteFromTimeoutQueue, msgTimeout).               *)
OverdueReported == [](turn = "deadlines" => Deadlines!Armed) /\ Deadlines!OverdueReported

(* When Redis accepts AUTH and READONLY, every frag sent behind them is answered, *)
(* with the reply to its own command, however the stream is cut, and sread never  *)
(* meets a reply it can do nothing with (SInitCodec.Decode, sread).              *)
FragsAnswered ==
  /\ [](turn = "opening" => Opening!OwnReplies /\ Opening!SpinsOnlyIfRefused)
  /\ Opening!FragsAnswered

(* A node that is up for good does not stay flagged, and the monitor of a closed  *)
(* pool ends (monitor, getConn, Close).                                         *)
Recovers == Pools!Recovers /\ Pools!MonitorEnds

(* A cluster that stays as it is ends up in use (ticker, loopClusterNodes).       *)
FollowsCluster == turn = "topology" => Topology!FollowsCluster

(* A signal that finds serve waiting shuts the engine down (signalShutdown,       *)
(* stop, Stop).                                                                *)
ShutdownCompletes == Shutdown!ShutdownCompletes
=============================================================================

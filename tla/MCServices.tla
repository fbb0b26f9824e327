------------------------------ MODULE MCServices ------------------------------
(* The protocol and the services around the event loop: decoding requests and    *)
(* replies, the hash slots of keys, the topology of the cluster, the pools of    *)
(* its nodes, the synchronous client, the list of addresses. They are checked    *)
(* side by side: turn names the one that runs, the others keep their initial     *)
(* state.                                                                      *)
EXTENDS Resp

VARIABLES turn,
          sent, qWire, qInbound, decoded, qConn,
          asked, msgs, inFrags, replies, rWire, rInbound,
          key,
          cluster, changes, underway, clusterChan, gpc, allNodes, serverMap, replicasets,
          lastServerNames, serverChanged, tpc, proxyPool, proxyAddrs, slots2Node,
          up, master, slaves, pool, mpc, req, failovers,
          pc, err, pending, left, failed, written, bw, toRedis, toClient, bad, owed, results,
          file, events, alive, todo, enable, ipMap, saves, last

K(x) == <<Char(x)>>

(* One or two requests of a client, with keys and values that are empty or       *)
(* contain CR and LF, wrong numbers of arguments, commands in capitals, unknown  *)
(* or empty; one of the two may be an array header of no request.               *)
Call(c, u, as) == [cmd |-> c, upper |-> u, args |-> as]
Calls == { Call("get", TRUE, <<K("a")>>), Call("ping", FALSE, <<>>), Call("keys", FALSE, <<K("a")>>),
           Call("mget", TRUE, <<K("a"), K("b"), K("a")>>),
           Call("del", FALSE, <<<<LF, Char("k")>>, K("a"), K("b")>>),
           Call("mset", FALSE, <<K("a"), <<>>, K("b"), <<LF>>>>),
           Call("mset", TRUE, <<K("a"), K("b"), K("c")>>),
           Call("eval", FALSE, <<<<>>, K("a"), K("b")>>), Call("eval", FALSE, <<K("b"), K("a")>>),
           Call("set", FALSE, <<<<>>, <<CR, LF>>>>), Call("", FALSE, <<K("a")>>) }
Packets == { Call(h, FALSE, <<>>) : h \in {"empty", "null", "blank", "garbled"} }
RequestSlot(k) == IF k = K("a") THEN 1 ELSE IF k = <<>> THEN 3 ELSE 2

(* Pairs of requests whose fragments two shards answer: values that are empty,   *)
(* absent or a line feed, keys asked for twice, nested arrays.                  *)
Many(t, ks) == [type |-> t, keys |-> ks]
Answered(r) == [type |-> "default", reply |-> r]
Nested == <<Length("*", 2)>> \o CRLF \o Bulk(<<CR, LF>>)
          \o <<Length("*", 2)>> \o CRLF \o <<Length(":", 7)>> \o CRLF \o NilBulk
Asked == { Many("mget", <<K("b"), K("a"), K("c"), K("b")>>), Many("mset", <<K("a"), K("b")>>),
           Many("mget", <<K("c"), K("a"), K("a"), K("b"), K("b")>>),
           Many("del", <<K("b"), K("a"), K("c")>>), Answered(Nested), Answered(Bulk(<<LF, LF>>)) }
ReplySlot(k) == IF k = K("a") THEN 1 ELSE 2
ConnOf(s) == IF s = 2 THEN "s2" ELSE "s1"
Stored(k) == IF k = K("a") THEN Bulk(<<LF>>) ELSE IF k = K("b") THEN Bulk(<<>>) ELSE NilBulk

(* Replies to CLUSTER NODES.                                                    *)
Line(addr, role, masterId, slots) ==
  [addr |-> addr, role |-> role, masterId |-> masterId, slots |-> slots,
   flags |-> "ok", link |-> "connected", loading |-> FALSE, up |-> TRUE]

(* Two masters and a slave.                                                   *)
Steady == {Line("n1", "master", "", <<<<0, 1>>>>), Line("n2", "master", "", <<<<2>>>>),
           Line("n3", "slave", "n1", << >>)}
(* n1 has failed and n3 has taken over; n4 is new and still loading.            *)
Failover == {[Line("n1", "master", "", <<<<0, 1>>>>) EXCEPT !.flags = "fail"],
             Line("n2", "master", "", <<<<2>>>>), Line("n3", "master", "", <<<<0, 1>>>>),
             Line("n4", "slave", "n3", << >>)}
Loading == {[l EXCEPT !.loading = l.addr = "n4", !.link = IF l.addr = "n1" THEN "disconnected" ELSE @] : l \in Failover}
(* Slot 1 has moved to n2, slot 0 is on the move.                              *)
Migrated == {Line("n1", "master", "", <<<<0>>, << >>>>), Line("n2", "master", "", <<<<1, 2>>>>),
             Line("n3", "slave", "n1", << >>)}
(* A slot without a master.                                                    *)
Uncovered == {Line("n1", "master", "", <<<<0>>>>), Line("n2", "master", "", <<<<2>>>>),
              Line("n3", "slave", "n1", << >>)}

Requests == INSTANCE Requests WITH
  Scripts <- {<<q>> : q \in Calls} \union {<<p, q>> : p, q \in Calls}
               \union {<<p, q>> : p \in Calls, q \in Packets} \union {<<p, q>> : p \in Packets, q \in Calls},
  Slot <- RequestSlot, MsgMaxLength <- 60, wire <- qWire, inbound <- qInbound, conn <- qConn
Replies == INSTANCE Replies WITH
  Pipelines <- {<<p, q>> : p, q \in Asked}, Slot <- ReplySlot, Failing <- {"mset", "default"},
  MsgMaxLength <- 22, wire <- rWire, inbound <- rInbound
Keys == INSTANCE HashSlot WITH Alphabet <- {97, 123, 125, 255}, MaxLen <- 4
Topology == INSTANCE Cluster WITH
  Node <- {"n1", "n2", "n3", "n4"}, Slot <- {0, 1, 2},
  Layouts <- {Steady, Failover, Loading, Migrated, Uncovered}, Seeds <- {"n1"}, MinNodes <- 3,
  ChanCap <- 2, MaxAsked <- 2, MaxChanges <- 2, Faults <- {"error", "lost", "info"}, asked <- underway
Pools == INSTANCE RedisPool WITH
  Node <- {"m", "s1"}, InitMaster <- "m", InitSlaves <- <<"s1">>, MaxOrder <- 2, maxActive <- 2,
  MaxFailovers <- 1, Removal <- TRUE, Fragile <- {"s1"}
Client == INSTANCE SyncClient WITH MaxCommands <- 4
Addresses == INSTANCE AuthIp WITH Addresses <- {"x", "y"}, MaxSaves <- 2

requestVars == <<sent, qWire, qInbound, decoded, qConn>>
replyVars == <<asked, msgs, inFrags, replies, rWire, rInbound>>
clusterVars == <<cluster, changes, underway, clusterChan, gpc, allNodes, serverMap, replicasets,
                 lastServerNames, serverChanged, tpc, proxyPool, proxyAddrs, slots2Node>>
poolVars == <<up, master, slaves, pool, mpc, req, failovers>>
clientVars == <<pc, err, pending, left, failed, written, bw, toRedis, toClient, bad, owed, results>>
addressVars == <<file, events, alive, todo, enable, ipMap, saves, last>>
vars == <<turn, requestVars, replyVars, key, clusterVars, poolVars, clientVars, addressVars>>

(* A component with several initial states starts in one of them when idle.     *)
Init ==
  /\ turn \in {"requests", "replies", "keys", "topology", "pools", "client", "addresses"}
  /\ Requests!Init /\ (turn # "requests" => sent = <<Call("ping", FALSE, <<>>)>>)
  /\ Replies!Init
  /\ turn # "replies" => /\ asked = <<Answered(Nested), Answered(Nested)>>
                         /\ \A f \in DOMAIN replies : replies[f] = "answer"
  /\ Keys!Init
  /\ Topology!Init /\ (turn # "topology" => cluster = Steady)
  /\ Pools!Init
  /\ Client!Init /\ (turn # "client" => bad = {})
  /\ Addresses!Init /\ (turn # "addresses" => file.list = {} /\ ~file.enable)

Next ==
  \/ /\ turn = "requests" /\ Requests!Next
     /\ UNCHANGED <<turn, replyVars, key, clusterVars, poolVars, clientVars, addressVars>>
  \/ /\ turn = "replies" /\ Replies!Next
     /\ UNCHANGED <<turn, requestVars, key, clusterVars, poolVars, clientVars, addressVars>>
  \/ /\ turn = "keys" /\ Keys!Next
     /\ UNCHANGED <<turn, requestVars, replyVars, clusterVars, poolVars, clientVars, addressVars>>
  \/ /\ turn = "topology" /\ Topology!Next
     /\ UNCHANGED <<turn, requestVars, replyVars, key, poolVars, clientVars, addressVars>>
  \/ /\ turn = "pools" /\ Pools!Next
     /\ UNCHANGED <<turn, requestVars, replyVars, key, clusterVars, clientVars, addressVars>>
  \/ /\ turn = "client" /\ Client!Next
     /\ UNCHANGED <<turn, requestVars, replyVars, key, clusterVars, poolVars, addressVars>>
  \/ /\ turn = "addresses" /\ Addresses!Next
     /\ UNCHANGED <<turn, requestVars, replyVars, key, clusterVars, poolVars, clientVars>>

Spec == Init /\ [][Next]_vars

-----------------------------------------------------------------------------
(* However a client's bytes are cut into packets, the messages handed to         *)
(* OnCReact are its requests, in order, each with the fragments its keys call    *)
(* for, Decode never waits for bytes of a request that has arrived in whole, and  *)
(* no request has the connection closed or the loop end: that takes an array     *)
(* header that is no number, or an array of no elements (CRespCodec.Decode,      *)
(* cread).                                                                     *)
RequestsDecoded ==
  turn = "requests" =>
    Requests!DecodedAsSent /\ Requests!NothingStranded /\ Requests!CutOffForCause

(* A command that is passed on goes by the slot of the key it is about (Eval,    *)
(* Default, checkArgs), and the slot of a key is the one Redis computes (Hash,   *)
(* hash, crc16tab).                                                             *)
RoutedByKey ==
  /\ turn = "requests" => Requests!RoutedByKey
  /\ turn = "keys" => Keys!SlotAsInRedis

(* Whatever the order and the cuts in which the replies to the fragments         *)
(* arrive, the client gets what one Redis holding every key would have           *)
(* answered; an MSET or single-key command of which a fragment failed is never   *)
(* answered as if it had succeeded; and when every byte has been read every message is complete    *)
(* (readReply, sread, MGet, MSet, Del, Default).                                *)
RepliesMerged ==
  turn = "replies" => Replies!MergedAsAsked /\ Replies!FailureShown /\ Replies!AllMerged

(* The channel keeps its bound; what the goroutine has published when it waits   *)
(* is what isChanged compares the next CLUSTER NODES reply with, and no slot has *)
(* a node that ServerMap lacks; between ticks the proxy asks only nodes it has a *)
(* pool for (clusterChan, SetServer, SetReplicaset, ticker, OnTicker).          *)
TopologyWhole ==
  turn = "topology" => Topology!TypeOK /\ Topology!PublishedWhole /\ Topology!AddrsHavePools

(* A connection a pool can hand out was dialled for the role its node has now,   *)
(* and the back-off stays in its range, though the loop and the monitors write   *)
(* it without a lock (SetIsSlave, Get, monitor).                                *)
RoleMatches == turn = "pools" => Pools!TypeOK /\ Pools!RoleMatches

(* Every reply a call of the synchronous client returns is the reply to its      *)
(* own command, also after a time-out (fatal, DoWithTimeout,                    *)
(* ReceiveWithTimeout).                                                        *)
OwnReply == turn = "client" => Client!OwnReply

(* When the watcher has nothing left to do, a list saved in place is in force    *)
(* (watchYml, parseAuthIp).                                                    *)
LoadedWhenQuiet == turn = "addresses" => Addresses!LoadedWhenQuiet
=============================================================================

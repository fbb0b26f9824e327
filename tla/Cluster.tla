-------------------------------- MODULE Cluster --------------------------------
(***************************************************************************)
(* How the proxy follows the topology of the Redis Cluster.  The event loop's *)
(* ticker sends CLUSTER NODES to some node every second; sread passes the     *)
(* reply through clusterChan to the goroutine loopClusterNodes, which parses   *)
(* it and publishes ServerMap, Replicasets and serverChanged; a later tick     *)
(* loads them into ProxyPool, ProxyAddrs and Slots2Node.  No lock is held:     *)
(* the goroutine and the ticker interleave.                                  *)
(*                                                                         *)
(* A reply is a set of lines.  Its address, flags, link state and slot         *)
(* columns are fields; the node's name is its address.                        *)
(***************************************************************************)
EXTENDS Integers, Sequences, FiniteSets

CONSTANTS Node, Slot,
          Layouts,          \* the replies CLUSTER NODES may give, as sets of lines
          Seeds,            \* conf.redis.servers
          MinNodes,         \* 3: fewer nodes are refused
          ChanCap,          \* 3: capacity of clusterChan
          MaxAsked,         \* bound: CLUSTER NODES requests not yet answered
          MaxChanges,       \* bound: changes of the topology
          Faults            \* subset of {"error", "lost", "info"}

VARIABLES cluster,          \* external: the topology as Redis reports it
          changes,
          asked,            \* requests under way
          clusterChan,
          gpc,              \* where the goroutine is
          allNodes,         \* what parse returned last
          serverMap, replicasets, lastServerNames, serverChanged,
          tpc,              \* where the ticker is
          proxyPool,        \* the pools, as a function from addresses to isSlave
          proxyAddrs, slots2Node

published == <<serverMap, replicasets, serverChanged>>
loaded == <<proxyPool, proxyAddrs, slots2Node>>
vars == <<cluster, changes, asked, clusterChan, gpc, allNodes, published, lastServerNames, tpc, loaded>>

NoNode == [addr |-> "", slots |-> {}, slaves |-> {}]
ErrorReply == {"error"}

-----------------------------------------------------------------------------
(* parse, newClusterNode and parseSlot, on one line.                           *)
Skipped(line) == \/ line.flags \in {"noaddr", "handshake", "fail", "none"}
                 \/ line.link = "disconnected"
                 \/ line.role = "master" /\ line.slots = << >>   \* slot not found

(* A slot column is <<s>>, <<first, last>> or, for a slot on the move, << >>.   *)
parseSlotOpen(x) == IF Len(x) = 1 THEN x[1] .. x[1] ELSE x[1] .. x[2] - 1  \* mutant: the end is left out
parseSlot(x) == IF Len(x) = 1 THEN x[1] .. x[1] ELSE x[1] .. x[2]
Slots(line) == UNION {parseSlot(line.slots[i]) : i \in {j \in 1 .. Len(line.slots) : line.slots[j] # << >>}}

newClusterNode(line) == [addr |-> line.addr, role |-> line.role, masterId |-> line.masterId,
                         slots |-> IF line.role = "master" THEN Slots(line) ELSE {}]

(* A node that is not known yet is asked for INFO: one that does not answer, a  *)
(* slave that is loading or has lost its master is skipped.                   *)
Admitted(line) == line.addr \in DOMAIN serverMap \/ line.role = "master" \/ (~line.loading /\ line.up)
Answering(lines, silent) == {l \in lines : l.addr \in DOMAIN serverMap \/ l.addr \notin silent}
parse(reply, silent) ==
  {newClusterNode(l) : l \in {k \in Answering(reply, silent) : ~Skipped(k) /\ Admitted(k)}}

(* isChanged compares addresses, roles and the masters' slots.                 *)
ServerName(n) == <<n.addr, n.role, n.slots>>
ServerNames(nodes) == {ServerName(n) : n \in nodes}

ServerMap(nodes) == [a \in {n.addr : n \in nodes} |-> CHOOSE n \in nodes : n.addr = a]
Replicasets(nodes) ==
  {[addr |-> m.addr, slots |-> m.slots,
    slaves |-> {s.addr : s \in {n \in nodes : n.role = "slave" /\ n.masterId = m.addr}}] :
     m \in {n \in nodes : n.role = "master"}}

-----------------------------------------------------------------------------
Init == /\ cluster \in Layouts /\ changes = 0
        /\ asked = 0 /\ clusterChan = << >>
        /\ gpc = "wait" /\ allNodes = {}
        /\ serverMap = << >> /\ replicasets = {} /\ lastServerNames = {} /\ serverChanged = FALSE
        /\ tpc = "idle"
        /\ proxyPool = [a \in Seeds |-> FALSE] /\ proxyAddrs = Seeds
        /\ slots2Node = [s \in Slot |-> NoNode]

(* External: a slot moves, a master fails, a slave is attached elsewhere.       *)
TopologyChanges == /\ changes < MaxChanges
                   /\ cluster' \in Layouts \ {cluster}
                   /\ changes' = changes + 1
                   /\ UNCHANGED <<asked, clusterChan, gpc, allNodes, published, lastServerNames, tpc, loaded>>

(* sread of a reply without an owner: into the channel, or dropped when full.   *)
SRead == /\ asked > 0
         /\ \E reply \in {cluster} \cup (IF "error" \in Faults THEN {ErrorReply} ELSE {}) :
              clusterChan' = IF Len(clusterChan) < ChanCap THEN Append(clusterChan, reply) ELSE clusterChan
         /\ asked' = asked - 1
         /\ UNCHANGED <<cluster, changes, gpc, allNodes, published, lastServerNames, tpc, loaded>>

(* External: the connection breaks before the reply.                          *)
ReplyLost == /\ "lost" \in Faults /\ asked > 0
             /\ asked' = asked - 1
             /\ UNCHANGED <<cluster, changes, clusterChan, gpc, allNodes, published, lastServerNames, tpc, loaded>>

-----------------------------------------------------------------------------
(* loopClusterNodes.  Any reply that is not a bulk string ends it.              *)
Receive == /\ gpc = "wait" /\ clusterChan # << >>
           /\ clusterChan' = Tail(clusterChan)
           /\ IF Head(clusterChan) = ErrorReply
              THEN gpc' = "returned" /\ UNCHANGED <<allNodes, lastServerNames>>
              ELSE \E silent \in IF "info" \in Faults THEN SUBSET Node ELSE {{}} :
                     LET nodes == parse(Head(clusterChan), silent)
                         names == ServerNames(nodes)
                         ok == Cardinality(nodes) >= MinNodes
                         isChanged == Cardinality(nodes) # Cardinality(DOMAIN serverMap) \/ names # lastServerNames
                     IN  /\ allNodes' = IF ok THEN nodes ELSE allNodes
                         /\ lastServerNames' = IF ok THEN names ELSE lastServerNames
                         /\ gpc' = IF ok /\ isChanged THEN "setServer" ELSE "wait"
           /\ UNCHANGED <<cluster, changes, asked, published, tpc, loaded>>

(* setServer empties ServerMap before it fills it.                            *)
ClearNot == /\ gpc = "setServer"  \* mutant: the nodes that left stay in the map
            /\ gpc' = "insert"
            /\ UNCHANGED <<cluster, changes, asked, clusterChan, allNodes, published, lastServerNames, tpc, loaded>>
ClearServers == /\ gpc = "setServer"
                /\ serverMap' = << >>
                /\ gpc' = "insert"
                /\ UNCHANGED <<cluster, changes, asked, clusterChan, allNodes, replicasets, serverChanged, lastServerNames, tpc, loaded>>

InsertServers == /\ gpc = "insert"
                 /\ serverMap' = [a \in DOMAIN serverMap \cup DOMAIN ServerMap(allNodes) |->
                                    IF a \in DOMAIN ServerMap(allNodes) THEN ServerMap(allNodes)[a] ELSE serverMap[a]]
                 /\ gpc' = "setReplicaset"
                 /\ UNCHANGED <<cluster, changes, asked, clusterChan, allNodes, replicasets, serverChanged, lastServerNames, tpc, loaded>>

(* setReplicaset, likewise; slaves appended late are seen through the pointers  *)
(* that the ticker may have taken.                                            *)
ClearReplicasets == /\ gpc = "setReplicaset"
                    /\ replicasets' = {}
                    /\ gpc' = "append"
                    /\ UNCHANGED <<cluster, changes, asked, clusterChan, allNodes, serverMap, serverChanged, lastServerNames, tpc, loaded>>
AppendReplicasets == /\ gpc = "append"
                     /\ replicasets' = Replicasets(allNodes)
                     /\ gpc' = "flag"
                     /\ UNCHANGED <<cluster, changes, asked, clusterChan, allNodes, serverMap, serverChanged, lastServerNames, tpc, loaded>>
SetServerChanged == /\ gpc = "flag"
                    /\ serverChanged' = TRUE
                    /\ gpc' = "wait"
                    /\ UNCHANGED <<cluster, changes, asked, clusterChan, allNodes, serverMap, replicasets, lastServerNames, tpc, loaded>>

-----------------------------------------------------------------------------
(* ticker, once a second.                                                     *)
Tick == /\ tpc = "idle" /\ asked < MaxAsked
        /\ tpc' = IF serverChanged THEN "remove" ELSE "ask"
        /\ UNCHANGED <<cluster, changes, asked, clusterChan, gpc, allNodes, published, lastServerNames, loaded>>
RemovePools == /\ tpc = "remove"
               /\ proxyPool' = [a \in DOMAIN proxyPool \cap DOMAIN serverMap |-> proxyPool[a]]
               /\ tpc' = "add"
               /\ UNCHANGED <<cluster, changes, asked, clusterChan, gpc, allNodes, published, lastServerNames, proxyAddrs, slots2Node>>
AddPools == /\ tpc = "add"
            /\ proxyPool' = [a \in DOMAIN proxyPool \cup DOMAIN serverMap |->
                               IF a \in DOMAIN serverMap THEN serverMap[a].role = "slave" ELSE proxyPool[a]]
            /\ tpc' = "slots"
            /\ UNCHANGED <<cluster, changes, asked, clusterChan, gpc, allNodes, published, lastServerNames, proxyAddrs, slots2Node>>

Owner(s) == {rs \in replicasets : s \in rs.slots}
LoadSlots == /\ tpc = "slots"
             /\ slots2Node' = [s \in Slot |-> IF Owner(s) = {} THEN NoNode ELSE CHOOSE rs \in Owner(s) : TRUE]
             /\ tpc' = "addrs"
             /\ UNCHANGED <<cluster, changes, asked, clusterChan, gpc, allNodes, published, lastServerNames, proxyPool, proxyAddrs>>

(* The flag is cleared last, whatever has been published meanwhile.            *)
LoadAddrs == /\ tpc = "addrs"
             /\ proxyAddrs' = DOMAIN proxyPool
             /\ serverChanged' = FALSE
             /\ tpc' = "ask"
             /\ UNCHANGED <<cluster, changes, asked, clusterChan, gpc, allNodes, serverMap, replicasets, lastServerNames, proxyPool, slots2Node>>

(* OnTicker: a random node is asked, unless there is none.                     *)
OnTicker == /\ tpc = "ask"
            /\ asked' = IF \E addr \in proxyAddrs : addr \in DOMAIN proxyPool THEN asked + 1 ELSE asked
            /\ tpc' = "idle"
            /\ UNCHANGED <<cluster, changes, clusterChan, gpc, allNodes, published, lastServerNames, loaded>>

Goroutine == Receive \/ ClearServers \/ InsertServers \/ ClearReplicasets \/ AppendReplicasets \/ SetServerChanged
Ticker == Tick \/ RemovePools \/ AddPools \/ LoadSlots \/ LoadAddrs \/ OnTicker

Next == Goroutine \/ Ticker \/ SRead \/ ReplyLost \/ TopologyChanges

Spec == Init /\ [][Next]_vars

(* The Go runtime runs the goroutine, the loop ticks, Redis answers.            *)
FairSpec == Spec /\ WF_vars(Goroutine) /\ WF_vars(Ticker) /\ WF_vars(SRead)

-----------------------------------------------------------------------------
(* Type invariant.                                                            *)
TypeOK ==
  /\ cluster \in Layouts /\ changes \in 0 .. MaxChanges /\ asked \in 0 .. MaxAsked
  /\ Len(clusterChan) <= ChanCap
  /\ gpc \in {"wait", "setServer", "insert", "setReplicaset", "append", "flag", "returned"}
  /\ tpc \in {"idle", "remove", "add", "slots", "addrs", "ask"}
  /\ DOMAIN serverMap \subseteq Node /\ DOMAIN proxyPool \subseteq Node /\ proxyAddrs \subseteq Node
  /\ \A a \in DOMAIN proxyPool : proxyPool[a] \in BOOLEAN
  /\ serverChanged \in BOOLEAN

(* When the goroutine waits, what it has published is what isChanged will       *)
(* compare the next reply with: ServerMap and lastServerNames agree, and every  *)
(* slot's master and every slave in Replicasets is in ServerMap.              *)
PublishedWhole ==
  gpc = "wait" =>
    /\ lastServerNames = ServerNames({serverMap[a] : a \in DOMAIN serverMap})
    /\ \A rs \in replicasets : rs.addr \in DOMAIN serverMap /\ rs.slaves \subseteq DOMAIN serverMap

(* Between ticks the proxy asks only nodes it has a pool for (ticker rebuilds   *)
(* ProxyAddrs from ProxyPool, OnTicker picks from it).                        *)
AddrsHavePools == tpc \in {"ask", "idle"} => proxyAddrs = DOMAIN proxyPool

Routing == [s \in Slot |-> IF Owner(s) = {} THEN NoNode ELSE CHOOSE rs \in Owner(s) : TRUE]
InUse == /\ proxyPool = [a \in DOMAIN serverMap |-> serverMap[a].role = "slave"]
         /\ slots2Node = Routing
(* The topology in use is the one last published once the goroutine and the     *)
(* ticker are both at rest and no change is flagged.                          *)
(* Does not hold of the code: see the README, Disagreements.                  *)
LoadedWhenUnflagged ==
  gpc = "wait" /\ tpc = "idle" /\ ~serverChanged /\ DOMAIN serverMap # {} => InUse

(* Replicasets follows the last reply accepted: slots and slaves of every       *)
(* master (isChanged decides whether they are updated).                       *)
(* Does not hold of the code: see the README, Disagreements.                  *)
ReplicasetsCurrent == gpc = "wait" => replicasets = Replicasets(allNodes)

(* The goroutine that follows the cluster never ends.                         *)
(* Does not hold of the code: see the README, Disagreements.                  *)
KeepsWatching == gpc # "returned"

Live == {l \in cluster : ~Skipped(l)}
Covers(l, s) == \E i \in 1 .. Len(l.slots) :
                  l.slots[i] # << >> /\ l.slots[i][1] <= s /\ s <= l.slots[i][Len(l.slots[i])]
(* A cluster that stays as it is ends up in use by the proxy: its live nodes    *)
(* have pools with their roles and every slot is routed to its master           *)
(* (ticker, loopClusterNodes and the request and reply between them).          *)
FollowsCluster ==
  <>[](/\ proxyPool = [a \in {l.addr : l \in Live} |-> \E l \in Live : l.addr = a /\ l.role = "slave"]
       /\ \A s \in Slot : \A l \in Live : Covers(l, s) => slots2Node[s].addr = l.addr)
=============================================================================

------------------------------- MODULE Proxy -------------------------------
(***************************************************************************)
(* The request pipeline of rcproxy: what the single event-loop goroutine   *)
(* does with client requests, Redis replies, redirections, timeouts,       *)
(* closed connections, its task queue and the one-second ticker            *)
(* (core/eventloop.go, core/connection.go, core/message.go,                *)
(* core/redis_pool.go, core/codec_s.go, core/server/*.go).                 *)
(*                                                                         *)
(* A client request is a Msg with one Frag per slot it touches.  A frag    *)
(* waits in the outFragQueue of a server connection until that             *)
(* connection's write task runs, then in its inFragQueue until Redis       *)
(* answers; replies are matched to frags by position only.  A client is    *)
(* answered when every Msg of its inMsgQueue is done, all at once.  Msgs   *)
(* are recycled through MsgPool; frags are never reused.                   *)
(*                                                                         *)
(* The configuration is the one of conf/rc.yaml with slaves disabled and   *)
(* no Redis password: route() returns the master, and a connection to a    *)
(* master is initialized as soon as it is dialed.  One to a slave, of      *)
(* which OnTicker asks `cluster nodes`, begins with READONLY, whose reply  *)
(* sread takes off before it pairs replies with frags (ServerInit models   *)
(* that): here both are initialized.  One decoded request, one reply, one  *)
(* task, one expired frag is a step of the loop: where a read or a batch   *)
(* ends is arbitrary.  A loop over a map inside a handler takes one step   *)
(* per element, with `handling` keeping every other handler out.           *)
(***************************************************************************)
EXTENDS Integers, Sequences, FiniteSets

CONSTANTS
  Client,          \* client connections, each accepted at most once
  Addr,            \* Redis nodes
  Slot,            \* hash slots
  Requests,        \* keyed requests: [type, slots], one frag per element of slots
  Topologies,      \* what `cluster nodes` may report: [nodes, slaves, slots]
  Boot,            \* the nodes, their roles and the slots known at the start
  Nil,             \* no address, no client
  MaxActive,       \* RedisServerConnections
  RequestTimeout,  \* whether RedisRequestTimeout is positive
  Faults,          \* what may go wrong in this instance
  MaxDial,         \* bound: connections ever dialed to one node
  MaxReq,          \* bound: requests ever decoded
  MaxTick,         \* bound: ticks of the one-second ticker
  MaxMigrate       \* bound: slot migrations started in the cluster

Types == {"default", "mget", "mset", "del"}

FaultKinds == {"clientClose", "clientWrite", "serverClose", "dial", "immediate",
               "error", "large", "auth", "ask", "unauthorized", "empty"}

ASSUME ProxyAssumption ==
  /\ IsFiniteSet(Client) /\ Nil \notin Client /\ Nil \notin Addr
  /\ \A q \in Requests :
       /\ q.type \in Types
       /\ q.slots \in Seq(Slot) /\ q.slots # <<>>
       /\ q.type = "default" => Len(q.slots) = 1
  /\ \A t \in Topologies \cup {Boot} :
       /\ t.nodes \in (SUBSET Addr) \ {{}} /\ t.slaves \subseteq t.nodes
       /\ t.slots \in [Slot -> Addr \cup {Nil}]
  /\ MaxActive \in Nat \ {0}
  /\ RequestTimeout \in BOOLEAN
  /\ Faults \subseteq FaultKinds
  /\ MaxDial \in Nat /\ MaxReq \in Nat /\ MaxTick \in Nat /\ MaxMigrate \in Nat

\* Server connections, dialed in the order of their second component.
SConn == Addr \X (1 .. MaxDial)

VARIABLES
  status,        \* "running", or the event loop has "exited" or "panicked"
  handling,      \* the handler whose loop is being stepped through
  tasks,         \* poller.asyncTaskQueue
  ticks,         \* ticks so far
  msg,           \* Msg objects ever allocated
  freeMsgs,      \* the ones MsgPool holds
  msgId,         \* the counter msgId
  frag,          \* Frag objects ever allocated, by Id
  cconn,         \* client connections: "new", "open", "closed"
  inMsgQueue,    \* conn.inMsgQueue of a client connection
  asked,         \* history: ids of the requests decoded from a client
  toClient,      \* history: the replies written to a client
  sconn,         \* server connections: "new", "open", "closed"
  outFragQueue,  \* conn.outFragQueue of a server connection
  inFragQueue,   \* conn.inFragQueue of a server connection
  toRedis,       \* requests written to a connection, not yet executed
  fromRedis,     \* replies of Redis not yet decoded
  timeoutTree,   \* the frags in timeoutTree and their deadlines
  clock,         \* the latest deadline handed out (0 when the tree is empty)
  pools,         \* the keys of ProxyPool (and the elements of ProxyAddrs)
  slavePools,    \* those whose isSlave is set
  active,        \* Pool.active, front first
  Slots2Node,    \* the master's address of each slot
  home,          \* the node that owns a slot in the cluster
  migrating,     \* the node a slot is being migrated to
  migrations     \* migrations so far

control     == <<status, handling, tasks, ticks>>
msgVars     == <<msg, freeMsgs, msgId>>
clientVars  == <<cconn, inMsgQueue, asked, toClient>>
serverVars  == <<sconn, outFragQueue, inFragQueue, toRedis, fromRedis>>
timeoutVars == <<timeoutTree, clock>>
poolVars    == <<pools, slavePools, active, Slots2Node>>
redisVars   == <<home, migrating, migrations>>
vars == <<control, msgVars, frag, clientVars, serverVars, timeoutVars, poolVars, redisVars>>
-----------------------------------------------------------------------------
NoReply == [kind |-> "none", from |-> {}]

\* Mutant: FragDoneNumber is reset to the wrong value.
PutMsgShort ==
  [id |-> 0, type |-> "unknown", body |-> {}, done |-> FALSE, ndone |-> -1,
   del |-> {}, rsp |-> NoReply]

\* A Msg as MsgPool.Put leaves it.  body is Msg.Body, whose frags know their
\* slots; ndone is FragDoneNumber; del the frags whose count is in DelNum; rsp
\* the reply in RspBody, by the frags whose data it was made of.
PutMsg ==
  [id |-> 0, type |-> "unknown", body |-> {}, done |-> FALSE, ndone |-> 0,
   del |-> {}, rsp |-> NoReply]

\* A Frag as FragPool.Get makes it for slot k of request id.  rsp is the frag
\* whose reply it has parsed (Rsp), 0 for none; ok is Frag.Ok; req is history.
NewFrag(m, k, id) ==
  [owner |-> Nil, peer |-> m, slot |-> k, done |-> FALSE, rsp |-> 0, ok |-> FALSE, req |-> id]

Idle == [op |-> "idle"]

Init ==
  /\ status = "running" /\ handling = Idle /\ tasks = <<>> /\ ticks = 0
  /\ msg = <<>> /\ freeMsgs = {} /\ msgId = 0 /\ frag = <<>>
  /\ cconn = [c \in Client |-> "new"]
  /\ inMsgQueue = [c \in Client |-> <<>>]
  /\ asked = [c \in Client |-> <<>>]
  /\ toClient = [c \in Client |-> <<>>]
  /\ sconn = [s \in SConn |-> "new"]
  /\ outFragQueue = [s \in SConn |-> <<>>]
  /\ inFragQueue = [s \in SConn |-> <<>>]
  /\ toRedis = [s \in SConn |-> <<>>]
  /\ fromRedis = [s \in SConn |-> <<>>]
  /\ timeoutTree = <<>> /\ clock = 0
  /\ pools = Boot.nodes /\ slavePools = Boot.slaves
  /\ active = [a \in Addr |-> <<>>]
  /\ Slots2Node = Boot.slots
  /\ home \in [Slot -> Addr]
  /\ \A k \in Slot : Boot.slots[k] # Nil => home[k] = Boot.slots[k]
  /\ migrating = [k \in Slot |-> Nil]
  /\ migrations = 0

Elems(q) == {q[i] : i \in DOMAIN q}

\* The event loop is between two handlers.
LoopFree == status = "running" /\ handling = Idle

\* poller.Trigger of task t of connection c; id is the request it is about.
Task(t, c, id) == [op |-> t, conn |-> c, id |-> id]

Panic ==
  /\ status' = "panicked"
  /\ UNCHANGED <<handling, tasks, ticks, msgVars, frag, clientVars, serverVars,
                 timeoutVars, poolVars, redisVars>>
-----------------------------------------------------------------------------
(* The connection pool of a node.                                           *)

Opened(s) == sconn[s] = "open"

\* Get dials while the pool is not full, and when no connection of a full pool
\* is open: it has then thrown all of them away.
MustDial(a) ==
  Len(active[a]) < MaxActive \/ \A s \in Elems(active[a]) : ~Opened(s)

\* Mutant: a full pool is not emptied.
KeptAll(a) == active[a]

\* Mutant: the pool forgets its connections when it dials another.
KeptNone(a) == <<>>

Kept(a) == IF Len(active[a]) < MaxActive THEN active[a] ELSE <<>>

\* engine.Dial, and open with OnSOpened, of the next connection to s[1].
Dial(s) ==
  /\ MustDial(s[1])
  /\ sconn[s] = "new"
  /\ \A i \in 1 .. s[2] - 1 : sconn[<<s[1], i>>] # "new"
  /\ sconn' = [sconn EXCEPT ![s] = "open"]
  /\ active' = [active EXCEPT ![s[1]] = <<s>> \o Kept(s[1])]

\* A full pool gives the open connection closest to the back, which moves to
\* the front; the closed ones behind it are thrown away.
Rotate(s) ==
  LET l == active[s[1]] IN
  /\ ~MustDial(s[1])
  /\ \E k \in DOMAIN l :
       /\ l[k] = s /\ Opened(s)
       /\ \A j \in k + 1 .. Len(l) : ~Opened(l[j])
       /\ active' = [active EXCEPT ![s[1]] = <<s>> \o SubSeq(l, 1, k - 1)]
  /\ UNCHANGED sconn

PoolGet(s) == Dial(s) \/ Rotate(s)

PoolGetNil(a) ==
  /\ "dial" \in Faults
  /\ MustDial(a)
  /\ active' = [active EXCEPT ![a] = Kept(a)]

\* Mutant: no write task if there is one already, whatever its connection.
EnqueueOutFragOnce(s, f) ==
  /\ outFragQueue' = [outFragQueue EXCEPT ![s] = Append(@, f)]
  /\ tasks' = IF \E i \in DOMAIN tasks : tasks[i].op = "write" THEN tasks
              ELSE Append(tasks, Task("write", s, 0))

\* EnqueueOutFrag: the write task is triggered with every frag.
EnqueueOutFrag(s, f) ==
  /\ outFragQueue' = [outFragQueue EXCEPT ![s] = Append(@, f)]
  /\ tasks' = Append(tasks, Task("write", s, 0))
-----------------------------------------------------------------------------
(* Closing connections.                                                     *)

\* closeConn of an open client connection: releaseTCP drops its queue.
CloseClient(c) ==
  /\ cconn' = [cconn EXCEPT ![c] = "closed"]
  /\ inMsgQueue' = [inMsgQueue EXCEPT ![c] = <<>>]

\* Mutant: the deadline stays.
DeleteFromTimeoutQueueNot(fs) == UNCHANGED timeoutVars

\* deleteFromTimeoutQueue of each frag of fs.
DeleteFromTimeoutQueue(fs) ==
  LET left == DOMAIN timeoutTree \ fs IN
  /\ timeoutTree' = [f \in left |-> timeoutTree[f]]
  /\ clock' = IF left = {} THEN 0 ELSE clock

\* closeConn of an open server connection: OnSClosed takes its frags out of the
\* timeout tree, logs them and forgets them.
CloseServer(s) ==
  /\ sconn' = [sconn EXCEPT ![s] = "closed"]
  /\ outFragQueue' = [outFragQueue EXCEPT ![s] = <<>>]
  /\ inFragQueue' = [inFragQueue EXCEPT ![s] = <<>>]
  /\ toRedis' = [toRedis EXCEPT ![s] = <<>>]
  /\ fromRedis' = [fromRedis EXCEPT ![s] = <<>>]
  /\ DeleteFromTimeoutQueue(Elems(inFragQueue[s]))

\* The client hangs up, its socket fails, or it sends a packet that Decode
\* refuses with ErrInvalidResp.
CClose(c) ==
  /\ LoopFree /\ cconn[c] = "open"
  /\ "clientClose" \in Faults
  /\ CloseClient(c)
  /\ UNCHANGED <<control, msgVars, frag, asked, toClient, serverVars, timeoutVars,
                 poolVars, redisVars>>

\* Redis hangs up, or a read from or a write to it fails.
SClose(s) ==
  /\ LoopFree /\ Opened(s)
  /\ "serverClose" \in Faults
  /\ CloseServer(s)
  /\ UNCHANGED <<control, msgVars, frag, clientVars, poolVars, redisVars>>
-----------------------------------------------------------------------------
(* Client requests: accept, cread and OnCReact.                             *)

\* accept and OnCOpened, which closes a connection from an unknown address.
Accept(c) ==
  /\ LoopFree /\ cconn[c] = "new"
  /\ \E st \in {"open"} \cup (IF "unauthorized" \in Faults THEN {"closed"} ELSE {}) :
       cconn' = [cconn EXCEPT ![c] = st]
  /\ UNCHANGED <<control, msgVars, frag, inMsgQueue, asked, toClient, serverVars,
                 timeoutVars, poolVars, redisVars>>

Reply(id, kind, from) == [id |-> id, kind |-> kind, from |-> from]

\* A new Msg, or one MsgPool.Get takes from the pool as it finds it.
Gettable(m) == m \in freeMsgs \/ m = Len(msg) + 1

\* PING, QUIT, AUTH, an unknown command, a wrong number of arguments, a request
\* too large: OnCReact answers itself, at once, and cread puts the Msg back.
CReactImmediate(c, m) ==
  /\ LoopFree /\ cconn[c] = "open" /\ msgId < MaxReq
  /\ "immediate" \in Faults
  /\ Gettable(m)
  /\ msgId' = msgId + 1
  /\ msg' = IF m \in freeMsgs THEN [msg EXCEPT ![m] = PutMsg] ELSE Append(msg, PutMsg)
  /\ freeMsgs' = freeMsgs \cup {m}
  /\ asked' = [asked EXCEPT ![c] = Append(@, msgId + 1)]
  /\ toClient' = [toClient EXCEPT ![c] = Append(@, Reply(msgId + 1, "immediate", {}))]
  /\ \/ UNCHANGED <<cconn, inMsgQueue>>
     \/ CloseClient(c)
  /\ UNCHANGED <<control, frag, serverVars, timeoutVars, poolVars, redisVars>>

\* An array of no elements: Decode returns no Msg and no error, and OnCReact
\* reads the type of the Msg it has not got.  (A '*' with no number is an error
\* that cread takes for an incomplete packet: the client waits and is not heard
\* again, like one that sends nothing more.)
CReactNil(c) ==
  /\ LoopFree /\ cconn[c] = "open"
  /\ "empty" \in Faults
  /\ Panic

\* Decode of a keyed request q into Msg m with one frag per slot.
CReact(c, q, m) ==
  /\ LoopFree /\ cconn[c] = "open" /\ msgId < MaxReq
  /\ Gettable(m)
  /\ LET body == Len(frag) + 1 .. Len(frag) + Len(q.slots)
         old  == IF m \in freeMsgs THEN msg[m] ELSE PutMsg
         new  == [old EXCEPT !.id = msgId + 1, !.type = q.type, !.body = body]
     IN /\ msg' = IF m \in freeMsgs THEN [msg EXCEPT ![m] = new] ELSE Append(msg, new)
        /\ frag' = frag \o [i \in 1 .. Len(q.slots) |-> NewFrag(m, q.slots[i], msgId + 1)]
        /\ handling' = [op |-> "react", client |-> c, msg |-> m, todo |-> body]
  /\ freeMsgs' = freeMsgs \ {m}
  /\ msgId' = msgId + 1
  /\ asked' = [asked EXCEPT ![c] = Append(@, msgId + 1)]
  /\ UNCHANGED <<status, tasks, ticks, cconn, inMsgQueue, toClient, serverVars,
                 timeoutVars, poolVars, redisVars>>

\* Mutant: the Msg enters the queue at the wrong end.
EnqueueInMsgHead(c, m) == inMsgQueue' = [inMsgQueue EXCEPT ![c] = <<m>> \o @]

\* Mutant: the Msg does not enter the queue.
EnqueueInMsgNot(c, m) == UNCHANGED inMsgQueue

EnqueueInMsg(c, m) == inMsgQueue' = [inMsgQueue EXCEPT ![c] = Append(@, m)]

\* One turn of OnCReact's loop over Msg.Body, in any order: frag f goes to a
\* connection of the master of its slot.  After the last one, EnqueueInMsg.
Dispatch(f, s) ==
  /\ status = "running" /\ handling.op = "react" /\ f \in handling.todo
  /\ s[1] = Slots2Node[frag[f].slot] /\ s[1] \in pools
  /\ PoolGet(s)
  /\ frag' = [frag EXCEPT ![f].owner = handling.client]
  /\ EnqueueOutFrag(s, f)
  /\ IF handling.todo = {f}
       THEN /\ handling' = Idle
            /\ EnqueueInMsg(handling.client, handling.msg)
       ELSE /\ handling' = [handling EXCEPT !.todo = @ \ {f}]
            /\ UNCHANGED inMsgQueue
  /\ UNCHANGED <<status, ticks, msgVars, cconn, asked, toClient, inFragQueue, toRedis,
                 fromRedis, timeoutVars, pools, slavePools, Slots2Node, redisVars>>

\* OnCReact gives up on the request: the slot is not loaded, its node has no
\* pool, or no connection can be had.  The Msg goes back to the pool, with the
\* frags dispatched before f still under way.
DispatchFails(f) ==
  /\ status = "running" /\ handling.op = "react" /\ f \in handling.todo
  /\ LET a == Slots2Node[frag[f].slot] IN
       \/ a \notin pools /\ UNCHANGED active
       \/ a \in pools /\ PoolGetNil(a)
  /\ LET c == handling.client  m == handling.msg IN
       /\ toClient' = [toClient EXCEPT ![c] = Append(@, Reply(msg[m].id, "error", {}))]
       /\ msg' = [msg EXCEPT ![m] = PutMsg]
       /\ freeMsgs' = freeMsgs \cup {m}
  /\ handling' = Idle
  /\ UNCHANGED <<status, tasks, ticks, msgId, frag, cconn, inMsgQueue, asked, serverVars,
                 timeoutVars, pools, slavePools, Slots2Node, redisVars>>
-----------------------------------------------------------------------------
(* Tasks run by the poller, in the order they were triggered.               *)

RunTask(t) == LoopFree /\ tasks # <<>> /\ Head(tasks).op = t /\ tasks' = Tail(tasks)

\* enqueueInFrag: the frags of clients enter the timeout tree when they are
\* sent, in the order they are sent; without a request timeout none does.
PushToTimeoutQueue(q) ==
  LET sent == {f \in Elems(q) : RequestTimeout /\ frag[f].owner # Nil}
      all  == DOMAIN timeoutTree \cup sent
  IN /\ timeoutTree' =
          [f \in all |-> IF f \in sent THEN clock + (CHOOSE i \in DOMAIN q : q[i] = f)
                         ELSE timeoutTree[f]]
     /\ clock' = IF all = {} THEN 0 ELSE clock + Len(q)

DequeueOutFrags(s) == outFragQueue' = [outFragQueue EXCEPT ![s] = <<>>]

\* Mutant: the frags enter inFragQueue at the wrong end.
EnqueueInFragsHead(s, q) == inFragQueue' = [inFragQueue EXCEPT ![s] = q \o @]

EnqueueInFrags(s, q) == inFragQueue' = [inFragQueue EXCEPT ![s] = @ \o q]

\* handleWriteSignal: everything queued is written at once.
HandleWriteSignal ==
  /\ RunTask("write")
  /\ LET s == Head(tasks).conn IN
       IF Opened(s)
         THEN /\ DequeueOutFrags(s)
              /\ EnqueueInFrags(s, outFragQueue[s])
              /\ toRedis' = [toRedis EXCEPT ![s] = @ \o outFragQueue[s]]
              /\ PushToTimeoutQueue(outFragQueue[s])
         ELSE UNCHANGED <<outFragQueue, inFragQueue, toRedis, timeoutVars>>
  /\ UNCHANGED <<status, handling, ticks, msgVars, frag, clientVars, sconn, fromRedis,
                 poolVars, redisVars>>

\* writeClusterNodes: a frag without a client.
WriteClusterNodes ==
  /\ LoopFree /\ tasks # <<>> /\ Head(tasks).op = "cluster"
  /\ LET s == Head(tasks).conn IN
       IF Opened(s)
         THEN /\ frag' = Append(frag, NewFrag(0, Nil, 0))
              /\ outFragQueue' = [outFragQueue EXCEPT ![s] = Append(@, Len(frag) + 1)]
              /\ tasks' = Append(Tail(tasks), Task("write", s, 0))
         ELSE tasks' = Tail(tasks) /\ UNCHANGED <<frag, outFragQueue>>
  /\ UNCHANGED <<status, handling, ticks, msgVars, clientVars, sconn, inFragQueue, toRedis,
                 fromRedis, timeoutVars, poolVars, redisVars>>

\* The task of conn.Close.
CloseTask ==
  /\ RunTask("close")
  /\ LET s == Head(tasks).conn IN
       IF Opened(s) THEN CloseServer(s) ELSE UNCHANGED <<serverVars, timeoutVars>>
  /\ UNCHANGED <<status, handling, ticks, msgVars, frag, clientVars, poolVars, redisVars>>

\* The task of AsyncWrite, which only msgTimeout triggers.
AsyncWrite ==
  /\ RunTask("reply")
  /\ LET c == Head(tasks).conn IN
       toClient' = IF cconn[c] = "open"
                     THEN [toClient EXCEPT ![c] = Append(@, Reply(Head(tasks).id, "timeout", {}))]
                     ELSE toClient
  /\ UNCHANGED <<status, handling, ticks, msgVars, frag, cconn, inMsgQueue, asked, serverVars,
                 timeoutVars, poolVars, redisVars>>

\* The frags, with Done set for each frag of fs.
AllDone(fs) ==
  [g \in DOMAIN frag |-> IF g \in fs THEN [frag[g] EXCEPT !.done = TRUE] ELSE frag[g]]

\* One turn of msgTimeout: the frag with the earliest deadline is done, or its
\* deadline has passed (a deadline may pass at any time).  Its whole Msg is
\* marked and the client is sent an error, but the Msg stays where it is.
MsgTimeout(f) ==
  /\ LoopFree /\ f \in DOMAIN timeoutTree
  /\ \A g \in DOMAIN timeoutTree : timeoutTree[f] <= timeoutTree[g]
  /\ DeleteFromTimeoutQueue({f})
  /\ IF frag[f].done
       THEN UNCHANGED <<frag, tasks>>
       ELSE LET c == frag[f].owner IN
            /\ frag' = AllDone(msg[frag[f].peer].body)
            /\ tasks' = IF cconn[c] = "open"
                          THEN Append(tasks, Task("reply", c, frag[f].req)) ELSE tasks
  /\ UNCHANGED <<status, handling, ticks, msgVars, clientVars, serverVars, poolVars, redisVars>>
-----------------------------------------------------------------------------
(* Replies of Redis: Decode pairs the next reply with the head of           *)
(* inFragQueue, whatever frag Redis has answered.                           *)

\* Mutant: the reply is paired with the tail of the queue.
AnsweredTail(s) == inFragQueue[s][Len(inFragQueue[s])]

Answered(s) == Head(inFragQueue[s])
Answer(s)   == Head(fromRedis[s])

\* Decode and DequeueInFrag.
TakeReply(s) ==
  /\ LoopFree /\ Opened(s) /\ fromRedis[s] # <<>> /\ inFragQueue[s] # <<>>
  /\ fromRedis' = [fromRedis EXCEPT ![s] = Tail(@)]
  /\ inFragQueue' = [inFragQueue EXCEPT ![s] = Tail(@)]
  /\ DeleteFromTimeoutQueue({Answered(s)})
  /\ UNCHANGED toRedis

\* The reply to `cluster nodes` goes to clusterChan, or is dropped if it is full.
SReadCluster(s) ==
  /\ TakeReply(s)
  /\ frag[Answered(s)].owner = Nil /\ Answer(s).kind # "auth"
  /\ UNCHANGED <<control, msgVars, frag, clientVars, sconn, outFragQueue, poolVars, redisVars>>

IsRedirect(s) == frag[Answered(s)].owner # Nil /\ Answer(s).kind \in {"moved", "ask"}

\* Mutant: the frag is not sent again.
SReadMovedDrops(s, t) ==
  /\ TakeReply(s)
  /\ IsRedirect(s)
  /\ t[1] = Answer(s).addr /\ t[1] \in pools
  /\ PoolGet(t)
  /\ UNCHANGED <<control, msgVars, frag, clientVars, outFragQueue, pools, slavePools, Slots2Node,
                 redisVars>>

\* Mutant: the frag stays in the queue of the node it was sent to first.
SReadMovedKeeps(s, t) ==
  /\ LoopFree /\ Opened(s) /\ fromRedis[s] # <<>> /\ inFragQueue[s] # <<>>
  /\ fromRedis' = [fromRedis EXCEPT ![s] = Tail(@)]
  /\ IsRedirect(s)
  /\ t[1] = Answer(s).addr /\ t[1] \in pools
  /\ PoolGet(t)
  /\ EnqueueOutFrag(t, Answered(s))
  /\ UNCHANGED <<status, handling, ticks, msgVars, frag, clientVars, inFragQueue, toRedis, timeoutVars,
                 pools, slavePools, Slots2Node, redisVars>>

\* OnMoved: the frag is sent again, to the node the reply names.  Fd2Slot of a
\* Msg that has gone back to the pool is nil, and writing to it panics.
SReadMoved(s, t) ==
  /\ TakeReply(s)
  /\ IsRedirect(s)
  /\ t[1] = Answer(s).addr /\ t[1] \in pools
  /\ PoolGet(t)
  /\ IF msg[frag[Answered(s)].peer].id = 0
       THEN /\ status' = "panicked"
            /\ UNCHANGED <<outFragQueue, tasks>>
       ELSE /\ EnqueueOutFrag(t, Answered(s))
            /\ UNCHANGED status
  /\ UNCHANGED <<handling, ticks, msgVars, frag, clientVars, pools, slavePools, Slots2Node, redisVars>>

\* OnMoved finds no pool or no connection: the frag is dropped.
SReadMovedFails(s) ==
  /\ TakeReply(s)
  /\ IsRedirect(s)
  /\ LET a == Answer(s).addr IN
       \/ a \notin pools /\ UNCHANGED active
       \/ a \in pools /\ PoolGetNil(a)
  /\ UNCHANGED <<control, msgVars, frag, clientVars, sconn, outFragQueue, pools, slavePools,
                 Slots2Node, redisVars>>

\* A reply to a frag that is already done (it timed out, or a frag of the same
\* request failed) is dropped.
SReadLate(s) ==
  /\ TakeReply(s)
  /\ frag[Answered(s)].owner # Nil /\ ~IsRedirect(s) /\ frag[Answered(s)].done
  /\ UNCHANGED <<control, msgVars, frag, clientVars, sconn, outFragQueue, poolVars, redisVars>>

\* The rest of eventloop.sread, with the Msgs as sread of the connection has left
\* them: c gets the replies to all its requests, once every one is done.
Deliver(c, mm) ==
  LET q == inMsgQueue[c] IN
  /\ UNCHANGED <<asked, msgId>>
  /\ \/ /\ cconn[c] # "open"
        /\ msg' = mm /\ UNCHANGED <<freeMsgs, cconn, inMsgQueue, toClient>>
     \/ /\ cconn[c] = "open" /\ q = <<>>
        /\ msg' = mm /\ CloseClient(c) /\ UNCHANGED <<freeMsgs, toClient>>
     \/ /\ cconn[c] = "open" /\ \E i \in DOMAIN q : ~mm[q[i]].done
        /\ msg' = mm /\ UNCHANGED <<freeMsgs, cconn, inMsgQueue, toClient>>
     \/ /\ cconn[c] = "open" /\ q # <<>> /\ \A i \in DOMAIN q : mm[q[i]].done
        /\ toClient' = [toClient EXCEPT ![c] = @ \o
             [i \in DOMAIN q |-> Reply(mm[q[i]].id, mm[q[i]].rsp.kind, mm[q[i]].rsp.from)]]
        /\ msg' = [m \in DOMAIN mm |-> IF m \in Elems(q) THEN PutMsg ELSE mm[m]]
        /\ freeMsgs' = freeMsgs \cup Elems(q)
        /\ inMsgQueue' = [inMsgQueue EXCEPT ![c] = <<>>]
        /\ UNCHANGED cconn
     \/ /\ cconn[c] = "open" /\ q # <<>> /\ \A i \in DOMAIN q : mm[q[i]].done
        /\ "clientWrite" \in Faults
        /\ msg' = mm /\ CloseClient(c) /\ UNCHANGED <<freeMsgs, toClient>>

\* Mutant: a reply to a frag that is done is not dropped.
TakeAnswerLate(s, t, kinds) ==
  /\ TakeReply(s)
  /\ LET f == frag[Answered(s)] IN
       /\ f.owner # Nil
       /\ msg[f.peer].type \in t
  /\ Answer(s).kind \in kinds
  /\ UNCHANGED <<control, sconn, outFragQueue, poolVars, redisVars>>

\* A reply the connection's sread goes on with, for a request of type t.
TakeAnswer(s, t, kinds) ==
  /\ TakeReply(s)
  /\ LET f == frag[Answered(s)] IN
       /\ f.owner # Nil /\ ~f.done
       /\ msg[f.peer].type \in t
  /\ Answer(s).kind \in kinds
  /\ UNCHANGED <<control, sconn, outFragQueue, poolVars, redisVars>>

Peer(s) == frag[Answered(s)].peer

\* Mutants: the last frag but one, or any frag, completes the Msg.
WaitingShort(s) == msg[Peer(s)].ndone + 2 < Cardinality(msg[Peer(s)].body)
WaitingNot(s)   == FALSE

\* FragDoneNumber, with this reply counted, says another frag is missing.
Waiting(s) == msg[Peer(s)].ndone + 1 < Cardinality(msg[Peer(s)].body)

\* Mutant: the frag is not counted.
ContinueUncounted(s, fs, m) ==
  /\ Waiting(s)
  /\ frag' = fs
  /\ msg' = [msg EXCEPT ![Peer(s)] = m]
  /\ UNCHANGED <<freeMsgs, msgId, clientVars>>

\* The frag is not the last of its Msg: the connection's sread says Continue.
Continue(s, fs, m) ==
  /\ Waiting(s)
  /\ frag' = fs
  /\ msg' = [msg EXCEPT ![Peer(s)] = [m EXCEPT !.ndone = @ + 1]]
  /\ UNCHANGED <<freeMsgs, msgId, clientVars>>

Complete(s, fs, m, kind, from) ==
  /\ ~Waiting(s)
  /\ frag' = fs
  /\ Deliver(frag[Answered(s)].owner,
             [msg EXCEPT ![Peer(s)] = [m EXCEPT !.ndone = @ + 1, !.done = TRUE,
                                                !.rsp = [kind |-> kind, from |-> from]]])

\* A reply longer than MsgMaxLength fails the whole request.
SReadTooLarge(s) ==
  /\ TakeAnswer(s, Types \cup {"unknown"}, {"large"})
  /\ LET m == msg[Peer(s)] IN
       /\ frag' = AllDone(m.body)
       /\ Deliver(frag[Answered(s)].owner,
                  [msg EXCEPT ![Peer(s)] =
                     [m EXCEPT !.ndone = Cardinality(m.body), !.done = TRUE,
                               !.rsp = [kind |-> "error", from |-> {}]]])

\* Default: the reply, whatever it is, is the client's.
SReadDefault(s) ==
  /\ TakeAnswer(s, {"default", "unknown"}, {"data", "error"})
  /\ frag' = [frag EXCEPT ![Answered(s)].done = TRUE]
  /\ Deliver(frag[Answered(s)].owner,
             [msg EXCEPT ![Peer(s)].ndone = @ + 1, ![Peer(s)].done = TRUE,
                         ![Peer(s)].rsp = [kind |-> "data", from |-> {Answer(s).frag}]])

\* MGet: the values of all frags, in the order of the keys.  The assembled reply
\* may be too large although no part is.
SReadMGet(s) ==
  /\ TakeAnswer(s, {"mget"}, {"data"})
  /\ LET fs   == [frag EXCEPT ![Answered(s)].done = TRUE,
                              ![Answered(s)].rsp = Answer(s).frag]
         m    == msg[Peer(s)]
         from == {fs[g].rsp : g \in m.body}
     IN \/ Continue(s, fs, m)
        \/ 0 \notin from /\ Complete(s, fs, m, "data", from)
        \/ "large" \in Faults /\ 0 \notin from /\ Complete(s, fs, m, "error", {})

\* parseMGet panics on an error reply, and MGet when the values of a frag that
\* FragDoneNumber has counted are missing.
SReadMGetPanics(s) ==
  /\ LoopFree /\ Opened(s) /\ fromRedis[s] # <<>> /\ inFragQueue[s] # <<>>
  /\ LET f == frag[Answered(s)] IN
       /\ f.owner # Nil /\ ~f.done /\ msg[f.peer].type = "mget"
       /\ \/ Answer(s).kind \in {"error", "auth"}
          \/ /\ Answer(s).kind = "data" /\ ~Waiting(s)
             /\ \E g \in msg[f.peer].body \ {Answered(s)} : frag[g].rsp = 0
  /\ Panic

\* MSet: OK if every frag got OK.
SReadMSet(s) ==
  /\ TakeAnswer(s, {"mset"}, {"data", "error", "auth"})
  /\ LET fs   == [frag EXCEPT ![Answered(s)].done = TRUE,
                              ![Answered(s)].rsp = Answer(s).frag,
                              ![Answered(s)].ok = (Answer(s).kind = "data")]
         m    == msg[Peer(s)]
         from == {fs[g].rsp : g \in m.body}
     IN \/ Continue(s, fs, m)
        \/ (\A g \in m.body : fs[g].ok) /\ Complete(s, fs, m, "data", from)
        \/ /\ Answer(s).kind # "auth" /\ \E g \in m.body : ~fs[g].ok
           /\ Complete(s, fs, m, "error", {})

\* Del: the sum of the counts.
SReadDel(s) ==
  /\ TakeAnswer(s, {"del"}, {"data", "error", "auth"})
  /\ LET fs == [frag EXCEPT ![Answered(s)].done = TRUE]
         m  == [msg[Peer(s)] EXCEPT !.del = @ \cup {Answer(s).frag}]
     IN \/ Continue(s, fs, m)
        \/ Answer(s).kind # "auth" /\ Complete(s, fs, m, "data", m.del)

\* Redis wants a password or refuses the one it got, and the reply is not one
\* that sread is done with before it looks: a late one, or one of several frags
\* of which another is missing.  Polling returns, and run closes every connection.
SReadShutdown(s) ==
  /\ LoopFree /\ Opened(s) /\ fromRedis[s] # <<>> /\ inFragQueue[s] # <<>>
  /\ Answer(s).kind = "auth"
  /\ LET f == frag[Answered(s)] IN
       f.owner # Nil => /\ ~f.done /\ msg[f.peer].type # "mget"
                        /\ msg[f.peer].type \in {"mset", "del"} => ~Waiting(s)
  /\ status' = "exited"
  /\ cconn' = [c \in Client |-> IF cconn[c] = "open" THEN "closed" ELSE cconn[c]]
  /\ inMsgQueue' = [c \in Client |-> <<>>]
  /\ sconn' = [t \in SConn |-> IF Opened(t) THEN "closed" ELSE sconn[t]]
  /\ outFragQueue' = [t \in SConn |-> <<>>]
  /\ inFragQueue' = [t \in SConn |-> <<>>]
  /\ toRedis' = [t \in SConn |-> <<>>]
  /\ fromRedis' = [t \in SConn |-> <<>>]
  /\ timeoutTree' = <<>> /\ clock' = 0
  /\ UNCHANGED <<handling, tasks, ticks, msgVars, frag, asked, toClient, poolVars, redisVars>>

SRead(s) ==
  \/ SReadCluster(s) \/ SReadMovedFails(s) \/ SReadLate(s) \/ SReadTooLarge(s)
  \/ SReadDefault(s) \/ SReadMGet(s) \/ SReadMGetPanics(s) \/ SReadMSet(s) \/ SReadDel(s)
  \/ SReadShutdown(s)
  \/ \E t \in SConn : SReadMoved(s, t)
-----------------------------------------------------------------------------
(* The ticker, once a second at the start of a round.                       *)

\* OnTicker asks any node of ps for the cluster's nodes.
OnTicker(ps) ==
  \/ \E s \in SConn : s[1] \in ps /\ PoolGet(s) /\ tasks' = Append(tasks, Task("cluster", s, 0))
  \/ \E a \in ps : PoolGetNil(a) /\ UNCHANGED <<sconn, tasks>>

\* serverChanged is false.
Ticker ==
  /\ LoopFree /\ ticks < MaxTick
  /\ ticks' = ticks + 1
  /\ OnTicker(pools)
  /\ UNCHANGED <<status, handling, msgVars, frag, clientVars, outFragQueue, inFragQueue,
                 toRedis, fromRedis, timeoutVars, pools, slavePools, Slots2Node, redisVars>>

\* serverChanged is true: topology t is loaded.
TickerChanged(t) ==
  /\ LoopFree /\ ticks < MaxTick
  /\ ticks' = ticks + 1
  /\ handling' = [op |-> "ticker", topo |-> t]
  /\ UNCHANGED <<status, tasks, msgVars, frag, clientVars, serverVars, timeoutVars, poolVars,
                 redisVars>>

\* Pool.Release: the pool forgets its connections, which tasks will close.
Release(a) ==
  /\ tasks' = tasks \o [i \in DOMAIN active[a] |-> Task("close", active[a][i], 0)]
  /\ active' = [active EXCEPT ![a] = <<>>]

\* Pool.Close of a node that is gone.
TickerRemove(a) ==
  /\ status = "running" /\ handling.op = "ticker"
  /\ a \in pools \ handling.topo.nodes
  /\ Release(a)
  /\ pools' = pools \ {a} /\ slavePools' = slavePools \ {a}
  /\ UNCHANGED <<status, handling, ticks, msgVars, frag, clientVars, serverVars, timeoutVars,
                 Slots2Node, redisVars>>

\* Pool.SetIsSlave of a node that stays but has changed its role: its pool is
\* released, whatever is under way on its connections.
SetIsSlave(a) ==
  /\ status = "running" /\ handling.op = "ticker"
  /\ pools \subseteq handling.topo.nodes
  /\ a \in pools /\ ~(a \in slavePools <=> a \in handling.topo.slaves)
  /\ Release(a)
  /\ slavePools' = (slavePools \ {a}) \cup (handling.topo.slaves \cap {a})
  /\ UNCHANGED <<status, handling, ticks, msgVars, frag, clientVars, serverVars, timeoutVars,
                 pools, Slots2Node, redisVars>>

\* newPool for the nodes that are new, the slots, and OnTicker.
TickerLoad ==
  /\ status = "running" /\ handling.op = "ticker"
  /\ pools \subseteq handling.topo.nodes
  /\ slavePools = handling.topo.slaves \cap pools
  /\ pools' = handling.topo.nodes /\ slavePools' = handling.topo.slaves
  /\ Slots2Node' = handling.topo.slots
  /\ handling' = Idle
  /\ OnTicker(handling.topo.nodes)
  /\ UNCHANGED <<status, ticks, msgVars, frag, clientVars, outFragQueue, inFragQueue, toRedis,
                 fromRedis, timeoutVars, redisVars>>
-----------------------------------------------------------------------------
(* Redis Cluster: every request on a connection is answered once, in order. *)

\* What node a may answer to frag f: the owner of the slot has the data, unless
\* the key has left for the node the slot is migrating to (ASK); any other node
\* redirects to the owner (MOVED), the importing one too since no ASKING is sent.
Answers(a, f) ==
  LET k   == frag[f].slot
      own == {[frag |-> f, kind |-> x, addr |-> a] :
                x \in {"data"} \cup ({"error", "large", "auth"} \cap Faults)}
      to(kind, b) == {[frag |-> f, kind |-> kind, addr |-> b]}
  IN IF frag[f].owner = Nil
       THEN {[frag |-> f, kind |-> x, addr |-> a] : x \in {"data"} \cup ({"auth"} \cap Faults)}
     ELSE IF home[k] # a THEN to("moved", home[k])
     ELSE own \cup (IF "ask" \in Faults /\ migrating[k] # Nil
                      THEN to("ask", migrating[k]) ELSE {})

Execute(s) ==
  /\ Opened(s) /\ toRedis[s] # <<>>
  /\ \E r \in Answers(s[1], Head(toRedis[s])) :
       fromRedis' = [fromRedis EXCEPT ![s] = Append(@, r)]
  /\ toRedis' = [toRedis EXCEPT ![s] = Tail(@)]
  /\ UNCHANGED <<control, msgVars, frag, clientVars, sconn, outFragQueue, inFragQueue,
                 timeoutVars, poolVars, redisVars>>

Migrate(k, a) ==
  /\ migrations < MaxMigrate
  /\ migrating[k] = Nil /\ home[k] # a
  /\ migrating' = [migrating EXCEPT ![k] = a]
  /\ migrations' = migrations + 1
  /\ UNCHANGED <<control, msgVars, frag, clientVars, serverVars, timeoutVars, poolVars, home>>

Migrated(k) ==
  /\ migrating[k] # Nil
  /\ home' = [home EXCEPT ![k] = migrating[k]]
  /\ migrating' = [migrating EXCEPT ![k] = Nil]
  /\ UNCHANGED <<control, msgVars, frag, clientVars, serverVars, timeoutVars, poolVars, migrations>>
-----------------------------------------------------------------------------
OnCReact == \E f \in DOMAIN frag : DispatchFails(f) \/ \E s \in SConn : Dispatch(f, s)

RunTasks == HandleWriteSignal \/ WriteClusterNodes \/ CloseTask \/ AsyncWrite

Reload == TickerLoad \/ \E a \in Addr : TickerRemove(a) \/ SetIsSlave(a)

Next ==
  \/ \E c \in Client : Accept(c) \/ CClose(c) \/ CReactNil(c)
  \/ \E c \in Client, m \in freeMsgs \cup {Len(msg) + 1} :
       CReactImmediate(c, m) \/ \E q \in Requests : CReact(c, q, m)
  \/ OnCReact
  \/ RunTasks
  \/ \E s \in SConn : SRead(s) \/ SClose(s) \/ Execute(s)
  \/ \E f \in DOMAIN timeoutTree : MsgTimeout(f)
  \/ Ticker \/ (\E t \in Topologies : TickerChanged(t)) \/ Reload
  \/ \E k \in Slot : Migrated(k) \/ \E a \in Addr : Migrate(k, a)

Spec == Init /\ [][Next]_vars

\* The loop finishes the handler it is in; every round of Polling runs tasks
\* (Poller's TasksRun) and reads every connection epoll reports, and Redis
\* answers what it has received.  A migration that started is completed.
\* Nothing obliges a client to ask, or anything to fail.
Fairness ==
  /\ WF_vars(OnCReact) /\ WF_vars(Reload) /\ WF_vars(RunTasks)
  /\ \A s \in SConn : WF_vars(SRead(s)) /\ WF_vars(Execute(s))
  /\ \A k \in Slot : WF_vars(Migrated(k))

FairSpec == Spec /\ Fairness
-----------------------------------------------------------------------------
Ids      == Nat \ {0}
MsgType  == [id : Nat, type : Types \cup {"unknown"}, body : SUBSET Ids, done : BOOLEAN,
             ndone : Nat, del : SUBSET Ids, rsp : [kind : {"none", "data", "error"}, from : SUBSET Ids]]
FragType == [owner : Client \cup {Nil}, peer : Nat, slot : Slot \cup {Nil}, done : BOOLEAN,
             rsp : Nat, ok : BOOLEAN, req : Nat]
TaskType == [op : {"write", "cluster", "close"}, conn : SConn, id : Nat]
              \cup [op : {"reply"}, conn : Client, id : Nat]
ReplyType  == [id : Nat, kind : {"none", "data", "error", "timeout", "immediate"}, from : SUBSET Ids]
AnswerType == [frag : DOMAIN frag, kind : {"data", "error", "large", "auth", "moved", "ask"},
               addr : Addr]
ReactType  == [op : {"react"}, client : Client, msg : DOMAIN msg, todo : SUBSET DOMAIN frag]
ReloadType == [op : {"ticker"}, topo : Topologies]

ControlType ==
  /\ status \in {"running", "exited", "panicked"}
  /\ handling = Idle \/ handling \in ReactType \/ handling \in ReloadType
  /\ tasks \in Seq(TaskType)
  /\ ticks \in 0 .. MaxTick

MsgsType ==
  /\ msg \in Seq(MsgType) /\ freeMsgs \in SUBSET DOMAIN msg /\ msgId \in 0 .. MaxReq
  /\ \A m \in DOMAIN msg : msg[m].body \subseteq DOMAIN frag

\* A frag of a client has a Msg and a slot from the start, an owner once it is
\* dispatched; the frags of the proxy's own requests have none of them.
FragsType ==
  /\ frag \in Seq(FragType)
  /\ \A f \in DOMAIN frag :
       /\ frag[f].peer \in DOMAIN msg \cup {0}
       /\ frag[f].peer # 0 => frag[f].slot \in Slot
       /\ frag[f].owner # Nil => frag[f].peer # 0
       /\ frag[f].ok => frag[f].rsp # 0
  /\ handling.op = "react" => \A f \in handling.todo : frag[f].peer # 0

ClientsType ==
  /\ cconn \in [Client -> {"new", "open", "closed"}]
  /\ inMsgQueue \in [Client -> Seq(DOMAIN msg)]
  /\ asked \in [Client -> Seq(Ids)]
  /\ toClient \in [Client -> Seq(ReplyType)]

ServersType ==
  /\ sconn \in [SConn -> {"new", "open", "closed"}]
  /\ outFragQueue \in [SConn -> Seq(DOMAIN frag)]
  /\ inFragQueue \in [SConn -> Seq(DOMAIN frag)]
  /\ toRedis \in [SConn -> Seq(DOMAIN frag)]
  /\ fromRedis \in [SConn -> Seq(AnswerType)]

TimeoutsType ==
  /\ DOMAIN timeoutTree \subseteq {f \in DOMAIN frag : frag[f].owner # Nil}
  /\ timeoutTree \in [DOMAIN timeoutTree -> Nat]
  /\ clock \in Nat

PoolsType ==
  /\ pools \in SUBSET Addr /\ slavePools \subseteq pools
  /\ active \in [Addr -> Seq(SConn)]
  /\ Slots2Node \in [Slot -> Addr \cup {Nil}]

RedisType ==
  /\ home \in [Slot -> Addr]
  /\ migrating \in [Slot -> Addr \cup {Nil}]
  /\ migrations \in 0 .. MaxMigrate

\* Types, and no dangling reference: every Msg or Frag that a queue, a handler,
\* the timeout tree or another Msg or Frag points to exists.
TypeOK ==
  /\ ControlType /\ MsgsType /\ FragsType /\ ClientsType /\ ServersType
  /\ TimeoutsType /\ PoolsType /\ RedisType
-----------------------------------------------------------------------------
(* Properties.                                                              *)

Queued(c)    == Elems(inMsgQueue[c])
FragsOf(id)  == {f \in DOMAIN frag : frag[f].req = id}
Sent(s)      == Elems(inFragQueue[s])

\* Replies carry no identifier: Decode pairs them with inFragQueue by position.
\* The queue of a connection is at all times what Redis has answered and what it
\* has still to answer, in order, so that a reply always finds its own frag and
\* Decode never meets a reply with an empty queue (whose error branch in sread
\* would loop for ever).
WireMatch ==
  \A s \in SConn :
    LET n == Len(fromRedis[s]) IN
    /\ Len(inFragQueue[s]) = n + Len(toRedis[s])
    /\ \A i \in 1 .. n : inFragQueue[s][i] = fromRedis[s][i].frag
    /\ \A i \in DOMAIN toRedis[s] : inFragQueue[s][n + i] = toRedis[s][i]

\* A client gets replies to its own requests only, and the data in a reply is
\* that of all the frags of its request and of nothing else (eventloop.sread,
\* MGet, MSet, Del, and the recycling of Msgs through MsgPool).
RepliesOwn ==
  \A c \in Client : \A r \in Elems(toClient[c]) :
    /\ r.id \in Elems(asked[c])
    /\ r.kind = "data" => r.from = FragsOf(r.id)

\* A client that pipelines gets its replies in the order of its requests:
\* the i-th reply answers the i-th request (eventloop.sread flushes inMsgQueue).
InOrder ==
  \A c \in Client : \A i \in DOMAIN toClient[c] :
    i \in DOMAIN asked[c] /\ toClient[c][i].id = asked[c][i]

\* Of the requests that go to Redis, a later one never gets its data before an
\* earlier one, even if replies made by the proxy itself overtake both.
QueuedInOrder ==
  \A c \in Client : \A i, j \in DOMAIN toClient[c] :
    i < j /\ toClient[c][i].kind = "data" /\ toClient[c][j].kind = "data"
      => toClient[c][i].id < toClient[c][j].id

\* No request is answered twice: neither by a reply and a timeout error, nor by
\* an error of OnCReact and a reply that comes later.
AtMostOnce ==
  \A c \in Client : \A i, j \in DOMAIN toClient[c] :
    toClient[c][i].id = toClient[c][j].id => i = j

\* No request is forgotten while nothing fails: as long as a queued Msg is not
\* done, a frag of it is queued at an open connection, through redirections too.
RequestUnderway ==
  \A c \in Client : \A m \in Queued(c) :
    ~msg[m].done =>
      \E f \in msg[m].body, s \in SConn :
        ~frag[f].done /\ Opened(s) /\ f \in Elems(outFragQueue[s]) \cup Sent(s)

\* A Msg in a client's queue is Done when all its frags are, and not before
\* (the comment on Msg.Done, "all frags Done").
DoneMeansAll ==
  \A c \in Client : \A m \in Queued(c) :
    msg[m].done => \A f \in msg[m].body : frag[f].done

\* FragDoneNumber is the number of frags of the Msg that are done (the comment
\* on it, "number of finished frags"); MGet, MSet and Del rely on it.
FragDoneNumberExact ==
  \A c \in Client : \A m \in Queued(c) :
    msg[m].ndone = Cardinality({f \in msg[m].body : frag[f].done})

\* A frag waits for one reply at a time: no redirection, timeout or close leaves
\* it in two queues, or twice in one (OnMoved, sread, msgTimeout, OnSClosed).
UniqueInFlight ==
  \A s, t \in SConn :
    LET q == outFragQueue[s] \o inFragQueue[s]
        r == outFragQueue[t] \o inFragQueue[t]
    IN \A i \in DOMAIN q, j \in DOMAIN r : q[i] = r[j] => s = t /\ i = j

\* A frag in the outFragQueue of an open connection has a write task coming: no
\* request stays behind in the proxy (EnqueueOutFrag, handleWriteSignal).
SignalPending ==
  status = "running" =>
    \A s \in SConn : outFragQueue[s] # <<>> =>
      \E i \in DOMAIN tasks : tasks[i].op = "write" /\ tasks[i].conn = s

\* Pool.active never exceeds RedisServerConnections, although closed connections
\* stay in it until Get throws them away.
PoolBound == \A a \in Addr : Len(active[a]) <= MaxActive

\* No connection leaks: an open one is in the pool of its node, where Get will
\* find it, or a task to close it is queued (Pool.Get, Pool.Release, ticker).
NoLeak ==
  status = "running" =>
    \A s \in SConn : Opened(s) =>
      \/ s[1] \in pools /\ s \in Elems(active[s[1]])
      \/ \E i \in DOMAIN tasks : tasks[i].op = "close" /\ tasks[i].conn = s

\* A client's frag that Redis has not answered has a deadline in the timeout tree
\* unless it is done, and nothing else has one (enqueueInFrag, DequeueInFrag,
\* OnSClosed, msgTimeout).
TimeoutArmed ==
  LET sent == {f \in UNION {Sent(s) : s \in SConn} : frag[f].owner # Nil} IN
  /\ DOMAIN timeoutTree \subseteq sent
  /\ RequestTimeout => \A f \in sent : frag[f].done \/ f \in DOMAIN timeoutTree

\* A request that Redis does not answer in time is answered with an error: while
\* a queued Msg has unfinished frags, one of them is to be sent or has a deadline
\* (the comments on RedisRequestTimeout and on msgTimeout).
TimeoutReported ==
  RequestTimeout =>
    \A c \in Client : \A m \in Queued(c) :
      (\E f \in msg[m].body : ~frag[f].done) =>
        \E f \in msg[m].body :
          \/ f \in DOMAIN timeoutTree
          \/ \E s \in SConn : f \in Elems(outFragQueue[s])

\* The event loop does not panic: MGet finds the values of every frag when
\* FragDoneNumber says so, OnMoved never meets a Msg that was put back.  A packet
\* with no request in it does make it panic (CReactNil), as do some replies: see
\* the README, Disagreements.
NoPanic == status # "panicked"

\* The proxy closes no client that has not asked for it (the "redis react happen
\* but client inMsgQueue empty" branch of eventloop.sread).
ClientKept == \A c \in Client : cconn[c] # "closed"

\* Every request is answered in the end, unless its client goes away: through
\* pipelining, pooled connections, redirections and migrations.
EveryRequestAnswered ==
  \A c \in Client, i \in 1 .. MaxReq :
    (Len(asked[c]) >= i) ~> (Len(toClient[c]) >= i \/ cconn[c] # "open")
=============================================================================

--------------------------- MODULE ProxyInvariants --------------------------
(***************************************************************************)
(* The invariants of Proxy that its proofs need besides the properties:    *)
(* what is true of every request from Decode to the reply (LifeInv), of    *)
(* the frags that wait for Redis (FlightInv, LateInv, UnderwayInv), of the *)
(* way to the nodes (RouteInv) and of each client (OwedInv, DataInv,       *)
(* OrderInv, OnceInv), and what the steps of the event loop do (ClientStep,*)
(* Quiet, BusyStep).                                                       *)
(***************************************************************************)
EXTENDS Proxy
-----------------------------------------------------------------------------
(* Msgs and Frags.                                                          *)

\* What every step keeps of the Msgs and Frags there are.
Growth ==
  /\ DOMAIN msg \subseteq DOMAIN msg' /\ DOMAIN frag \subseteq DOMAIN frag'
  /\ \A f \in DOMAIN frag :
       /\ frag'[f].peer = frag[f].peer /\ frag'[f].slot = frag[f].slot
       /\ frag[f].owner # Nil => frag'[f].owner # Nil

\* Frags updated in place, as every handler but Decode does it: they keep their
\* owners, Msgs and slots.
FragsEdited(fs) ==
  /\ fs \in Seq(FragType) /\ DOMAIN fs = DOMAIN frag
  /\ \A f \in DOMAIN frag :
       /\ fs[f].peer = frag[f].peer /\ fs[f].slot = frag[f].slot /\ fs[f].owner = frag[f].owner
       /\ fs[f].ok => fs[f].rsp # 0
-----------------------------------------------------------------------------
(* Replies.                                                                 *)

\* Every Msg has a number of frags.
BodiesFinite == \A m \in DOMAIN msg : Cardinality(msg[m].body) \in Nat
-----------------------------------------------------------------------------
(* WireMatch.                                                               *)

\* The queue q of sent frags is the replies r and then the requests t.
Wired(q, r, t) ==
  /\ Len(q) = Len(r) + Len(t)
  /\ \A i \in 1 .. Len(r) : q[i] = r[i].frag
  /\ \A i \in DOMAIN t : q[Len(r) + i] = t[i]

\* What a step may do to the replies and requests of connection s: nothing, write
\* frags, decode a reply, have Redis execute a request, or close it.
WireStep(s) ==
  \/ UNCHANGED <<inFragQueue[s], fromRedis[s], toRedis[s]>>
  \/ \E u \in Seq(DOMAIN frag) :
       /\ inFragQueue'[s] = inFragQueue[s] \o u /\ toRedis'[s] = toRedis[s] \o u
       /\ fromRedis'[s] = fromRedis[s]
  \/ /\ inFragQueue[s] # <<>> /\ fromRedis[s] # <<>>
     /\ inFragQueue'[s] = Tail(inFragQueue[s]) /\ fromRedis'[s] = Tail(fromRedis[s])
     /\ toRedis'[s] = toRedis[s]
  \/ \E r :
       /\ toRedis[s] # <<>> /\ r.frag = Head(toRedis[s])
       /\ fromRedis'[s] = Append(fromRedis[s], r) /\ toRedis'[s] = Tail(toRedis[s])
       /\ inFragQueue'[s] = inFragQueue[s]
  \/ inFragQueue'[s] = <<>> /\ fromRedis'[s] = <<>> /\ toRedis'[s] = <<>>
-----------------------------------------------------------------------------
(* SignalPending.                                                           *)

\* A task of kind op for connection s is in the task queue ts.
Pending(ts, op, s) == \E i \in DOMAIN ts : ts[i].op = op /\ ts[i].conn = s

\* The invariant behind SignalPending: handleWriteSignal drops its task when the
\* connection is closed, so a connection with frags to send must be open.
SignalInv ==
  \A s \in SConn :
    outFragQueue[s] # <<>> => Opened(s) /\ (status = "running" => Pending(tasks, "write", s))
-----------------------------------------------------------------------------
(* The inductive invariant.  M, E and F stand for msg, freeMsgs and frag, so *)
(* that it can be stated between the two halves of a reply: sread of the    *)
(* connection, and the delivery in eventloop.sread.                         *)

DoneOf(b, F) == {f \in b : F[f].done}

Partial(r, F) == \E f \in r.body : ~F[f].done

\* A Msg some frags of which are missing has counted the others, and has what
\* they brought.
Gathered(r, F) ==
  /\ r.ndone = Cardinality(DoneOf(r.body, F))
  /\ r.type \in {"mget", "mset"} => \A f \in r.body : F[f].done => F[f].rsp = f
  /\ r.type = "del" => r.del = DoneOf(r.body, F)

\* A Msg that is done.
Finished(r, F) ==
  /\ \A f \in r.body : F[f].done
  /\ r.ndone = Cardinality(r.body)
  /\ r.rsp.kind = "data" => r.rsp.from = r.body

\* Every request has one slot.
Single == \A q \in Requests : Len(q.slots) = 1

\* A Msg that is not in the pool: its body is the frags of its request.
MsgSound(r, F) ==
  /\ r.id # 0 /\ r.type \in Types
  /\ r.body = {f \in DOMAIN F : F[f].req = r.id}
  /\ r.body # {} /\ IsFiniteSet(r.body)
  /\ r.type = "default" \/ Single => \E f \in DOMAIN F : r.body = {f}
  /\ r.done => Finished(r, F)
  /\ Partial(r, F) => Gathered(r, F)

Live(M, E) == DOMAIN M \ E

\* Ids are handed out once, and a client that was not accepted has none.
AskedOK ==
  /\ \A c \in Client : \A id \in Elems(asked[c]) : id <= msgId
  /\ \A c, d \in Client : \A id \in Elems(asked[c]) : id \in Elems(asked[d]) => c = d
  /\ \A c \in Client : cconn[c] = "new" => asked[c] = <<>>

\* The pool holds Msgs that were reset; the others are those of different requests.
MsgsOK(M, E, F) ==
  /\ \A m \in E : M[m] = PutMsg
  /\ \A m \in Live(M, E) : MsgSound(M[m], F) /\ M[m].id <= msgId
  /\ \A m, n \in Live(M, E) : M[m].id = M[n].id => m = n
  /\ ~RequestTimeout => \A m \in Live(M, E) : M[m].done \/ Partial(M[m], F)

\* A frag that was sent and is not done belongs to its Msg still.
FragsOK(M, E, F) ==
  \A f \in DOMAIN F :
    /\ F[f].req <= msgId
    /\ F[f].owner # Nil => F[f].req \in Elems(asked[F[f].owner])
    /\ F[f].owner # Nil /\ ~F[f].done => F[f].peer \in Live(M, E) /\ F[f].req = M[F[f].peer].id

\* The queue of a client holds Msgs of its own requests, in their order.
QueuesOK(M, E) ==
  \A c \in Client : \A i \in DOMAIN inMsgQueue[c] :
    /\ inMsgQueue[c][i] \in Live(M, E)
    /\ M[inMsgQueue[c][i]].id \in Elems(asked[c])
    /\ \A j \in DOMAIN inMsgQueue[c] :
         i < j => M[inMsgQueue[c][i]].id < M[inMsgQueue[c][j]].id

\* OnCReact's loop is at the latest request; the frags it has dispatched have the
\* client as their owner, the others have none.
ReactOK ==
  handling.op = "react" =>
    /\ handling.msg \in Live(msg, freeMsgs)
    /\ msg[handling.msg].id = msgId /\ msgId \in Elems(asked[handling.client])
    /\ cconn[handling.client] = "open"
    /\ handling.todo \subseteq msg[handling.msg].body /\ handling.todo # {}
    /\ \A f \in handling.todo :
         frag[f].owner = Nil /\ ~frag[f].done /\ frag[f].peer = handling.msg
    /\ \A f \in msg[handling.msg].body \ handling.todo : frag[f].owner = handling.client
    /\ \A c \in Client : handling.msg \notin Elems(inMsgQueue[c])

TasksOK ==
  \A i \in DOMAIN tasks :
    tasks[i].op = "reply" => tasks[i].id \in Elems(asked[tasks[i].conn])

LifeInv ==
  /\ AskedOK /\ MsgsOK(msg, freeMsgs, frag) /\ FragsOK(msg, freeMsgs, frag)
  /\ QueuesOK(msg, freeMsgs) /\ ReactOK /\ TasksOK /\ RepliesOwn
-----------------------------------------------------------------------------
(* Finite sets: the bodies of Msgs.                                         *)

\* What the proofs use of the library's theorems about finite sets.  ProxyProofs
\* proves it from them; until then it is a premise, as all of the library in every
\* module would weigh on every proof.
FiniteSetFacts ==
  /\ IsFiniteSet({}) /\ Cardinality({}) = 0
  /\ \A S : IsFiniteSet(S) => Cardinality(S) \in Nat
  /\ \A S : IsFiniteSet(S) =>
       \A T \in SUBSET S : /\ IsFiniteSet(T) /\ Cardinality(T) <= Cardinality(S)
                           /\ Cardinality(S) = Cardinality(T) => S = T
  /\ \A S : IsFiniteSet(S) =>
       \A x : /\ IsFiniteSet(S \cup {x})
              /\ Cardinality(S \cup {x}) = IF x \in S THEN Cardinality(S) ELSE Cardinality(S) + 1
  /\ \A a, b \in Int : IsFiniteSet(a .. b)
-----------------------------------------------------------------------------
(* One Msg, and a reply to one of its frags.                                *)

\* G is F with the frags of b changed in nothing but done, rsp and ok, all of them
\* done.
Marked(F, G, b) ==
  /\ DOMAIN G = DOMAIN F
  /\ \A g \in DOMAIN F :
       /\ G[g].req = F[g].req /\ G[g].owner = F[g].owner /\ G[g].peer = F[g].peer
       /\ g \notin b => G[g] = F[g]
       /\ g \in b => G[g].done = TRUE

\* The fields of a Msg no reply changes.
SameRequest(x, r) == x.id = r.id /\ x.type = r.type /\ x.body = r.body

\* What the reply to f left in its frag or in its Msg.
Brought(x, r, G, f) ==
  /\ r.type \in {"mget", "mset"} => G[f].rsp = f
  /\ r.type = "del" => x.del = r.del \cup {f}
-----------------------------------------------------------------------------
(* Steps that neither decode nor dispatch a request, nor answer one.        *)

\* No new reply is to be written: the tasks that write replies are among the old
\* ones, perhaps one place further to the front.
RepliesPending ==
  \E d \in {0, 1} : \A i \in DOMAIN tasks' :
    tasks'[i].op = "reply" => i + d \in DOMAIN tasks /\ tasks'[i] = tasks[i + d]

\* A client is accepted, or closed, or left alone.
ClientQuiet(c) ==
  \/ inMsgQueue'[c] = inMsgQueue[c] /\ cconn'[c] = cconn[c]
  \/ /\ handling.op # "react"
     /\ inMsgQueue'[c] = inMsgQueue[c] /\ cconn[c] = "new" /\ cconn'[c] # "new"
  \/ /\ handling.op # "react"
     /\ inMsgQueue'[c] = <<>> /\ cconn'[c] # "open" /\ (cconn'[c] = "new" => cconn[c] = "new")

FragsQuiet ==
  /\ DOMAIN frag \subseteq DOMAIN frag' /\ \A f \in DOMAIN frag : frag'[f] = frag[f]
  /\ \A f \in DOMAIN frag' \ DOMAIN frag : frag'[f].owner = Nil /\ frag'[f].req = 0

MsgsQuiet ==
  msg' = msg /\ freeMsgs' = freeMsgs /\ msgId' = msgId /\ asked' = asked /\ toClient' = toClient

HandlingQuiet == handling' = handling \/ (handling.op # "react" /\ handling'.op # "react")

Quiet ==
  /\ MsgsQuiet /\ FragsQuiet /\ HandlingQuiet /\ RepliesPending
  /\ \A c \in Client : ClientQuiet(c)
-----------------------------------------------------------------------------
(* What a step must not do, so that Msgs and replies stay as they are.      *)

\* New frags are those of a new request, or of none.
FragsGrow ==
  /\ DOMAIN frag \subseteq DOMAIN frag'
  /\ \A f \in DOMAIN frag : frag'[f].req = frag[f].req
  /\ \A f \in DOMAIN frag' \ DOMAIN frag : frag'[f].req = 0 \/ frag'[f].req > msgId

AskedGrow == \A c \in Client : Elems(asked[c]) \subseteq Elems(asked'[c])

ReplyOK(r, c) == r.id \in Elems(asked[c]) /\ (r.kind = "data" => r.from = FragsOf(r.id))
-----------------------------------------------------------------------------
(* A request is decoded.                                                    *)

\* A Msg of the pool with the fields Decode sets.
Decoded(id, t, b) == [PutMsg EXCEPT !.id = id, !.type = t, !.body = b]

\* The frags a step makes.
Made == DOMAIN frag' \ DOMAIN frag
-----------------------------------------------------------------------------
(* eventloop.sread gives a client its replies.                              *)

\* The replies to the Msgs of c's queue, and what becomes of the Msgs.
Flushed(c, mm) ==
  LET q == inMsgQueue[c] IN
  /\ \A i \in DOMAIN q : mm[q[i]].done
  /\ toClient' = [toClient EXCEPT ![c] = @ \o
       [i \in DOMAIN q |-> Reply(mm[q[i]].id, mm[q[i]].rsp.kind, mm[q[i]].rsp.from)]]
  /\ msg' = [m \in DOMAIN mm |-> IF m \in Elems(q) THEN PutMsg ELSE mm[m]]
  /\ freeMsgs' = freeMsgs \cup Elems(q)
  /\ inMsgQueue' = [inMsgQueue EXCEPT ![c] = <<>>]
  /\ cconn' = cconn /\ cconn[c] = "open"

\* They are kept, or dropped with the client.
Withheld(c, mm) ==
  /\ msg' = mm /\ freeMsgs' = freeMsgs /\ toClient' = toClient
  /\ \/ cconn' = cconn /\ inMsgQueue' = inMsgQueue
     \/ /\ cconn' = [cconn EXCEPT ![c] = "closed"]
        /\ inMsgQueue' = [inMsgQueue EXCEPT ![c] = <<>>]
-----------------------------------------------------------------------------
(* The reply to a frag that waits for one.                                  *)

\* What the handlers record in the frag of a reply: its bytes, and whether
\* MSET worked.
Bytes(a, r)       == [frag EXCEPT ![a].done = TRUE, ![a].rsp = r]
BytesOk(a, r, b) == [frag EXCEPT ![a].done = TRUE, ![a].rsp = r, ![a].ok = b]
-----------------------------------------------------------------------------
(* UniqueInFlight.                                                          *)

NoDup(q) == \A i, j \in DOMAIN q : q[i] = q[j] => i = j

\* The frags that connection s has to send or is to get a reply for.
Waits(s) == Elems(outFragQueue[s]) \cup Elems(inFragQueue[s])

Distinct(out, in) == NoDup(out) /\ NoDup(in) /\ Elems(out) \cap Elems(in) = {}

\* The invariant behind UniqueInFlight: the frags OnCReact has still to dispatch
\* wait nowhere.
FlightInv ==
  /\ \A s \in SConn : Distinct(outFragQueue[s], inFragQueue[s])
  /\ \A s, t \in SConn : s # t => Waits(s) \cap Waits(t) = {}
  /\ handling.op = "react" => \A f \in handling.todo, s \in SConn : f \notin Waits(s)
-----------------------------------------------------------------------------
(* NoPanic.                                                                 *)

\* A Msg that timed out: its frags are done and it is not, so it is never put back.
Stuck(p, M, E, F) == p \in Live(M, E) /\ ~M[p].done /\ ~Partial(M[p], F)

\* A frag that is done while it waits at a connection to Redis is one of such a Msg.
LateInv ==
  \A s \in SConn : \A f \in Waits(s) :
    frag[f].owner # Nil /\ frag[f].done => Stuck(frag[f].peer, msg, freeMsgs, frag)

\* The errors Redis does not answer with.
Absent == {"error", "large", "auth"} \ Faults

AnswerKinds ==
  \A s \in SConn : \A i \in DOMAIN fromRedis[s] : fromRedis[s][i].kind \notin Absent

\* A frag that waits after a step waited before, unless OnCReact dispatches it or
\* it asks for the cluster's nodes.
WaitsStep ==
  \A u \in SConn : \A f \in Waits(u)' :
    \/ \E t \in SConn : f \in Waits(t)
    \/ f \in DOMAIN frag /\ \E t \in SConn : Dispatch(f, t)
    \/ f \notin DOMAIN frag /\ frag'[f].owner = Nil
-----------------------------------------------------------------------------
(* PoolBound and NoLeak.                                                    *)

\* The list of one node changes: it stays within the bound and keeps every open
\* connection.
ListStep ==
  \E a \in Addr : \E l :
    /\ active' = [active EXCEPT ![a] = l] /\ Len(l) <= MaxActive
    /\ \A t \in Elems(active[a]) : Opened(t) => t \in Elems(l)

\* What a step may do to the lists of connections: nothing, a Pool.Get, or empty
\* one (Pool.Close).
BoundStep == active' = active \/ ListStep \/ \E a \in Addr : active' = [active EXCEPT ![a] = <<>>]
-----------------------------------------------------------------------------
(* When OnCReact gives up on a request, and when a frag times out.          *)

\* Every slot is served, by a node that can be dialed.
Reachable ==
  /\ "dial" \notin Faults
  /\ \A t \in Topologies \cup {Boot} : \A k \in Slot : t.slots[k] \in t.nodes

\* OnCReact never gives up on a request when some frags of it are under way.
NoPartial == Single \/ Reachable

\* Between two reloads, every slot has a pool; without a request timeout, no frag
\* has a deadline.
RouteInv ==
  /\ Reachable /\ handling.op # "ticker" => \A k \in Slot : Slots2Node[k] \in pools
  /\ ~RequestTimeout => DOMAIN timeoutTree = {}
-----------------------------------------------------------------------------
(* The queue of a client, and what it was sent.                             *)

\* OnCReact's loop is at a request of c.
Reacting(c) == handling.op = "react" /\ handling.client = c

\* A frag that is not done belongs to a Msg in its client's queue, or to the one
\* in OnCReact's loop, for as long as the client is there; the Msgs of a queue
\* have been dispatched in full.
OwedInv ==
  /\ \A f \in DOMAIN frag :
       frag[f].owner # Nil /\ ~frag[f].done /\ cconn[frag[f].owner] = "open" =>
         \/ frag[f].peer \in Queued(frag[f].owner)
         \/ handling.op = "react" /\ frag[f].peer = handling.msg
  /\ \A c \in Client : \A m \in Queued(c) :
       cconn[c] = "open" /\ \A f \in msg[m].body : frag[f].owner = c

\* The invariant behind QueuedInOrder: the data a client got is that of earlier
\* requests than those it is waiting for.
DataInv ==
  /\ QueuedInOrder
  /\ \A c \in Client : \A r \in Elems(toClient[c]) : r.kind = "data" =>
       /\ \A m \in Queued(c) : r.id < msg[m].id
       /\ Reacting(c) => r.id < msgId

\* The requests of c are those it got replies to, those in its queue and the one
\* in OnCReact's loop, in that order.
Lined(c) ==
  /\ Len(asked[c]) = Len(toClient[c]) + Len(inMsgQueue[c]) + (IF Reacting(c) THEN 1 ELSE 0)
  /\ \A i \in DOMAIN inMsgQueue[c] : asked[c][Len(toClient[c]) + i] = msg[inMsgQueue[c][i]].id
  /\ Reacting(c) => asked[c][Len(asked[c])] = msgId

\* The invariant behind InOrder.
OrderInv ==
  /\ InOrder
  /\ \A i \in DOMAIN tasks : tasks[i].op # "reply"
  /\ \A c \in Client : cconn[c] # "closed" => Lined(c)

\* The ids of the replies sent to c, and of those msgTimeout is about to send.
Out(c) == {r.id : r \in Elems(toClient[c])}
Due    == {t.id : t \in {u \in Elems(tasks) : u.op = "reply"}}

\* The client has one reply at most to each of its requests; a Msg that waits in
\* its queue has had none and will have no timeout error, unless it timed out and
\* is never put back.
OnceFor(c) ==
  /\ \A i, j \in DOMAIN toClient[c] : toClient[c][i].id = toClient[c][j].id => i = j
  /\ Out(c) \cap Due = {}
  /\ \A m \in Queued(c) : Stuck(m, msg, freeMsgs, frag) \/ msg[m].id \notin Out(c) \cup Due
  /\ Reacting(c) => msgId \notin Out(c) \cup Due

DueOnce ==
  \A i, j \in DOMAIN tasks :
    tasks[i].op = "reply" /\ tasks[j].op = "reply" /\ tasks[i].id = tasks[j].id => i = j

\* The invariant behind AtMostOnce.
OnceInv == DueOnce /\ \A c \in Client : OnceFor(c)

\* No connection to Redis fails, every topology has every node, and no node
\* changes its role.
Steady ==
  /\ Reachable /\ "serverClose" \notin Faults
  /\ \A t \in Topologies \cup {Boot} : t.nodes = Addr /\ t.slaves = Boot.slaves

\* No connection to Redis is about to be closed.
NoClosing(ts) == \A i \in DOMAIN ts : ts[i].op # "close"

\* The invariant behind RequestUnderway: what is not done waits at an open
\* connection.
UnderwayInv ==
  /\ pools = Addr /\ slavePools = Boot.slaves /\ NoClosing(tasks)
  /\ \A f \in DOMAIN frag :
       frag[f].owner # Nil /\ ~frag[f].done /\ cconn[frag[f].owner] = "open" =>
         \E s \in SConn : Opened(s) /\ f \in Waits(s)
-----------------------------------------------------------------------------
(* What a step may do to the requests of one client.                        *)

\* What becomes of the frags: an owner is given once, by OnCReact, and Done is
\* never taken back.
FragsKept ==
  /\ DOMAIN frag \subseteq DOMAIN frag'
  /\ \A f \in DOMAIN frag :
       /\ frag'[f].owner = frag[f].owner \/ (handling.op = "react" /\ f \in handling.todo)
       /\ frag'[f].peer = frag[f].peer
       /\ frag[f].done => frag'[f].done
  /\ \A f \in Made : frag'[f].owner = Nil

\* A Msg that is not put back stays the Msg of its request.
MsgsStep ==
  \A m \in Live(msg, freeMsgs) :
    m \in freeMsgs' \/ (m \in DOMAIN msg' /\ msg'[m].id = msg[m].id /\ msg'[m].body = msg[m].body)

\* The client is left alone, or accepted.
Rests(c) ==
  /\ UNCHANGED <<asked[c], toClient[c], inMsgQueue[c]>>
  /\ cconn'[c] = cconn[c] \/ cconn[c] = "new"
  /\ Reacting(c)' <=> Reacting(c)
  /\ Reacting(c) => handling'.msg = handling.msg /\ msgId' = msgId

\* It is closed.
Leaves(c) ==
  /\ UNCHANGED <<asked[c], toClient[c]>> /\ inMsgQueue'[c] = <<>>
  /\ cconn'[c] # "open" /\ (cconn'[c] = "new" => cconn[c] = "new")
  /\ ~Reacting(c) /\ ~Reacting(c)'

\* A request of it is decoded.
Asks(c) ==
  /\ UNCHANGED <<toClient[c], inMsgQueue[c], cconn[c]>> /\ cconn[c] = "open"
  /\ msgId' = msgId + 1 /\ asked'[c] = Append(asked[c], msgId + 1)
  /\ ~Reacting(c) /\ Reacting(c)'

\* The request is dispatched in full.
Joins(c) ==
  /\ UNCHANGED <<asked[c], toClient[c], cconn[c], msg, freeMsgs, msgId>>
  /\ Reacting(c) /\ ~Reacting(c)'
  /\ inMsgQueue'[c] = Append(inMsgQueue[c], handling.msg)
  /\ \A f \in msg[handling.msg].body : frag'[f].owner = c

\* OnCReact gives up on it.
Refused(c) ==
  /\ UNCHANGED <<asked[c], inMsgQueue[c], cconn[c], msgId>>
  /\ Reacting(c) /\ ~Reacting(c)' /\ handling.msg \in freeMsgs'
  /\ toClient'[c] = Append(toClient[c], Reply(msgId, "error", {}))
  /\ \E f \in DOMAIN frag : DispatchFails(f)

\* OnCReact answers at once.
Immediate(c) ==
  /\ "immediate" \in Faults /\ cconn[c] = "open" /\ msgId' = msgId + 1
  /\ asked'[c] = Append(asked[c], msgId + 1)
  /\ toClient'[c] = Append(toClient[c], Reply(msgId + 1, "immediate", {}))
  /\ \/ inMsgQueue'[c] = inMsgQueue[c] /\ cconn'[c] = cconn[c]
     \/ inMsgQueue'[c] = <<>> /\ cconn'[c] = "closed"
  /\ ~Reacting(c) /\ ~Reacting(c)'

\* It gets a timeout error.
Told(c) ==
  /\ UNCHANGED <<asked[c], inMsgQueue[c], cconn[c]>>
  /\ tasks # <<>> /\ Head(tasks).op = "reply" /\ tasks' = Tail(tasks)
  /\ toClient'[c] = Append(toClient[c], Reply(Head(tasks).id, "timeout", {}))
  /\ ~Reacting(c) /\ ~Reacting(c)'

\* It gets the replies to all it has asked.
Gets(c) ==
  /\ UNCHANGED <<asked[c], cconn[c]>> /\ cconn[c] = "open"
  /\ Len(toClient'[c]) = Len(toClient[c]) + Len(inMsgQueue[c])
  /\ \A i \in DOMAIN toClient[c] : toClient'[c][i] = toClient[c][i]
  /\ \A i \in DOMAIN inMsgQueue[c] :
       toClient'[c][Len(toClient[c]) + i].id = msg[inMsgQueue[c][i]].id
  /\ inMsgQueue'[c] = <<>> /\ Queued(c) \subseteq freeMsgs'
  /\ \A m \in Queued(c) : ~Stuck(m, msg, freeMsgs, frag)
  /\ ~Reacting(c) /\ ~Reacting(c)'

\* msgTimeout gives up on the request of frag f.
TimedOut(f) ==
  /\ LoopFree /\ ~frag[f].done /\ cconn[frag[f].owner] = "open"
  /\ frag' = AllDone(msg[frag[f].peer].body)
  /\ tasks' = Append(tasks, Task("reply", frag[f].owner, frag[f].req))
  /\ UNCHANGED <<handling, msgVars, clientVars>>

\* No timeout error is added to the tasks, or one is.
TasksStep == RepliesPending \/ \E f \in DOMAIN timeoutTree : TimedOut(f)

\* A Msg that timed out stays where it is.
StuckStays ==
  \A m \in DOMAIN msg : Stuck(m, msg, freeMsgs, frag) => Stuck(m, msg, freeMsgs, frag)'

ClientStep(c) ==
  \/ Rests(c) \/ Leaves(c) \/ Asks(c) \/ Joins(c) \/ Refused(c)
  \/ Immediate(c) \/ Told(c) \/ Gets(c)

\* The steps that are not Quiet.
BusyStep ==
  \/ \E c \in Client, m \in freeMsgs \cup {Len(msg) + 1} :
       CReactImmediate(c, m) \/ \E q \in Requests : CReact(c, q, m)
  \/ OnCReact \/ AsyncWrite
  \/ \E f \in DOMAIN timeoutTree : MsgTimeout(f)
  \/ \E s \in SConn : SReadTooLarge(s) \/ SReadDefault(s) \/ SReadMGet(s) \/ SReadMSet(s) \/ SReadDel(s)
=============================================================================

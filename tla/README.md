# A verification project for rcproxy

rcproxy is a proxy for Redis Cluster: clients speak to it as if it were one
Redis, it splits their requests by hash slot, sends the parts to the nodes that
own the slots, follows redirections and assembles the replies. One goroutine, the
event loop, does all of this. A few others (the cluster refresh, the pool
monitors, whoever shuts the engine down) hand it work through task queues and
shared variables. This directory holds TLA+ models of the system, the TLC runs
that check them on small instances and TLAPS proofs for every instance. Source
paths are relative to `src/`.

## Modules

### Poller

The wake-up protocol of `epoll_default_poller.go`, one action per atomic step.
`Link`, `Count`, `CasWakeup` and `WriteEfd` are a call of `Trigger` or
`UrgentTrigger`, by a goroutine of `Producers` or by a handler of the loop;
`Ticker` to `MsgTimeout` are the places of one round of `Polling`. The lock-free
queue shows as two numbers, `linked` and `length`, because linking a node and
counting it are two steps and `IsEmpty` reads only the counter. `EpollEvents` may
leave a readable eventfd out of its list, which is bounded in the code.

`MCPoller` gives it three goroutines, four tasks and one low-priority task per
round, so that a round ends with tasks left, a flag is contended by three
writers, and `length` can be negative.

### Proxy

Everything the event loop does with requests and replies. A client request is a
Msg with one frag per slot; `CReact` decodes it, `Dispatch` is one turn of
`OnCReact`'s loop over the slots (a Go map, hence any order), `DispatchFails` the
early returns in it. `CReactNil` is a packet for which `Decode` returns neither a Msg nor
an error. `HandleWriteSignal`, `WriteClusterNodes`, `CloseTask` and
`AsyncWrite` are the tasks of the poller, run in the order they were triggered
(`tasks`, whose liveness is what `Poller` shows). The actions `SRead...` are the
branches of `conn.sread` and `eventloop.sread` for one reply, `Deliver` is the
common tail that flushes a client's queue. `MsgTimeout` is one turn of
`msgTimeout`. `Ticker`, `TickerChanged`, `TickerRemove`, `SetIsSlave` and `TickerLoad` are
`ticker`: pools of nodes that are gone are closed, those of nodes with a new role
(`slavePools`) released, then nodes, roles and slots are loaded from any member of `Topologies`, torn ones
too, because the cluster goroutine publishes them without a lock.

`Answers`, `Execute`, `Migrate` and `Migrated` stand for Redis Cluster and are not
code of this repository: a node answers each connection in order, redirects with
MOVED what it does not own and with ASK what has left during a migration.

What is abstracted: bytes (a reply is the frag it answers and its kind), partial
reads and writes (a reply is decoded when complete, written whole; the buffers
are components of their own), time (a deadline may pass at any moment; deadlines
are distinct and in the order of sending), reads from slaves and passwords
(`disable_slave: true`, no password; `RedisPool` routes to slaves, `ServerInit` has the
handshakes). A broken connection is noticed by a read or
a write; both are `SClose` or `CClose`. `handling` keeps other handlers out while a
handler's loop is stepped through, so a handler is atomic as in the code.

`MCProxy` instantiates it with two clients, two nodes and two slots, one on each
node. `Faults` selects what may go wrong in a run: the state spaces of all faults
together are out of reach, and each run is about some of them.

### Buffers

`RingBuffer`, `LinkedListBuffer` and `ElasticBuffer` are the three of
`core/pkg/buffer`; `BufferSizes` has the capacities (`grow`, `CeilToPowerOfTwo`,
its two constants stand for 1024 and 4096) and `ByteCalls` the numbering of
bytes and what a call returned. A byte is its number in the stream, modulo a
number larger than the buffer, so that a lost, doubled or exchanged byte shows.
`ByteQueue` is the abstract specification: a queue of bytes, what each call
returns and leaves. Each buffer is shown to implement it (`BuffersAreQueues`).

### Inbound, Outbound

The two directions of a connection (`connection.go`, `eventloop.go`). `Inbound`:
the loop's one read buffer, the slice of it that a handler sees, what is left
over in `inboundBuffer`, and two connections that take turns. `Outbound`: `open`, `write`,
`writev` and `handleWriteSignal`, the elastic buffer behind a socket that takes
some bytes or none, write interest in epoll, write events, the flush of
`closeConn`, a peer that resets. What `open` sends, AUTH and READONLY, is at most what
a new socket takes. Both implement `ByteQueue`: what the handler reads
is what arrived, what the peer gets is what was written.

### LinkedQueues, LockFreeQueue

`LinkedQueues` has `MsgQueue`, `FragQueue` and `activeList`: head, tail, count, and links
that are fields of the items, so that an item takes its links along when it moves.
It implements `FragQueues`, the sequences that `Proxy` works with. `LockFreeQueue` is
`core/internal/queue` with every load and compare-and-swap a step. It implements
`TaskQueue`, a FIFO queue whose `Enqueue` takes effect when the node is linked;
`LengthAgrees` is the lag of `length` that `Poller` builds on. Nodes are not reused
while a goroutine holds a pointer to them, as the garbage collector guarantees.

### Timeouts

The tree of deadlines as `llrb` orders it, by deadline only, with the clock and the
rounds of `Polling`. `Coarse` says whether two calls of `time.Now` may return the same
instant. A round without events does not reach `msgTimeout`.

### ServerInit

A connection to Redis from `OnSOpened` on: AUTH and READONLY, frags sent behind them
at once, and the replies to all of them as one stream cut anywhere. Redis may
refuse either command.

### Resp, Commands, Requests, Replies, HashSlot

The protocol. `Resp` has the characters of a message (a length is one character
that carries its number) and the readers of `codec/buff.go`; `Commands` the tables of
commands and argument counts. `Requests` feeds one or two requests to
`CRespCodec.Decode` and `cread` over every cut of their bytes, and puts packets between
them that are arrays of no elements (`*0`, `*-1`), of no length (`*`) and of one that
is no number; `Replies` does the same for the
replies to two requests on two connections, with `readReply`, `MGet`, `MSet`, `Del`,
`Default` and the assembly of the answer. `HashSlot` computes `Hash` with its table and
compares it with the bit-by-bit definition of CRC16 and the Redis rule for tags.
Keys of the first two have a slot by definition, for brevity.

### Cluster

`ticker`, the channel, and the goroutine `loopClusterNodes` over `ServerMap`,
`Replicasets`, `serverChanged`, without a lock. A CLUSTER NODES reply is a set of lines
with the columns the parser looks at. What the synchronous client returns to
`INFO` is an input; requests may be lost and answered with an error.

### RedisPool

`route`, `getConn` and its retry, `Pool.Get`, `SetIsSlave`, `Close`, and one monitor
goroutine per pool. Time is whether a ban still lasts; the back-off is its
exponent.

### SyncClient, AuthIp, Engine, ByteSlicePool, RingBufferPool

`SyncClient`: the blocking client of `core/pkg/redis`, over a connection that is slow,
breaks or answers with errors. `AuthIp`: the list of addresses, its file saved in
place (truncate, then write) or by rename, and the goroutine that reloads it.
`Engine`: `serve`, `start`, `stop`, the goroutine of the loop, goroutines that call
`Stop`, and the condition between them. `ByteSlicePool` and `RingBufferPool`: which
array a slice of the pool may have; which sizes the calibration chooses, and which
buffers `Put` keeps for `Get`.

### How they compose

`Proxy` composes clients, servers, Msgs, pools, timeouts and the ticker. What it takes
for granted is what the other modules show: frags and Msgs are in sequences
(`FragsAreQueued`), a complete reply is decoded and merged as asked
(`RepliesMerged`), what is written reaches the peer and what is read is what arrived
(`BuffersAreQueues`, `Delivered`), a triggered task is run (`TasksRun`), and the
poller's queue is a FIFO whose counter lags (`TasksAreQueued`).

`MCBuffers`, `MCServices` and `MCProgress` each instantiate several components over
variables of their own. A constant `turn`, chosen in `Init`, names the component that
runs; the others stay in an initial state. Their state spaces add up and do not
multiply, and a property of the suite is the component's own, for its turn. Some
properties of a suite are conjunctions: `Ring!InOrder` and `Out!WriteInterest`, say,
are two conjuncts of `BytesKept`, each for its turn.

## Runs

| Run | Instance | Shows |
|---|---|---|
| `poller` | 3 goroutines, 4 tasks, fair | `NoLostWakeup`; `PollerInv`, the inductive invariant of the proof, with `SingleWakeup` in it; `TasksRun` |
| `proxy_pipeline` | 2 clients, 3 GETs or MGETs, clients leave | replies meet their frags (`WireMatch`), reach the right client complete (`RepliesOwn`), in order (`InOrder`); no panic |
| `proxy_multi` | GET, MGET, MSET, DEL; error, too large and authentication replies | `DoneMeansAll`, `FragDoneNumberExact` |
| `proxy_faults` | 2 connections per node, 3 dials, all faults, no redirection to a node with a pool, topology and role changes | `SignalPending`, `PoolBound`, `NoLeak`, `QueuedInOrder` |
| `proxy_timeout` | timeouts, migration, frags sent again, Redis hangs up | `UniqueInFlight`, `TimeoutArmed`, `AtMostOnce`, `ClientKept` |
| `proxy_live` | 2 clients, MOVED and ASK, fair | `RequestUnderway`: no redirection loses a request; `EveryRequestAnswered` |
| `buffers` | ring, list, elastic, inbound, outbound, intrusive queues, lock-free queue (2 producers and a consumer, a producer and 2 consumers), pools | `BuffersAreQueues`, `FragsAreQueued`, `TasksAreQueued`: the refinements named above, and that a Dequeue that returns nil met an empty queue; `BytesKept`: bytes keep their order, a handler sees bytes of its own connection (`OwnBytes`), bytes that wait have a write event coming (`WriteInterest`); `PoolsSound`: no two owners of one array, and the usual sizes are kept |
| `services` | requests, replies, keys, topology, pools, client, addresses | `RequestsDecoded`: requests come out as sent, none is left in the buffer, and no cut makes `cread` close the connection, panic or wait for ever but at a packet that is no request; `RoutedByKey`: every key goes with its slot, which is Redis's; `RepliesMerged`: the answer has the parts in the order asked, a failed part shows, nothing complete waits; `TopologyWhole`: what `ticker` is given is one reply and every address has a pool; `RoleMatches`; `OwnReply`; `LoadedWhenQuiet` |
| `progress` | outbound, lock-free queue, deadlines, opening, pools, topology, shutdown, fair | `StopMeansStopped`; `Delivered`; `DequeueEnds`; `OverdueReported`, with `Armed`: no frag under way is missing from the tree; `FragsAnswered`, with `OwnReplies` and `SpinsOnlyIfRefused`; `Recovers`, with `MonitorEnds`; `FollowsCluster`; `ShutdownCompletes` |
| `mget_error_panics`, `stale_msg`, `no_deadline_after_close` | see Disagreements | each ends in a counterexample |

### Bounds

Two requests in flight on one connection, two on two connections, and a third
behind a recycled Msg are the smallest cases in which matching, ordering and
recycling can go wrong; three requests reach all of them. One migration gives
every request at most two redirections unless ASK bounces it. Three dials to one
node fill a pool of two, empty it and dial again.

The ring starts empty, grows from 2 over the threshold of 4 and wraps at each
size; `MaxBuffered` lets it be exactly full at 2 and 4. The elastic buffer's static
limit is 3, between two sizes of the ring. `iovMax` is 2, so three slices need two
calls; a socket takes any part of its buffer. Three lock-free nodes are the dummy,
one that is being taken and one that is being linked. Three frags of two
requests, a timeout of two ticks and six ticks let a deadline pass, be renewed and
pass again. A script of two requests has every pair of commands next to each other
in one stream; a pipeline of two has every pair of answers, in every order of
arrival. Keys have up to four bytes of `a`, `{`, `}` and 255: every arrangement of one
pair of braces with a byte in, before or after it. Five layouts of three or four
nodes have failover, migration, a loading node and a slot without a master.

Deadlock is not checked: a proxy whose clients have asked all they will is
rightly at rest, and so are a loop that has exited, a buffer nobody calls and a
stream that has been read.

### Fairness

The event loop's goroutine and those inside `Trigger` are not suspended for ever;
epoll rotates its ready list, so a readable descriptor is reported in the end. In
`proxy_live` Redis answers what it has received and a migration that started is
finished (without the latter ASK, which the proxy follows without sending ASKING,
bounces for ever). In `progress`: the loop's steps, write events for a socket with
room, a peer that reads (`Delivered`); the one Dequeue, but no producer
(`DequeueEnds`); the clock and rounds with events (`OverdueReported`); `sread` while it
has something to read, with liveness claimed only when Redis has accepted AUTH and
READONLY (`FragsAnswered`); each monitor goroutine (`Recovers`); the
cluster goroutine, the tick and the read event of its reply (`FollowsCluster`); the main
goroutine, the loop and each `Stop` (`ShutdownCompletes`). Nothing obliges clients to ask
or anything to fail.

## Disagreements

Three runs end in a counterexample to a sentence of the repository:

- `mget_error_panics`: `parseMGet` takes an error reply to a frag of an MGET for an array
  and panics (`codec_s.go:283`), although `codec/codec.go:48` has an answer for such
  replies, "-ERR unknown mget error" (`NoPanic`).
- `stale_msg`: when `OnCReact` fails after it has sent a first frag, the Msg is
  recycled with that frag under way. Its reply later marks the next user of the Msg
  done, against `message.go:67`, "all frags Done" (`DoneMeansAll`).
- `no_deadline_after_close`: frags of a closed connection leave the timeout tree
  and are forgotten, although `options.go:79` promises "an error to the client"
  (`TimeoutReported`).

The other places where the code does not do what it says are in the models as the
code has them. The passing runs choose constants with which they do not occur, or
do not state the property they would break. The last column names the property of
the module that fails, or the constant with which the one checked does:

| Where | What happens | Against | In the model |
|---|---|---|---|
| `server/server_c.go:57` | PING, QUIT, AUTH and malformed requests are answered ahead of pending replies | `eventloop.go:243`, "when and only when all the messages have been processed" | `Proxy`: `InOrder` with such commands; `proxy_faults` shows that keyed replies keep their order even so |
| `eventloop.go:492` | a timeout finishes the frags of a Msg without counting them; the Msg is never done and holds back its client's later replies | `message.go:63`, "number of finished frags" | `Proxy`: `FragDoneNumberExact` with timeouts |
| `server/server_c.go:215` | a MOVED reply to a frag of a Msg put back after a reply too large panics | none | `Proxy`: `NoPanic` with both |
| `codec_c.go:54` | for `*0` and `*-1` `Decode` returns neither a Msg nor an error, and `OnCReact` panics; a `*` without a length counts as incomplete and its client is not heard again | `codec_c.go:35`, "illegal packets leads to parsing exceptions, so close the client connection directly" | `Proxy`: `NoPanic` with the fault `empty`; `Requests`: what `CutOffForCause` and `NothingStranded` except |
| `message.go:304` | a frag with the deadline of another replaces it in the tree, or is deleted for it | `eventloop.go:466`, "timeout will report an error to the client" | `Timeouts`: `Armed` with `Coarse = TRUE` |
| `internal/netpoll/epoll_default_poller.go:125` | rounds without events skip `msgTimeout` | the same | `Timeouts`: `TimeoutAlwaysReported` |
| `pkg/buffer/ring/ring_buffer.go:257` | from 4096 bytes on, `grow(1)` adds nothing to a full ring; `WriteByte` overwrites the oldest byte or is out of range | `:252` | `RingBuffer`: `WriteByteFits` with a low threshold |
| `ring_buffer.go:354` | after a short or empty first read `ReadFrom` takes in bytes nobody wrote | `:341` | `ShortReads = TRUE`, or 0 in `Sources` |
| `ring_buffer.go:420` | a writer that takes nothing from a full ring makes `WriteTo` drop everything | `:393` | `MinAccept = 0` |
| `pkg/buffer/linkedlist/linked_list_buffer.go:163` | bytes that come with `io.EOF` are dropped | `:152` | `DataWithEOF = TRUE` |
| `linked_list_buffer.go:183` | a failed write loses the node it had popped | `:175` | `WriteErrors = TRUE` |
| `pkg/buffer/elastic/elastic_ring_list_buffer.go:95` | a ring below the static limit takes any number of bytes | `options.go:50` | `ElasticBuffer`: `StaticBound` |
| `elastic_ring_list_buffer.go:142` | with an empty ring `WriteTo` never reaches the list | `:140` | `ListOnlyWriteTo = TRUE` |
| `eventloop.go:359` | `closeConn` gives up on EAGAIN | `:352`, "Send residual data in buffer back to the peer" | `Outbound`: `ResidualSent` |
| `connection.go:357` | after a failed write the batch goes on to the closed fd, which may be another's by now | `eventloop.go:302` | `Outbound`: `OnlyOwnFd` |
| `eventloop.go:455` | a topology published while `ticker` loads is unflagged and never loaded | `gnet.go:115`, `README.md:18` | `Cluster`: `LoadedWhenUnflagged`; hence `FollowsCluster` for a cluster that does not change again |
| `cluster.go:165` | a slave with a new master stays with the old one | `cluster.go:79` | `Cluster`: `ReplicasetsCurrent` |
| `cluster.go:124` | one error reply to CLUSTER NODES ends the goroutine for good | `README.md:18`, "every second" | `Cluster`: `KeepsWatching` |
| `server/server_c.go:84` | the retry after a failed dial picks the same slave | `:115`, "Get an available connection" | `RedisPool`: `RefusedOnlyIfDown` |
| `server/server_c.go:169` | the ban is tested the wrong way round | `redis_pool.go:42` | `RedisPool`: `BannedNotPicked` |
| `server/server_c.go:186` | all reads go to the first live slave | `README.md:20`, "load balancing between slaves" | `RedisPool`: `Balanced` |
| `codec_s.go:96`, `:64` | when AUTH or READONLY is refused, `sread` may find a reply without a frag and loop for ever | `eventloop.go:216` | `ServerInit`: `NoSpinning` |
| `engine.go:58` | a signal before `serve` waits is lost; `Stop` waits for ever | `gnet.go:436` | `Engine`: `StopShutsDown` |
| `internal/queue/lock_free_queue.go:156` | `IsEmpty` may be true of a queue that holds a task | `:155`, "whether this queue is empty or not" | `LockFreeQueue`: `EmptyWhenIsEmpty`; `Poller` shows that the wake-up survives it |
| `codec_s.go:248` | the reply to a frag of DEL that failed counts as -1 | none | `Replies`: `Failing` without "del" |
| `codec_c.go:79` | the limit is compared with all that is buffered, later requests included | `options.go:72`, "the maximum allowed packet length" | `Requests`: `DecodedAsSent` allows the error when all that was sent exceeds the limit |
| `pkg/hashkit/crc16.go` | a `}` before the first `{` hides the tag from the proxy | Redis | `HashSlot`: excluded by `SlotAsInRedis` |
| `authip/authip.go` | a list saved by rename is not reloaded, and addresses are never taken off | `README.md`, "IP whitelist dynamic loading" | `AuthIp`: `LoadedWhenQuiet` speaks of saving in place, and of what the list adds |

## Proofs

TLC shows the above for the instances named; the theorems below hold for every
value of the constants. Those of `Poller` and `Proxy` assume `PollerAssumption` and
`ProxyAssumption` (what requests and topologies look like, a pool of at least one
connection, natural bounds; `MCPoller` and `MCProxy` evaluate both); the others state
what they assume.

### Proxy

`ProxyProofs` has the theorems, sixteen of them, and puts together what the other
modules prove: `ProxyInvariants` defines the invariants and what a step may do,
`ProxyLemmas` holds what several modules use, and `ProxyMsgProofs`,
`ProxyTypeProofs`, `ProxyServerProofs`, `ProxyRequestProofs` and `ProxyLateProofs`
are about the parts their headers name. The library's theorems about finite sets
enter as a premise, `FiniteSetFacts`, which `ProxyProofs` discharges.

Some theorems have premises about the constants, which say what the environment
does not do:

| Premise | Says |
|---|---|
| `Reachable` | every slot of every topology is served by one of its nodes, and no dial fails |
| `NoPartial` | `Reachable`, or every request has one slot: `OnCReact` then never gives up on a request some frags of which it has sent |
| `Steady` | `Reachable`, no connection to Redis fails, and every topology has every node, in its first role |
| `~RequestTimeout` | `redis_request_timeout` is 0 |
| `Faults \cap {...} = {}` | the faults named do not happen |

None is there for the proof's sake. Without `NoPartial` a Msg is recycled with a frag
under way, and what follows about requests is false: the run `stale_msg` is the
counterexample. With timeouts, `msgTimeout` marks frags done without counting them and
answers ahead of the queue. An error reply to an MGET panics the loop
(`mget_error_panics`), and so do a MOVED reply to a Msg put back after a reply too
large and an array of no elements. A pool whose node changes its role closes its
connections with what is in flight on them. The instances of the passing runs satisfy the premises of the theorems whose
property they check.

**Connections and pools**, from any faults:

- `ProxyTypeOK`. `TypeOK` is inductive as it stands, because it includes that nothing
  dangles. The argument goes by groups of variables: Msgs and Frags only grow and
  a Frag keeps its Msg (`Growth`, `ProxyMsgProofs`), so what refers to them stays valid
  and one lemma per action deals with the groups that it changes.
- `ProxyWireMatch`. Inductive given `TypeOK`. Seen from one
  connection, any step does one of five things (`WireStep`): nothing, append
  frags to `inFragQueue` and to what Redis has to execute, take the first reply with
  the first frag, answer the first request, or empty everything. Each keeps the queue
  equal to what is answered followed by what is not.
- `ProxySignalPending`. Not inductive: `handleWriteSignal` of a closed connection drops
  its task and sends nothing. `SignalInv` adds that a connection with frags to send is
  open, which holds because `Get` only gives open connections and `closeConn` empties
  the queue.
- `ProxyPoolBound` and `ProxyNoLeak`. `Get` changes the list of one
  node and keeps every open connection in it (`PoolGetList`): it throws the list away
  only when all of it is closed, and rotation drops only closed connections from
  the back. `Pool.Close` and `SetIsSlave` replace list entries by close tasks, which stay queued until
  they are run.
- `ProxyUniqueInFlight`. `FlightInv` says that no frag is twice in the queues of a
  connection, none at two connections, and none that `OnCReact` has still to dispatch
  at any. A redirection moves a frag by taking it from one queue first.

**Requests**, from `NoPartial`. The invariant is `LifeInv`, what is true of a request
from `Decode` to its reply. A Msg is either in the pool, and reset, or its body is
exactly the frags of its request, its id is its own, and it is finished, or has counted
and gathered what came so far (`MsgSound`); a frag that was sent and is not done still
belongs to the Msg of its request (`FragsOK`); the queue of a client holds Msgs of its
own requests in their order (`QueuesOK`); the frags `OnCReact` has not yet dispatched
have no owner (`ReactOK`). The replies of Redis break it halfway, between the
connection's `sread` and the delivery by the loop's, so its parts take the Msgs and Frags
as parameters and the two halves are lemmas of their own. Actions that touch no Msg in
use are `Quiet` and dealt with once.

- `ProxyRepliesOwn`, `ProxyDoneMeansAll` and, with `~RequestTimeout`,
  `ProxyFragDoneNumberExact` follow from `LifeInv`.
- `ProxyTimeoutArmed`, from `LifeInv` and `FlightInv`: a frag enters the tree when it
  enters `inFragQueue` and leaves both at once, and what `msgTimeout` takes from the
  tree is done.

The rest looks at one client at a time. Any step leaves it alone, closes it, decodes a
request of it, queues that request, refuses it, answers it at once, tells it of a
timeout, or gives it the replies to all its queue (`ClientStep`, the eight cases in
`ProxyInvariants`); each invariant below is then kept in eight cases instead of one
per action.

- `ProxyQueuedInOrder`. `DataInv` adds that the data a client has is that of earlier
  requests than any it waits for.
- `ProxyAtMostOnce`. `OnceInv` adds that what waits in a queue has had no reply and has no
  timeout error among the tasks, except the Msgs that timed out: all their frags are
  done and they are not, and they stay so for ever (`Stuck`). That a Msg about to time out
  is in its client's queue takes `OwedInv`: a frag that is not done belongs to a Msg
  in the queue, or in `OnCReact`'s loop, as long as the client is there.
- `ProxyInOrder`, with `Reachable`, `~RequestTimeout` and no reply by `OnCReact` itself.
  `OrderInv`: what a client has asked is what it was answered, then its queue, then
  the request in `OnCReact`'s loop.
- `ProxyNoPanic`, without the faults `error`, `large`, `auth` and `empty`. A frag that is answered when it
  is already done must find its Msg where it was; `LateInv` says that such a Msg is
  `Stuck`. `AnswerKinds` says how Redis answers.
- `ProxyClientKept`, if no client leaves, none fails to read, and none is refused. What is
  proved is that `sread` never meets an empty queue for a frag that is not done, from
  `OwedInv`.
- `ProxyRequestUnderway`, with `Steady` and `~RequestTimeout`. `UnderwayInv` is stated of frags: one
  that is not done waits at an open connection. Redirections move it to another open
  one, and no connection is about to be closed, since no pool is ever released. That some frag of a queued Msg is not done follows
  from `LifeInv`.

### Other components

They are in `ServiceProofs`, which extends `Poller` and instantiates the others.

**Poller.** `PollerInvariant` proves `PollerInv`, from which
`NoWakeupIsLost` and `WakeupIsSingle` follow. `NoLostWakeup` is not inductive: whether
the loop may sleep depends on what each goroutine inside `Trigger` has done so
far. `PollerInv` adds that `length` lags behind `linked` by the callers between
`Link` and `Count` (`LengthLag`), that the flag is set exactly while one wake-up is
under way or the loop is about to clear it (`SingleWakeup`, `WakeupFlag`), that every
queued task is covered by a caller that has still to try the flag, by a wake-up,
or by the loop's own re-check (`WorkCovered`), and what the loop's local state is at
each place (`LoopShape`).

**Synchronous client.** `ClientOwnReply`, for any number of commands
and without an assumption on the constants. `OwnReply` speaks of replies that have been
returned and says nothing of those still to come. `ClientInv` adds that the commands
that are owed a reply are those whose reply is on the way, then those Redis has to
execute, then those in the write buffer (`UnderWay`), and that `pending` counts them
(`Counted`). The reply to a command that has timed out is
still to come; the invariant survives it because `fatal` closes the connection, and
with it goes everything under way.

**Engine.** `EngineStopMeansStopped`, for any number of goroutines that
call `Stop`. `StopMeansStopped` is about the loop, the poller and the callers at the same
time and none of them alone keeps it. `EngineInv` adds how far `serve` must have come
for the loop to have ended, for the poller to be closed and for `inShutdown` to be set,
which is all a caller of `Stop` looks at.

**Timeouts.** `FragsStayArmed` proves `Armed` when `Coarse` is false and
the timeout is a natural number. `Armed` depends on the tree never taking two frags
for one, so `DeadlineInv` adds that deadlines are distinct once set and that all lie
before the one that would be set now, which makes a new one distinct.
With `Coarse` the theorem is false; see Disagreements.

**Address list.** `AuthListLoaded` proves `LoadedWhenQuiet`, without an assumption on
the constants. It says nothing while an event waits or an address is still to be
inserted. `AuthInv` adds that a list saved in place is in force, or being inserted, or
the last event that waits is the `Write` that will load it.

**Redis pool.** `PoolRoles` proves `TypeOK` and `RoleMatches` for any
nodes, any `MaxOrder` and any `maxActive` but 0, which the options do not let through
(`src/core/gnet.go:411`). `PoolsInv` says of each pool
by itself that its connections are at most `maxActive` and of its role (`GoodPool`);
a step writes one pool, or two in a failover, and leaves it good. What `Get` keeps of
a full list ends at its last open connection; that there is a last one is well-foundedness
(`LastPosition`, from `Least`).

**Byte slices.** `PooledSlicesSound` proves `SlicesSound` for any number of arrays and
any sizes. `MemoryInv` says the same with the arrays told apart (`OneHand`: two slices in
use, a slice and a pooled pointer, or two pointers never share one) and adds the types.
The heart is arithmetic: `index(n)` is the least exponent with `n <= 2^index(n)`
(`IndexLeast`), so the pool one below the rounded-up one never promises more than
`cap(buf)` (`PutSound`). The provers know no equation of `2^k`; the theorem takes the
two that define it as a premise (`PowersOfTwo`), and `PowersGrow` derives
`n <= 2^n` from them by a least counterexample.

**Topology.** `TopologyPublished` proves `PublishedWhole` and
`AddrsHavePools` for any replies that list a node once (`LinesDiffer`). `PublishedWhole` speaks
of the moments when the goroutine waits; `ClusterInv` adds how far `setServer` and
`setReplicaset` have come at each place before. The ticker reads what they write halfway,
but writes none of it. Without `LinesDiffer`, `lastServerNames` may have
two names for one entry of `ServerMap`.

### Only model-checked

Liveness (`EveryRequestAnswered`, `TasksRun` and those of `progress`), which is out of the
prover's reach; the codecs, hash slots and capacities, which are recursive over their
data; and the refinements of the buffers and queues. Of `Proxy` every invariant of a passing
run is proved, under the premises above.

## Not modelled

- The kqueue and "optimized" pollers: other build targets of the protocol of `Poller`.
- Sockets and system calls: what they may return is a choice in the modules that
  call them (`Outbound`, `Inbound`, `Proxy`).
- Configuration, logging, slow log, statistics, profiling and web endpoints: I/O, and
  no state that requests or replies depend on.
- Redis Cluster itself: `Answers`, `Execute`, `Migrate` in `Proxy` and the streams of
  `Replies`, `ServerInit` and `SyncClient` have as much of it as the proxy relies on.
- `ReceiveContext` of the synchronous client and `ReadFrom` of the elastic buffers:
  nothing calls them.
- Packets that are malformed otherwise than in the header of the array: inline commands,
  lines without a CR, null bulk strings or other elements in a request. The translated
  `Decode`, `parseLine` and `ReadLine` have the branches for them, but no script of
  `MCServices` sends one.

------------------------------ MODULE MCBuffers ------------------------------
(* The memory the proxy is built on: byte buffers, the two directions of a      *)
(* connection, the queues of frags and of tasks, and the pools. They are        *)
(* checked side by side: turn names the one that runs, the others keep their    *)
(* initial state.                                                             *)
EXTENDS BufferSizes

VARIABLES turn,
          rb, rRet, rArrived, rTaken, rSrc, panicked,
          llb, lRet, lArrived, lTaken, lSrc,
          mb, eRet, eArrived, eTaken,
          elBuffer, buffer, inboundBuffer, reading, iRet, iArrived, iTaken,
          outboundBuffer, opened, fd, interest, bs, oPc, sock, peer, lost, stray,
          oRet, oArrived, oTaken,
          tailOf, headOf, countOf, prev, next,
          head, tail, length, value, qNext, qPc, loc, qTaken, sawEmpty,
          size, held, pools,
          calls, defaultSize, maxSize, pool, counted

(* From bufferGrowThreshold on, grow(1) adds nothing to a full ring, and       *)
(* WriteByte finds no room (see the README, Disagreements): RingBytes stays   *)
(* below the threshold.                                                      *)
Ring == INSTANCE RingBuffer WITH
  Ops <- {"Write", "Read", "ReadByte", "Peek", "Discard", "Reset", "WriteTo", "CopyFromSocket", "ReadFrom"},
  InitSize <- 0, MinRead <- 1, MaxArg <- 3, MaxBuffered <- 5, Sources <- {1, 2, 4},
  ShortReads <- FALSE, MinAccept <- 1,
  ret <- rRet, arrived <- rArrived, taken <- rTaken, src <- rSrc
RingBytes == INSTANCE RingBuffer WITH
  bufferGrowThreshold <- 16, Ops <- {"WriteByte", "ReadByte", "Write", "Discard"},
  InitSize <- 3, MinRead <- 1, MaxArg <- 3, MaxBuffered <- 5, Sources <- {},
  ShortReads <- FALSE, MinAccept <- 1,
  ret <- rRet, arrived <- rArrived, taken <- rTaken, src <- rSrc
List == INSTANCE LinkedListBuffer WITH
  Node <- 1..4, Nil <- 0, MinRead <- 2, MaxArg <- 3, MaxBuffered <- 4, Sources <- {0, 1, 3},
  DataWithEOF <- FALSE, WriteErrors <- FALSE,
  ret <- lRet, arrived <- lArrived, taken <- lTaken, src <- lSrc
Elastic == INSTANCE ElasticBuffer WITH
  maxStaticBytes <- 3, PoolSizes <- {0, 2, 4}, MaxArg <- 4, MaxBuffered <- 6, ListOnlyWriteTo <- FALSE,
  ret <- eRet, arrived <- eArrived, taken <- eTaken
In == INSTANCE Inbound WITH
  Conn <- {"c1", "c2"}, Watched <- "c1", ReadBufferCap <- 2, MaxArg <- 3, MaxBuffered <- 2,
  ret <- iRet, arrived <- iArrived, taken <- iTaken
(* One slice, more slices than one writev takes, a slice larger than the        *)
(* socket's buffer, an empty one.                                             *)
Out == INSTANCE Outbound WITH
  maxStaticBytes <- 2, PoolSizes <- {0, 4}, iovMax <- 2, SndBuf <- 3, MaxBuffered <- 2,
  Slices <- {<<<<0>>>>, <<<<0>>, <<0, 0>>, <<0>>>>, <<<<0, 0, 0, 0>>>>, <<<<0, 0>>, << >>, <<0>>>>},
  PeerFails <- TRUE, Closes <- TRUE,
  pc <- oPc, ret <- oRet, arrived <- oArrived, taken <- oTaken
Frags == INSTANCE LinkedQueues WITH Queues <- {"out", "in"}, Items <- 1..4, nil <- 0
Tasks == INSTANCE LockFreeQueue WITH
  Nodes <- 1..3, nil <- 0, Tasks <- {"t1", "t2"}, Producers <- {"p1", "p2"}, Consumers <- {"c1", "c2"},
  next <- qNext, pc <- qPc, taken <- qTaken
Slices == INSTANCE ByteSlicePool WITH Arrays <- {"a1", "a2"}, MaxSize <- 6
Rings == INSTANCE RingBufferPool WITH Steps <- 2, Threshold <- 20, Sizes <- {64, 100, 200}

ringVars == <<rb, rRet, rArrived, rTaken, rSrc, panicked>>
listVars == <<llb, lRet, lArrived, lTaken, lSrc>>
elasticVars == <<mb, eRet, eArrived, eTaken>>
inVars == <<elBuffer, buffer, inboundBuffer, reading, iRet, iArrived, iTaken>>
outVars == <<outboundBuffer, opened, fd, interest, bs, oPc, sock, peer, lost, stray,
             oRet, oArrived, oTaken>>
fragVars == <<tailOf, headOf, countOf, prev, next>>
taskVars == <<head, tail, length, value, qNext, qPc, loc, qTaken, sawEmpty>>
sliceVars == <<size, held, pools>>
poolVars == <<calls, defaultSize, maxSize, pool, counted>>
vars == <<turn, ringVars, listVars, elasticVars, inVars, outVars, fragVars, taskVars,
          sliceVars, poolVars>>

(* The components with several initial states start in the first one when they  *)
(* are idle.                                                                  *)
Init ==
  /\ turn \in {"ring", "ringBytes", "list", "elastic", "inbound", "outbound", "frags",
               "producers", "consumers", "slices", "rings"}
  /\ IF turn = "ringBytes" THEN RingBytes!Init ELSE Ring!Init
  /\ List!Init /\ Elastic!Init /\ In!Init /\ Out!Init /\ Frags!Init
  /\ Tasks!Init
  /\ turn # "producers" => value[head] = "t1" /\ qTaken["c1"] = "t1"
  /\ Slices!Init /\ Rings!Init

Next ==
  \/ /\ \/ turn = "ring" /\ Ring!Next
        \/ turn = "ringBytes" /\ RingBytes!Next
     /\ UNCHANGED <<turn, listVars, elasticVars, inVars, outVars, fragVars, taskVars, sliceVars, poolVars>>
  \/ /\ turn = "list" /\ List!Next
     /\ UNCHANGED <<turn, ringVars, elasticVars, inVars, outVars, fragVars, taskVars, sliceVars, poolVars>>
  \/ /\ turn = "elastic" /\ Elastic!Next
     /\ UNCHANGED <<turn, ringVars, listVars, inVars, outVars, fragVars, taskVars, sliceVars, poolVars>>
  \/ /\ turn = "inbound" /\ In!Next
     /\ UNCHANGED <<turn, ringVars, listVars, elasticVars, outVars, fragVars, taskVars, sliceVars, poolVars>>
  \/ /\ turn = "outbound" /\ Out!Next
     /\ UNCHANGED <<turn, ringVars, listVars, elasticVars, inVars, fragVars, taskVars, sliceVars, poolVars>>
  \/ /\ turn = "frags" /\ Frags!Next
     /\ UNCHANGED <<turn, ringVars, listVars, elasticVars, inVars, outVars, taskVars, sliceVars, poolVars>>
  \/ /\ turn \in {"producers", "consumers"} /\ Tasks!Next
     /\ turn = "producers" => qPc'["c2"] = "idle"   \* two producers, one consumer
     /\ turn = "consumers" => qPc'["p2"] = "idle" /\ UNCHANGED value   \* one producer and task, two consumers
     /\ UNCHANGED <<turn, ringVars, listVars, elasticVars, inVars, outVars, fragVars, sliceVars, poolVars>>
  \/ /\ turn = "slices" /\ Slices!Next
     /\ UNCHANGED <<turn, ringVars, listVars, elasticVars, inVars, outVars, fragVars, taskVars, poolVars>>
  \/ /\ turn = "rings" /\ Rings!Next
     /\ UNCHANGED <<turn, ringVars, listVars, elasticVars, inVars, outVars, fragVars, taskVars, sliceVars>>

Spec == Init /\ [][Next]_vars

-----------------------------------------------------------------------------
(* The bytes are kept: what a buffer holds is what went in and was neither      *)
(* returned nor skipped, through every wrap, growth, spill from the ring to the  *)
(* list and partial write (grow, Write, WriteByte, WriteTo, pushFront); a        *)
(* connection's decoder is shown no bytes of another one, though all are read    *)
(* through el.buffer; and bytes that wait for the socket have a write event to   *)
(* wait for (write, writev, el.write).                                        *)
BytesKept ==
  /\ turn \in {"ring", "ringBytes"} => Ring!TypeOK /\ Ring!InOrder /\ Ring!WriteByteFits
  /\ turn = "list" => List!TypeOK /\ List!InOrder /\ List!Counted
  /\ turn = "elastic" => Elastic!TypeOK /\ Elastic!InOrder /\ Elastic!WriteToDrains
  /\ turn = "inbound" => In!TypeOK /\ In!OwnBytes
  /\ turn = "outbound" => Out!TypeOK /\ Out!InOrder /\ Out!WriteInterest

(* ring.Buffer, linkedlist.Buffer, elastic.Buffer and both directions of a       *)
(* connection implement a byte queue: each call returns and leaves what it       *)
(* would of a queue, a handler reads what has arrived, and the peer gets what    *)
(* handlers wrote.                                                            *)
BuffersAreQueues ==
  /\ Ring!Queue!Init /\ List!Queue!Init /\ Elastic!Queue!Init /\ In!Stream!Init /\ Out!Stream!Init
  /\ [][(turn \in {"ring", "ringBytes"} => Ring!Queue!Step)]_vars
  /\ [][(turn = "list" => List!Queue!Step)]_vars
  /\ [][(turn = "elastic" => Elastic!Queue!Step)]_vars
  /\ [][(turn = "inbound" => In!Stream!Step)]_vars
  /\ [][(turn = "outbound" => Out!Stream!Step)]_vars

(* outFragQueue and inFragQueue are two first-in first-out queues, and Send      *)
(* moves frags from one to the other in their order; head, tail, count and both  *)
(* directions of the links agree, though the queues share the links of frags.   *)
FragsAreQueued ==
  /\ Frags!Abstract!Init
  /\ [][(turn = "frags" => Frags!Abstract!Step)]_vars
  /\ [](turn = "frags" => Frags!TypeOK /\ Frags!WalksAgree)

(* Enqueue and Dequeue, interleaved step by step, are a first-in first-out      *)
(* queue of tasks; Dequeue returns nil only if the queue was empty at a moment    *)
(* of the call; and once all calls have returned, the length IsEmpty tests is    *)
(* that of the list.                                                          *)
TasksAreQueued ==
  /\ Tasks!Abstract!Init
  /\ [][(turn \in {"producers", "consumers"} => Tasks!Abstract!Step /\ Tasks!NilStep)]_vars
  /\ [](turn \in {"producers", "consumers"} => Tasks!TypeOK /\ Tasks!LengthAgrees)

(* No two slices handed out by the byte slice pool share a byte, and each is as   *)
(* long as it claims, though Put recovers the array from a pointer alone; after  *)
(* a calibration the ring buffer pool keeps rings of the sizes that made up      *)
(* almost all of its use.                                                     *)
PoolsSound ==
  /\ turn = "slices" => Slices!SlicesSound
  /\ turn = "rings" => Rings!KeepsUsualSizes
=============================================================================

------------------------------- MODULE Outbound -------------------------------
(***************************************************************************)
(* The sending side of one connection: conn.open, write and writev, the      *)
(* batches of handleWriteSignal and of the flush in sread, el.write on a     *)
(* writable socket, closeConn with its last flush, and the kernel's send     *)
(* buffer, which the peer drains meanwhile.                                  *)
(*                                                                         *)
(* outboundBuffer is an elastic buffer, as ElasticBuffer models it.  `bs' is  *)
(* what a handler has still to write and `pc' where it is: the kernel and    *)
(* the other goroutines of the process go on between its system calls.       *)
(***************************************************************************)
EXTENDS ByteCalls

CONSTANTS DefaultBufferSize, bufferGrowThreshold, maxStaticBytes, PoolSizes,
          iovMax,           \* slices in one writev
          SndBuf,           \* bytes the kernel buffers for the socket
          Slices,           \* the slice lists handlers write
          MaxBuffered,      \* bound: bytes left in outboundBuffer before the next write
          PeerFails,        \* may the peer reset the connection?
          Closes            \* may the proxy close the connection?

VARIABLES outboundBuffer, opened, fd, interest, bs, pc,
          sock,             \* the kernel's send buffer
          peer,             \* "up" or "reset"
          lost,             \* closeConn gave up bytes that the peer could have had
          stray,            \* a system call used the fd after it was closed
          ret, arrived, taken

vars == <<outboundBuffer, opened, fd, interest, bs, pc, sock, peer, lost, stray, ret, arrived, taken>>

MaxSlices == Max({Len(FlattenSeq(s)) : s \in Slices})
Most == SndBuf + MaxBuffered + MaxSlices
Numbers == 2 * Most + 1

Elastic == INSTANCE ElasticBuffer WITH mb <- outboundBuffer, MaxArg <- Most,
                                       MaxBuffered <- Most, ListOnlyWriteTo <- FALSE
IsEmpty == Elastic!IsEmpty(outboundBuffer)
Pending == Elastic!Content(outboundBuffer)
Released == [rb |-> Elastic!NoRing, list |-> << >>]
Room == SndBuf - Len(sock)

-----------------------------------------------------------------------------
(* write and writev: behind pending bytes, or to the socket as far as it      *)
(* takes them and the rest to outboundBuffer (EAGAIN: all of it).  An empty    *)
(* list makes no system call; any other error closes the connection.         *)
Total(b) == Len(FlattenSeq(b))
Accept(b) == /\ ret' = Ret("Write", Total(b), << >>)
             /\ arrived' = After(arrived, Total(b), Numbers)
             /\ UNCHANGED <<taken, opened, fd, peer, lost, stray>>

Queue(b) == /\ ~IsEmpty
            /\ \E fresh \in PoolSizes : outboundBuffer' = Elastic!Writev(outboundBuffer, b, fresh)
            /\ Accept(b)
            /\ UNCHANGED <<sock, interest>>

Send(b) ==
  LET sent == Min({Total(b), Room})
  IN  /\ IsEmpty /\ fd = "own" /\ peer = "up"
      /\ sock' = sock \o First(FlattenSeq(b), sent)
      /\ \E fresh \in PoolSizes :
           outboundBuffer' = Elastic!Writev(outboundBuffer, Elastic!ListRest(b, sent), fresh)
      /\ interest' = IF sent < Total(b) THEN "rw" ELSE interest
      /\ Accept(b)

(* closeConn's end: the fd is closed and releaseTCP frees the buffers.         *)
Closed == /\ opened' = FALSE
          /\ fd' = "closed"
          /\ outboundBuffer' = Released
          /\ UNCHANGED <<interest, sock, peer, ret, arrived, taken>>

Broken == /\ IsEmpty /\ fd = "own" /\ peer = "reset"
          /\ Closed
          /\ UNCHANGED <<lost, stray>>

Stray == /\ fd # "own"
         /\ stray' = TRUE
         /\ UNCHANGED <<outboundBuffer, opened, fd, interest, sock, peer, lost, ret, arrived, taken>>

writev(b) == Queue(b) \/ Send(b) \/ Broken \/ Stray

-----------------------------------------------------------------------------
Init == /\ outboundBuffer = Released
        /\ opened = TRUE /\ fd = "own" /\ interest = "r"
        /\ bs = << >> /\ pc = "open"
        /\ sock = << >> /\ peer = "up" /\ lost = FALSE /\ stray = FALSE
        /\ ret = Ret("New", 0, << >>) /\ arrived = 0 /\ taken = 0

(* el.open with the greeting of OnSOpened (AUTH and READONLY), or with none.    *)
(* What the socket does not take goes to outboundBuffer; the write event        *)
(* cannot be added then, since register added the fd already, and open gives    *)
(* the error back.  Bound: a greeting fits into the buffer of a new socket.      *)
Greetings == {0, SndBuf}
Open == /\ pc = "open"
        /\ \E n \in Greetings, fresh \in PoolSizes :
             LET out == Fresh(arrived, n, Numbers)
                 sent == Min({n, Room})
             IN  /\ n > 0 => peer = "up"
                 /\ sock' = sock \o First(out, sent)
                 /\ outboundBuffer' = IF sent = n THEN outboundBuffer
                                      ELSE Elastic!Write(outboundBuffer, Rest(out, sent), fresh)
                 /\ arrived' = After(arrived, n, Numbers)
                 /\ ret' = Ret("Write", n, << >>)
        /\ pc' = "idle"
        /\ UNCHANGED <<opened, fd, interest, bs, peer, lost, stray, taken>>

(* Any other error is returned, and the connection stays open.                  *)
OpenFails == /\ pc = "open" /\ peer = "reset"
             /\ pc' = "idle"
             /\ UNCHANGED <<outboundBuffer, opened, fd, interest, bs, sock, peer, lost, stray, ret, arrived, taken>>

(* A handler has slices to write: replies to a client, requests to a node.     *)
Numbered(s) == LET data == Fresh(arrived, Total(s), Numbers)
               IN  [i \in 1 .. Len(s) |-> First(Rest(data, Total(SubSeq(s, 1, i - 1))), Len(s[i]))]
HandleWriteSignal ==
  /\ pc = "idle" /\ opened
  /\ Len(Pending) <= MaxBuffered
  /\ \E s \in Slices : bs' = Numbered(s)
  /\ pc' = "loop"
  /\ UNCHANGED <<outboundBuffer, opened, fd, interest, sock, peer, lost, stray, ret, arrived, taken>>

(* At most iovMax slices at a time.  When the connection was closed in a write *)
(* the loop stops, and what it has not written is written once more, to an fd  *)
(* that is closed by then.                                                    *)
LoopStep ==
  LET r == Min({Len(bs), iovMax})
  IN  /\ pc = "loop"
      /\ writev(SubSeq(bs, 1, r))
      /\ bs' = IF opened' THEN SubSeq(bs, r + 1, Len(bs)) ELSE bs
      /\ pc' = IF opened' THEN IF bs' = << >> THEN "idle" ELSE "loop" ELSE "last"

LastWrite == /\ pc = "last"
             /\ Stray
             /\ bs' = << >> /\ pc' = "idle"

(* el.write: an event on the fd, with bytes pending.  The ring is one part or,  *)
(* wrapped around, two.                                                      *)
Offered(parts) == LET list == outboundBuffer.list
                      n == IF outboundBuffer.rb.data = << >> THEN iovMax ELSE iovMax - parts
                  IN  outboundBuffer.rb.data \o FlattenSeq(SubSeq(list, 1, Min({n, Len(list)})))

(* Bug: the write event is dropped after any write.                           *)
OutEventOnce ==
  /\ pc = "idle" /\ opened /\ interest = "rw" /\ ~IsEmpty
  /\ peer = "up" /\ Room > 0
  /\ \E parts \in 1 .. 2 : LET n == Min({Len(Offered(parts)), Room})
                           IN  /\ sock' = sock \o First(Offered(parts), n)
                               /\ outboundBuffer' = Elastic!Discard(outboundBuffer, n)
  /\ interest' = "r"
  /\ UNCHANGED <<opened, fd, bs, pc, peer, lost, stray, ret, arrived, taken>>

OutEvent ==
  /\ pc = "idle" /\ opened /\ interest = "rw" /\ ~IsEmpty
  /\ peer = "up" /\ Room > 0
  /\ \E parts \in 1 .. 2 : LET n == Min({Len(Offered(parts)), Room})
                           IN  /\ sock' = sock \o First(Offered(parts), n)
                               /\ outboundBuffer' = Elastic!Discard(outboundBuffer, n)
  /\ interest' = IF Elastic!IsEmpty(outboundBuffer') THEN "r" ELSE "rw"
  /\ UNCHANGED <<opened, fd, bs, pc, peer, lost, stray, ret, arrived, taken>>

(* An error event counts as readable and writable: the write fails and closes   *)
(* the connection, and callback goes on to read from its fd.                  *)
ErrEvent == /\ pc = "idle" /\ opened /\ ~IsEmpty /\ peer = "reset"
            /\ Closed
            /\ pc' = "read"
            /\ UNCHANGED <<bs, lost, stray>>
ReadEvent == /\ pc = "read"
             /\ Stray
             /\ pc' = "idle" /\ UNCHANGED bs

(* closeConn, called for whatever reason: pending bytes are written as long as  *)
(* the socket takes them.                                                     *)
CloseConn == /\ pc = "idle" /\ opened /\ Closes
             /\ pc' = "flush"
             /\ UNCHANGED <<outboundBuffer, opened, fd, interest, bs, sock, peer, lost, stray, ret, arrived, taken>>
FlushStep == /\ pc = "flush" /\ ~IsEmpty /\ peer = "up" /\ Room > 0
             /\ \E parts \in 1 .. 2 : LET n == Min({Len(Offered(parts)), Room})
                                      IN  /\ sock' = sock \o First(Offered(parts), n)
                                          /\ outboundBuffer' = Elastic!Discard(outboundBuffer, n)
             /\ UNCHANGED <<opened, fd, interest, bs, pc, peer, lost, stray, ret, arrived, taken>>
FlushEnd == /\ pc = "flush" /\ (IsEmpty \/ peer = "reset" \/ Room = 0)
            /\ lost' = (~IsEmpty /\ peer = "up")
            /\ Closed
            /\ pc' = "idle" /\ UNCHANGED <<bs, stray>>

-----------------------------------------------------------------------------
(* External: the peer reads, or resets the connection; the number of a closed   *)
(* fd is given to a file another goroutine opens.                             *)
Drain == /\ sock # << >> /\ peer = "up"
         /\ \E n \in 1 .. Len(sock) :
              /\ sock' = Rest(sock, n)
              /\ ret' = Ret("Read", n, First(sock, n))
              /\ taken' = After(taken, n, Numbers)
         /\ UNCHANGED <<outboundBuffer, opened, fd, interest, bs, pc, peer, lost, stray, arrived>>
PeerReset == /\ PeerFails /\ peer = "up"
             /\ peer' = "reset" /\ sock' = << >>
             /\ UNCHANGED <<outboundBuffer, opened, fd, interest, bs, pc, lost, stray, ret, arrived, taken>>
FdReused == /\ fd = "closed"
            /\ fd' = "reused"
            /\ UNCHANGED <<outboundBuffer, opened, interest, bs, pc, sock, peer, lost, stray, ret, arrived, taken>>

Next == \/ Open \/ OpenFails \/ HandleWriteSignal \/ LoopStep \/ LastWrite
        \/ OutEvent \/ ErrEvent \/ ReadEvent
        \/ CloseConn \/ FlushStep \/ FlushEnd
        \/ Drain \/ PeerReset \/ FdReused

Spec == Init /\ [][Next]_vars

(* The loop runs its handlers to their end, epoll reports a writable socket     *)
(* again and again, and a peer that is up reads.                              *)
FairSpec == /\ Spec
            /\ WF_vars(LoopStep) /\ WF_vars(OutEvent) /\ WF_vars(FlushStep \/ FlushEnd)
            /\ WF_vars(Drain)

-----------------------------------------------------------------------------
(* Type invariant.                                                           *)
TypeOK ==
  /\ opened \in BOOLEAN /\ fd \in {"own", "closed", "reused"} /\ interest \in {"r", "rw"}
  /\ pc \in {"open", "idle", "loop", "last", "read", "flush"}
  /\ peer \in {"up", "reset"} /\ lost \in BOOLEAN /\ stray \in BOOLEAN
  /\ sock \in Seq(0 .. Numbers - 1) /\ Len(sock) <= SndBuf
  /\ (~opened) = (fd # "own")

(* Replies and requests reach the socket in the order in which they were       *)
(* written, with none missing between two: write and writev go behind pending   *)
(* bytes, and a partial writev buffers exactly the rest.                      *)
InOrder ==
  peer = "up" =>
    IF opened THEN sock \o Pending = Between(taken, arrived, Numbers)
    ELSE IsPrefix(sock, Between(taken, arrived, Numbers))

(* Pending bytes have a write event to wait for: write and writev do not ask    *)
(* again when they find bytes pending, and el.write gives the event up only     *)
(* when it has written everything.                                           *)
WriteInterest == opened /\ pc # "flush" /\ ~IsEmpty => interest = "rw"

(* Every byte a handler has written reaches the peer, unless the connection is  *)
(* closed or reset (write, writev, el.write).  Numbers recur, so the byte       *)
(* numbered 0 stands for every byte.                                          *)
Delivered ==
  (0 \in Range(sock \o Pending)) ~> (0 \notin Range(sock \o Pending) \/ ~opened \/ peer = "reset")

Gone == ~opened \/ peer = "reset"
Stream == INSTANCE ByteQueue WITH Byte <- 0 .. Numbers - 1,
                                  queue <- IF Gone THEN << >> ELSE sock \o Pending,
                                  ret <- IF Gone THEN Ret("Reset", 0, << >>) ELSE ret
(* The connection's sending side implements a byte queue from its handlers to   *)
(* the peer, until it is closed or reset.                                     *)
ImplementsQueue == Stream!Spec

(* closeConn sends what is pending before it closes the connection.            *)
(* Does not hold of the code: see the README, Disagreements.                   *)
ResidualSent == ~lost

(* No handler uses a connection's fd once closeConn has closed it: the number   *)
(* may be another file's by then.                                             *)
(* Does not hold of the code: see the README, Disagreements.                  *)
OnlyOwnFd == ~stray
=============================================================================

------------------------------- MODULE Inbound --------------------------------
(***************************************************************************)
(* The receiving side of connections.  The event loop reads every socket     *)
(* into the one el.buffer; conn.buffer is a slice of it, and what a decoder   *)
(* leaves there is moved to the connection's own inboundBuffer before the     *)
(* loop goes on.  Decoders see inboundBuffer and buffer as one, through       *)
(* Read, Next, Peek, Discard and WriteTo.                                    *)
(*                                                                         *)
(* inboundBuffer is a ring buffer, a byte queue (module RingBuffer).  Bytes   *)
(* carry their connection, so that one that strays shows.                    *)
(***************************************************************************)
EXTENDS ByteCalls

CONSTANTS Conn,
          Watched,          \* the connection whose calls are shown to implement a queue
          ReadBufferCap,    \* size of el.buffer
          MaxArg,           \* bound: the largest argument of a call
          MaxBuffered       \* bound: bytes a decoder leaves for the next event

VARIABLES elBuffer,         \* el.buffer, a function on 0 .. ReadBufferCap - 1
          buffer,           \* c.buffer, the part [lo, hi) of el.buffer
          inboundBuffer,
          reading,          \* the connection in el.read, or None
          ret, arrived, taken

vars == <<elBuffer, buffer, inboundBuffer, reading, ret, arrived, taken>>

None == "none"
Numbers == MaxBuffered + ReadBufferCap + 1
Byte == Conn \X (0 .. Numbers - 1)
Tag(c, s) == [i \in 1 .. Len(s) |-> <<c, s[i]>>]

(* The bytes of c.buffer, and all a decoder can see.                          *)
Slice(c) == [i \in 1 .. buffer[c].hi - buffer[c].lo |-> elBuffer[buffer[c].lo + i - 1]]
Visible(c) == inboundBuffer[c] \o Slice(c)
InboundBuffered(c) == Len(Visible(c))

Nothing == [lo |-> 0, hi |-> 0]

(* The watched connection's caller sees what a call returns.                   *)
Returns(c, r) == ret' = IF c = Watched THEN r ELSE ret

Init == /\ elBuffer = [i \in 0 .. ReadBufferCap - 1 |-> <<CHOOSE c \in Conn : TRUE, 0>>]
        /\ buffer = [c \in Conn |-> Nothing]
        /\ inboundBuffer = [c \in Conn |-> << >>]
        /\ reading = None
        /\ ret = Ret("New", 0, << >>)
        /\ arrived = [c \in Conn |-> 0] /\ taken = [c \in Conn |-> 0]

(* el.read: n bytes overwrite the start of el.buffer.                         *)
Read(c) ==
  /\ reading = None
  /\ \E n \in 1 .. ReadBufferCap :
       LET data == Tag(c, Fresh(arrived[c], n, Numbers))
       IN  /\ elBuffer' = [i \in 0 .. ReadBufferCap - 1 |-> IF i < n THEN data[i + 1] ELSE elBuffer[i]]
           /\ buffer' = [buffer EXCEPT ![c] = [lo |-> 0, hi |-> n]]
           /\ Returns(c, Ret("Write", n, << >>))
           /\ arrived' = [arrived EXCEPT ![c] = After(@, n, Numbers)]
  /\ reading' = c
  /\ UNCHANGED <<inboundBuffer, taken>>

(* The end of cread and sread: what is left moves to inboundBuffer.            *)
ReadEnd(c) ==
  /\ reading = c /\ InboundBuffered(c) <= MaxBuffered
  /\ inboundBuffer' = [inboundBuffer EXCEPT ![c] = @ \o Slice(c)]
  /\ reading' = None
  /\ UNCHANGED <<elBuffer, buffer, ret, arrived, taken>>

-----------------------------------------------------------------------------
(* Taking n bytes: first from inboundBuffer, the rest from c.buffer.           *)
Take(c, n) ==
  LET inBufferLen == Len(inboundBuffer[c])
  IN  /\ inboundBuffer' = [inboundBuffer EXCEPT ![c] = Rest(@, n)]
      /\ buffer' = [buffer EXCEPT ![c].lo = Min({@ + Max({0, n - inBufferLen}), buffer[c].hi})]
Took(c, op, n, data) ==
  /\ Returns(c, Ret(op, n, data))
  /\ taken' = [taken EXCEPT ![c] = After(@, Min({n, InboundBuffered(c)}), Numbers)]
  /\ UNCHANGED <<elBuffer, reading, arrived>>

CallRead(c) ==
  /\ reading = c
  /\ \E n \in 1 .. MaxArg : Take(c, n) /\ Took(c, "Read", n, First(Visible(c), n))

(* Next and Peek refuse more than there is; n <= 0 stands for everything.       *)
CallNext(c) ==
  /\ reading = c
  /\ \E n \in 0 .. Min({MaxArg, InboundBuffered(c)}) :
       LET m == IF n = 0 THEN InboundBuffered(c) ELSE n
       IN  Take(c, m) /\ Took(c, "Read", m, First(Visible(c), m))

PeekHead(c, m) ==  \* mutant: c.buffer is not appended to what inboundBuffer has
  IF inboundBuffer[c] = << >> THEN First(Slice(c), m) ELSE First(inboundBuffer[c], m)

(* Peek returns c.buffer, the head of the ring, or a copy put together in the   *)
(* loop's cache.                                                              *)
PeekBytes(c, m) ==
  LET inBufferLen == Len(inboundBuffer[c])
  IN  CASE inBufferLen = 0 -> First(Slice(c), m)
        [] inBufferLen > 0 /\ inBufferLen >= m -> First(inboundBuffer[c], m)
        [] inBufferLen > 0 /\ inBufferLen < m -> inboundBuffer[c] \o First(Slice(c), m - inBufferLen)
CallPeek(c) ==
  /\ reading = c
  /\ \E n \in 0 .. Min({MaxArg, InboundBuffered(c)}) :
       LET m == IF n = 0 THEN InboundBuffered(c) ELSE n
       IN  Returns(c, Ret("Peek", m, PeekBytes(c, m)))
  /\ UNCHANGED <<elBuffer, buffer, inboundBuffer, reading, arrived, taken>>

(* Discard of nothing, or of more than there is, discards everything.          *)
CallDiscard(c) ==
  /\ reading = c
  /\ \E n \in 0 .. MaxArg :
       LET m == IF n = 0 \/ n > InboundBuffered(c) THEN InboundBuffered(c) ELSE n
       IN  Take(c, m) /\ Took(c, "Discard", m, << >>)

(* To a writer that takes everything.                                         *)
CallWriteTo(c) ==
  /\ reading = c
  /\ LET m == InboundBuffered(c)
     IN  Take(c, m) /\ Took(c, "Read", m, Visible(c))

Next == \E c \in Conn : \/ Read(c) \/ ReadEnd(c)
                        \/ CallRead(c) \/ CallNext(c) \/ CallPeek(c)
                        \/ CallDiscard(c) \/ CallWriteTo(c)

Spec == Init /\ [][Next]_vars

-----------------------------------------------------------------------------
(* Type invariant.                                                            *)
TypeOK ==
  /\ elBuffer \in [0 .. ReadBufferCap - 1 -> Byte]
  /\ \A c \in Conn : /\ inboundBuffer[c] \in Seq(Byte)
                     /\ 0 <= buffer[c].lo /\ buffer[c].lo <= buffer[c].hi /\ buffer[c].hi <= ReadBufferCap
  /\ reading \in Conn \cup {None}

Unread(c) == inboundBuffer[c] \o (IF reading = c THEN Slice(c) ELSE << >>)
(* What a connection has buffered is what arrived on its own socket and no      *)
(* decoder has consumed, in order, although all sockets are read into one       *)
(* el.buffer (read, cread, sread).                                            *)
OwnBytes == \A c \in Conn : Unread(c) = Tag(c, Between(taken[c], arrived[c], Numbers))

Stream == INSTANCE ByteQueue WITH queue <- Unread(Watched)
(* A decoder's calls on a connection see one byte queue, split as it may be     *)
(* between inboundBuffer and buffer (Read, Next, Peek, Discard, WriteTo).       *)
ImplementsQueue == Stream!Spec
=============================================================================

----------------------------- MODULE RingBuffer ------------------------------
(***************************************************************************)
(* pkg/buffer/ring: a byte buffer in an array that is filled and drained in *)
(* a circle and replaced by a larger one when it is full.                   *)
(*                                                                         *)
(* The fields buf, size, r, w and isEmpty of ring.Buffer are one record     *)
(* `rb'; r = w stands for an empty buffer or for a full one, and isEmpty    *)
(* tells which.  The functions of the package are operators on the record,  *)
(* and the actions are their calls.  Ops is what the caller calls.          *)
(***************************************************************************)
EXTENDS BufferSizes, ByteCalls

CONSTANTS Ops,          \* the operations the caller uses
          InitSize,     \* the argument of New
          MinRead,      \* 512: the room ReadFrom asks for before a Read
          MaxArg,       \* bound: the largest argument of a call
          MaxBuffered,  \* bound: the most bytes the caller leaves buffered
          Sources,      \* how many bytes a reader given to ReadFrom can have
          ShortReads,   \* may a reader return less than it is asked for?
          MinAccept     \* the least number of bytes a writer accepts

VARIABLES rb, ret,
          arrived,      \* the number of the last byte that went in
          taken,        \* the number of the last byte the caller got or skipped
          src,          \* the reader of a ReadFrom in progress
          panicked      \* an index was out of range

vars == <<rb, ret, arrived, taken, src, panicked>>

Garbage == -1           \* a byte nobody wrote
NoSource == [left |-> 0, at |-> "none"]
Numbers == 2 * MaxBuffered + 1

-----------------------------------------------------------------------------
(* buf[i:j] and copy(buf[i:], p) of Go, and an array fresh from the pool.    *)
Slice(buf, i, j) == [k \in 1 .. j - i |-> buf[i + k - 1]]
Copy(buf, i, p) == [k \in DOMAIN buf |->
                      IF i <= k /\ k < i + Len(p) THEN p[k - i + 1] ELSE buf[k]]
Dirty(n) == [k \in 0 .. n - 1 |-> Garbage]

New(n) == LET size == IF n = 0 THEN 0 ELSE CeilToPowerOfTwo(n)
          IN  [buf |-> Dirty(size), size |-> size, r |-> 0, w |-> 0, isEmpty |-> TRUE]

Reset(b) == [b EXCEPT !.isEmpty = TRUE, !.r = 0, !.w = 0]

Buffered(b) == CASE b.r = b.w -> IF b.isEmpty THEN 0 ELSE b.size
                 [] b.w > b.r -> b.w - b.r
                 [] b.w < b.r -> b.size - b.r + b.w

Available(b) == CASE b.r = b.w -> IF b.isEmpty THEN b.size ELSE 0
                  [] b.w < b.r -> b.r - b.w
                  [] b.w > b.r -> b.size - b.w + b.r

(* The length of a buffer that is not empty, and its first m bytes: up to    *)
(* the end of the array and then from its beginning.                        *)
Length(b) == IF b.w > b.r THEN b.w - b.r ELSE b.size - b.r + b.w
Segment(b, m) == IF b.r + m <= b.size
                 THEN Slice(b.buf, b.r, b.r + m)
                 ELSE Slice(b.buf, b.r, b.size) \o Slice(b.buf, 0, b.r + m - b.size)

peekAll(b) == IF b.isEmpty THEN << >> ELSE Segment(b, Length(b))

Peek(b, n) == CASE b.isEmpty -> << >>
                [] ~b.isEmpty /\ n <= 0 -> peekAll(b)
                [] ~b.isEmpty /\ n > 0 -> Segment(b, Min({n, Length(b)}))

Discard(b, n) == CASE n <= 0 -> b
                   [] n > 0 /\ n < Buffered(b) -> [b EXCEPT !.r = (b.r + n) % b.size]
                   [] n > 0 /\ n >= Buffered(b) -> Reset(b)

(* The buffer after m bytes were consumed: Reset when that was the last.     *)
Advance(b, m) == LET r == (b.r + m) % b.size
                 IN  IF r = b.w THEN Reset(b) ELSE [b EXCEPT !.r = r]

Read(b, n) == IF n = 0 \/ b.isEmpty THEN b ELSE Advance(b, Min({n, Length(b)}))
ReadBytes(b, n) == IF n = 0 \/ b.isEmpty THEN << >> ELSE Segment(b, Min({n, Length(b)}))

GrowUnrolled(b, newCap) ==  \* mutant: the array is copied as it lies
  LET size == GrowCap(b.size, newCap)
      oldLen == Buffered(b)
  IN  [buf |-> Copy(Dirty(size), 0, Slice(b.buf, 0, b.size)), size |-> size, r |-> 0, w |-> oldLen,
       isEmpty |-> IF oldLen > 0 THEN FALSE ELSE Read(b, size).isEmpty]
grow(b, newCap) ==
  LET size == GrowCap(b.size, newCap)
      oldLen == Buffered(b)
  IN  [buf |-> Copy(Dirty(size), 0, ReadBytes(b, size)), size |-> size, r |-> 0, w |-> oldLen,
       isEmpty |-> IF oldLen > 0 THEN FALSE ELSE Read(b, size).isEmpty]

Wrap(b) == IF b.w = b.size THEN [b EXCEPT !.w = 0] ELSE b

Write(b, p) ==
  LET n == Len(p)
      g == IF n > Available(b) THEN grow(b, b.size + n - Available(b)) ELSE b
      c1 == g.size - g.w
  IN  IF n = 0 THEN b
      ELSE IF g.w >= g.r /\ c1 < n
      THEN [g EXCEPT !.buf = Copy(Copy(g.buf, g.w, SubSeq(p, 1, c1)), 0, SubSeq(p, c1 + 1, n)),
                     !.w = n - c1, !.isEmpty = FALSE]
      ELSE Wrap([g EXCEPT !.buf = Copy(g.buf, g.w, p), !.w = g.w + n, !.isEmpty = FALSE])

Bytes(b) == IF b.isEmpty THEN << >> ELSE Segment(b, Length(b))

-----------------------------------------------------------------------------
Idle == src.at = "none" /\ ~panicked

(* The array keeps the bytes that were consumed; to the model they are garbage *)
(* like what nobody wrote, since none of the operations may show them again.   *)
Forget(b) == [b EXCEPT !.buf = [k \in DOMAIN b.buf |->
                IF (k + b.size - b.r) % b.size < Buffered(b) THEN b.buf[k] ELSE Garbage]]
Becomes(b) == rb' = Forget(b)

(* n bytes go in, or the caller gets or skips the first n.                     *)
Arrive(n) == arrived' = After(arrived, n, Numbers) /\ UNCHANGED taken
Consume(n) == taken' = After(taken, n, Numbers) /\ UNCHANGED arrived
Incoming(n) == Fresh(arrived, n, Numbers)
Room == MaxBuffered - Buffered(rb)

Init == /\ rb = New(InitSize)
        /\ ret = Ret("New", 0, << >>)
        /\ arrived = 0 /\ taken = 0 /\ src = NoSource /\ panicked = FALSE

CallWrite ==
  /\ Idle /\ "Write" \in Ops
  /\ \E n \in 0 .. Min({MaxArg, Room}) :
       /\ Becomes(Write(rb, Incoming(n)))
       /\ ret' = Ret("Write", n, << >>)
       /\ Arrive(n)
  /\ UNCHANGED <<src, panicked>>

(* A full buffer is grown by grow(1); the index is checked by the runtime.   *)
CallWriteByte ==
  /\ Idle /\ "WriteByte" \in Ops /\ Room > 0
  /\ LET g == IF Available(rb) < 1 THEN grow(rb, 1) ELSE rb
     IN  IF g.w \in DOMAIN g.buf
         THEN /\ Becomes(Wrap([g EXCEPT !.buf[g.w] = Incoming(1)[1], !.w = g.w + 1, !.isEmpty = FALSE]))
              /\ ret' = Ret("Write", 1, << >>)
              /\ Arrive(1)
              /\ UNCHANGED <<src, panicked>>
         ELSE panicked' = TRUE /\ UNCHANGED <<rb, ret, arrived, taken, src>>

CallRead ==
  /\ Idle /\ "Read" \in Ops
  /\ \E n \in 0 .. MaxArg : /\ Becomes(Read(rb, n))
                            /\ ret' = Ret("Read", n, ReadBytes(rb, n))
                            /\ Consume(Len(ReadBytes(rb, n)))
  /\ UNCHANGED <<src, panicked>>

CallReadByte ==
  /\ Idle /\ "ReadByte" \in Ops
  /\ ~rb.isEmpty
  /\ LET b == IF rb.r + 1 = rb.size THEN [rb EXCEPT !.r = 0] ELSE [rb EXCEPT !.r = rb.r + 1]
     IN  Becomes(IF b.r = b.w THEN Reset(b) ELSE b)
  /\ ret' = Ret("Read", 1, <<rb.buf[rb.r]>>)
  /\ Consume(1)
  /\ UNCHANGED <<src, panicked>>

(* Peek(n) for n <= 0 returns everything.                                    *)
CallPeek ==
  /\ Idle /\ "Peek" \in Ops
  /\ \E n \in 0 .. MaxArg :
       ret' = Ret("Peek", IF n = 0 THEN Buffered(rb) ELSE n, Peek(rb, n))
  /\ UNCHANGED <<rb, arrived, taken, src, panicked>>

CallDiscard ==
  /\ Idle /\ "Discard" \in Ops
  /\ \E n \in 0 .. MaxArg : /\ Becomes(Discard(rb, n))
                            /\ ret' = Ret("Discard", n, << >>)
                            /\ Consume(Min({n, Buffered(rb)}))
  /\ UNCHANGED <<src, panicked>>

CallReset ==
  /\ Idle /\ "Reset" \in Ops
  /\ Becomes(Reset(rb))
  /\ ret' = Ret("Reset", 0, << >>)
  /\ Consume(Buffered(rb))
  /\ UNCHANGED <<src, panicked>>

-----------------------------------------------------------------------------
(* CopyFromSocket: one read(2), or readv(2) into both free parts, which may  *)
(* bring fewer bytes than there is room for.                                *)
SocketReady(b) == IF b.r = b.w /\ ~b.isEmpty THEN grow(b, b.size + b.size \div 2)
                  ELSE IF b.r = b.w THEN [b EXCEPT !.r = 0, !.w = 0] ELSE b
SocketRoom(b) == IF b.w < b.r THEN b.r - b.w ELSE b.size - b.w + b.r
Fill(b, p) ==
  LET c1 == Min({Len(p), b.size - b.w})
  IN  IF p = << >> THEN b
      ELSE [b EXCEPT !.buf = Copy(Copy(b.buf, b.w, SubSeq(p, 1, c1)), 0, SubSeq(p, c1 + 1, Len(p))),
                     !.w = (b.w + Len(p)) % b.size,
                     !.isEmpty = FALSE]

CopyFromSocket ==
  /\ Idle /\ "CopyFromSocket" \in Ops
  /\ LET b == SocketReady(rb)
     IN  \E n \in 0 .. Min({SocketRoom(b), MaxArg, Room}) :
           /\ Becomes(Fill(b, Incoming(n)))
           /\ ret' = Ret("Write", n, << >>)
           /\ Arrive(n)
  /\ UNCHANGED <<src, panicked>>

-----------------------------------------------------------------------------
(* ReadFrom, one Read of the reader at a time.  A Read into len bytes gives   *)
(* as many as the reader has, or fewer (io.Reader allows it), and EOF when    *)
(* there are none left.                                                      *)
Given(len) == LET most == Min({len, src.left})
              IN  IF ShortReads /\ most > 0 THEN 1 .. most ELSE {most}

ReadInto(b, at, len, next) ==
  \E m \in Given(len) :
    /\ Becomes([b EXCEPT !.buf = Copy(b.buf, at, Incoming(m)), !.w = (b.w + m) % b.size,
                         !.isEmpty = FALSE])
    /\ ret' = Ret("Write", m, << >>)
    /\ Arrive(m)
    /\ src' = IF src.left = 0 THEN NoSource ELSE [left |-> src.left - m, at |-> next]
    /\ UNCHANGED panicked

ReadFrom ==
  /\ Idle /\ "ReadFrom" \in Ops
  /\ \E n \in Sources : n <= Room /\ src' = [left |-> n, at |-> "loop"]
  /\ UNCHANGED <<rb, ret, arrived, taken, panicked>>

(* The first Read of a turn goes to the free part behind w.                  *)
ReadFromLoop ==
  /\ src.at = "loop"
  /\ LET b == IF Available(rb) < MinRead THEN grow(rb, Buffered(rb) + MinRead) ELSE rb
     IN  IF b.w >= b.r THEN ReadInto(b, b.w, b.size - b.w, "front")
         ELSE ReadInto(b, b.w, b.r - b.w, "loop")

(* The second goes to the free part before r, wherever the first one ended.   *)
ReadFromFront ==
  /\ src.at = "front"
  /\ ReadInto(rb, 0, rb.r, "loop")

(* WriteTo: the writer takes m bytes in one Write, or in two when the bytes    *)
(* wrap around the end of the array; the emptiness test is made except after  *)
(* a first Write of two that fell short.                                     *)
WriteTo ==
  /\ Idle /\ "WriteTo" \in Ops
  /\ ~rb.isEmpty
  /\ LET n == Length(rb)
         c1 == rb.size - rb.r
     IN  \E m \in MinAccept .. n :
           /\ Becomes(IF n > c1 /\ m < c1 THEN [rb EXCEPT !.r = rb.r + m] ELSE Advance(rb, m))
           /\ ret' = Ret("Read", m, Segment(rb, m))
           /\ Consume(m)
  /\ UNCHANGED <<src, panicked>>

-----------------------------------------------------------------------------
Next == \/ CallWrite \/ CallWriteByte \/ CallRead \/ CallReadByte \/ CallPeek
        \/ CallDiscard \/ CallReset \/ CopyFromSocket
        \/ ReadFrom \/ ReadFromLoop \/ ReadFromFront \/ WriteTo

Spec == Init /\ [][Next]_vars

-----------------------------------------------------------------------------
(* Type invariant: the fields of ring.Buffer; w wraps to zero before it       *)
(* reaches the size, so both positions are inside the array.                 *)
TypeOK ==
  /\ rb.size \in Nat
  /\ rb.buf \in [0 .. rb.size - 1 -> {Garbage} \cup (0 .. Numbers - 1)]
  /\ \/ rb.r = 0 /\ rb.w = 0
     \/ rb.r \in DOMAIN rb.buf /\ rb.w \in DOMAIN rb.buf
  /\ rb.isEmpty \in BOOLEAN
  /\ src.at \in {"none", "loop", "front"} /\ src.left \in Nat
  /\ panicked \in BOOLEAN

(* Read, Discard, Write, WriteTo, ReadFrom and CopyFromSocket keep every byte  *)
(* once and in order, through every wrap around the end of the array and      *)
(* every growth: the buffer holds exactly the bytes that went in and that the *)
(* caller has neither been given nor skipped.                                *)
InOrder == Bytes(rb) = Between(taken, arrived, Numbers)

(* WriteByte finds room for its byte: the index rb.w is inside the array.     *)
WriteByteFits == ~panicked

Queue == INSTANCE ByteQueue WITH Byte <- 0 .. Numbers - 1, queue <- Bytes(rb)
(* ring.Buffer implements a byte queue: what Peek and Read return, and what   *)
(* Discard, Write, ReadFrom and WriteTo leave, is what a queue would.         *)
ImplementsQueue == Queue!Spec
=============================================================================

---------------------------- MODULE ElasticBuffer ----------------------------
(***************************************************************************)
(* pkg/buffer/elastic: the outbound buffer of a connection.  Bytes go to a  *)
(* ring buffer taken from a pool on demand and, once that holds             *)
(* maxStaticBytes, to a linked list behind it.                              *)
(*                                                                         *)
(* The ring and the list are what RingBuffer and LinkedListBuffer implement: *)
(* mb.rb is NoRing (nil) or the capacity and the bytes of a ring, mb.list    *)
(* is the sequence of the slices in the list.                               *)
(***************************************************************************)
EXTENDS BufferSizes, ByteCalls

CONSTANTS maxStaticBytes,
          PoolSizes,        \* capacities a ring from the pool can have
          MaxArg,           \* bound: the largest argument of a call
          MaxBuffered,      \* bound: the most bytes the caller leaves buffered
          ListOnlyWriteTo   \* may WriteTo be called when only the list has bytes?

VARIABLES mb, ret, arrived, taken

vars == <<mb, ret, arrived, taken>>

NoRing == [cap |-> -1, data |-> << >>]
Numbers == 2 * MaxBuffered + 1

-----------------------------------------------------------------------------
(* RingBuffer of elastic_ring_buffer.go.                                     *)
RingLen(b) == IF b.rb = NoRing THEN 0 ELSE b.rb.cap
RingAvailable(b) == IF b.rb = NoRing THEN 0 ELSE b.rb.cap - Len(b.rb.data)
RingBuffered(b) == Len(b.rb.data)

(* The ring a write goes to: fresh is the capacity of one from the pool.      *)
instance(b, fresh) == IF b.rb = NoRing THEN [cap |-> fresh, data |-> << >>] ELSE b.rb

RingWrite(b, p, fresh) ==
  LET rb == instance(b, fresh)
      free == rb.cap - Len(rb.data)
  IN  IF p = << >> THEN b
      ELSE [b EXCEPT !.rb = [cap |-> IF Len(p) > free THEN GrowCap(rb.cap, rb.cap + Len(p) - free)
                                     ELSE rb.cap,
                             data |-> rb.data \o p]]

(* An empty ring goes back to the pool.                                      *)
done(b) == IF RingBuffered(b) = 0 THEN [b EXCEPT !.rb = NoRing] ELSE b
RingTake(b, n) == done([b EXCEPT !.rb.data = Rest(@, n)])

-----------------------------------------------------------------------------
(* linkedlist.Buffer.                                                        *)
PushBack(b, p) == IF p = << >> THEN b ELSE [b EXCEPT !.list = Append(@, p)]

(* The list without its first n bytes; a slice consumed in part stays.        *)
ListRest(list, n) ==
  LET whole == {k \in 0 .. Len(list) : Len(FlattenSeq(SubSeq(list, 1, k))) <= n}
      k == Max(whole)
      left == n - Len(FlattenSeq(SubSeq(list, 1, k)))
      rest == SubSeq(list, k + 1, Len(list))
  IN  IF left = 0 \/ rest = << >> THEN rest
      ELSE <<Rest(Head(rest), left)>> \o Tail(rest)
ListTake(b, n) == [b EXCEPT !.list = ListRest(@, n)]

(* Whole slices until they hold n bytes.                                      *)
ListPeek(list, n) ==
  LET enough == {k \in 0 .. Len(list) : Len(FlattenSeq(SubSeq(list, 1, k))) >= n}
  IN  FlattenSeq(SubSeq(list, 1, IF enough = {} THEN Len(list) ELSE Min(enough)))

-----------------------------------------------------------------------------
(* Buffer of elastic_ring_list_buffer.go.                                     *)
Content(b) == b.rb.data \o FlattenSeq(b.list)
IsEmpty(b) == RingBuffered(b) = 0 /\ b.list = << >>

ToList(b) == b.list # << >> \/ RingBuffered(b) >= maxStaticBytes

Write(b, p, fresh) ==
  LET writable == RingAvailable(b)
  IN  IF ToList(b) THEN PushBack(b, p)
      ELSE IF RingLen(b) >= maxStaticBytes /\ Len(p) > writable
      THEN PushBack(RingWrite(b, First(p, writable), fresh), Rest(p, writable))
      ELSE RingWrite(b, p, fresh)

(* Slices go to the ring while they fit; the first that does not is split     *)
(* between ring and list and the later ones go to the list.                  *)
Writev(b, bs, fresh) ==
  LET writable == IF RingLen(b) < maxStaticBytes THEN maxStaticBytes - RingBuffered(b)
                  ELSE RingAvailable(b)
      step(acc, p) ==
        CASE acc.spilled -> [acc EXCEPT !.b = PushBack(@, p)]
          [] ~acc.spilled /\ Len(p) > acc.writable ->
               [b |-> PushBack(RingWrite(acc.b, First(p, acc.writable), fresh), Rest(p, acc.writable)),
                writable |-> 0, spilled |-> TRUE]
          [] ~acc.spilled /\ Len(p) <= acc.writable ->
               [b |-> RingWrite(acc.b, p, fresh), writable |-> acc.writable - Len(p), spilled |-> FALSE]
  IN  FoldLeft(step, [b |-> b, writable |-> writable, spilled |-> ToList(b)], bs).b

(* Read and Discard: the ring first, then the list.                           *)
Discard(b, n) == LET discarded == Min({n, RingBuffered(b)})
                     b1 == IF b.rb = NoRing THEN b ELSE RingTake(b, n)
                 IN  IF n <= discarded THEN b1 ELSE ListTake(b1, n - discarded)

Peek(b, n) == IF RingBuffered(b) >= n THEN First(b.rb.data, n)
              ELSE b.rb.data \o ListPeek(b.list, n - RingBuffered(b))

-----------------------------------------------------------------------------
Arrive(n) == arrived' = After(arrived, n, Numbers) /\ UNCHANGED taken
Consume(n) == taken' = After(taken, n, Numbers) /\ UNCHANGED arrived
Incoming(n) == Fresh(arrived, n, Numbers)
Room == MaxBuffered - Len(Content(mb))

Init == /\ mb = [rb |-> NoRing, list |-> << >>]
        /\ ret = Ret("New", 0, << >>)
        /\ arrived = 0 /\ taken = 0

CallWrite ==
  \E n \in 0 .. Min({MaxArg, Room}) : \E fresh \in PoolSizes :
    /\ mb' = Write(mb, Incoming(n), fresh)
    /\ ret' = Ret("Write", n, << >>)
    /\ Arrive(n)

(* Two slices, the second of which may be empty.                              *)
CallWritev ==
  \E n \in 1 .. Min({MaxArg, Room}) : \E k \in 0 .. n : \E fresh \in PoolSizes :
    /\ mb' = Writev(mb, <<First(Incoming(n), k), Rest(Incoming(n), k)>>, fresh)
    /\ ret' = Ret("Write", n, << >>)
    /\ Arrive(n)

CallRead ==
  \E n \in 1 .. MaxArg :
    /\ mb' = Discard(mb, n)
    /\ ret' = Ret("Read", n, First(Content(mb), n))
    /\ Consume(Min({n, Len(Content(mb))}))

CallDiscard ==
  \E n \in 0 .. MaxArg :
    /\ mb' = Discard(mb, n)
    /\ ret' = Ret("Discard", n, << >>)
    /\ Consume(Min({n, Len(Content(mb))}))

(* Peek may return more than it was asked for; with n <= 0 it returns all.     *)
CallPeek ==
  /\ \E n \in 0 .. MaxArg :
       LET data == Peek(mb, IF n = 0 THEN MaxBuffered ELSE n)
       IN  ret' = Ret("Peek", Max({n, Len(data)}), data)
  /\ UNCHANGED <<mb, arrived, taken>>

(* A writer that takes everything.  When the ring has nothing its ErrIsEmpty   *)
(* is returned before the list is reached.                                   *)
WriteTo ==
  /\ RingBuffered(mb) > 0 \/ ListOnlyWriteTo
  /\ LET data == IF RingBuffered(mb) = 0 THEN << >> ELSE Content(mb)
     IN  /\ mb' = IF RingBuffered(mb) = 0 THEN done(mb) ELSE [rb |-> NoRing, list |-> << >>]
         /\ ret' = Ret("WriteTo", Len(data), data)
         /\ Consume(Len(data))

(* Reset keeps an emptied ring, Release gives it back.                        *)
Reset ==
  /\ mb' \in {[rb |-> IF mb.rb = NoRing THEN NoRing ELSE [mb.rb EXCEPT !.data = << >>], list |-> << >>],
              [rb |-> NoRing, list |-> << >>]}
  /\ ret' = Ret("Reset", 0, << >>)
  /\ Consume(Len(Content(mb)))

Next == CallWrite \/ CallWritev \/ CallRead \/ CallDiscard \/ CallPeek \/ WriteTo \/ Reset

Spec == Init /\ [][Next]_vars

-----------------------------------------------------------------------------
(* Type invariant; the capacity of a ring covers what it holds and no empty   *)
(* slice is in the list.                                                      *)
TypeOK ==
  /\ mb.rb = NoRing \/ (mb.rb.cap \in Nat /\ Len(mb.rb.data) <= mb.rb.cap)
  /\ mb.rb.data \in Seq(0 .. Numbers - 1)
  /\ \A i \in 1 .. Len(mb.list) : mb.list[i] \in Seq(0 .. Numbers - 1) /\ mb.list[i] # << >>

(* Bytes that went to the list are never overtaken by later ones that would    *)
(* fit into the ring again: Write and Writev keep to the list until it is      *)
(* empty, and Read and Discard empty the ring first.                          *)
InOrder == Content(mb) = Between(taken, arrived, Numbers)

Queue == INSTANCE ByteQueue WITH Byte <- 0 .. Numbers - 1, queue <- Content(mb),
                                 ret <- [ret EXCEPT !.op = IF @ = "WriteTo" THEN "Read" ELSE @]
(* elastic.Buffer implements a byte queue across the switch from ring to list  *)
(* and back (Write, Writev, Read, Peek, Discard, WriteTo, Reset).             *)
ImplementsQueue == Queue!Spec

(* The static part holds at most maxStaticBytes: what exceeds them goes to the *)
(* linked list (Write and Writev).                                            *)
(* Does not hold of the code: see the README, Disagreements.                  *)
StaticBound == RingBuffered(mb) <= maxStaticBytes

(* A WriteTo whose writer takes everything leaves nothing behind.             *)
WriteToDrains == ret.op = "WriteTo" => Content(mb) = << >>
=============================================================================

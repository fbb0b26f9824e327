-------------------------- MODULE LinkedListBuffer ---------------------------
(***************************************************************************)
(* pkg/buffer/linkedlist: a byte buffer made of a singly linked list of     *)
(* byte slices.  `llb' is the structure with the fields of its nodes; the   *)
(* functions of the package are operators on it, and the actions are their  *)
(* calls.  A node that is not linked holds no bytes.                        *)
(***************************************************************************)
EXTENDS ByteCalls

CONSTANTS Node,         \* bound: no fewer than MaxBuffered
          Nil,
          MinRead,      \* 512: the size of the nodes ReadFrom fills
          MaxArg,       \* bound: the largest argument of a call
          MaxBuffered,  \* bound: the most bytes the caller leaves buffered
          Sources,      \* how many bytes a reader given to ReadFrom can have
          DataWithEOF,  \* may a reader return its last bytes together with EOF?
          WriteErrors   \* may a writer fail before it has taken all bytes?

VARIABLES llb, ret, arrived, taken,
          src           \* bytes left in the reader of a ReadFrom in progress

vars == <<llb, ret, arrived, taken, src>>

NoSource == -1
Numbers == 2 * MaxBuffered + 1

-----------------------------------------------------------------------------
len(l, b) == Len(l.buf[b])

(* The first node is unlinked; the last one takes the tail with it.          *)
pop(l) ==
  [l EXCEPT !.head = l.next[l.head],
            !.tail = IF l.next[l.head] = Nil THEN Nil ELSE @,
            !.next[l.head] = Nil,
            !.size = @ - 1, !.bytes = @ - len(l, l.head)]

pushFront(l, b) ==
  [l EXCEPT !.next[b] = IF l.head = Nil THEN Nil ELSE l.head,
            !.tail = IF l.head = Nil THEN b ELSE @,
            !.head = b,
            !.size = @ + 1, !.bytes = @ + len(l, b)]

pushBack(l, b) ==
  [l EXCEPT !.head = IF l.tail = Nil THEN b ELSE @,
            !.next = [n \in Node |-> CASE n = b -> Nil
                                       [] n # b /\ n = l.tail -> b
                                       [] n # b /\ n # l.tail -> l.next[n]],
            !.tail = b,
            !.size = @ + 1, !.bytes = @ + len(l, b)]

(* The nodes in the order of the list, and the bytes they hold.              *)
RECURSIVE NodesFrom(_, _)
NodesFrom(l, b) == IF b = Nil THEN << >> ELSE <<b>> \o NodesFrom(l, l.next[b])
Nodes(l) == NodesFrom(l, l.head)
Bufs(l) == LET nodes == Nodes(l) IN [i \in 1 .. Len(nodes) |-> l.buf[nodes[i]]]
Content(l) == FlattenSeq(Bufs(l))

Free(l) == Node \ Range(Nodes(l))
Hold(l, b, p) == [l EXCEPT !.buf[b] = p]

(* Nodes are popped until n bytes are out; what is left of the last one goes  *)
(* back to the front.  The loops of Read and of Discard.                     *)
RECURSIVE Drain(_, _)
Drain(l, n) ==
  IF n = 0 \/ l.head = Nil THEN l
  ELSE LET b == l.head
           m == Min({n, len(l, b)})
       IN  IF m < len(l, b)
           THEN pushFront(Hold(pop(l), b, Rest(l.buf[b], m)), b)
           ELSE Drain(Hold(pop(l), b, << >>), n - m)

(* Whole nodes, until they hold at least n bytes; all of them when n <= 0.    *)
Peek(l, n) ==
  LET bufs == Bufs(l)
      cum(k) == Len(FlattenSeq(SubSeq(bufs, 1, k)))
      enough == {k \in 0 .. Len(bufs) : n > 0 /\ k > 0 /\ cum(k) >= n}
  IN  FlattenSeq(SubSeq(bufs, 1, IF enough = {} THEN Len(bufs) ELSE Min(enough)))

(* A writer takes k bytes, node by node.  One that stops inside a node and    *)
(* reports no error gives the rest back; with an error the node stays popped. *)
RECURSIVE WriteAll(_, _, _)
WriteAll(l, k, err) ==
  IF l.head = Nil THEN l
  ELSE LET b == l.head
       IN  IF k >= len(l, b) THEN WriteAll(Hold(pop(l), b, << >>), k - len(l, b), err)
           ELSE IF err THEN Hold(pop(l), b, << >>)
           ELSE pushFront(Hold(pop(l), b, Rest(l.buf[b], k)), b)

-----------------------------------------------------------------------------
Idle == src = NoSource
Arrive(n) == arrived' = After(arrived, n, Numbers) /\ UNCHANGED taken
Consume(n) == taken' = After(taken, n, Numbers) /\ UNCHANGED arrived
Incoming(n) == Fresh(arrived, n, Numbers)
Room == MaxBuffered - llb.bytes
NewNode == CHOOSE b \in Free(llb) : TRUE

Init == /\ llb = [head |-> Nil, tail |-> Nil, size |-> 0, bytes |-> 0,
                  buf |-> [b \in Node |-> << >>], next |-> [b \in Node |-> Nil]]
        /\ ret = Ret("New", 0, << >>)
        /\ arrived = 0 /\ taken = 0 /\ src = NoSource

PushBack ==
  /\ Idle
  /\ \E n \in 1 .. Min({MaxArg, Room}) :
       /\ llb' = pushBack(Hold(llb, NewNode, Incoming(n)), NewNode)
       /\ ret' = Ret("Write", n, << >>)
       /\ Arrive(n)
  /\ UNCHANGED src

Read ==
  /\ Idle
  /\ \E n \in 1 .. MaxArg :
       /\ llb' = Drain(llb, n)
       /\ ret' = Ret("Read", n, First(Content(llb), n))
       /\ Consume(Min({n, Len(Content(llb))}))
  /\ UNCHANGED src

Discard ==
  /\ Idle
  /\ \E n \in 1 .. MaxArg :
       /\ llb' = Drain(llb, n)
       /\ ret' = Ret("Discard", n, << >>)
       /\ Consume(Min({n, Len(Content(llb))}))
  /\ UNCHANGED src

(* Peek may return more than it was asked for, never less than it could.      *)
CallPeek ==
  /\ Idle
  /\ \E n \in 0 .. MaxArg :
       LET data == Peek(llb, n) IN ret' = Ret("Peek", Max({n, Len(data)}), data)
  /\ UNCHANGED <<llb, arrived, taken, src>>

Reset ==
  /\ Idle
  /\ llb' = [Drain(llb, llb.bytes) EXCEPT !.head = Nil, !.tail = Nil, !.size = 0, !.bytes = 0]
  /\ ret' = Ret("Reset", 0, << >>)
  /\ Consume(Len(Content(llb)))
  /\ UNCHANGED src

WriteTo ==
  /\ Idle
  /\ \E k \in 0 .. Len(Content(llb)) : \E err \in BOOLEAN :
       /\ err => WriteErrors
       /\ llb' = WriteAll(llb, k, err)
       /\ ret' = Ret("Read", k, First(Content(llb), k))
       /\ Consume(k)
  /\ UNCHANGED src

(* ReadFrom, one Read of the reader at a time.                                *)
ReadFrom ==
  /\ Idle
  /\ \E n \in Sources : n <= Room /\ src' = n
  /\ UNCHANGED <<llb, ret, arrived, taken>>

(* A node is filled; when the reader reports EOF the node is given up.        *)
ReadFromStep ==
  /\ ~Idle
  /\ \E m \in {Min({MinRead, src})} : \E eof \in BOOLEAN :
       /\ (m = 0 => eof) /\ (eof => m = 0 \/ (DataWithEOF /\ m = src))
       /\ llb' = IF eof THEN llb ELSE pushBack(Hold(llb, NewNode, Incoming(m)), NewNode)
       /\ ret' = Ret("Write", m, << >>)
       /\ Arrive(m)
       /\ src' = IF eof THEN NoSource ELSE src - m

Next == \/ PushBack \/ Read \/ Discard \/ CallPeek \/ Reset \/ WriteTo
        \/ ReadFrom \/ ReadFromStep

Spec == Init /\ [][Next]_vars

-----------------------------------------------------------------------------
(* Type invariant, with the shape of the list: head and tail are both nil or  *)
(* both nodes, and the tail is the last node.                                *)
TypeOK ==
  /\ llb.buf \in [Node -> Seq(0 .. Numbers - 1)]
  /\ llb.next \in [Node -> Node \cup {Nil}]
  /\ (llb.head = Nil) = (llb.tail = Nil)
  /\ llb.head # Nil => Last(Nodes(llb)) = llb.tail
  /\ src \in Int

(* The counters that Len and Buffered return count what is in the list: pop,  *)
(* pushFront and pushBack change them together with the links.                *)
Counted == llb.size = Len(Nodes(llb)) /\ llb.bytes = Len(Content(llb))

(* Read, Discard, PushBack, ReadFrom and WriteTo keep every byte once and in   *)
(* order: the list holds exactly what went in and has not been consumed.      *)
InOrder == Content(llb) = Between(taken, arrived, Numbers)

Queue == INSTANCE ByteQueue WITH Byte <- 0 .. Numbers - 1, queue <- Content(llb)
(* linkedlist.Buffer implements a byte queue: what each call returns and       *)
(* leaves behind is what a queue would.                                       *)
ImplementsQueue == Queue!Spec
=============================================================================

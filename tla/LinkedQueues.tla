---------------------------- MODULE LinkedQueues -----------------------------
(* MsgQueue, FragQueue and the activeList of a pool: doubly linked lists whose *)
(* links are fields of the items themselves, so an item that changes queues    *)
(* takes its links along. prev points towards the tail, next towards the head. *)
EXTENDS Integers, Sequences, FiniteSets

CONSTANTS
  Queues,   \* the queues that share items: outFragQueue and inFragQueue
  Items,
  nil

VARIABLES
  tailOf, headOf, countOf,   \* the fields of the queues
  prev, next                 \* the links of the items

vars == <<tailOf, headOf, countOf, prev, next>>

Lists == [tail : Items \cup {nil}, head : Items \cup {nil}, count : 0..Cardinality(Items),
          prev : [Items -> Items \cup {nil}], next : [Items -> Items \cup {nil}]]

List(q) == [tail |-> tailOf[q], head |-> headOf[q], count |-> countOf[q], prev |-> prev, next |-> next]

Set(q, l) ==
  /\ tailOf' = [tailOf EXCEPT ![q] = l.tail]
  /\ headOf' = [headOf EXCEPT ![q] = l.head]
  /\ countOf' = [countOf EXCEPT ![q] = l.count]
  /\ prev' = l.prev /\ next' = l.next

Init ==
  /\ tailOf = [q \in Queues |-> nil] /\ headOf = [q \in Queues |-> nil]
  /\ countOf = [q \in Queues |-> 0]
  /\ prev = [m \in Items |-> nil] /\ next = [m \in Items |-> nil]

PushedTail(l, m) ==
  LET linked == [l EXCEPT !.next[m] = l.tail, !.prev[m] = nil]
      joined == IF l.count = 0 THEN [linked EXCEPT !.head = m] ELSE [linked EXCEPT !.prev[l.tail] = m]
  IN [joined EXCEPT !.tail = m, !.count = @ + 1]

Unlinked(l, m) == [l EXCEPT !.next[m] = nil, !.prev[m] = nil]

PoppedHead(l) ==
  LET m == l.head
      rest == IF l.count = 1 THEN [l EXCEPT !.tail = nil, !.head = nil]
              ELSE [l EXCEPT !.next[l.prev[m]] = nil, !.head = l.prev[m]]
  IN IF l.count = 0 THEN l ELSE Unlinked([rest EXCEPT !.count = @ - 1], m)

PoppedTail(l) ==
  LET m == l.tail
      rest == IF l.count = 1 THEN [l EXCEPT !.tail = nil, !.head = nil]
              ELSE [l EXCEPT !.prev[l.next[m]] = nil, !.tail = l.next[m]]
  IN IF l.count = 0 THEN l ELSE Unlinked([rest EXCEPT !.count = @ - 1], m)

(* The walk from the head along prev (AllDone, the flush of the replies), and  *)
(* the one from the tail along next (Release), up to more steps than there are *)
(* items.                                                                      *)
Walk(first, link) ==
  LET steps == Cardinality(Items) + 1
      path[k \in 0..steps, m \in Items \cup {nil}] ==
        IF k = 0 \/ m = nil THEN <<>> ELSE <<m>> \o path[k - 1, link[m]]
  IN path[steps, first]

Contents == [q \in Queues |-> Walk(headOf[q], prev)]

Free(m) == \A q \in Queues : \A i \in DOMAIN Contents[q] : Contents[q][i] # m

-----------------------------------------------------------------------------
PushTail(q, m) == Free(m) /\ Set(q, PushedTail(List(q), m))

PopHead(q) == countOf[q] > 0 /\ Set(q, PoppedHead(List(q)))

PopTail(q) == countOf[q] > 0 /\ Set(q, PoppedTail(List(q)))

(* Reset forgets the items without touching their links.                       *)
Reset(q) == Set(q, [List(q) EXCEPT !.tail = nil, !.head = nil, !.count = 0])

Into(q, l) == [List(q) EXCEPT !.prev = l.prev, !.next = l.next]

SetBoth(q, l, r, k) ==
  /\ tailOf' = [tailOf EXCEPT ![q] = l.tail, ![r] = k.tail]
  /\ headOf' = [headOf EXCEPT ![q] = l.head, ![r] = k.head]
  /\ countOf' = [countOf EXCEPT ![q] = l.count, ![r] = k.count]
  /\ prev' = k.prev /\ next' = k.next

(* Bug: the newest frag is sent first.                                         *)
SendNewest(q, r) ==
  /\ q # r /\ countOf[q] > 0
  /\ LET l == PoppedTail(List(q))
         k == PushedTail(Into(r, l), tailOf[q])
     IN SetBoth(q, l, r, k)

(* The write task moves the head of outFragQueue to inFragQueue.               *)
Send(q, r) ==
  /\ q # r /\ countOf[q] > 0
  /\ LET l == PoppedHead(List(q))
         k == PushedTail(Into(r, l), headOf[q])
     IN SetBoth(q, l, r, k)

Next ==
  \E q \in Queues :
    \/ \E m \in Items : PushTail(q, m)
    \/ PopHead(q) \/ PopTail(q) \/ Reset(q)
    \/ \E r \in Queues : Send(q, r)

Spec == Init /\ [][Next]_vars

-----------------------------------------------------------------------------
TypeOK == \A q \in Queues : List(q) \in Lists

Abstract == INSTANCE FragQueues WITH contents <- Contents

(* MsgQueue, FragQueue and activeList, with the links in the items, are        *)
(* sequences: whatever the order of pushes, pops, moves and resets, no item is *)
(* lost, repeated or seen in a queue it has left.                              *)
ImplementsQueues == Abstract!Spec

Reversed(s) == [i \in 1..Len(s) |-> s[Len(s) + 1 - i]]

(* The two ways to walk a queue agree with each other and with its count, so   *)
(* AllDone and the flush see the items that PopHead and Release see.           *)
WalksAgree ==
  \A q \in Queues :
    /\ Walk(tailOf[q], next) = Reversed(Contents[q])
    /\ countOf[q] = Len(Contents[q])
=============================================================================

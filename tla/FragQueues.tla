----------------------------- MODULE FragQueues ------------------------------
(* What the queues of a connection promise: sequences of items, an item in at  *)
(* most one of them.                                                           *)
EXTENDS Sequences, SequencesExt

CONSTANTS Queues, Items

VARIABLE contents   \* the items of each queue, the head first

Queued == UNION {ToSet(contents[q]) : q \in Queues}

Init == contents = [q \in Queues |-> <<>>]

Push(q, m) == m \notin Queued /\ contents' = [contents EXCEPT ![q] = Append(@, m)]

Pop(q) == contents[q] # <<>> /\ contents' = [contents EXCEPT ![q] = Tail(@)]

PopLast(q) == contents[q] # <<>> /\ contents' = [contents EXCEPT ![q] = Front(@)]

Move(q, r) ==
  /\ q # r /\ contents[q] # <<>>
  /\ contents' = [contents EXCEPT ![q] = Tail(@), ![r] = Append(@, Head(contents[q]))]

Reset(q) == contents' = [contents EXCEPT ![q] = <<>>]

Next ==
  \E q \in Queues :
    \/ \E m \in Items : Push(q, m)
    \/ Pop(q) \/ PopLast(q) \/ Reset(q)
    \/ \E r \in Queues : Move(q, r)

Spec == Init /\ [][Next]_contents

(* One step of such a queue, or of somebody else.                           *)
Step == [Next]_contents
=============================================================================

---------------------------- MODULE LockFreeQueue ----------------------------
(* lockFreeQueue, the queue through which goroutines hand tasks to the poller: *)
(* a linked list with a dummy node at its head, changed by compare-and-swap    *)
(* only. Every load, swap and addition is a step of its own, and the threads   *)
(* interleave between any two of them.                                         *)
EXTENDS Integers, Sequences, FiniteSets

CONSTANTS
  Nodes,       \* the nodes in memory (a bound: the allocator never runs out)
  Tasks,
  Producers,   \* the goroutines that call Enqueue
  Consumers,   \* the goroutines that call Dequeue
  nil

Threads == Producers \cup Consumers

VARIABLES
  head, tail, length,   \* the fields of the queue
  value, next,          \* the fields of the nodes
  pc,                   \* where each thread is in its call
  loc,                  \* its local variables head, tail, next and n
  taken,                \* what its last successful Dequeue returned
  sawEmpty              \* history: the list was empty when it last loaded next

mem == <<head, tail, length, value, next>>
vars == <<mem, pc, loc, taken, sawEmpty>>

NoLocals == [head |-> nil, tail |-> nil, next |-> nil, n |-> nil]

Init ==
  /\ head = (CHOOSE n \in Nodes : TRUE) /\ tail = head
  /\ length = 0
  /\ value \in {[n \in Nodes |-> task] : task \in Tasks}
  /\ next = [n \in Nodes |-> nil]
  /\ pc = [t \in Threads |-> "idle"]
  /\ loc = [t \in Threads |-> NoLocals]
  /\ taken \in {[c \in Consumers |-> task] : task \in Tasks}
  /\ sawEmpty = [c \in Consumers |-> FALSE]

(* The tasks that hang behind a node, in order.                               *)
After(node) ==
  LET behind[k \in 0..Cardinality(Nodes), n \in Nodes] ==
        IF k = 0 \/ next[n] = nil THEN <<>>
        ELSE <<value[next[n]]>> \o behind[k - 1, next[n]]
  IN behind[Cardinality(Nodes), node]

Contents == After(head)

(* What the garbage collector keeps: nodes the queue or a thread points to,   *)
(* and what hangs behind them.                                                *)
Held ==
  LET roots == {head, tail} \cup UNION {{loc[t].head, loc[t].tail, loc[t].next, loc[t].n} : t \in Threads}
      reach[k \in 0..Cardinality(Nodes)] ==
        IF k = 0 THEN roots \ {nil}
        ELSE reach[k - 1] \cup ({next[n] : n \in reach[k - 1]} \ {nil})
  IN reach[Cardinality(Nodes)]

Goto(t, label) == pc' = [pc EXCEPT ![t] = label]
At(t, label) == pc[t] = label

(* A call returns: its locals are gone.                                       *)
Return(t) == Goto(t, "idle") /\ loc' = [loc EXCEPT ![t] = NoLocals]

-----------------------------------------------------------------------------
(* Enqueue                                                                    *)

(* Any free node will do: nothing refers to it yet.                           *)
NewNode(t, task) ==
  /\ At(t, "idle") /\ Nodes \ Held # {}
  /\ LET n == CHOOSE n \in Nodes \ Held : TRUE IN
       /\ value' = [value EXCEPT ![n] = task]
       /\ next' = [next EXCEPT ![n] = nil]
       /\ loc' = [loc EXCEPT ![t].n = n]
  /\ Goto(t, "loadTail")
  /\ UNCHANGED <<head, tail, length, taken, sawEmpty>>

LoadTail(t) ==
  /\ At(t, "loadTail")
  /\ loc' = [loc EXCEPT ![t].tail = tail]
  /\ Goto(t, "loadNext")
  /\ UNCHANGED <<mem, taken, sawEmpty>>

LoadNext(t) ==
  /\ At(t, "loadNext")
  /\ loc' = [loc EXCEPT ![t].next = next[loc[t].tail]]
  /\ Goto(t, "recheckTail")
  /\ UNCHANGED <<mem, taken, sawEmpty>>

RecheckTail(t) ==
  /\ At(t, "recheckTail")
  /\ Goto(t, IF tail # loc[t].tail THEN "loadTail"
             ELSE IF loc[t].next = nil THEN "link" ELSE "help")
  /\ UNCHANGED <<mem, loc, taken, sawEmpty>>

(* Bug: the node is stored without comparing: it replaces one linked meanwhile. *)
LinkStores(t) ==
  /\ At(t, "link")
  /\ next' = [next EXCEPT ![loc[t].tail] = loc[t].n]
  /\ Goto(t, "swing")
  /\ UNCHANGED <<head, tail, length, value, loc, taken, sawEmpty>>

Link(t) ==
  /\ At(t, "link")
  /\ IF next[loc[t].tail] = nil
     THEN next' = [next EXCEPT ![loc[t].tail] = loc[t].n] /\ Goto(t, "swing")
     ELSE UNCHANGED next /\ Goto(t, "loadTail")
  /\ UNCHANGED <<head, tail, length, value, loc, taken, sawEmpty>>

SwingTail(old, new) == tail' = IF tail = old THEN new ELSE tail

Swing(t) ==
  /\ At(t, "swing")
  /\ SwingTail(loc[t].tail, loc[t].n)
  /\ Goto(t, "count")
  /\ UNCHANGED <<head, length, value, next, loc, taken, sawEmpty>>

Count(t) ==
  /\ At(t, "count")
  /\ length' = length + 1
  /\ Return(t)
  /\ UNCHANGED <<head, tail, value, next, taken, sawEmpty>>

Help(t) ==
  /\ At(t, "help")
  /\ SwingTail(loc[t].tail, loc[t].next)
  /\ Goto(t, "loadTail")
  /\ UNCHANGED <<head, length, value, next, loc, taken, sawEmpty>>

-----------------------------------------------------------------------------
(* Dequeue                                                                    *)

LoadHead(c) ==
  /\ pc[c] \in {"idle", "loadHead"}
  /\ loc' = [loc EXCEPT ![c].head = head]
  /\ Goto(c, "loadTailD")
  /\ UNCHANGED <<mem, taken, sawEmpty>>

LoadTailD(c) ==
  /\ At(c, "loadTailD")
  /\ loc' = [loc EXCEPT ![c].tail = tail]
  /\ Goto(c, "loadNextD")
  /\ UNCHANGED <<mem, taken, sawEmpty>>

LoadNextD(c) ==
  /\ At(c, "loadNextD")
  /\ loc' = [loc EXCEPT ![c].next = next[loc[c].head]]
  /\ sawEmpty' = [sawEmpty EXCEPT ![c] = Contents = <<>>]
  /\ Goto(c, "recheckHead")
  /\ UNCHANGED <<mem, taken>>

Consistent(c) == At(c, "recheckHead") /\ head = loc[c].head

RetryDequeue(c) ==
  /\ At(c, "recheckHead") /\ head # loc[c].head
  /\ Goto(c, "loadHead")
  /\ UNCHANGED <<mem, loc, taken, sawEmpty>>

ReturnNil(c) ==
  /\ Consistent(c) /\ loc[c].head = loc[c].tail /\ loc[c].next = nil
  /\ Return(c)
  /\ UNCHANGED <<mem, taken, sawEmpty>>

(* Bug: Dequeue leaves the tail to the goroutine that linked the node.        *)
WaitForTail(c) ==
  /\ Consistent(c) /\ loc[c].head = loc[c].tail /\ loc[c].next # nil
  /\ Goto(c, "loadHead")
  /\ UNCHANGED <<mem, loc, taken, sawEmpty>>

HelpD(c) ==
  /\ Consistent(c) /\ loc[c].head = loc[c].tail /\ loc[c].next # nil
  /\ SwingTail(loc[c].tail, loc[c].next)
  /\ Goto(c, "loadHead")
  /\ UNCHANGED <<head, length, value, next, loc, taken, sawEmpty>>

ReadValue(c) ==
  /\ Consistent(c) /\ loc[c].head # loc[c].tail
  /\ Goto(c, "unlink")
  /\ UNCHANGED <<mem, loc, taken, sawEmpty>>

Unlink(c) ==
  /\ At(c, "unlink")
  /\ IF head = loc[c].head
     THEN /\ head' = loc[c].next
          /\ taken' = [taken EXCEPT ![c] = value[loc[c].next]]
          /\ Goto(c, "countD")
     ELSE UNCHANGED <<head, taken>> /\ Goto(c, "loadHead")
  /\ UNCHANGED <<tail, length, value, next, loc, sawEmpty>>

CountD(c) ==
  /\ At(c, "countD")
  /\ length' = length - 1
  /\ Return(c)
  /\ UNCHANGED <<head, tail, value, next, taken, sawEmpty>>

IsEmpty == length = 0

EnqueueStep(t) ==
  \/ \E task \in Tasks : NewNode(t, task)
  \/ LoadTail(t) \/ LoadNext(t) \/ RecheckTail(t) \/ Link(t) \/ Swing(t) \/ Count(t) \/ Help(t)

DequeueRest(c) ==
  \/ LoadTailD(c) \/ LoadNextD(c) \/ RetryDequeue(c) \/ ReturnNil(c) \/ HelpD(c)
  \/ ReadValue(c) \/ Unlink(c) \/ CountD(c)
  \/ At(c, "loadHead") /\ LoadHead(c)

Next ==
  \/ \E t \in Producers : EnqueueStep(t)
  \/ \E c \in Consumers : DequeueRest(c) \/ (At(c, "idle") /\ LoadHead(c))

Spec == Init /\ [][Next]_vars

(* Only a Dequeue that has begun is sure to go on; a goroutine may be         *)
(* descheduled for ever in the middle of Enqueue.                             *)
FairSpec == Spec /\ \A c \in Consumers : WF_vars(DequeueRest(c))

-----------------------------------------------------------------------------
TypeOK ==
  /\ head \in Nodes /\ tail \in Nodes
  /\ length \in -Cardinality(Threads)..Cardinality(Nodes)
  /\ value \in [Nodes -> Tasks]
  /\ next \in [Nodes -> Nodes \cup {nil}]
  /\ \A t \in Threads : \A f \in DOMAIN NoLocals : loc[t][f] \in Nodes \cup {nil}
  /\ taken \in [Consumers -> Tasks]
  /\ sawEmpty \in [Consumers -> BOOLEAN]

Abstract == INSTANCE TaskQueue WITH queue <- Contents

(* Enqueue and Dequeue of a lockFreeQueue, step by step and interleaved, are  *)
(* a first-in first-out queue: each takes effect at its successful swap.      *)
ImplementsTaskQueue == Abstract!Spec

NilStep == \A c \in Consumers : At(c, "recheckHead") /\ pc'[c] = "idle" => sawEmpty[c]

(* Dequeue returns nil only if the queue was empty at a moment of the call:   *)
(* the poller never overlooks a task whose Enqueue had returned before.       *)
NilMeansEmpty == [][NilStep]_vars

(* Once every call has returned, the length that IsEmpty tests agrees with    *)
(* the list, whatever the order in which the additions took place.            *)
LengthAgrees == (\A t \in Threads : pc[t] = "idle") => length = Len(Contents)

(* A Dequeue of the only consumer ends, even when a producer never runs again *)
(* between linking its node and swinging the tail.                            *)
DequeueEnds == \A c \in Consumers : pc[c] # "idle" ~> pc[c] = "idle"

(* "IsEmpty indicates whether this queue is empty or not": a task that can be *)
(* dequeued is never hidden from IsEmpty.                                     *)
(* Does not hold of the code: see the README, Disagreements.                  *)
EmptyWhenIsEmpty == IsEmpty => Contents = <<>>
=============================================================================

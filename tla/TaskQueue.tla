------------------------------ MODULE TaskQueue ------------------------------
(* What an AsyncTaskQueue promises: tasks leave in the order in which they    *)
(* came, each to one consumer.                                                *)
EXTENDS Sequences

CONSTANTS Tasks, Consumers

VARIABLES
  queue,   \* the tasks in the queue, the oldest first
  taken    \* what the last successful Dequeue of each consumer returned

Init == queue = <<>> /\ taken \in [Consumers -> Tasks]

Enqueue(task) == queue' = Append(queue, task) /\ UNCHANGED taken

Dequeue(c) ==
  /\ queue # <<>>
  /\ queue' = Tail(queue)
  /\ taken' = [taken EXCEPT ![c] = Head(queue)]

Next == (\E task \in Tasks : Enqueue(task)) \/ (\E c \in Consumers : Dequeue(c))

Spec == Init /\ [][Next]_<<queue, taken>>

(* One step of such a queue, or of somebody else.                           *)
Step == [Next]_<<queue, taken>>
=============================================================================

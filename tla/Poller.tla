------------------------------- MODULE Poller -------------------------------
(***************************************************************************)
(* The wake-up protocol of core/internal/netpoll/epoll_default_poller.go.  *)
(* Any goroutine hands a task to the event loop with Trigger or            *)
(* UrgentTrigger: it links the task into a lock-free queue, then competes  *)
(* for the flag wakeupCall, and the winner writes to an eventfd the loop's *)
(* epoll watches.  The loop reads the eventfd, runs the tasks (all urgent  *)
(* ones, then at most MaxAsyncTasksAtOneTime others), clears the flag and  *)
(* looks at the queues once more before it blocks again.                   *)
(*                                                                         *)
(* The lock-free queue appears at the grain the protocol can observe: the  *)
(* compare-and-swap that links a node and the later increment of `length`  *)
(* are two steps, because IsEmpty reads only `length`.  Dequeue is called  *)
(* by the loop alone, and so is IsEmpty: its two updates are one step.     *)
(* Tasks are counted, not named: the protocol never looks at one.          *)
(***************************************************************************)
EXTENDS Integers, FiniteSets

CONSTANTS
  Producers,               \* the goroutines, other than the loop, that call Trigger
  Loop,                    \* the event loop, which calls Trigger from its own handlers
  MaxAsyncTasksAtOneTime,  \* low-priority tasks one round runs (256 in the code)
  MaxTasks                 \* bound: tasks ever enqueued

ASSUME PollerAssumption ==
  /\ IsFiniteSet(Producers)
  /\ Loop \notin Producers
  /\ MaxAsyncTasksAtOneTime \in Nat \ {0}
  /\ MaxTasks \in Nat

Queues == {"urgent", "async"}
Procs  == Producers \cup {Loop}

VARIABLES
  linked,      \* linked[q]: nodes linked into queue q and not yet dequeued
  length,      \* length[q]: the counter lockFreeQueue.length
  wakeupCall,  \* Poller.wakeupCall
  efd,         \* the counter of the eventfd; readable when positive
  pc,          \* pc[p]: how far p's call of (Urgent)Trigger has come
  target,      \* target[p]: the queue that call puts its task into
  loop,        \* where Polling is
  ready,       \* the eventfd is among the events of this round, not yet handled
  doChores,    \* Polling's doChores
  ran,         \* low-priority tasks run in this round
  enqueued     \* tasks enqueued so far (bounded by MaxTasks)

vars == <<linked, length, wakeupCall, efd, pc, target, loop, ready, doChores, ran, enqueued>>

TriggerPCs == {"idle", "linked", "counted", "write"}
LoopPCs == {"ticker", "wait", "events", "urgent", "async", "store", "recheckAsync",
            "recheckUrgent", "cas", "write", "msgTimeout", "exited"}

\* The loop runs handlers, which may call Trigger, in these places.
InHandler == loop \in {"ticker", "events", "urgent", "async", "msgTimeout"}

Init ==
  /\ linked = [q \in Queues |-> 0]
  /\ length = [q \in Queues |-> 0]
  /\ wakeupCall = 0
  /\ efd = 0
  /\ pc = [p \in Procs |-> "idle"]
  /\ target = [p \in Procs |-> "async"]
  /\ loop = "ticker"
  /\ ready = FALSE
  /\ doChores = FALSE
  /\ ran = 0
  /\ enqueued = 0

-----------------------------------------------------------------------------
(* Trigger and UrgentTrigger, called by a goroutine or by a handler of the  *)
(* loop.                                                                    *)

\* Enqueue: the compare-and-swap of tail.next links the node.
Link(p, q) ==
  /\ pc[p] = "idle"
  /\ p = Loop => InHandler
  /\ enqueued < MaxTasks
  /\ enqueued' = enqueued + 1
  /\ linked' = [linked EXCEPT ![q] = @ + 1]
  /\ target' = [target EXCEPT ![p] = q]
  /\ pc' = [pc EXCEPT ![p] = "linked"]
  /\ UNCHANGED <<length, wakeupCall, efd, loop, ready, doChores, ran>>

\* Enqueue: atomic.AddInt32(&q.length, 1).
Count(p) ==
  /\ pc[p] = "linked"
  /\ length' = [length EXCEPT ![target[p]] = @ + 1]
  /\ pc' = [pc EXCEPT ![p] = "counted"]
  /\ UNCHANGED <<linked, wakeupCall, efd, target, loop, ready, doChores, ran, enqueued>>

\* CompareAndSwapInt32(&p.wakeupCall, 0, 1): only the winner writes.
CasWakeup(p) ==
  /\ pc[p] = "counted"
  /\ wakeupCall' = 1
  /\ pc' = [pc EXCEPT ![p] = IF wakeupCall = 0 THEN "write" ELSE "idle"]
  /\ UNCHANGED <<linked, length, efd, target, loop, ready, doChores, ran, enqueued>>

\* unix.Write(p.efd, b).
WriteEfd(p) ==
  /\ pc[p] = "write"
  /\ efd' = efd + 1
  /\ pc' = [pc EXCEPT ![p] = "idle"]
  /\ UNCHANGED <<linked, length, wakeupCall, target, loop, ready, doChores, ran, enqueued>>

-----------------------------------------------------------------------------
(* Polling.                                                                 *)

\* A step of Polling itself: no handler of the loop is inside Trigger.
LoopAt(here) == loop = here /\ pc[Loop] = "idle"

Ticker ==
  /\ LoopAt("ticker")
  /\ loop' = "wait"
  /\ UNCHANGED <<linked, length, wakeupCall, efd, pc, target, ready, doChores, ran, enqueued>>

\* EpollWait gives up after 200ms (n = 0) or is interrupted (EINTR, which the
\* kernel reports only if no event is ready): the round skips msgTimeout.
EpollTimeout ==
  /\ LoopAt("wait")
  /\ efd = 0
  /\ loop' = "ticker"
  /\ UNCHANGED <<linked, length, wakeupCall, efd, pc, target, ready, doChores, ran, enqueued>>

\* EpollWait returns events.  A readable eventfd may be missing from them: the
\* event list holds 32 to 1024 events and more sockets may be ready.
EpollEvents ==
  /\ LoopAt("wait")
  /\ loop' = "events"
  /\ ready' \in BOOLEAN
  /\ ready' => efd > 0
  /\ UNCHANGED <<linked, length, wakeupCall, efd, pc, target, doChores, ran, enqueued>>

\* The event of the eventfd: unix.Read empties its counter.
ReadEfd ==
  /\ LoopAt("events")
  /\ ready
  /\ ready' = FALSE
  /\ doChores' = TRUE
  /\ efd' = 0
  /\ UNCHANGED <<linked, length, wakeupCall, pc, target, loop, ran, enqueued>>

\* Mutant: wakeupCall is cleared before the tasks are run.
EndEventsClears ==
  /\ LoopAt("events")
  /\ ~ready
  /\ loop' = IF doChores THEN "urgent" ELSE "msgTimeout"
  /\ doChores' = FALSE
  /\ wakeupCall' = IF doChores THEN 0 ELSE wakeupCall
  /\ UNCHANGED <<linked, length, efd, pc, target, ready, ran, enqueued>>

\* All events are handled.
EndEvents ==
  /\ LoopAt("events")
  /\ ~ready
  /\ loop' = IF doChores THEN "urgent" ELSE "msgTimeout"
  /\ doChores' = FALSE
  /\ UNCHANGED <<linked, length, wakeupCall, efd, pc, target, ready, ran, enqueued>>

\* Dequeue returns nil, and changes nothing, when no node is linked.
Dequeue(q) ==
  /\ linked[q] > 0
  /\ linked' = [linked EXCEPT ![q] = @ - 1]
  /\ length' = [length EXCEPT ![q] = @ - 1]

\* One turn of the loop over the urgent queue; the task may ask for shutdown.
RunUrgent ==
  /\ LoopAt("urgent")
  /\ Dequeue("urgent")
  /\ loop' \in {"urgent", "exited"}
  /\ UNCHANGED <<wakeupCall, efd, pc, target, ready, doChores, ran, enqueued>>

EndUrgent ==
  /\ LoopAt("urgent")
  /\ linked["urgent"] = 0
  /\ loop' = "async"
  /\ ran' = 0
  /\ UNCHANGED <<linked, length, wakeupCall, efd, pc, target, ready, doChores, enqueued>>

RunAsync ==
  /\ LoopAt("async")
  /\ ran < MaxAsyncTasksAtOneTime
  /\ Dequeue("async")
  /\ ran' = ran + 1
  /\ loop' \in {"async", "exited"}
  /\ UNCHANGED <<wakeupCall, efd, pc, target, ready, doChores, enqueued>>

EndAsync ==
  /\ LoopAt("async")
  /\ ran = MaxAsyncTasksAtOneTime \/ linked["async"] = 0
  /\ loop' = "store"
  /\ UNCHANGED <<linked, length, wakeupCall, efd, pc, target, ready, doChores, ran, enqueued>>

\* Mutant: the queues are not looked at again after the store.
StoreWakeupOnly ==
  /\ LoopAt("store")
  /\ wakeupCall' = 0
  /\ loop' = "msgTimeout"
  /\ UNCHANGED <<linked, length, efd, pc, target, ready, doChores, ran, enqueued>>

\* atomic.StoreInt32(&p.wakeupCall, 0).
StoreWakeup ==
  /\ LoopAt("store")
  /\ wakeupCall' = 0
  /\ loop' = "recheckAsync"
  /\ UNCHANGED <<linked, length, efd, pc, target, ready, doChores, ran, enqueued>>

\* The condition after the store: asyncTaskQueue.IsEmpty() is loaded first ...
RecheckAsync ==
  /\ LoopAt("recheckAsync")
  /\ loop' = IF length["async"] # 0 THEN "cas" ELSE "recheckUrgent"
  /\ UNCHANGED <<linked, length, wakeupCall, efd, pc, target, ready, doChores, ran, enqueued>>

\* Mutant: the urgent queue is not looked at again.
RecheckUrgentSkipped ==
  /\ LoopAt("recheckUrgent")
  /\ loop' = "msgTimeout"
  /\ UNCHANGED <<linked, length, wakeupCall, efd, pc, target, ready, doChores, ran, enqueued>>

\* ... and urgentAsyncTaskQueue.IsEmpty() only if the first was empty.
RecheckUrgent ==
  /\ LoopAt("recheckUrgent")
  /\ loop' = IF length["urgent"] # 0 THEN "cas" ELSE "msgTimeout"
  /\ UNCHANGED <<linked, length, wakeupCall, efd, pc, target, ready, doChores, ran, enqueued>>

LoopCas ==
  /\ LoopAt("cas")
  /\ wakeupCall' = 1
  /\ loop' = IF wakeupCall = 0 THEN "write" ELSE "msgTimeout"
  /\ UNCHANGED <<linked, length, efd, pc, target, ready, doChores, ran, enqueued>>

\* A write that fails with another error than EAGAIN is left out: the eventfd is
\* closed only after the loop has exited.
LoopWriteEfd ==
  /\ LoopAt("write")
  /\ efd' = efd + 1
  /\ loop' = "msgTimeout"
  /\ UNCHANGED <<linked, length, wakeupCall, pc, target, ready, doChores, ran, enqueued>>

\* el.expand or el.shrink, which changes no event, then msgTimeout().
MsgTimeout ==
  /\ LoopAt("msgTimeout")
  /\ loop' = "ticker"
  /\ UNCHANGED <<linked, length, wakeupCall, efd, pc, target, ready, doChores, ran, enqueued>>

\* A socket callback returns ErrEngineShutdown or ErrAcceptSocket.
CallbackShutdown ==
  /\ LoopAt("events")
  /\ loop' = "exited"
  /\ UNCHANGED <<linked, length, wakeupCall, efd, pc, target, ready, doChores, ran, enqueued>>

\* EpollWait fails with an error other than EINTR.
EpollError ==
  /\ LoopAt("wait")
  /\ loop' = "exited"
  /\ UNCHANGED <<linked, length, wakeupCall, efd, pc, target, ready, doChores, ran, enqueued>>

Trigger(p) == Count(p) \/ CasWakeup(p) \/ WriteEfd(p)

Polling ==
  \/ Ticker \/ EpollTimeout \/ EpollEvents \/ ReadEfd \/ EndEvents
  \/ RunUrgent \/ EndUrgent \/ RunAsync \/ EndAsync
  \/ StoreWakeup \/ RecheckAsync \/ RecheckUrgent \/ LoopCas \/ LoopWriteEfd \/ MsgTimeout

Next ==
  \/ \E p \in Procs, q \in Queues : Link(p, q)
  \/ \E p \in Procs : Trigger(p)
  \/ Polling
  \/ CallbackShutdown
  \/ EpollError

Spec == Init /\ [][Next]_vars

\* Goroutines inside Trigger and the loop's thread are scheduled by the Go
\* runtime and the kernel: neither can be suspended for ever.  Nothing obliges
\* anybody to call Trigger, nor a callback to ask for shutdown.  The kernel keeps
\* ready descriptors in a list it rotates, so a readable eventfd is not passed
\* over by EpollWait for ever.
FairSpec ==
  /\ Spec
  /\ WF_vars(Polling)
  /\ SF_vars(EpollEvents /\ ready')
  /\ \A p \in Procs : WF_vars(Trigger(p))
-----------------------------------------------------------------------------
TypeOK ==
  /\ linked \in [Queues -> Nat]
  /\ length \in [Queues -> Int]
  /\ wakeupCall \in {0, 1}
  /\ efd \in Nat
  /\ pc \in [Procs -> TriggerPCs]
  /\ target \in [Procs -> Queues]
  /\ loop \in LoopPCs
  /\ ready \in BOOLEAN
  /\ doChores \in BOOLEAN
  /\ ran \in 0 .. MaxAsyncTasksAtOneTime
  /\ enqueued \in 0 .. MaxTasks

\* The goroutines between linking a node into q and counting it.
Uncounted(q) == {p \in Procs : pc[p] = "linked" /\ target[p] = q}

\* The counter lags behind the list by exactly the goroutines that have linked
\* a node and not counted it: what IsEmpty reads is off by them, and by nothing
\* else (lock_free_queue.go, Enqueue and IsEmpty).
LengthLag ==
  \A q \in Queues : length[q] = linked[q] - Cardinality(Uncounted(q))

\* Places between reading the eventfd and clearing wakeupCall.
InChores == loop \in {"urgent", "async", "store"} \/ doChores

\* The wake-up in flight: somebody is about to write the eventfd, or it is
\* readable, or the loop is running the tasks it announced.
Waking ==
  \/ \E p \in Procs : pc[p] = "write"
  \/ loop = "write"
  \/ efd > 0
  \/ InChores

\* A blocked loop is never left with work: when it waits in EpollWait on a
\* silent eventfd and nobody is inside Trigger, both task queues are empty
\* (Polling's re-check after StoreInt32, epoll_default_poller.go).
NoLostWakeup ==
  (loop = "wait" /\ efd = 0 /\ \A p \in Procs : pc[p] = "idle")
    => \A q \in Queues : linked[q] = 0

\* At most one wake-up is under way: never two goroutines about to write, never
\* a write on top of an unread one or while its tasks are run.  The eventfd
\* counter stays at most 1, so the EAGAIN branch of the write is never needed.
SingleWakeup ==
  /\ efd <= 1
  /\ \A p, r \in Procs : pc[p] = "write" /\ pc[r] = "write" => p = r
  /\ (\E p \in Procs : pc[p] = "write") => efd = 0 /\ loop # "write" /\ ~InChores
  /\ loop = "write" => efd = 0
  /\ efd > 0 => ~InChores

\* The strengthening that makes NoLostWakeup and SingleWakeup inductive.
\* wakeupCall is set exactly while a wake-up is in flight ...
WakeupFlag ==
  /\ Waking => wakeupCall = 1
  /\ wakeupCall = 1 /\ loop # "exited" => Waking

\* ... and while it is clear, a linked task is announced by a goroutine that has
\* still to try the flag, or is going to be seen by the loop's re-check.
WorkCovered ==
  \A q \in Queues :
    linked[q] > 0 /\ wakeupCall = 0 /\ loop # "exited" =>
      \/ \E p \in Procs : pc[p] \in {"linked", "counted"}
      \/ loop \in {"recheckAsync", "cas"}
      \/ loop = "recheckUrgent" /\ q = "urgent"

LoopShape ==
  /\ ready => efd > 0 /\ loop \in {"events", "exited"}
  /\ doChores => loop \in {"events", "exited"}
  /\ pc[Loop] # "idle" => InHandler

\* The inductive invariant behind NoLostWakeup, about the order of StoreInt32,
\* IsEmpty and CompareAndSwapInt32 in Polling.
PollerInv ==
  TypeOK /\ LengthLag /\ SingleWakeup /\ WakeupFlag /\ WorkCovered /\ LoopShape

\* Every task handed to Trigger or UrgentTrigger is eventually run, unless the
\* loop is shut down.
TasksRun ==
  \A q \in Queues : (linked[q] > 0) ~> (linked[q] = 0 \/ loop = "exited")
=============================================================================

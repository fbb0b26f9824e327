------------------------------- MODULE Engine --------------------------------
(* Starting and stopping: serve on the main goroutine, the goroutine of the    *)
(* event loop, and goroutines that call Stop.                                  *)
EXTENDS FiniteSets

CONSTANTS Stoppers   \* the goroutines that call Stop

VARIABLES
  main,         \* where serve, start and stop are
  el,           \* whether eng.el is set
  epoll,        \* the poller: "none", "open" or "closed"
  loop,         \* the goroutine of run
  connections,  \* whether the loop has open sockets
  allEngines,   \* whether the engine can be found by Stop
  once,         \* whether signalShutdown has run
  urgent,       \* whether the task that ends the loop is queued
  inShutdown,
  stop          \* where each Stop is

vars == <<main, el, epoll, loop, connections, allEngines, once, urgent, inShutdown, stop>>

Init ==
  /\ main = "start" /\ el = FALSE /\ epoll = "none" /\ loop = "none"
  /\ connections = FALSE /\ allEngines = FALSE /\ once = FALSE /\ urgent = FALSE /\ inShutdown = FALSE
  /\ stop = [t \in Stoppers |-> "idle"]

-----------------------------------------------------------------------------
(* serve and start. closeEventLoops uses eng.el, which is set last.            *)

StartFails ==
  /\ main = "start"
  /\ epoll' \in {"none", "open"}
  /\ main' = "panicked"
  /\ UNCHANGED <<el, loop, connections, allEngines, once, urgent, inShutdown, stop>>

PreconnectFails ==
  /\ main = "start"
  /\ el' = TRUE /\ epoll' = "closed"
  /\ main' = "failed"
  /\ UNCHANGED <<loop, connections, allEngines, once, urgent, inShutdown, stop>>

Start ==
  /\ main = "start"
  /\ el' = TRUE /\ epoll' = "open"
  /\ loop' = "polling" /\ connections' = TRUE
  /\ main' = "store"
  /\ UNCHANGED <<allEngines, once, urgent, inShutdown, stop>>

Store ==
  /\ main = "store"
  /\ allEngines' = TRUE
  /\ main' = "stop"
  /\ UNCHANGED <<el, epoll, loop, connections, once, urgent, inShutdown, stop>>

WaitForShutdown ==
  /\ main = "stop"
  /\ main' = "waiting"
  /\ UNCHANGED <<el, epoll, loop, connections, allEngines, once, urgent, inShutdown, stop>>

(* Bug: the loop is left to end by itself.                                     *)
OnShutdownOnly ==
  /\ main = "woken"
  /\ main' = "wgWait"
  /\ UNCHANGED <<el, epoll, loop, connections, allEngines, once, urgent, inShutdown, stop>>

UrgentTrigger ==
  /\ main = "woken"
  /\ urgent' = TRUE
  /\ main' = "wgWait"
  /\ UNCHANGED <<el, epoll, loop, connections, allEngines, once, inShutdown, stop>>

(* Bug: stop does not wait for the loop.                                       *)
WgWaitNot ==
  /\ main = "wgWait"
  /\ main' = "close"
  /\ UNCHANGED <<el, epoll, loop, connections, allEngines, once, urgent, inShutdown, stop>>

WgWait ==
  /\ main = "wgWait" /\ loop = "ended"
  /\ main' = "close"
  /\ UNCHANGED <<el, epoll, loop, connections, allEngines, once, urgent, inShutdown, stop>>

CloseEventLoops ==
  /\ main = "close"
  /\ epoll' = "closed"
  /\ main' = "flag"
  /\ UNCHANGED <<el, loop, connections, allEngines, once, urgent, inShutdown, stop>>

SetInShutdown ==
  /\ main = "flag"
  /\ inShutdown' = TRUE
  /\ main' = "returned"
  /\ UNCHANGED <<el, epoll, loop, connections, allEngines, once, urgent, stop>>

-----------------------------------------------------------------------------
(* The first call wakes the main goroutine if it is waiting; if it is not, or  *)
(* in later calls, nothing happens.                                            *)
SignalShutdown ==
  /\ once' = TRUE
  /\ main' = IF ~once /\ main = "waiting" THEN "woken" ELSE main

(* Polling ends: because of the task, or by itself (an error of accept or of   *)
(* epoll_wait, a password that Redis refuses).                                 *)
PollingEnds ==
  /\ loop = "polling"
  /\ loop' = "closing"
  /\ UNCHANGED <<main, el, epoll, connections, allEngines, once, urgent, inShutdown, stop>>

RunTask == urgent /\ PollingEnds
LoopFails == ~urgent /\ PollingEnds

CloseAllSockets ==
  /\ loop = "closing"
  /\ connections' = FALSE
  /\ loop' = "signal"
  /\ UNCHANGED <<main, el, epoll, allEngines, once, urgent, inShutdown, stop>>

LoopSignals ==
  /\ loop = "signal"
  /\ SignalShutdown
  /\ loop' = "ended"
  /\ UNCHANGED <<el, epoll, connections, allEngines, urgent, inShutdown, stop>>

-----------------------------------------------------------------------------
(* Stop                                                                        *)

Goto(t, label) == stop' = [stop EXCEPT ![t] = label]

Load(t) ==
  /\ stop[t] = "idle"
  /\ Goto(t, IF allEngines THEN "signal" ELSE "errInShutdown")
  /\ UNCHANGED <<main, el, epoll, loop, connections, allEngines, once, urgent, inShutdown>>

StopSignals(t) ==
  /\ stop[t] = "signal"
  /\ SignalShutdown
  /\ Goto(t, "check")
  /\ UNCHANGED <<el, epoll, loop, connections, allEngines, urgent, inShutdown>>

StopChecks(t) ==
  /\ stop[t] = "check"
  /\ Goto(t, IF inShutdown THEN "errInShutdown" ELSE "polling")
  /\ allEngines' = (allEngines /\ ~inShutdown)
  /\ UNCHANGED <<main, el, epoll, loop, connections, once, urgent, inShutdown>>

StopReturns(t) ==
  /\ stop[t] = "polling" /\ inShutdown
  /\ Goto(t, "done")
  /\ allEngines' = FALSE
  /\ UNCHANGED <<main, el, epoll, loop, connections, once, urgent, inShutdown>>

StopGivesUp(t) ==
  /\ stop[t] = "polling"
  /\ Goto(t, "ctxDone")
  /\ allEngines' = FALSE
  /\ UNCHANGED <<main, el, epoll, loop, connections, once, urgent, inShutdown>>

MainStep == Store \/ WaitForShutdown \/ UrgentTrigger \/ WgWait \/ CloseEventLoops \/ SetInShutdown
LoopStep == RunTask \/ CloseAllSockets \/ LoopSignals
StopStep(t) == StopSignals(t) \/ StopChecks(t) \/ StopReturns(t)

Next ==
  \/ StartFails \/ PreconnectFails \/ Start \/ MainStep
  \/ LoopFails \/ LoopStep
  \/ \E t \in Stoppers : Load(t) \/ StopStep(t) \/ StopGivesUp(t)

Spec == Init /\ [][Next]_vars

(* Goroutines that can run do, and the loop runs a task it was woken for. That *)
(* Stop is called, its context ends or the loop fails is not up to them.       *)
Fairness == WF_vars(MainStep) /\ WF_vars(LoopStep) /\ \A t \in Stoppers : WF_vars(StopStep(t))

FairSpec == Spec /\ Fairness

-----------------------------------------------------------------------------
(* The poller stays open while the loop runs or closes its sockets, and a Stop *)
(* that returned nil left no loop and no connection behind.                    *)
StopMeansStopped ==
  /\ epoll = "closed" => loop \in {"none", "ended"}
  /\ \A t \in Stoppers : stop[t] = "done" => loop = "ended" /\ ~connections /\ epoll = "closed"

(* A signal that finds serve waiting shuts the engine down: the loop ends, and *)
(* every Stop under way returns, whether Stop or the loop gave the signal.     *)
ShutdownCompletes == main = "woken" ~> inShutdown /\ \A t \in Stoppers : stop[t] # "polling"

(* "Stop gracefully shuts down the engine ..., it waits indefinitely for       *)
(* connections and event-loops to be closed and then shuts down."              *)
(* Does not hold of the code: see the README, Disagreements.                   *)
StopShutsDown == \A t \in Stoppers : stop[t] = "polling" ~> stop[t] # "polling"
=============================================================================

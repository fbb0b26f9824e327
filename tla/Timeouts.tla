------------------------------ MODULE Timeouts -------------------------------
(* The timeout tree and the rounds of the event loop that empty it: a frag     *)
(* gets its deadline when it is sent, loses it when Redis answers, and         *)
(* msgTimeout reports the ones that are overdue. llrb compares frags by        *)
(* deadline only, so inserting or deleting one touches any other that has the  *)
(* same deadline.                                                              *)
EXTENDS Naturals, FiniteSets

CONSTANTS
  Frags,
  Peer,             \* the request (Msg) each frag is a part of
  RequestTimeout,   \* opts.RedisRequestTimeout, in ticks of the clock
  Horizon,          \* the last deadline (a bound on time)
  Coarse            \* whether two calls of time.Now can return the same time

VARIABLES
  now, Timeout,     \* the clock; the field Timeout of each frag
  out, sent,        \* the frags in some outFragQueue, in some inFragQueue
  Done,             \* the frags that are Done
  timeoutTree,
  reported,         \* the requests whose client was sent a timeout error
  round             \* "polling", "handling" events, or in "msgTimeout"

vars == <<now, Timeout, out, sent, Done, timeoutTree, reported, round>>

Init ==
  /\ now = 1
  /\ Timeout = [f \in Frags |-> 0]
  /\ out = Frags /\ sent = {} /\ Done = {} /\ timeoutTree = {} /\ reported = {}
  /\ round = "polling"

Tick ==
  /\ now < Horizon
  /\ now' = now + 1
  /\ UNCHANGED <<Timeout, out, sent, Done, timeoutTree, reported, round>>

(* EpollWait returns events. Without events the loop goes straight back to     *)
(* EpollWait: no step of this model.                                           *)
Events ==
  /\ round = "polling"
  /\ round' = "handling"
  /\ UNCHANGED <<now, Timeout, out, sent, Done, timeoutTree, reported>>

Delete(f) == timeoutTree' = {g \in timeoutTree : Timeout[g] # Timeout[f]}

PushToTimeoutQueue(f) ==
  /\ Timeout' = [Timeout EXCEPT ![f] = now + RequestTimeout]
  /\ timeoutTree' = {g \in timeoutTree : Timeout[g] # now + RequestTimeout} \cup {f}

(* The first sending of a frag, or one after a redirection.                    *)
EnqueueInFrag(f) ==
  /\ round = "handling"
  /\ f \in out
  /\ now + RequestTimeout < Horizon
  /\ out' = out \ {f} /\ sent' = sent \cup {f}
  /\ PushToTimeoutQueue(f)
  /\ now' = IF Coarse THEN now ELSE now + 1
  /\ UNCHANGED <<Done, reported, round>>

Siblings(f) == {g \in Frags : Peer[g] = Peer[f]}

(* Redis answers with a reply, a reply that fails the whole request, or a      *)
(* redirection, which sends the frag again even if it is Done.                 *)
DequeueInFrag(f, answer) ==
  /\ round = "handling"
  /\ f \in sent
  /\ sent' = sent \ {f}
  /\ out' = IF answer = "moved" THEN out \cup {f} ELSE out
  /\ Delete(f)
  /\ Done' = CASE answer = "moved" -> Done
               [] answer = "reply" -> Done \cup {f}
               [] answer = "fails" -> Done \cup (IF f \in Done THEN {} ELSE Siblings(f))
  /\ UNCHANGED <<now, Timeout, reported, round>>

EventsHandled ==
  /\ round = "handling"
  /\ round' = "msgTimeout"
  /\ UNCHANGED <<now, Timeout, out, sent, Done, timeoutTree, reported>>

-----------------------------------------------------------------------------
(* msgTimeout                                                                 *)

Earliest(f) == f \in timeoutTree /\ \A g \in timeoutTree : Timeout[f] <= Timeout[g]

SkipDone(f) ==
  /\ round = "msgTimeout" /\ Earliest(f) /\ f \in Done
  /\ Delete(f)
  /\ UNCHANGED <<now, Timeout, out, sent, Done, reported, round>>

Report(f) ==
  /\ round = "msgTimeout" /\ Earliest(f) /\ f \notin Done
  /\ now >= Timeout[f]
  /\ Delete(f)
  /\ Done' = Done \cup Siblings(f)
  /\ reported' = reported \cup {Peer[f]}
  /\ UNCHANGED <<now, Timeout, out, sent, round>>

(* Bug: a frag that is done already ends the loop.                            *)
BreakAtDone ==
  /\ round = "msgTimeout"
  /\ \A f \in timeoutTree : Earliest(f) => now < Timeout[f] \/ f \in Done
  /\ round' = "polling"
  /\ UNCHANGED <<now, Timeout, out, sent, Done, timeoutTree, reported>>

Break ==
  /\ round = "msgTimeout"
  /\ \A f \in timeoutTree : Earliest(f) => now < Timeout[f] /\ f \notin Done
  /\ round' = "polling"
  /\ UNCHANGED <<now, Timeout, out, sent, Done, timeoutTree, reported>>

MsgTimeout == (\E f \in Frags : SkipDone(f) \/ Report(f)) \/ Break

Next ==
  \/ Tick \/ Events \/ EventsHandled \/ MsgTimeout
  \/ \E f \in Frags : EnqueueInFrag(f) \/ \E answer \in {"moved", "reply", "fails"} : DequeueInFrag(f, answer)

Spec == Init /\ [][Next]_vars

(* The loop finishes what a round began, and time passes; whether a socket or *)
(* a task ever wakes the loop is not up to the program.                       *)
Fairness == WF_vars(Tick) /\ WF_vars(EventsHandled) /\ WF_vars(MsgTimeout)

FairSpec == Spec /\ Fairness

-----------------------------------------------------------------------------
(* A frag that Redis has not answered is in the timeout tree until its        *)
(* request is done, through replies, redirections and reports of others: no   *)
(* frag loses its deadline to another one.                                    *)
Armed == sent \ Done \subseteq timeoutTree

Overdue(f) == f \in sent \ Done /\ now >= Timeout[f]

(* As long as rounds with events go on, msgTimeout reaches every overdue frag:*)
(* none is held back by one that is done or redirected.                       *)
OverdueReported == []<>(round = "handling") => \A f \in Frags : Overdue(f) ~> ~Overdue(f)

(* eventloop.go promises "timeout will report an error to the client", whether *)
(* or not anything else happens on the loop.                                   *)
(* Does not hold of the code: see the README, Disagreements.                   *)
TimeoutAlwaysReported == \A f \in Frags : Overdue(f) ~> ~Overdue(f)
=============================================================================

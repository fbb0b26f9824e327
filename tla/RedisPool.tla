------------------------------- MODULE RedisPool -------------------------------
(***************************************************************************)
(* Routing a request to a node and getting a connection to it: route,        *)
(* getConn with its retry, Pool.Get, SetIsSlave, Close, and the monitor        *)
(* goroutine that every pool runs.  The event loop and the monitors write      *)
(* LiftBanOrder, LiftBanTime and AutoBanFlag without a lock.                  *)
(*                                                                         *)
(* One slot, its master and its slaves.  LiftBanTime is whether the ban still  *)
(* lasts; a connection is whether it is open and whether it was dialled to a   *)
(* slave (READONLY).                                                         *)
(***************************************************************************)
EXTENDS Integers, Sequences, FiniteSets

CONSTANTS Node, InitMaster, InitSlaves,     \* InitSlaves: the slaves in their order
          maxActive,
          MaxOrder,         \* 5: the largest LiftBanOrder
          MaxFailovers,     \* bound: changes of roles
          Removal,          \* may a slave leave the cluster?
          Fragile           \* the nodes that may go down



VARIABLES up,               \* external: the nodes that can be reached
          master, slaves,   \* Slots2Node of the slot
          pool,             \* ProxyPool
          mpc,              \* where each monitor is
          req,              \* the request the event loop is at
          failovers

vars == <<up, master, slaves, pool, mpc, req, failovers>>

Idle == [at |-> "idle", type |-> "read", try |-> 1, addr |-> InitMaster, slave |-> FALSE]

Init == /\ up = Node
        /\ master = InitMaster /\ slaves = InitSlaves
        /\ pool = [a \in Node |-> [order |-> 0, banned |-> FALSE, flag |-> FALSE,
                                   isSlave |-> a # InitMaster, closed |-> FALSE, active |-> << >>]]
        /\ mpc = [a \in Node |-> "wait"]
        /\ req = Idle
        /\ failovers = 0

-----------------------------------------------------------------------------
(* External: nodes go down, which breaks their connections, and come back; time *)
(* passes.                                                                   *)
Broken(active) == [i \in 1 .. Len(active) |-> [active[i] EXCEPT !.open = FALSE]]
GoesDown(a) == /\ a \in up \cap Fragile
               /\ up' = up \ {a}
               /\ pool' = [pool EXCEPT ![a].active = Broken(@)]
               /\ UNCHANGED <<master, slaves, mpc, req, failovers>>
ComesBack(a) == /\ a \notin up
                /\ up' = up \cup {a}
                /\ UNCHANGED <<master, slaves, pool, mpc, req, failovers>>
BanExpires(a) == /\ pool[a].banned
                 /\ pool' = [pool EXCEPT ![a].banned = FALSE]
                 /\ UNCHANGED <<up, master, slaves, mpc, req, failovers>>

-----------------------------------------------------------------------------
(* OnCReact, for one slot.  HSCAN, SSCAN and ZSCAN count as writes.              *)
Request == /\ req.at = "idle"
           /\ \E type \in {"read", "write"} : req' = [Idle EXCEPT !.at = "route", !.type = type]
           /\ UNCHANGED <<up, master, slaves, pool, mpc, failovers>>

(* route passes over a slave with a ban that has expired, and takes the first   *)
(* other one: the loop returns as soon as it has found one.                   *)
Passed(a) == pool[a].flag /\ ~pool[a].banned
Live == SelectSeq(slaves, LAMBDA a : ~Passed(a))
Picks == IF Live = << >> THEN {} ELSE {Head(Live)}
RouteMaster == /\ req.at = "route" /\ (req.type = "write" \/ Picks = {})
               /\ req' = [req EXCEPT !.at = "get", !.addr = master, !.slave = FALSE]
               /\ UNCHANGED <<up, master, slaves, pool, mpc, failovers>>
RouteSlave ==
  /\ req.at = "route" /\ req.type = "read"
  /\ \E a \in Picks : /\ req' = [req EXCEPT !.at = "get", !.addr = a, !.slave = TRUE]
                         /\ pool' = [pool EXCEPT ![a].flag = FALSE]
  /\ UNCHANGED <<up, master, slaves, mpc, failovers>>

(* Pool.Get dials until there are maxActive connections, then takes the last     *)
(* one that is open to the front, dropping those that are not.                 *)
Conn(a) == [open |-> TRUE, ro |-> pool[a].isSlave]
IsOpened(c) == c.open
Kept(active) == LET opened == {i \in 1 .. Len(active) : IsOpened(active[i])}
                IN  SubSeq(active, 1, IF opened = {} THEN 0 ELSE CHOOSE i \in opened : \A j \in opened : j <= i)
Dials(a) == Len(pool[a].active) < maxActive \/ Kept(pool[a].active) = << >>
Base(a) == IF Len(pool[a].active) < maxActive THEN pool[a].active ELSE << >>

GetDialled == /\ req.at = "get" /\ Dials(req.addr) /\ req.addr \in up
              /\ pool' = [pool EXCEPT ![req.addr].active = <<Conn(req.addr)>> \o Base(req.addr), ![req.addr].order = 0]
              /\ req' = Idle
              /\ UNCHANGED <<up, master, slaves, mpc, failovers>>
GetKept == /\ req.at = "get" /\ ~Dials(req.addr)
           /\ LET kept == Kept(pool[req.addr].active)
                  n == Len(kept)
              IN  pool' = [pool EXCEPT ![req.addr].active = <<kept[n]>> \o SubSeq(kept, 1, n - 1),
                                       ![req.addr].order = 0]
           /\ req' = Idle
           /\ UNCHANGED <<up, master, slaves, mpc, failovers>>

(* A failed dial bans the node, in three writes.                               *)
GetFailed == /\ req.at = "get" /\ Dials(req.addr) /\ req.addr \notin up
             /\ pool' = [pool EXCEPT ![req.addr].active = Base(req.addr), ![req.addr].banned = TRUE]
             /\ req' = [req EXCEPT !.at = "order"]
             /\ UNCHANGED <<up, master, slaves, mpc, failovers>>

RaiseOrder == /\ req.at = "order"
              /\ pool' = [pool EXCEPT ![req.addr].order = IF @ >= MaxOrder THEN MaxOrder ELSE @ + 1]
              /\ req' = [req EXCEPT !.at = "flag"]
              /\ UNCHANGED <<up, master, slaves, mpc, failovers>>

(* A slave that failed is tried once more, through route.                       *)
SetFlag == /\ req.at = "flag"
           /\ pool' = [pool EXCEPT ![req.addr].flag = TRUE]
           /\ req' = IF req.slave /\ req.try = 1 THEN [req EXCEPT !.at = "route", !.try = 2]
                     ELSE [req EXCEPT !.at = "failed"]
           /\ UNCHANGED <<up, master, slaves, mpc, failovers>>

(* The client is sent an error.                                                *)
Refuse == /\ req.at = "failed"
          /\ req' = Idle
          /\ UNCHANGED <<up, master, slaves, pool, mpc, failovers>>

-----------------------------------------------------------------------------
(* ticker: the first slave becomes the master; SetIsSlave releases the           *)
(* connections of the pools whose role has changed.                            *)
SetIsSlaveKeeps(p, isSlave) == [p EXCEPT !.isSlave = isSlave]   \* mutant: the connections are kept
SetIsSlave(p, isSlave) == IF p.isSlave = isSlave THEN p
                          ELSE [p EXCEPT !.isSlave = isSlave, !.active = << >>]
Failover == /\ req.at = "idle" /\ failovers < MaxFailovers /\ slaves # << >>
            /\ LET m == Head(slaves)
               IN  /\ master' = m
                   /\ slaves' = Append(Tail(slaves), master)
                   /\ pool' = [pool EXCEPT ![m] = SetIsSlave(@, FALSE), ![master] = SetIsSlave(@, TRUE)]
            /\ failovers' = failovers + 1
            /\ UNCHANGED <<up, mpc, req>>

(* A slave leaves the cluster: its pool is closed.                             *)
Close == /\ req.at = "idle" /\ Removal /\ slaves # << >>
         /\ slaves' = Tail(slaves)
         /\ pool' = [pool EXCEPT ![Head(slaves)].closed = TRUE, ![Head(slaves)].active = << >>]
         /\ UNCHANGED <<up, master, mpc, req, failovers>>

-----------------------------------------------------------------------------
(* monitor: every five seconds a PING, repeated once when it fails.              *)
Stays(a, at) == mpc' = [mpc EXCEPT ![a] = at] /\ UNCHANGED <<up, master, slaves, req, failovers>>

MonitorTick(a) == /\ mpc[a] = "wait"
                  /\ Stays(a, IF pool[a].closed THEN "done" ELSE "detect")
                  /\ UNCHANGED pool
Detect(a) == /\ mpc[a] \in {"detect", "again"}
             /\ Stays(a, IF a \in up THEN "reset" ELSE IF mpc[a] = "detect" THEN "again" ELSE "ban")
             /\ UNCHANGED pool
ResetOrder(a) == /\ mpc[a] = "reset"
                 /\ pool' = [pool EXCEPT ![a].order = 0]
                 /\ Stays(a, "unflag")
UnflagNot(a) == mpc[a] = "unflag" /\ Stays(a, "wait") /\ UNCHANGED pool   \* mutant: the flag stays
Unflag(a) == /\ mpc[a] = "unflag"
             /\ pool' = [pool EXCEPT ![a].flag = FALSE]
             /\ Stays(a, "wait")
Ban(a) == /\ mpc[a] = "ban"
          /\ pool' = [pool EXCEPT ![a].banned = TRUE]
          /\ Stays(a, "flag")
Flag(a) == /\ mpc[a] = "flag"
           /\ pool' = [pool EXCEPT ![a].flag = TRUE]
           /\ Stays(a, "wait")

Monitor(a) == MonitorTick(a) \/ Detect(a) \/ ResetOrder(a) \/ Unflag(a) \/ Ban(a) \/ Flag(a)
Serve == RouteMaster \/ RouteSlave \/ GetDialled \/ GetKept \/ GetFailed \/ RaiseOrder \/ SetFlag \/ Refuse

Next == \/ Request \/ Serve \/ Failover \/ Close
        \/ \E a \in Node : Monitor(a) \/ GoesDown(a) \/ ComesBack(a) \/ BanExpires(a)

Spec == Init /\ [][Next]_vars

(* The loop finishes what it has begun, and the runtime runs the monitors.       *)
FairSpec == Spec /\ WF_vars(Serve) /\ \A a \in Node : WF_vars(Monitor(a))

-----------------------------------------------------------------------------
(* Type invariant; LiftBanOrder is the exponent of the back-off and stays        *)
(* between 0 and its maximum whoever writes it.                                 *)
TypeOK ==
  /\ up \subseteq Node /\ master \in Node
  /\ \A a \in Node : /\ pool[a].order \in 0 .. MaxOrder
                     /\ pool[a].banned \in BOOLEAN /\ pool[a].flag \in BOOLEAN
                     /\ Len(pool[a].active) <= maxActive
  /\ req.at \in {"idle", "route", "get", "order", "flag", "failed"}

(* A connection that a pool can hand out was dialled for the role its node has    *)
(* now: none sends READONLY to a master or writes to a slave (SetIsSlave).      *)
RoleMatches == \A a \in Node : \A i \in 1 .. Len(pool[a].active) :
                 pool[a].active[i].ro = pool[a].isSlave

(* A node that is up for good is not left banned: its monitor clears the flag     *)
(* that the loop or an earlier PING set (monitor, getConn).                     *)
Recovers == \A a \in Node : <>[](a \in up) => <>[](pool[a].closed \/ ~pool[a].flag)

(* The monitor of a closed pool ends (Close, monitor).                          *)
MonitorEnds == \A a \in Node : pool[a].closed ~> mpc[a] = "done"

SlaveSet == {slaves[i] : i \in DOMAIN slaves}

(* A read is refused only when neither a slave nor the master can be reached       *)
(* (route, getConn and its retry).                                             *)
(* Does not hold of the code: see the README, Disagreements.                   *)
RefusedOnlyIfDown == req.at = "failed" /\ req.type = "read" => ({master} \cup SlaveSet) \cap up = {}

(* A node is not picked while its ban lasts (route).                            *)
(* Does not hold of the code: see the README, Disagreements.                    *)
BannedNotPicked == req.at = "route" /\ req.type = "read" =>
                     \A a \in SlaveSet : pool[a].flag /\ pool[a].banned => a \notin Picks

(* Every slave that is not banned may be picked (route).                        *)
(* Does not hold of the code: see the README, Disagreements.                    *)
Balanced == req.at = "route" /\ req.type = "read" =>
              \A a \in SlaveSet : ~pool[a].flag => a \in Picks
=============================================================================

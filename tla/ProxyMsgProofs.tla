--------------------------- MODULE ProxyMsgProofs ---------------------------
(***************************************************************************)
(* The actions of Proxy that change Msgs and Frags keep their types: none  *)
(* leaves a Msg or a Frag ill-typed, takes one away, or changes the Msg or *)
(* the slot of a Frag.  Then Decode keeps LifeInv, and OnceInv is kept: no *)
(* request is answered twice.                                              *)
(***************************************************************************)
EXTENDS ProxyLemmas

USE DEF vars, control, msgVars, clientVars, serverVars, timeoutVars, poolVars, redisVars
-----------------------------------------------------------------------------
(* Msgs and Frags.                                                          *)

\* Putting a Msg into the pool, or appending it as a new one in the pool.
LEMMA PutType ==
  ASSUME MsgsType, NEW m \in DOMAIN msg \cup {Len(msg) + 1},
         DOMAIN frag \subseteq DOMAIN frag', msgId' \in 0 .. MaxReq,
         msg' = IF m \in DOMAIN msg THEN [msg EXCEPT ![m] = PutMsg] ELSE Append(msg, PutMsg),
         freeMsgs' = freeMsgs \cup {m}
  PROVE  MsgsType' /\ DOMAIN msg \subseteq DOMAIN msg'
<1>0. /\ msg \in Seq(MsgType) /\ freeMsgs \subseteq DOMAIN msg
      /\ \A k \in DOMAIN msg : msg[k].body \subseteq DOMAIN frag'
  BY Zenon DEF MsgsType
<1>1. CASE m \in DOMAIN msg
  <2>1. msg' = [msg EXCEPT ![m] = PutMsg]
    BY <1>1, Zenon
  <2>2. msg' \in Seq(MsgType) /\ DOMAIN msg' = DOMAIN msg
    BY <2>1, <1>0, SeqExcept, PutMsgType
  <2>3. \A k \in DOMAIN msg : msg'[k].body \subseteq DOMAIN frag'
    BY <2>1, <1>0, PutMsgType, Zenon
  <2> QED BY <2>2, <2>3, <1>0, <1>1, Zenon DEF MsgsType
<1>2. CASE m \notin DOMAIN msg
  <2>1. msg' = Append(msg, PutMsg) /\ m = Len(msg) + 1
    BY <1>2, Zenon
  <2>2. msg' \in Seq(MsgType) /\ DOMAIN msg' = DOMAIN msg \cup {m}
    BY <2>1, <1>0, SeqAppend, PutMsgType
  <2>3. \A k \in DOMAIN msg' : msg'[k].body \subseteq DOMAIN frag'
    BY <2>1, <2>2, <1>0, SeqAppend, PutMsgType
  <2> QED BY <2>2, <2>3, <1>0, Zenon DEF MsgsType
<1> QED BY <1>1, <1>2, Zenon

\* OnCReact answering itself.
LEMMA CReactImmediateMsgs ==
  ASSUME TypeOK, ProxyAssumption, NEW c \in Client, NEW m \in freeMsgs \cup {Len(msg) + 1},
         CReactImmediate(c, m)
  PROVE  MsgsType' /\ FragsType' /\ Growth
<1>0. /\ MsgsType /\ msg \in Seq(MsgType) /\ freeMsgs \subseteq DOMAIN msg
      /\ DOMAIN msg = 1 .. Len(msg) /\ Len(msg) \in Nat
  BY SeqFacts, Zenon DEF TypeOK, MsgsType
<1>1. m \in DOMAIN msg <=> m \in freeMsgs
  BY <1>0
<1>2. /\ msg' = IF m \in DOMAIN msg THEN [msg EXCEPT ![m] = PutMsg] ELSE Append(msg, PutMsg)
      /\ freeMsgs' = freeMsgs \cup {m} /\ frag' = frag
  BY <1>1, Zenon DEF CReactImmediate
<1>3. msgId' \in 0 .. MaxReq
  BY DEF CReactImmediate, TypeOK, MsgsType, ProxyAssumption
<1>4. MsgsType' /\ DOMAIN msg \subseteq DOMAIN msg'
  BY <1>0, <1>2, <1>3, PutType, Zenon
<1>5. FragsType' /\ Growth
  BY <1>4, Zenon DEF CReactImmediate, TypeOK, FragsType, Growth
<1> QED BY <1>4, <1>5, Zenon

\* Decode of a request: the Msg and its new Frags.
LEMMA CReactMsgs ==
  ASSUME TypeOK, ProxyAssumption, NEW c \in Client, NEW q \in Requests,
         NEW m \in freeMsgs \cup {Len(msg) + 1}, CReact(c, q, m)
  PROVE  MsgsType' /\ FragsType' /\ Growth /\ handling' \in ReactType'
<1> DEFINE body  == Len(frag) + 1 .. Len(frag) + Len(q.slots)
           old   == IF m \in freeMsgs THEN msg[m] ELSE PutMsg
           new   == [old EXCEPT !.id = msgId + 1, !.type = q.type, !.body = body]
           added == [i \in 1 .. Len(q.slots) |-> NewFrag(m, q.slots[i], msgId + 1)]
<1>0. /\ msg \in Seq(MsgType) /\ freeMsgs \subseteq DOMAIN msg
      /\ DOMAIN msg = 1 .. Len(msg) /\ Len(msg) \in Nat
      /\ frag \in Seq(FragType) /\ DOMAIN frag = 1 .. Len(frag) /\ Len(frag) \in Nat
      /\ msgId \in Nat
  BY SeqFacts DEF TypeOK, MsgsType, FragsType
<1>1. /\ Len(q.slots) \in Nat /\ q.type \in Types
      /\ \A i \in 1 .. Len(q.slots) : q.slots[i] \in Slot
  BY SeqFacts DEF ProxyAssumption
<1>2. body \in SUBSET Ids
  BY <1>0, <1>1 DEF Ids
<1>3. old \in MsgType
  BY <1>0, SeqFacts, PutMsgType, Zenon
<1>4. new \in MsgType /\ new.body = body
  <2> DEFINE id == msgId + 1
             ty == q.type
  <2>1. id \in Nat /\ ty \in Types
    BY <1>0, <1>1
  <2>2. new = [old EXCEPT !.id = id, !.type = ty, !.body = body]
    BY Zenon
  <2> HIDE DEF old, body, id, ty, new
  <2> QED BY <2>1, <2>2, <1>2, <1>3, Zenon DEF MsgType
<1>5. m \in Nat /\ m # 0
  BY <1>0
<1>6. added \in Seq(FragType) /\ Len(added) = Len(q.slots)
  <2>0. msgId + 1 \in Nat
    BY <1>0
  <2>1. \A i \in 1 .. Len(q.slots) : NewFrag(m, q.slots[i], msgId + 1) \in FragType
    BY <2>0, <1>1, <1>5, NewFragType, Zenon
  <2>2. added \in [1 .. Len(q.slots) -> FragType]
    BY <2>1, Zenon
  <2> HIDE DEF added
  <2> QED BY <2>2, <1>1, FcnIsSeq, Zenon
<1>7. /\ msg' \in Seq(MsgType) /\ DOMAIN msg \subseteq DOMAIN msg' /\ m \in DOMAIN msg'
      /\ \A k \in DOMAIN msg' : msg'[k].body = body \/ (k \in DOMAIN msg /\ msg'[k] = msg[k])
  <2>0. msg' = IF m \in freeMsgs THEN [msg EXCEPT ![m] = new] ELSE Append(msg, new)
    BY Zenon DEF CReact
  <2> HIDE DEF new, body
  <2>1. CASE m \in freeMsgs
    <3>1. msg' = [msg EXCEPT ![m] = new]
      BY <2>0, <2>1, Zenon
    <3>2. msg' \in Seq(MsgType) /\ DOMAIN msg' = DOMAIN msg /\ m \in DOMAIN msg
      BY <3>1, <2>1, <1>0, <1>4, SeqExcept, Zenon
    <3>3. \A k \in DOMAIN msg : msg'[k] = new \/ msg'[k] = msg[k]
      BY <3>1, Zenon
    <3> QED BY <3>2, <3>3, <1>4, Zenon
  <2>2. CASE m \notin freeMsgs
    <3>1. msg' = Append(msg, new) /\ m = Len(msg) + 1
      BY <2>0, <2>2, Zenon
    <3>2. /\ msg' \in Seq(MsgType) /\ DOMAIN msg' = DOMAIN msg \cup {m}
          /\ msg'[m] = new /\ \A k \in DOMAIN msg : msg'[k] = msg[k]
      BY <3>1, <1>0, <1>4, SeqAppend
    <3> QED BY <3>2, <1>4, Zenon
  <2> QED BY <2>1, <2>2, Zenon
<1>8. /\ frag' \in Seq(FragType) /\ DOMAIN frag' = DOMAIN frag \cup body
      /\ \A f \in DOMAIN frag : frag'[f] = frag[f]
      /\ \A f \in body : frag'[f] = added[f - Len(frag)]
  <2> HIDE DEF added
  <2>1. frag' = frag \o added
    BY Zenon DEF CReact, added
  <2>2. /\ frag \o added \in Seq(FragType)
        /\ DOMAIN (frag \o added) = DOMAIN frag \cup (Len(frag) + 1 .. Len(frag) + Len(added))
        /\ \A f \in DOMAIN frag : (frag \o added)[f] = frag[f]
        /\ \A f \in Len(frag) + 1 .. Len(frag) + Len(added) :
             (frag \o added)[f] = added[f - Len(frag)]
    BY <1>0, <1>6, SeqConcat
  <2>3. body = Len(frag) + 1 .. Len(frag) + Len(added)
    BY <1>6, Zenon
  <2> HIDE DEF body
  <2> QED BY <2>1, <2>2, <2>3, Zenon
<1>9. \A f \in body : \E k \in Slot : frag'[f] = NewFrag(m, k, msgId + 1)
  <2>1. \A f \in body : f - Len(frag) \in 1 .. Len(q.slots)
    BY <1>0, <1>1
  <2>2. \A i \in 1 .. Len(q.slots) : added[i] = NewFrag(m, q.slots[i], msgId + 1)
    BY Zenon
  <2> HIDE DEF added, body
  <2> QED BY <2>1, <2>2, <1>8, <1>1
<1>10. MsgsType'
  <2>1. \A k \in DOMAIN msg' : msg'[k].body \subseteq DOMAIN frag'
    <3> HIDE DEF body
    <3> QED BY <1>7, <1>8, Zenon DEF TypeOK, MsgsType
  <2>2. freeMsgs' \in SUBSET DOMAIN msg'
    BY <1>7, <1>0, Zenon DEF CReact
  <2>3. msgId' \in 0 .. MaxReq
    BY DEF CReact, TypeOK, MsgsType, ProxyAssumption
  <2> QED BY <2>1, <2>2, <2>3, <1>7, Zenon DEF MsgsType
<1>11. handling' = [op |-> "react", client |-> c, msg |-> m, todo |-> body]
  BY Zenon DEF CReact
<1> HIDE DEF body
<1>12. FragsType'
  <2>1. \A f \in body : /\ frag'[f].peer = m /\ frag'[f].slot \in Slot
                        /\ frag'[f].owner = Nil /\ ~frag'[f].ok
    BY <1>9, <1>0, <1>5, NewFragType
  <2>2. \A f \in DOMAIN frag :
           /\ frag'[f].peer \in DOMAIN msg' \cup {0}
           /\ frag'[f].peer # 0 => frag'[f].slot \in Slot
           /\ frag'[f].owner # Nil => frag'[f].peer # 0
           /\ frag'[f].ok => frag'[f].rsp # 0
    BY <1>8, <1>7, Zenon DEF TypeOK, FragsType
  <2>4. handling'.op = "react" => \A f \in handling'.todo : frag'[f].peer # 0
    BY <2>1, <1>5, <1>11, Zenon
  <2>5. \A f \in body :
           /\ frag'[f].peer \in DOMAIN msg' \cup {0}
           /\ frag'[f].peer # 0 => frag'[f].slot \in Slot
           /\ frag'[f].owner # Nil => frag'[f].peer # 0
           /\ frag'[f].ok => frag'[f].rsp # 0
    BY <2>1, <1>7, Zenon
  <2> QED BY <2>2, <2>4, <2>5, <1>8, Zenon DEF FragsType
<1>13. Growth
  BY <1>7, <1>8, Zenon DEF Growth
<1>14. handling' \in ReactType'
  BY <1>11, <1>7, <1>8, Zenon DEF ReactType
<1> QED BY <1>10, <1>12, <1>13, <1>14, Zenon

MsgsEdited(mm) ==
  /\ mm \in Seq(MsgType) /\ DOMAIN mm = DOMAIN msg
  /\ \A m \in DOMAIN msg : mm[m].body \subseteq DOMAIN frag

\* Such an update keeps the types of the Frags.
LEMMA FragsEditedType ==
  ASSUME ControlType, FragsType, FragsEdited(frag'), DOMAIN msg \subseteq DOMAIN msg',
         handling' = handling
  PROVE  FragsType' /\ Growth
<1>1. FragsType'
  <2>1. handling.op = "react" => handling.todo \subseteq DOMAIN frag
    BY ReactHandling, Zenon DEF ReactType
  <2>2. handling.op = "react" => \A f \in handling.todo : frag'[f].peer # 0
    BY <2>1, Zenon DEF FragsType, FragsEdited
  <2>3. \A f \in DOMAIN frag : /\ frag'[f].peer \in DOMAIN msg' \cup {0}
                               /\ frag'[f].peer # 0 => frag'[f].slot \in Slot
                               /\ frag'[f].owner # Nil => frag'[f].peer # 0
    BY Zenon DEF FragsType, FragsEdited
  <2> QED BY <2>2, <2>3, Zenon DEF FragsType, FragsEdited
<1>2. Growth
  BY Zenon DEF Growth, FragsEdited
<1> QED BY <1>1, <1>2, Zenon

\* Marking the frags of a set done (msgTimeout, a reply that is too large).
LEMMA AllDoneType ==
  ASSUME FragsType, NEW B
  PROVE  FragsEdited(AllDone(B))
<1> DEFINE fs == AllDone(B)
<1>0. frag \in Seq(FragType) /\ DOMAIN frag = 1 .. Len(frag) /\ Len(frag) \in Nat
  BY SeqFacts, Zenon DEF FragsType
<1>1. \A g \in DOMAIN frag : frag[g] \in FragType
  BY <1>0, SeqFacts, Zenon
<1>3. \A g \in DOMAIN frag :
        /\ fs[g] \in FragType
        /\ fs[g].peer = frag[g].peer /\ fs[g].slot = frag[g].slot /\ fs[g].owner = frag[g].owner
        /\ fs[g].ok = frag[g].ok /\ fs[g].rsp = frag[g].rsp
  <2> TAKE g \in DOMAIN frag
  <2> DEFINE o == frag[g]
             x == fs[g]
  <2>0. o \in FragType
    BY <1>1, Zenon
  <2>1. CASE g \in B
    <3>1. x = [o EXCEPT !.done = TRUE]
      BY <2>1, Zenon DEF AllDone
    <3> HIDE DEF x, o, fs
    <3>2. /\ x \in FragType /\ x.peer = o.peer /\ x.slot = o.slot /\ x.owner = o.owner
          /\ x.ok = o.ok /\ x.rsp = o.rsp
      BY <3>1, <2>0, FragDoneType, Zenon
    <3> QED BY <3>2, Zenon DEF x, o
  <2>2. CASE g \notin B
    BY <2>0, <2>2, Zenon DEF AllDone
  <2> QED BY <2>1, <2>2, Zenon
<1>4. fs \in [1 .. Len(frag) -> FragType] /\ DOMAIN fs = DOMAIN frag
  <2>1. fs = [g \in 1 .. Len(frag) |-> fs[g]] /\ DOMAIN fs = DOMAIN frag
    BY <1>0, Zenon DEF AllDone
  <2> HIDE DEF fs
  <2> QED BY <2>1, <1>0, <1>3, Zenon
<1> HIDE DEF fs
<1>5. fs \in Seq(FragType)
  BY <1>4, <1>0, FcnIsSeq, Zenon
<1>6. FragsEdited(fs)
  BY <1>3, <1>4, <1>5, Zenon DEF FragsEdited, FragsType
<1> QED BY <1>6, Zenon DEF fs

\* A frag of the loop goes to a client's queue.
LEMMA DispatchMsgs ==
  ASSUME TypeOK, ProxyAssumption, NEW f \in DOMAIN frag, NEW s \in SConn, Dispatch(f, s)
  PROVE  /\ MsgsType' /\ FragsType' /\ Growth
         /\ handling' = Idle \/ handling' \in ReactType'
         /\ DOMAIN frag' = DOMAIN frag /\ msg' = msg
<1>0. /\ frag \in Seq(FragType) /\ frag[f] \in FragType /\ handling \in ReactType
      /\ f \in handling.todo /\ handling.client \in Client
  BY ReactHandling, SeqFacts, Zenon DEF TypeOK, FragsType, Dispatch, ReactType
<1>1. frag[f].peer # 0
  BY <1>0, Zenon DEF TypeOK, FragsType, Dispatch
<1> DEFINE x == [frag[f] EXCEPT !.owner = handling.client]
<1>2. frag' = [frag EXCEPT ![f] = x]
  BY Zenon DEF Dispatch
<1>3. /\ x \in FragType /\ x.peer = frag[f].peer /\ x.slot = frag[f].slot
      /\ x.owner = handling.client /\ x.rsp = frag[f].rsp
  BY <1>0, Zenon DEF FragType
<1>4. x.ok = frag[f].ok
  BY <1>0, Zenon DEF FragType
<1> HIDE DEF x
<1>5. frag' \in Seq(FragType) /\ DOMAIN frag' = DOMAIN frag
  BY <1>2, <1>3, <1>0, SeqExcept, Zenon
<1>6. \A g \in DOMAIN frag : g # f => frag'[g] = frag[g]
  BY <1>2, Zenon
<1>7. frag'[f] = x
  BY <1>2, Zenon
<1>8. \A g \in DOMAIN frag : /\ frag'[g].peer = frag[g].peer /\ frag'[g].slot = frag[g].slot
                             /\ frag'[g].rsp = frag[g].rsp
                             /\ frag[g].owner # Nil => frag'[g].owner # Nil
                             /\ frag'[g].owner # Nil => frag[g].peer # 0
  BY <1>6, <1>7, <1>3, <1>1, <1>0, Zenon DEF TypeOK, FragsType, ProxyAssumption
<1>9. \A g \in DOMAIN frag : frag'[g].ok = frag[g].ok
  BY <1>6, <1>7, <1>4, Zenon
<1>10. handling' = Idle \/ (handling' \in ReactType /\ handling'.todo \subseteq handling.todo)
  BY <1>0, SMTT(20) DEF Dispatch, ReactType, EnqueueInMsg
<1>11. msg' = msg /\ MsgsType'
  BY <1>5, Zenon DEF Dispatch, TypeOK, MsgsType
<1>12. FragsType'
  <2>1. \A g \in DOMAIN frag : /\ frag'[g].peer \in DOMAIN msg' \cup {0}
                               /\ frag'[g].peer # 0 => frag'[g].slot \in Slot
                               /\ frag'[g].owner # Nil => frag'[g].peer # 0
    BY <1>8, <1>11, Zenon DEF TypeOK, FragsType
  <2>2. \A g \in DOMAIN frag : frag'[g].ok => frag'[g].rsp # 0
    BY <1>8, <1>9, Zenon DEF TypeOK, FragsType
  <2>3. handling'.op = "react" => \A g \in handling'.todo : frag'[g].peer # 0
    BY <1>8, <1>10, <1>0 DEF TypeOK, FragsType, ReactType, Idle
  <2> QED BY <2>1, <2>2, <2>3, <1>5, Zenon DEF FragsType
<1>13. Growth
  BY <1>5, <1>8, <1>11, Zenon DEF Growth
<1>14. handling' = Idle \/ handling' \in ReactType'
  BY <1>10, <1>5, <1>11, Zenon DEF ReactType
<1> QED BY <1>5, <1>11, <1>12, <1>13, <1>14, Zenon

\* The loop gives up on a request.
LEMMA DispatchFailsMsgs ==
  ASSUME TypeOK, ProxyAssumption, NEW f \in DOMAIN frag, DispatchFails(f)
  PROVE  MsgsType' /\ FragsType' /\ Growth
<1>0. handling \in ReactType
  BY ReactHandling, Zenon DEF TypeOK, DispatchFails
<1>1. handling.msg \in DOMAIN msg
  BY <1>0, Zenon DEF ReactType
<1>2. /\ msg' = [msg EXCEPT ![handling.msg] = PutMsg]
      /\ freeMsgs' = freeMsgs \cup {handling.msg} /\ frag' = frag /\ msgId' = msgId
      /\ handling' = Idle
  BY Zenon DEF DispatchFails
<1>3. MsgsType' /\ DOMAIN msg \subseteq DOMAIN msg'
  BY <1>1, <1>2, PutType, Zenon DEF TypeOK, MsgsType
<1>4. FragsType'
  BY <1>2, <1>3, Zenon DEF TypeOK, FragsType, Idle
<1>5. Growth
  BY <1>2, <1>3, Zenon DEF Growth
<1> QED BY <1>3, <1>4, <1>5, Zenon

\* The proxy's own `cluster nodes` request is a frag without a client.
LEMMA WriteClusterNodesMsgs ==
  ASSUME TypeOK, ProxyAssumption, WriteClusterNodes
  PROVE  MsgsType' /\ FragsType' /\ Growth
<1>0. frag \in Seq(FragType)
  BY Zenon DEF TypeOK, FragsType
<1>1. CASE frag' = frag
  BY <1>1, Zenon DEF TypeOK, MsgsType, FragsType, Growth, WriteClusterNodes
<1>2. CASE frag' = Append(frag, NewFrag(0, Nil, 0))
  <2> DEFINE n == NewFrag(0, Nil, 0)
  <2>1. n \in FragType /\ n.peer = 0 /\ n.owner = Nil /\ ~n.ok
    <3>1. ~n.ok
      BY Zenon DEF NewFrag
    <3>2. n \in FragType /\ n.peer = 0 /\ n.owner = Nil
      BY Zenon DEF NewFrag, FragType
    <3> QED BY <3>1, <3>2, Zenon
  <2> HIDE DEF n
  <2>2. /\ frag' \in Seq(FragType) /\ DOMAIN frag' = DOMAIN frag \cup {Len(frag) + 1}
        /\ \A f \in DOMAIN frag : frag'[f] = frag[f]
        /\ frag'[Len(frag) + 1] = n
    BY <1>2, <1>0, <2>1, SeqAppend DEF n
  <2>3. msg' = msg /\ freeMsgs' = freeMsgs /\ msgId' = msgId /\ handling' = handling
        /\ handling = Idle
    BY Zenon DEF WriteClusterNodes, LoopFree
  <2>4. MsgsType'
    BY <2>2, <2>3, Zenon DEF TypeOK, MsgsType
  <2>5. FragsType'
    <3>1. \A f \in DOMAIN frag : /\ frag'[f].peer \in DOMAIN msg' \cup {0}
                                 /\ frag'[f].peer # 0 => frag'[f].slot \in Slot
                                 /\ frag'[f].owner # Nil => frag'[f].peer # 0
                                 /\ frag'[f].ok => frag'[f].rsp # 0
      BY <2>2, <2>3, Zenon DEF TypeOK, FragsType
    <3> QED BY <3>1, <2>1, <2>2, <2>3 DEF FragsType, Idle
  <2>6. Growth
    BY <2>2, <2>3, Zenon DEF Growth
  <2> QED BY <2>4, <2>5, <2>6, Zenon
<1>3. frag' = frag \/ frag' = Append(frag, NewFrag(0, Nil, 0))
  BY Zenon DEF WriteClusterNodes
<1> QED BY <1>1, <1>2, <1>3, Zenon

\* A timeout marks the frags of a Msg.
LEMMA MsgTimeoutMsgs ==
  ASSUME TypeOK, ProxyAssumption, NEW f \in DOMAIN timeoutTree, MsgTimeout(f)
  PROVE  MsgsType' /\ FragsType' /\ Growth
<1>0. msg' = msg /\ freeMsgs' = freeMsgs /\ msgId' = msgId /\ handling' = handling
  BY Zenon DEF MsgTimeout
<1>1. FragsEdited(frag')
  <2>1. CASE frag' = frag
    BY <2>1, Zenon DEF FragsEdited, TypeOK, FragsType
  <2>2. CASE frag' = AllDone(msg[frag[f].peer].body)
    BY <2>2, AllDoneType, Zenon DEF TypeOK
  <2> QED BY <2>1, <2>2, Zenon DEF MsgTimeout
<1>2. FragsType' /\ Growth
  BY <1>0, <1>1, FragsEditedType, Zenon DEF TypeOK
<1>3. MsgsType'
  BY <1>0, <1>1, Zenon DEF TypeOK, MsgsType, FragsEdited
<1> QED BY <1>2, <1>3, Zenon
-----------------------------------------------------------------------------
(* Replies.                                                                 *)

\* The end of eventloop.sread, whatever the connection's sread has done to the
\* Msgs: they are delivered and put back, or the client is closed, or they stay.
LEMMA DeliverType ==
  ASSUME TypeOK, NEW c \in Client, NEW mm, MsgsEdited(mm), Deliver(c, mm),
         DOMAIN frag' = DOMAIN frag
  PROVE  MsgsType' /\ ClientsType' /\ DOMAIN msg' = DOMAIN msg
<1>0. /\ mm \in Seq(MsgType) /\ DOMAIN mm = DOMAIN msg /\ msgId' = msgId
      /\ \A m \in DOMAIN msg : mm[m].body \subseteq DOMAIN frag'
      /\ inMsgQueue[c] \in Seq(DOMAIN msg)
      /\ ClientsType /\ MsgsType
  BY Zenon DEF MsgsEdited, Deliver, TypeOK, ClientsType
<1>1. CASE msg' = mm /\ UNCHANGED <<freeMsgs, cconn, inMsgQueue, asked, toClient>>
  <2>1. MsgsType' /\ DOMAIN msg' = DOMAIN msg
    BY <1>0, <1>1, Zenon DEF MsgsType
  <2> QED BY <2>1, <1>0, <1>1, ClientsGrow, Zenon
<1>2. CASE msg' = mm /\ CloseClient(c) /\ UNCHANGED <<freeMsgs, asked, toClient>>
  <2>1. MsgsType' /\ DOMAIN msg' = DOMAIN msg
    BY <1>0, <1>2, Zenon DEF MsgsType
  <2> QED BY <2>1, <1>0, <1>2, CloseClientType, Zenon
<1> DEFINE q  == inMsgQueue[c]
           rs == [i \in DOMAIN q |-> Reply(mm[q[i]].id, mm[q[i]].rsp.kind, mm[q[i]].rsp.from)]
<1>3. CASE /\ toClient' = [toClient EXCEPT ![c] = @ \o rs]
           /\ msg' = [m \in DOMAIN mm |-> IF m \in Elems(q) THEN PutMsg ELSE mm[m]]
           /\ freeMsgs' = freeMsgs \cup Elems(q)
           /\ inMsgQueue' = [inMsgQueue EXCEPT ![c] = <<>>]
           /\ UNCHANGED <<cconn, asked>>
  <2>0. \A i \in DOMAIN q : q[i] \in DOMAIN msg
    BY <1>0, SeqFacts, Zenon
  <2>1. Elems(q) \subseteq DOMAIN msg
    BY <2>0, Zenon DEF Elems
  <2>2. \A m \in DOMAIN msg : mm[m] \in MsgType
    BY <1>0, SeqFacts, Zenon
  <2>3. \A m \in DOMAIN msg : msg'[m] \in MsgType /\ msg'[m].body \subseteq DOMAIN frag'
    BY <1>0, <1>3, <2>2, PutMsgType, Zenon
  <2>4. msg' \in Seq(MsgType) /\ DOMAIN msg' = DOMAIN msg
    <3>1. msg' \in [DOMAIN mm -> MsgType]
      BY <1>0, <1>3, <2>3, Zenon
    <3> QED BY <3>1, <1>0, SeqMap, Zenon
  <2>5. MsgsType'
    BY <2>1, <2>3, <2>4, <1>0, <1>3, Zenon DEF MsgsType
  <2>6. rs \in Seq(ReplyType)
    <3>1. \A m \in DOMAIN msg : Reply(mm[m].id, mm[m].rsp.kind, mm[m].rsp.from) \in ReplyType
      BY <2>2, Zenon DEF Reply, ReplyType, MsgType
    <3>2. rs \in [DOMAIN q -> ReplyType]
      BY <3>1, <2>0, Zenon
    <3> QED BY <3>2, <1>0, SeqMap, Zenon
  <2>7. toClient[c] \o rs \in Seq(ReplyType)
    <3> HIDE DEF rs
    <3> QED BY <2>6, <1>0, SeqConcat, Zenon DEF ClientsType
  <2>8. toClient' \in [Client -> Seq(ReplyType)]
    <3> HIDE DEF rs
    <3> QED BY <2>7, <1>0, <1>3, Zenon DEF ClientsType
  <2>9. inMsgQueue' \in [Client -> Seq(DOMAIN msg')]
    <3>1. /\ <<>> \in Seq(DOMAIN msg') /\ inMsgQueue \in [Client -> Seq(DOMAIN msg')]
          /\ inMsgQueue' = [inMsgQueue EXCEPT ![c] = <<>>]
      BY <2>4, <1>0, <1>3 DEF ClientsType
    <3> QED BY <3>1, Zenon
  <2>10. ClientsType'
    BY <2>8, <2>9, <1>0, <1>3, Zenon DEF ClientsType
  <2> QED BY <2>4, <2>5, <2>10, Zenon
<1> QED BY <1>1, <1>2, <1>3, Zenon DEF Deliver

\* Updating the Msg of a reply, its frags apart.
LEMMA MsgEditedType ==
  ASSUME TypeOK, NEW p \in DOMAIN msg, NEW x \in MsgType, x.body = msg[p].body
  PROVE  MsgsEdited([msg EXCEPT ![p] = x])
<1> DEFINE mm == [msg EXCEPT ![p] = x]
<1>1. mm \in Seq(MsgType) /\ DOMAIN mm = DOMAIN msg
  BY SeqExcept, Zenon DEF TypeOK, MsgsType
<1>2. \A m \in DOMAIN msg : mm[m].body \subseteq DOMAIN frag
  BY Zenon DEF TypeOK, MsgsType
<1>3. MsgsEdited(mm)
  <2> HIDE DEF mm
  <2> QED BY <1>1, <1>2, Zenon DEF MsgsEdited
<1> QED BY <1>3, Zenon

\* A client's reply leaves the Msgs, the Frags and the clients well typed.
AnswerPost == MsgsType' /\ FragsType' /\ Growth /\ ClientsType'

\* A frag that is not the last of its Msg (MGet, MSet, Del saying Continue).
LEMMA ContinueType ==
  ASSUME TypeOK, NEW s \in SConn, TakeReply(s), frag[Answered(s)].owner # Nil,
         handling' = handling, NEW fs, FragsEdited(fs),
         NEW m \in MsgType, m.body = msg[Peer(s)].body, Continue(s, fs, m)
  PROVE  AnswerPost
<1> DEFINE x == [m EXCEPT !.ndone = @ + 1]
<1>1. x \in MsgType /\ x.body = m.body
  BY DEF MsgType
<1>2. Peer(s) \in DOMAIN msg
  BY TakeReplyType, Zenon
<1>3. msg' = [msg EXCEPT ![Peer(s)] = x] /\ frag' = fs /\ freeMsgs' = freeMsgs /\ msgId' = msgId
      /\ UNCHANGED clientVars
  BY Zenon DEF Continue
<1> HIDE DEF x
<1>4. MsgsEdited(msg')
  BY <1>1, <1>2, <1>3, MsgEditedType, Zenon
<1>5. MsgsType' /\ DOMAIN msg' = DOMAIN msg
  BY <1>3, <1>4, Zenon DEF MsgsEdited, MsgsType, FragsEdited, TypeOK
<1>6. FragsType' /\ Growth
  BY <1>3, <1>5, FragsEditedType, Zenon DEF TypeOK
<1>7. ClientsType'
  BY <1>3, <1>5, ClientsGrow, Zenon DEF TypeOK
<1> QED BY <1>5, <1>6, <1>7, Zenon DEF AnswerPost

\* The reply that makes a Msg done, with the Msg as sread leaves it.
LEMMA DeliveredType ==
  ASSUME TypeOK, NEW s \in SConn, TakeReply(s), frag[Answered(s)].owner # Nil,
         handling' = handling, FragsEdited(frag'),
         NEW x \in MsgType, x.body = msg[Peer(s)].body,
         Deliver(frag[Answered(s)].owner, [msg EXCEPT ![Peer(s)] = x])
  PROVE  AnswerPost
<1> DEFINE mm == [msg EXCEPT ![Peer(s)] = x]
<1>1. frag[Answered(s)].owner \in Client /\ Peer(s) \in DOMAIN msg
  BY TakeReplyType, Zenon
<1>2. MsgsEdited(mm)
  BY <1>1, MsgEditedType, Zenon
<1>3. Deliver(frag[Answered(s)].owner, mm) /\ DOMAIN frag' = DOMAIN frag
  BY Zenon DEF FragsEdited
<1> HIDE DEF mm
<1>4. MsgsType' /\ ClientsType' /\ DOMAIN msg' = DOMAIN msg
  BY <1>1, <1>2, <1>3, DeliverType, Zenon
<1>5. FragsType' /\ Growth
  BY <1>4, FragsEditedType, Zenon DEF TypeOK
<1> QED BY <1>4, <1>5, Zenon DEF AnswerPost

\* The last frag of a Msg (MGet, MSet, Del assembling the reply).
LEMMA CompleteType ==
  ASSUME TypeOK, NEW s \in SConn, TakeReply(s), frag[Answered(s)].owner # Nil,
         handling' = handling, NEW fs, FragsEdited(fs),
         NEW m \in MsgType, m.body = msg[Peer(s)].body,
         NEW kind \in {"data", "error"}, NEW from \in SUBSET Ids,
         Complete(s, fs, m, kind, from)
  PROVE  AnswerPost
<1> DEFINE r == [kind |-> kind, from |-> from]
           n == m.ndone + 1
           x == [m EXCEPT !.ndone = n, !.done = TRUE, !.rsp = r]
<1>0. r \in [kind : {"none", "data", "error"}, from : SUBSET Ids] /\ n \in Nat
  BY DEF MsgType
<1>1. x \in MsgType /\ x.body = m.body
  <2> HIDE DEF r, n
  <2> QED BY <1>0, Zenon DEF MsgType
<1>2. Deliver(frag[Answered(s)].owner, [msg EXCEPT ![Peer(s)] = x]) /\ frag' = fs
  BY Zenon DEF Complete
<1> HIDE DEF x
<1> QED BY <1>1, <1>2, DeliveredType, Zenon

\* A reply that is too large.
LEMMA SReadTooLargeType ==
  ASSUME TypeOK, BodiesFinite, NEW s \in SConn, SReadTooLarge(s)
  PROVE  AnswerPost
<1>0. /\ TakeReply(s) /\ frag[Answered(s)].owner # Nil /\ handling' = handling
      /\ frag' = AllDone(msg[Peer(s)].body)
  BY Zenon DEF SReadTooLarge, TakeAnswer
<1>1. Peer(s) \in DOMAIN msg /\ msg[Peer(s)] \in MsgType
  BY <1>0, TakeReplyType, Zenon
<1>2. Cardinality(msg[Peer(s)].body) \in Nat
  BY <1>1, Zenon DEF BodiesFinite
<1> DEFINE o == msg[Peer(s)]
           n == Cardinality(msg[Peer(s)].body)
           x == [o EXCEPT !.ndone = n, !.done = TRUE, !.rsp = [kind |-> "error", from |-> {}]]
<1>3. Deliver(frag[Answered(s)].owner, [msg EXCEPT ![Peer(s)] = x])
  BY Zenon DEF SReadTooLarge
<1>4. x \in MsgType /\ x.body = o.body
  <2>1. o \in MsgType /\ n \in Nat
    BY <1>1, <1>2, Zenon
  <2> HIDE DEF o, n
  <2> QED BY <2>1, Zenon DEF MsgType
<1>5. FragsEdited(frag')
  BY <1>0, AllDoneType, Zenon DEF TypeOK
<1>6. x.body = msg[Peer(s)].body
  BY <1>4, Zenon
<1> HIDE DEF x
<1> QED BY <1>0, <1>3, <1>4, <1>5, <1>6, DeliveredType, Zenon

\* The reply to a single-frag request.
LEMMA SReadDefaultType ==
  ASSUME TypeOK, NEW s \in SConn, SReadDefault(s)
  PROVE  AnswerPost
<1>0. TakeReply(s) /\ frag[Answered(s)].owner # Nil /\ handling' = handling
  BY Zenon DEF SReadDefault, TakeAnswer
<1>1. /\ Peer(s) \in DOMAIN msg /\ msg[Peer(s)] \in MsgType
      /\ Answered(s) \in DOMAIN frag /\ frag[Answered(s)] \in FragType /\ Answer(s).frag \in Ids
  BY <1>0, TakeReplyType, Zenon
<1> DEFINE o == msg[Peer(s)]
           r == [kind |-> "data", from |-> {Answer(s).frag}]
           n == o.ndone + 1
           x == [o EXCEPT !.ndone = n, !.done = TRUE, !.rsp = r]
           g == frag[Answered(s)]
           y == [g EXCEPT !.done = TRUE]
<1>2. Deliver(frag[Answered(s)].owner, [msg EXCEPT ![Peer(s)] = x])
  BY <1>1, Zenon DEF SReadDefault
<1>3. frag' = [frag EXCEPT ![Answered(s)] = y]
  BY Zenon DEF SReadDefault
<1>4. x \in MsgType /\ x.body = msg[Peer(s)].body
  <2>1. o \in MsgType /\ r \in [kind : {"none", "data", "error"}, from : SUBSET Ids]
             /\ n \in Nat
    BY <1>1 DEF MsgType
  <2> HIDE DEF o, r, n
  <2>2. x \in MsgType /\ x.body = o.body
    BY <2>1, Zenon DEF MsgType
  <2> QED BY <2>2, Zenon DEF o
<1>5. /\ y \in FragType /\ y.peer = g.peer /\ y.slot = g.slot /\ y.owner = g.owner
      /\ y.ok = g.ok /\ y.rsp = g.rsp
  <2>1. g \in FragType
    BY <1>1, Zenon
  <2> HIDE DEF g
  <2> QED BY <2>1, FragDoneType, Zenon
<1>6. FragsEdited(frag')
  <2> HIDE DEF y
  <2>1. y.ok => y.rsp # 0
    BY <1>1, <1>5, Zenon DEF TypeOK, FragsType
  <2> QED BY <2>1, <1>1, <1>3, <1>5, FragEditedType, Zenon DEF TypeOK
<1> HIDE DEF x
<1> QED BY <1>0, <1>2, <1>4, <1>6, DeliveredType, Zenon

\* MGet.
LEMMA SReadMGetType ==
  ASSUME TypeOK, NEW s \in SConn, SReadMGet(s)
  PROVE  AnswerPost
<1>0. TakeReply(s) /\ frag[Answered(s)].owner # Nil /\ handling' = handling
  BY Zenon DEF SReadMGet, TakeAnswer
<1>1. /\ Peer(s) \in DOMAIN msg /\ msg[Peer(s)] \in MsgType
      /\ Answered(s) \in DOMAIN frag /\ frag[Answered(s)] \in FragType /\ Answer(s).frag \in Ids
  BY <1>0, TakeReplyType, Zenon
<1> DEFINE fs   == [frag EXCEPT ![Answered(s)].done = TRUE, ![Answered(s)].rsp = Answer(s).frag]
           m    == msg[Peer(s)]
           from == {fs[g].rsp : g \in m.body}
<1>2. FragsEdited(fs)
  BY <1>1, FragAnsweredType, Zenon DEF TypeOK
<1>3. \/ Continue(s, fs, m)
      \/ 0 \notin from /\ Complete(s, fs, m, "data", from)
      \/ Complete(s, fs, m, "error", {})
  BY Zenon DEF SReadMGet
<1> HIDE DEF fs
<1>4. 0 \notin from => from \in SUBSET Ids
  BY <1>1, <1>2, FromType, Zenon DEF Ids
<1>5. CASE Continue(s, fs, m)
  BY <1>0, <1>1, <1>2, <1>5, ContinueType, Zenon
<1>6. CASE 0 \notin from /\ Complete(s, fs, m, "data", from)
  <2> HIDE DEF from
  <2> QED BY <1>0, <1>1, <1>2, <1>4, <1>6, CompleteType, Zenon
<1>7. CASE Complete(s, fs, m, "error", {})
  <2>1. {} \in SUBSET Ids
    BY Zenon
  <2> QED BY <1>0, <1>1, <1>2, <1>7, <2>1, CompleteType, Zenon
<1> QED BY <1>3, <1>5, <1>6, <1>7, Zenon

\* MSet.
LEMMA SReadMSetType ==
  ASSUME TypeOK, NEW s \in SConn, SReadMSet(s)
  PROVE  AnswerPost
<1>0. TakeReply(s) /\ frag[Answered(s)].owner # Nil /\ handling' = handling
  BY Zenon DEF SReadMSet, TakeAnswer
<1>1. /\ Peer(s) \in DOMAIN msg /\ msg[Peer(s)] \in MsgType
      /\ Answered(s) \in DOMAIN frag /\ frag[Answered(s)] \in FragType /\ Answer(s).frag \in Ids
  BY <1>0, TakeReplyType, Zenon
<1> DEFINE fs   == [frag EXCEPT ![Answered(s)].done = TRUE, ![Answered(s)].rsp = Answer(s).frag,
                                ![Answered(s)].ok = (Answer(s).kind = "data")]
           m    == msg[Peer(s)]
           from == {fs[g].rsp : g \in m.body}
<1>2. FragsEdited(fs)
  <2>1. (Answer(s).kind = "data") \in BOOLEAN
    BY Zenon
  <2> QED BY <2>1, <1>1, FragAnsweredType, Zenon DEF TypeOK
<1>3. \/ Continue(s, fs, m)
      \/ (\A g \in m.body : fs[g].ok) /\ Complete(s, fs, m, "data", from)
      \/ Complete(s, fs, m, "error", {})
  BY Zenon DEF SReadMSet
<1> HIDE DEF fs
<1>4. (\A g \in m.body : fs[g].ok) => from \in SUBSET Ids
  <2>1. m.body \subseteq DOMAIN frag
    BY <1>1, Zenon DEF TypeOK, MsgsType
  <2>2. (\A g \in m.body : fs[g].ok) => 0 \notin from
    BY <2>1, <1>2, Zenon DEF FragsEdited
  <2>3. from \in SUBSET Nat
    BY <1>1, <1>2, FromType, Zenon
  <2> HIDE DEF from
  <2> QED BY <2>2, <2>3, Zenon DEF Ids
<1>5. CASE Continue(s, fs, m)
  BY <1>0, <1>1, <1>2, <1>5, ContinueType, Zenon
<1>6. CASE (\A g \in m.body : fs[g].ok) /\ Complete(s, fs, m, "data", from)
  <2> HIDE DEF from
  <2> QED BY <1>0, <1>1, <1>2, <1>4, <1>6, CompleteType, Zenon
<1>7. CASE Complete(s, fs, m, "error", {})
  <2>1. {} \in SUBSET Ids
    BY Zenon
  <2> QED BY <1>0, <1>1, <1>2, <1>7, <2>1, CompleteType, Zenon
<1> QED BY <1>3, <1>5, <1>6, <1>7, Zenon

\* Del.
LEMMA SReadDelType ==
  ASSUME TypeOK, NEW s \in SConn, SReadDel(s)
  PROVE  AnswerPost
<1>0. TakeReply(s) /\ frag[Answered(s)].owner # Nil /\ handling' = handling
  BY Zenon DEF SReadDel, TakeAnswer
<1>1. /\ Peer(s) \in DOMAIN msg /\ msg[Peer(s)] \in MsgType
      /\ Answered(s) \in DOMAIN frag /\ frag[Answered(s)] \in FragType /\ Answer(s).frag \in Ids
  BY <1>0, TakeReplyType, Zenon
<1> DEFINE fs == [frag EXCEPT ![Answered(s)].done = TRUE]
           o  == msg[Peer(s)]
           d  == o.del \cup {Answer(s).frag}
           m  == [msg[Peer(s)] EXCEPT !.del = @ \cup {Answer(s).frag}]
<1>2. FragsEdited(fs)
  BY <1>1, FragAnsweredType, Zenon DEF TypeOK
<1>3. Continue(s, fs, m) \/ Complete(s, fs, m, "data", m.del)
  BY Zenon DEF SReadDel
<1>4. m \in MsgType /\ m.body = msg[Peer(s)].body /\ m.del \in SUBSET Ids
  <2>1. m = [o EXCEPT !.del = d] /\ o \in MsgType /\ d \in SUBSET Ids
    BY <1>1, Zenon DEF MsgType
  <2> HIDE DEF o, d, m
  <2>2. m \in MsgType /\ m.body = o.body /\ m.del = d
    BY <2>1, Zenon DEF MsgType
  <2> QED BY <2>1, <2>2, Zenon DEF o
<1> HIDE DEF fs, m
<1>5. CASE Continue(s, fs, m)
  BY <1>0, <1>2, <1>4, <1>5, ContinueType, Zenon
<1>6. CASE Complete(s, fs, m, "data", m.del)
  BY <1>0, <1>2, <1>4, <1>6, CompleteType, Zenon
<1> QED BY <1>3, <1>5, <1>6, Zenon
-----------------------------------------------------------------------------
(* The actions.  One lemma each; under it, one step per group of variables  *)
(* that the action disturbs.                                                *)

\* A request OnCReact answers itself.
LEMMA CReactImmediateType ==
  ASSUME TypeOK, ProxyAssumption, NEW c \in Client, NEW m \in freeMsgs \cup {Len(msg) + 1},
         CReactImmediate(c, m)
  PROVE  TypeOK'
<1>1. /\ control' = control /\ serverVars' = serverVars /\ timeoutVars' = timeoutVars
      /\ poolVars' = poolVars /\ redisVars' = redisVars
  BY Zenon  DEF CReactImmediate
<1>2. MsgsType' /\ FragsType' /\ Growth
  BY CReactImmediateMsgs, Zenon
<1>3. ClientsType'
  <2>0. ClientsType /\ msgId + 1 \in Ids /\ msgId + 1 \in Nat
    BY SMTT(20) DEF TypeOK, MsgsType, Ids
  <2> DEFINE r == Reply(msgId + 1, "immediate", {})
  <2>1. Append(asked[c], msgId + 1) \in Seq(Ids) /\ r \in ReplyType
    BY <2>0, SeqAppend, Zenon DEF ClientsType, Reply, ReplyType
  <2>2. /\ asked' = [asked EXCEPT ![c] = Append(@, msgId + 1)]
        /\ toClient' = [toClient EXCEPT ![c] = Append(@, r)]
        /\ inMsgQueue' = inMsgQueue \/ inMsgQueue' = [inMsgQueue EXCEPT ![c] = <<>>]
        /\ cconn' = cconn \/ cconn' = [cconn EXCEPT ![c] = "closed"]
    BY Zenon DEF CReactImmediate, CloseClient
  <2> HIDE DEF r
  <2>3. asked' \in [Client -> Seq(Ids)] /\ toClient' \in [Client -> Seq(ReplyType)]
    BY <2>0, <2>1, <2>2, SeqAppend, Zenon DEF ClientsType
  <2>4. cconn' \in [Client -> {"new", "open", "closed"}]
    BY <2>0, <2>2, Zenon DEF ClientsType
  <2>5. inMsgQueue \in [Client -> Seq(DOMAIN msg')] /\ <<>> \in Seq(DOMAIN msg')
    BY <2>0, <1>2, SeqGrow DEF Growth, ClientsType
  <2>6. inMsgQueue' \in [Client -> Seq(DOMAIN msg')]
    BY <2>2, <2>5, Zenon
  <2> QED BY <2>3, <2>4, <2>6, Zenon DEF ClientsType
<1> QED BY <1>1, <1>2, <1>3, FrameType, Zenon

\* Decode of a request.
LEMMA CReactType ==
  ASSUME TypeOK, ProxyAssumption, NEW c \in Client, NEW q \in Requests,
         NEW m \in freeMsgs \cup {Len(msg) + 1}, CReact(c, q, m)
  PROVE  TypeOK'
<1>1. /\ UNCHANGED <<status, tasks, ticks, cconn, inMsgQueue, toClient>>
      /\ serverVars' = serverVars /\ timeoutVars' = timeoutVars
      /\ poolVars' = poolVars /\ redisVars' = redisVars
      /\ asked' = [asked EXCEPT ![c] = Append(@, msgId + 1)]
  BY Zenon  DEF CReact
<1>2. MsgsType' /\ FragsType' /\ Growth /\ handling' \in ReactType'
  BY CReactMsgs, Zenon
<1>3. ClientsType'
  <2>0. ClientsType /\ msgId + 1 \in Ids
    BY SMTT(20) DEF TypeOK, MsgsType, Ids
  <2>1. Append(asked[c], msgId + 1) \in Seq(Ids)
    BY <2>0, SeqAppend, SMTT(20) DEF ClientsType
  <2>2. inMsgQueue \in [Client -> Seq(DOMAIN msg')]
    BY <2>0, <1>2, SeqGrow, Zenon DEF Growth, ClientsType
  <2> QED BY <2>0, <1>1, <2>1, <2>2, Zenon DEF ClientsType
<1>4. ControlType'
  BY <1>1, <1>2, Zenon DEF TypeOK, ControlType
<1> QED BY <1>1, <1>2, <1>3, <1>4, FrameType, Zenon

\* A frag is queued at a connection; the Msg enters the client's queue.
LEMMA DispatchType ==
  ASSUME TypeOK, ProxyAssumption, NEW f \in DOMAIN frag, NEW s \in SConn, Dispatch(f, s)
  PROVE  TypeOK'
<1>0. /\ ControlType /\ MsgsType /\ FragsType /\ ClientsType /\ ServersType
      /\ TimeoutsType /\ PoolsType /\ RedisType
  BY Zenon DEF TypeOK
<1>1. /\ UNCHANGED <<status, ticks, cconn, asked, toClient, inFragQueue, toRedis, fromRedis,
                     pools, slavePools, Slots2Node>>
      /\ timeoutVars' = timeoutVars /\ redisVars' = redisVars
      /\ PoolGet(s) /\ EnqueueOutFrag(s, f) /\ handling.op = "react"
  BY Zenon  DEF Dispatch
<1>2. /\ MsgsType' /\ FragsType' /\ Growth /\ DOMAIN frag' = DOMAIN frag /\ msg' = msg
      /\ handling' = Idle \/ handling' \in ReactType'
  BY DispatchMsgs, Zenon
<1>3. active' \in [Addr -> Seq(SConn)] /\ sconn' \in [SConn -> {"new", "open", "closed"}]
  BY <1>0, <1>1, PoolGetType, Zenon
<1>4. outFragQueue' \in [SConn -> Seq(DOMAIN frag)] /\ tasks' \in Seq(TaskType)
  BY <1>0, <1>1, EnqueueOutFragType, Zenon DEF ControlType
<1>5. ClientsType'
  <2>1. handling.client \in Client /\ handling.msg \in DOMAIN msg
    BY <1>0, <1>1, ReactHandling, Zenon DEF ReactType
  <2>2. Append(inMsgQueue[handling.client], handling.msg) \in Seq(DOMAIN msg)
    BY <1>0, <2>1, SeqAppend, Zenon DEF ClientsType
  <2>3. inMsgQueue' = [inMsgQueue EXCEPT ![handling.client] = Append(@, handling.msg)]
        \/ inMsgQueue' = inMsgQueue
    BY Zenon DEF Dispatch, EnqueueInMsg
  <2>4. inMsgQueue \in [Client -> Seq(DOMAIN msg)] /\ DOMAIN msg' = DOMAIN msg
    BY <1>0, <1>2, Zenon DEF ClientsType
  <2>5. inMsgQueue' \in [Client -> Seq(DOMAIN msg')]
    BY <2>1, <2>2, <2>3, <2>4, Zenon
  <2> QED BY <1>0, <1>1, <2>5, Zenon DEF ClientsType
<1>6. ControlType'
  BY <1>0, <1>1, <1>2, <1>4, Zenon DEF ControlType
<1>7. ServersType'
  BY <1>0, <1>1, <1>2, <1>3, <1>4, QueuesGrow, Zenon DEF ServersType
<1>8. PoolsType'
  BY <1>0, <1>1, <1>3, Zenon DEF PoolsType
<1> QED BY <1>1, <1>2, <1>5, <1>6, <1>7, <1>8, FrameType, Zenon

\* OnCReact gives up on a request.
LEMMA DispatchFailsType ==
  ASSUME TypeOK, ProxyAssumption, NEW f \in DOMAIN frag, DispatchFails(f)
  PROVE  TypeOK'
<1>0. ControlType /\ MsgsType /\ ClientsType /\ PoolsType
  BY Zenon DEF TypeOK
<1> DEFINE r == Reply(msg[handling.msg].id, "error", {})
<1>1. /\ UNCHANGED <<status, tasks, ticks, cconn, inMsgQueue, asked, pools, slavePools,
                     Slots2Node>>
      /\ serverVars' = serverVars /\ timeoutVars' = timeoutVars /\ redisVars' = redisVars
      /\ handling' = Idle /\ handling.op = "react"
      /\ toClient' = [toClient EXCEPT ![handling.client] = Append(@, r)]
  BY Zenon  DEF DispatchFails
<1>2. MsgsType' /\ FragsType' /\ Growth
  BY DispatchFailsMsgs, Zenon
<1>3. PoolsType'
  <2>1. active' = active \/ \E a : PoolGetNil(a)
    BY Zenon DEF DispatchFails
  <2>2. active' \in [Addr -> Seq(SConn)]
    BY <1>0, <2>1, PoolGetNilType, Zenon DEF PoolsType
  <2> QED BY <1>0, <1>1, <2>2, Zenon DEF PoolsType
<1>4. ClientsType'
  <2>1. handling.client \in Client /\ handling.msg \in DOMAIN msg
    BY <1>0, <1>1, ReactHandling, Zenon DEF ReactType
  <2>2. msg[handling.msg] \in MsgType
    BY <1>0, <2>1, SeqFacts, Zenon DEF MsgsType
  <2>3. r \in ReplyType
    BY <2>2, Zenon DEF Reply, ReplyType, MsgType
  <2> HIDE DEF r
  <2>4. Append(toClient[handling.client], r) \in Seq(ReplyType)
    BY <1>0, <2>1, <2>3, SeqAppend, Zenon DEF ClientsType
  <2>5. inMsgQueue \in [Client -> Seq(DOMAIN msg')]
    BY <1>0, <1>2, SeqGrow, Zenon DEF Growth, ClientsType
  <2> QED BY <1>0, <1>1, <2>1, <2>4, <2>5, Zenon DEF ClientsType
<1>5. ControlType'
  BY <1>0, <1>1, Zenon DEF ControlType
<1> QED BY <1>1, <1>2, <1>3, <1>4, <1>5, FrameType, Zenon
-----------------------------------------------------------------------------
(* TypeOK.  One lemma per action; under it, one step per group of variables *)
(* that the action disturbs.                                                *)

\* writeClusterNodes.
LEMMA WriteClusterNodesType ==
  ASSUME TypeOK, ProxyAssumption, WriteClusterNodes
  PROVE  TypeOK'
<1>0. ControlType /\ ServersType /\ frag \in Seq(FragType)
  BY Zenon  DEF TypeOK, FragsType
<1> DEFINE s == Head(tasks).conn
<1>1. /\ UNCHANGED <<status, handling, ticks, sconn, inFragQueue, toRedis, fromRedis>>
      /\ clientVars' = clientVars /\ poolVars' = poolVars /\ redisVars' = redisVars
      /\ timeoutVars' = timeoutVars
      /\ tasks # <<>> /\ Head(tasks).op = "cluster"
  BY Zenon DEF WriteClusterNodes
<1>2. MsgsType' /\ FragsType' /\ Growth
  BY WriteClusterNodesMsgs, Zenon
<1>3. Tail(tasks) \in Seq(TaskType) /\ s \in SConn
  BY <1>0, <1>1, TaskTaken, Zenon
<1>4. CASE Opened(s)
  <2>1. /\ frag' = Append(frag, NewFrag(0, Nil, 0))
        /\ outFragQueue' = [outFragQueue EXCEPT ![s] = Append(@, Len(frag) + 1)]
        /\ tasks' = Append(Tail(tasks), Task("write", s, 0))
    BY <1>4, Zenon DEF WriteClusterNodes
  <2> HIDE DEF s
  <2>2. Len(frag) + 1 \in DOMAIN frag'
    <3>1. NewFrag(0, Nil, 0) \in FragType
      BY Zenon DEF NewFrag, FragType
    <3> QED BY <1>0, <2>1, <3>1, SeqAppend
  <2>3. Task("write", s, 0) \in TaskType
    BY <1>3, Zenon DEF Task, TaskType
  <2>4. tasks' \in Seq(TaskType)
    BY <1>3, <2>1, <2>3, SeqAppend, Zenon
  <2>5. ControlType'
    BY <1>0, <1>1, <1>2, <2>4, ControlGrow, Zenon
  <2>6. Append(outFragQueue[s], Len(frag) + 1) \in Seq(DOMAIN frag')
    BY <1>0, <1>2, <1>3, <2>2, QueuesGrow, SeqAppend
  <2>7. outFragQueue' \in [SConn -> Seq(DOMAIN frag')]
    BY <1>0, <1>2, <1>3, <2>1, <2>6, QueuesGrow, Zenon
  <2>8. ServersType'
    BY <1>0, <1>1, <1>2, <2>7, QueuesGrow, Zenon DEF ServersType
  <2> QED BY <1>1, <1>2, <2>5, <2>8, FrameType, Zenon
<1>5. CASE ~Opened(s)
  <2>1. serverVars' = serverVars /\ tasks' = Tail(tasks)
    BY <1>1, <1>5, Zenon DEF WriteClusterNodes, serverVars
  <2>2. ControlType'
    BY <1>0, <1>1, <1>2, <1>3, <2>1, ControlGrow, Zenon
  <2> QED BY <1>1, <1>2, <2>1, <2>2, FrameType, Zenon
<1> QED BY <1>4, <1>5, Zenon
-----------------------------------------------------------------------------
(* Timeouts and the replies of Redis.                                       *)

\* One turn of msgTimeout.
LEMMA MsgTimeoutType ==
  ASSUME TypeOK, ProxyAssumption, NEW f \in DOMAIN timeoutTree, MsgTimeout(f)
  PROVE  TypeOK'
<1>0. ControlType /\ TimeoutsType /\ FragsType
  BY Zenon DEF TypeOK
<1>1. /\ UNCHANGED <<status, handling, ticks>>
      /\ clientVars' = clientVars /\ serverVars' = serverVars
      /\ poolVars' = poolVars /\ redisVars' = redisVars
      /\ DeleteFromTimeoutQueue({f})
      /\ tasks' = tasks \/ tasks' = Append(tasks, Task("reply", frag[f].owner, frag[f].req))
  BY Zenon DEF MsgTimeout
<1>2. MsgsType' /\ FragsType' /\ Growth
  BY MsgTimeoutMsgs, Zenon
<1>3. TimeoutsType'
  BY <1>0, <1>1, <1>2, TimeoutsDeleted, Zenon
<1>4. frag[f] \in FragType /\ frag[f].owner # Nil
  BY <1>0, SeqFacts, Zenon DEF TimeoutsType, FragsType
<1>5. frag[f].owner \in Client /\ frag[f].req \in Nat
  BY <1>4, Zenon DEF FragType
<1>6. Task("reply", frag[f].owner, frag[f].req) \in TaskType
  BY <1>5, Zenon DEF Task, TaskType
<1>7. tasks' \in Seq(TaskType)
  BY <1>0, <1>1, <1>6, SeqAppend DEF ControlType
<1>8. ControlType'
  BY <1>0, <1>1, <1>2, <1>7, ControlGrow, Zenon
<1> QED BY <1>1, <1>2, <1>3, <1>8, FrameType, Zenon

\* sread of a reply that is given to a Msg, and to the client if it was the last.
LEMMA SReadAnswersType ==
  ASSUME TypeOK, BodiesFinite, NEW s \in SConn,
         SReadTooLarge(s) \/ SReadDefault(s) \/ SReadMGet(s) \/ SReadMSet(s) \/ SReadDel(s)
  PROVE  TypeOK'
<1>1. /\ TakeReply(s) /\ UNCHANGED <<sconn, outFragQueue>>
      /\ control' = control /\ poolVars' = poolVars /\ redisVars' = redisVars
  <2>1. \E t, kinds : TakeAnswer(s, t, kinds)
    BY Zenon DEF SReadTooLarge, SReadDefault, SReadMGet, SReadMSet, SReadDel
  <2> QED BY <2>1, Zenon DEF TakeAnswer
<1>2. AnswerPost
  BY SReadTooLargeType, SReadDefaultType, SReadMGetType, SReadMSetType, SReadDelType, Zenon
<1>3. MsgsType' /\ FragsType' /\ Growth /\ ClientsType'
  BY <1>2, Zenon DEF AnswerPost
<1>4. ServersType' /\ TimeoutsType'
  BY <1>1, <1>3, ReplyTakenServers, Zenon
<1> QED BY <1>1, <1>3, <1>4, FrameType, Zenon
-----------------------------------------------------------------------------
(* Finite sets: the bodies of Msgs.                                         *)

\* The size of no frags.
LEMMA CardEmpty ==
  ASSUME FiniteSetFacts
  PROVE  IsFiniteSet({}) /\ Cardinality({}) = 0
BY Zenon DEF FiniteSetFacts

\* The frags of a new Msg.
LEMMA CardInterval ==
  ASSUME FiniteSetFacts, NEW a \in Int, NEW b \in Int
  PROVE  IsFiniteSet(a .. b)
BY Zenon DEF FiniteSetFacts
-----------------------------------------------------------------------------
(* A request is decoded.                                                    *)

\* The id of the new request is its client's and nobody else's.
LEMMA AskedNext ==
  ASSUME TypeOK, AskedOK, NEW c \in Client, msgId' = msgId + 1,
         asked' = [asked EXCEPT ![c] = Append(@, msgId + 1)], cconn[c] # "new",
         \A d \in Client : cconn'[d] = "new" => cconn[d] = "new"
  PROVE  AskedOK' /\ AskedGrow /\ msgId + 1 \in Elems(asked'[c])
<1>0. asked \in [Client -> Seq(Ids)] /\ msgId \in Nat /\ msgId + 1 \in Ids
  BY DEF TypeOK, ClientsType, MsgsType, Ids
<1>1. /\ Elems(asked'[c]) = Elems(asked[c]) \cup {msgId + 1}
      /\ \A d \in Client : d # c => asked'[d] = asked[d]
  <2>1. asked'[c] = Append(asked[c], msgId + 1) /\ asked[c] \in Seq(Ids)
    BY <1>0, Zenon
  <2> QED BY <2>1, <1>0, ElemsAppend, SMTT(20)
<1>2. \A d \in Client : \A id \in Elems(asked[d]) : id \in Nat /\ id <= msgId
  BY AskedIds, Zenon
<1>3. AskedGrow /\ msgId + 1 \in Elems(asked'[c])
  BY <1>1, Zenon DEF AskedGrow
<1>4. \A d \in Client : \A id \in Elems(asked'[d]) : id <= msgId'
  BY <1>0, <1>1, <1>2, SMTT(20)
<1>5. \A d, e \in Client : \A id \in Elems(asked'[d]) : id \in Elems(asked'[e]) => d = e
  BY <1>0, <1>1, <1>2, SMTT(20) DEF AskedOK
<1>6. \A d \in Client : cconn'[d] = "new" => asked'[d] = <<>>
  BY <1>1, Zenon DEF AskedOK
<1> QED BY <1>3, <1>4, <1>5, <1>6, Zenon DEF AskedOK

\* A reply of OnCReact itself keeps the invariant.
LEMMA CReactImmediateLife ==
  ASSUME TypeOK, TypeOK', LifeInv, NEW c \in Client, NEW m \in freeMsgs \cup {Len(msg) + 1},
         CReactImmediate(c, m)
  PROVE  LifeInv'
<1>r. PICK r : r = Reply(msgId + 1, "immediate", {})
  BY Zenon
<1>0. /\ AskedOK /\ MsgsOK(msg, freeMsgs, frag) /\ FragsOK(msg, freeMsgs, frag)
      /\ QueuesOK(msg, freeMsgs) /\ TasksOK /\ RepliesOwn
  BY Zenon DEF LifeInv
<1>1. /\ Live(msg', freeMsgs') = Live(msg, freeMsgs)
      /\ \A n \in Live(msg, freeMsgs) : msg'[n] = msg[n]
      /\ freeMsgs' = freeMsgs \cup {m} /\ msg'[m] = PutMsg
      /\ \A n \in freeMsgs : n # m => msg'[n] = msg[n]
  BY CReactImmediateFacts, Zenon
<1>2. /\ toClient' = [toClient EXCEPT ![c] = Append(@, r)]
      /\ handling.op # "react" /\ handling' = handling /\ frag' = frag /\ tasks' = tasks
      /\ cconn[c] = "open"
  BY <1>r, CReactImmediateFacts, Zenon
<1>3. /\ \A d \in Client : inMsgQueue'[d] = inMsgQueue[d] \/ inMsgQueue'[d] = <<>>
      /\ \A d \in Client : cconn'[d] = "new" => cconn[d] = "new"
  BY CReactImmediateFacts, SMTT(20) DEF TypeOK, ClientsType
<1>4. /\ msgId' = msgId + 1 /\ asked' = [asked EXCEPT ![c] = Append(@, msgId + 1)]
      /\ msgId \in Nat
  BY DEF CReactImmediate, TypeOK, MsgsType
<1>5. AskedOK' /\ AskedGrow /\ msgId + 1 \in Elems(asked'[c])
  <2>1. cconn[c] # "new"
    BY <1>2, Zenon
  <2> QED BY <2>1, <1>0, <1>3, <1>4, AskedNext, Zenon
<1>6. \A d \in Client : \A id \in Elems(asked[d]) : id \in Elems(asked'[d])
  BY <1>5, Zenon DEF AskedGrow
<1>7. MsgsOK(msg, freeMsgs, frag)'
  <2>1. \A n \in Live(msg, freeMsgs) : msg[n].id \in Nat
    BY MsgFields, Zenon DEF Live
  <2> QED BY <2>1, <1>0, <1>1, <1>2, <1>4, SMTT(30) DEF MsgsOK
<1>8. FragsOK(msg, freeMsgs, frag)'
  <2>1. \A f \in DOMAIN frag : frag[f].req \in Nat /\ (frag[f].owner # Nil => frag[f].owner \in Client)
    BY FragFields, Zenon
  <2>2. \A f \in DOMAIN frag : frag[f].req <= msgId'
    BY <2>1, <1>0, <1>4, SMTT(20) DEF FragsOK
  <2>3. \A f \in DOMAIN frag : frag[f].owner # Nil => frag[f].req \in Elems(asked'[frag[f].owner])
    BY <2>1, <1>0, <1>6, Zenon DEF FragsOK
  <2>4. \A f \in DOMAIN frag :
          frag[f].owner # Nil /\ ~frag[f].done =>
            frag[f].peer \in Live(msg', freeMsgs') /\ frag[f].req = msg'[frag[f].peer].id
    BY <1>0, <1>1, Zenon DEF FragsOK
  <2> QED BY <2>2, <2>3, <2>4, <1>2, Zenon DEF FragsOK
<1>9. QueuesOK(msg, freeMsgs)'
  <2>1. \A d \in Client : \A n \in Elems(inMsgQueue[d]) :
           n \in Live(msg', freeMsgs') /\ msg'[n].id = msg[n].id
    BY <1>0, <1>1, Zenon DEF QueuesOK, Elems
  <2> QED BY <2>1, <1>0, <1>3, <1>5, QueuesStay, Zenon
<1>10. ReactOK'
  BY <1>2, Zenon DEF ReactOK
<1>11. FragsGrow
  BY <1>2, Zenon DEF FragsGrow
<1>12. TasksOK'
  <2>1. RepliesPending
    BY <1>2, RepliesPendingSame, Zenon DEF TypeOK, ControlType
  <2> QED BY <2>1, <1>0, <1>5, TasksStay, Zenon
<1>13. RepliesOwn'
  <2>1. r \in ReplyType /\ r.id = msgId + 1 /\ r.kind # "data"
    BY <1>r, <1>4 DEF Reply, ReplyType
  <2>2. r.id \in Elems(asked'[c])
    BY <2>1, <1>5, Zenon
  <2>3. ReplyOK(r, c)'
    BY <2>1, <2>2, Zenon DEF ReplyOK
  <2> QED BY <2>1, <2>3, <1>0, <1>2, <1>5, <1>11, ReplyAdded, Zenon
<1> QED BY <1>5, <1>7, <1>8, <1>9, <1>10, <1>12, <1>13, Zenon DEF LifeInv
-----------------------------------------------------------------------------
(* Decode keeps the invariant.                                              *)

\* The new Msg waits for all its frags.
LEMMA CReactSound ==
  ASSUME FiniteSetFacts, NEW r, NEW F, r.id # 0, r.type \in Types, r.body # {}, IsFiniteSet(r.body),
         r.type = "default" \/ Single => \E f \in DOMAIN F : r.body = {f},
         ~r.done, r.ndone = 0, r.del = {},
         r.body = {f \in DOMAIN F : F[f].req = r.id}, \A f \in r.body : ~F[f].done
  PROVE  MsgSound(r, F) /\ Partial(r, F)
<1>1. DoneOf(r.body, F) = {}
  BY Zenon DEF DoneOf
<1>2. r.ndone = Cardinality(DoneOf(r.body, F))
  BY <1>1, CardEmpty, Zenon
<1>3. Gathered(r, F)
  BY <1>1, <1>2, Zenon DEF Gathered
<1>4. Partial(r, F)
  BY Zenon DEF Partial
<1> QED BY <1>3, <1>4, Zenon DEF MsgSound

\* Decoding a keyed request keeps the invariant.
LEMMA CReactLife ==
  ASSUME FiniteSetFacts, TypeOK, TypeOK', LifeInv, NEW c \in Client, NEW q \in Requests,
         NEW m \in freeMsgs \cup {Len(msg) + 1}, CReact(c, q, m)
  PROVE  LifeInv'
<1>0. /\ AskedOK /\ MsgsOK(msg, freeMsgs, frag) /\ FragsOK(msg, freeMsgs, frag)
      /\ QueuesOK(msg, freeMsgs) /\ TasksOK /\ RepliesOwn
  BY Zenon DEF LifeInv
<1>1. PICK b : b = Made
  BY Zenon
<1>2. /\ m \notin Live(msg, freeMsgs) /\ freeMsgs' = freeMsgs \ {m}
      /\ Live(msg', freeMsgs') = Live(msg, freeMsgs) \cup {m}
      /\ \A n \in DOMAIN msg : n # m => msg'[n] = msg[n]
      /\ msg'[m].id = msgId + 1 /\ msg'[m].type = q.type /\ msg'[m].body = b
      /\ ~msg'[m].done /\ msg'[m].ndone = 0 /\ msg'[m].del = {}
  BY <1>0, <1>1, CReactFacts, SMTT(20)
<1>3. /\ b = Len(frag) + 1 .. Len(frag) + Len(q.slots)
      /\ DOMAIN frag \subseteq DOMAIN frag' /\ \A f \in DOMAIN frag : frag'[f] = frag[f]
      /\ \A f \in b : \E k \in Slot : frag'[f] = NewFrag(m, k, msgId + 1)
      /\ handling' = [op |-> "react", client |-> c, msg |-> m, todo |-> b]
  BY <1>0, <1>1, CReactFacts, Zenon
<1>4. /\ cconn[c] = "open" /\ msgId' = msgId + 1 /\ msgId \in Nat
      /\ asked' = [asked EXCEPT ![c] = Append(@, msgId + 1)]
      /\ UNCHANGED <<cconn, inMsgQueue, toClient, tasks>>
  BY DEF CReact, TypeOK, MsgsType
<1>5. AskedOK' /\ AskedGrow /\ msgId + 1 \in Elems(asked'[c])
  <2>1. cconn[c] # "new" /\ \A d \in Client : cconn'[d] = "new" => cconn[d] = "new"
    BY <1>4, Zenon
  <2> QED BY <2>1, <1>0, <1>4, AskedNext, Zenon
<1>6. \A f \in b : /\ frag'[f].owner = Nil /\ ~frag'[f].done /\ frag'[f].peer = m
                   /\ frag'[f].req = msgId + 1
  <2>1. \A k \in Slot : LET n == NewFrag(m, k, msgId + 1)
                        IN n.owner = Nil /\ ~n.done /\ n.peer = m /\ n.req = msgId + 1
    BY Zenon DEF NewFrag
  <2> QED BY <1>3, <2>1, Zenon
<1>7. FragsGrow
  BY <1>1, <1>3, <1>4, <1>6, SMTT(20) DEF FragsGrow, Made
<1>8. \A f \in DOMAIN frag : /\ frag[f].req \in Nat /\ frag[f].req <= msgId
                             /\ frag[f].owner # Nil => frag[f].owner \in Client
  <2>1. \A f \in DOMAIN frag : frag[f].req <= msgId
    BY <1>0, Zenon DEF FragsOK
  <2>2. \A f \in DOMAIN frag :
          frag[f].req \in Nat /\ (frag[f].owner # Nil => frag[f].owner \in Client)
    BY FragFields, Zenon
  <2> QED BY <2>1, <2>2, Zenon
<1>9. \A n \in Live(msg, freeMsgs) :
        /\ n # m /\ msg'[n] = msg[n] /\ msg[n].id \in Nat /\ msg[n].id <= msgId
        /\ MsgSound(msg[n], frag') /\ (Partial(msg[n], frag') <=> Partial(msg[n], frag))
  <2> TAKE n \in Live(msg, freeMsgs)
  <2>1. n # m /\ n \in DOMAIN msg
    BY <1>2, Zenon DEF Live
  <2>2. msg'[n] = msg[n] /\ msg[n].id \in Nat
    BY <2>1, <1>2, MsgFields, Zenon
  <2>3. MsgSound(msg[n], frag) /\ msg[n].id <= msgId
    BY <1>0, Zenon DEF MsgsOK
  <2>4. \A f \in msg[n].body : frag'[f] = frag[f]
    BY <2>3, <1>3, Zenon DEF MsgSound
  <2> QED BY <2>1, <2>2, <2>3, <2>4, <1>7, MsgStays, Zenon
<1>10. MsgSound(msg'[m], frag') /\ Partial(msg'[m], frag')
  <2>1. PICK r : r = msg'[m]
    BY Zenon
  <2>2. /\ q.type \in Types /\ Len(q.slots) \in Nat /\ Len(q.slots) # 0
        /\ q.type = "default" \/ Single => Len(q.slots) = 1
    BY ProxyAssumption DEF Single
  <2>3. b = {f \in DOMAIN frag' : frag'[f].req = msgId + 1}
    BY <1>1, <1>3, <1>4, <1>6, <1>8, SMTT(20) DEF Made
  <2>4. Len(frag) \in Nat /\ msgId + 1 # 0
    BY <1>4 DEF TypeOK, FragsType
  <2>5. /\ r.body = b /\ r.id = msgId + 1 /\ r.type = q.type /\ ~r.done /\ r.ndone = 0 /\ r.del = {}
    BY <2>1, <1>2, Zenon
  <2>6. \A f \in b : ~frag'[f].done
    BY <1>6, Zenon
  <2>7. b # {} /\ IsFiniteSet(b)
    <3>1. Len(frag) + 1 \in b /\ Len(frag) + 1 \in Int /\ Len(frag) + Len(q.slots) \in Int
      BY <2>2, <2>4, <1>3, SMTT(20)
    <3>2. b = Len(frag) + 1 .. Len(frag) + Len(q.slots)
      BY <1>3, Zenon
    <3> QED BY <3>1, <3>2, CardInterval, Zenon
  <2>8. q.type = "default" \/ Single => \E f \in DOMAIN frag' : b = {f}
    <3>1. Len(q.slots) = 1 => b = {Len(frag) + 1}
      BY <2>4, <1>3
    <3> QED BY <3>1, <2>2, <2>3, Zenon
  <2>9. r.body = {f \in DOMAIN frag' : frag'[f].req = r.id} /\ r.id # 0
    BY <2>3, <2>4, <2>5, Zenon
  <2>10. MsgSound(r, frag') /\ Partial(r, frag')
    BY <2>2, <2>5, <2>6, <2>7, <2>8, <2>9, CReactSound, Zenon
  <2> QED BY <2>1, <2>10, Zenon
<1>11. MsgsOK(msg, freeMsgs, frag)'
  <2>0. freeMsgs \subseteq DOMAIN msg
    BY Zenon DEF TypeOK, MsgsType
  <2>1. \A n \in freeMsgs' : msg'[n] = PutMsg
    BY <2>0, <1>0, <1>2, Zenon DEF MsgsOK
  <2>2. \A n \in Live(msg', freeMsgs') : MsgSound(msg'[n], frag') /\ msg'[n].id <= msgId'
    BY <1>2, <1>4, <1>9, <1>10, SMTT(20)
  <2>3. \A n, k \in Live(msg', freeMsgs') : msg'[n].id = msg'[k].id => n = k
    BY <1>0, <1>2, <1>4, <1>9, SMTT(20) DEF MsgsOK
  <2>4. ~RequestTimeout => \A n \in Live(msg', freeMsgs') : msg'[n].done \/ Partial(msg'[n], frag')
    BY <1>0, <1>2, <1>9, <1>10, Zenon DEF MsgsOK
  <2> QED BY <2>1, <2>2, <2>3, <2>4, Zenon DEF MsgsOK
<1>12. FragsOK(msg, freeMsgs, frag)'
  <2> SUFFICES ASSUME NEW f \in DOMAIN frag'
               PROVE  /\ frag'[f].req <= msgId'
                      /\ frag'[f].owner # Nil => frag'[f].req \in Elems(asked'[frag'[f].owner])
                      /\ frag'[f].owner # Nil /\ ~frag'[f].done =>
                           frag'[f].peer \in Live(msg', freeMsgs') /\ frag'[f].req = msg'[frag'[f].peer].id
    BY Zenon DEF FragsOK
  <2>1. CASE f \in b
    BY <2>1, <1>4, <1>6, SMTT(20)
  <2>2. CASE f \notin b
    <3>1. f \in DOMAIN frag /\ frag'[f] = frag[f]
      BY <2>2, <1>1, <1>3, Zenon DEF Made
    <3>2. frag[f].req <= msgId'
      BY <3>1, <1>4, <1>8, SMTT(20)
    <3>3. frag[f].owner # Nil => frag[f].req \in Elems(asked'[frag[f].owner])
      BY <3>1, <1>0, <1>5, <1>8, Zenon DEF FragsOK, AskedGrow
    <3>4. frag[f].owner # Nil /\ ~frag[f].done =>
            frag[f].peer \in Live(msg', freeMsgs') /\ frag[f].req = msg'[frag[f].peer].id
      BY <3>1, <1>0, <1>2, <1>9, Zenon DEF FragsOK
    <3> QED BY <3>1, <3>2, <3>3, <3>4, Zenon
  <2> QED BY <2>1, <2>2, Zenon
<1>13. \A d \in Client : \A n \in Elems(inMsgQueue[d]) : n \in Live(msg, freeMsgs)
  BY <1>0, Zenon DEF QueuesOK, Elems
<1>14. QueuesOK(msg, freeMsgs)'
  <2>1. \A d \in Client : \A n \in Elems(inMsgQueue[d]) :
           n \in Live(msg', freeMsgs') /\ msg'[n].id = msg[n].id
    BY <1>2, <1>9, <1>13, Zenon
  <2>2. inMsgQueue' = inMsgQueue
    BY <1>4, Zenon
  <2> QED BY <2>1, <2>2, <1>0, <1>5, QueuesStay, Zenon
<1>15. ReactOK'
  <2>1. handling'.msg = m /\ handling'.client = c /\ handling'.todo = b
    BY <1>3, Zenon
  <2>2. b # {}
    BY <1>2, <1>10, Zenon DEF MsgSound
  <2>3. \A d \in Client : m \notin Elems(inMsgQueue'[d])
    BY <1>2, <1>4, <1>13, Zenon
  <2> QED BY <2>1, <2>2, <2>3, <1>2, <1>4, <1>5, <1>6, Zenon DEF ReactOK
<1>16. TasksOK'
  <2>1. RepliesPending
    BY <1>4, RepliesPendingSame, Zenon DEF TypeOK, ControlType
  <2> QED BY <2>1, <1>0, <1>5, TasksStay, Zenon
<1>17. RepliesOwn'
  <2>1. toClient' = toClient
    BY <1>4, Zenon
  <2> QED BY <2>1, <1>0, <1>5, <1>7, RepliesStay, Zenon
<1> QED BY <1>5, <1>11, <1>12, <1>14, <1>15, <1>16, <1>17, Zenon DEF LifeInv
-----------------------------------------------------------------------------
(* No request is answered twice.                                            *)

\* What was sent, and what is to be sent, was asked for.
LEMMA OutAsked ==
  ASSUME TypeOK, LifeInv, NEW c \in Client
  PROVE  /\ Out(c) \subseteq Elems(asked[c])
         /\ \A id \in Out(c) \cup Due : id \in Nat /\ id <= msgId
<1>1. Out(c) \subseteq Elems(asked[c])
  BY Zenon DEF Out, LifeInv, RepliesOwn
<1>2. \A id \in Due : \E d \in Client : id \in Elems(asked[d])
  <2>1. tasks \in Seq(TaskType)
    BY Zenon DEF TypeOK, ControlType
  <2>2. \A i \in DOMAIN tasks : tasks[i] \in TaskType
    BY <2>1, SeqFacts, Zenon
  <2>3. \A i \in DOMAIN tasks : tasks[i].op = "reply" => tasks[i].conn \in Client
    BY <2>2, Zenon DEF TaskType
  <2>4. \A id \in Due : \E i \in DOMAIN tasks : tasks[i].op = "reply" /\ tasks[i].id = id
    BY Zenon DEF Due, Elems
  <2>5. \A i \in DOMAIN tasks : tasks[i].op = "reply" => \E d \in Client : tasks[i].id \in Elems(asked[d])
    BY <2>3, Zenon DEF LifeInv, TasksOK
  <2> QED BY <2>4, <2>5, Zenon
<1> QED BY <1>1, <1>2, AskedIds, Zenon DEF LifeInv

\* Out of the replies that stay, and of one more.
LEMMA OutSame ==
  ASSUME NEW c \in Client, toClient'[c] = toClient[c]
  PROVE  Out(c)' = Out(c)
BY Zenon DEF Out

\* One more reply, to a request that had none.
LEMMA OutAppend ==
  ASSUME TypeOK, TypeOK', NEW c \in Client, NEW id \in Nat, NEW k \in {"error", "timeout", "immediate"},
         toClient'[c] = Append(toClient[c], Reply(id, k, {})), OnceFor(c), id \notin Out(c)
  PROVE  /\ Out(c)' = Out(c) \cup {id}
         /\ \A i, j \in DOMAIN toClient'[c] : toClient'[c][i].id = toClient'[c][j].id => i = j
<1>1. PICK q, x, p : q = toClient[c] /\ x = Reply(id, k, {}) /\ p = toClient'[c]
  BY Zenon
<1>2. q \in Seq(ReplyType) /\ x \in ReplyType /\ x.id = id /\ p = Append(q, x)
  BY <1>1, OwnReplies, Zenon DEF TypeOK, ClientsType
<1>3. DOMAIN p = DOMAIN q \cup {Len(q) + 1} /\ p[Len(q) + 1] = x /\ \A i \in DOMAIN q : p[i] = q[i]
  BY <1>2, SeqAppend, SMT
<1>4. Elems(p) = Elems(q) \cup {x}
  BY <1>3, Zenon DEF Elems
<1>5. \A i, j \in DOMAIN q : q[i].id = q[j].id => i = j
  BY <1>1, Zenon DEF OnceFor
<1>6. \A i \in DOMAIN q : q[i].id # x.id
  BY <1>1, <1>2, Zenon DEF Out, Elems
<1>7. \A i, j \in DOMAIN p : p[i].id = p[j].id => i = j
  BY <1>3, <1>5, <1>6, Zenon
<1>8. Out(c)' = {r.id : r \in Elems(p)} /\ Out(c) = {r.id : r \in Elems(q)}
  BY <1>1, Zenon DEF Out
<1>9. {r.id : r \in Elems(p)} = {r.id : r \in Elems(q)} \cup {id}
  BY <1>2, <1>4, Zenon
<1> QED BY <1>1, <1>7, <1>8, <1>9, Zenon

\* The replies to a queue, none of which was sent before.
LEMMA GetsOnce ==
  ASSUME TypeOK, TypeOK', LifeInv, NEW c \in Client, OnceFor(c), Gets(c)
  PROVE  /\ \A i, j \in DOMAIN toClient'[c] : toClient'[c][i].id = toClient'[c][j].id => i = j
         /\ Out(c)' \cap Due = {}
<1>1. PICK q, t, u, n : q = inMsgQueue[c] /\ t = toClient[c] /\ u = toClient'[c] /\ n = Len(toClient[c])
  BY Zenon
<1>2. /\ Len(u) = n + Len(q) /\ \A k \in DOMAIN t : u[k] = t[k]
      /\ \A k \in DOMAIN q : u[n + k].id = msg[q[k]].id
  BY <1>1, Zenon DEF Gets
<1>3. q \in Seq(DOMAIN msg) /\ t \in Seq(ReplyType) /\ u \in Seq(ReplyType)
  BY <1>1, Zenon DEF TypeOK, ClientsType
<1>4. /\ n \in Nat /\ DOMAIN t = 1 .. n /\ DOMAIN u = 1 .. Len(u) /\ DOMAIN q = 1 .. Len(q) /\ Len(q) \in Nat
  BY <1>1, <1>3, SeqFacts, Zenon
<1>5. \A i \in DOMAIN u : i \in DOMAIN t \/ \E k \in DOMAIN q : i = n + k /\ u[i].id = msg[q[k]].id
  <2>1. \A i \in DOMAIN u : i \in DOMAIN t \/ (i - n \in DOMAIN q /\ i = n + (i - n))
    BY <1>2, <1>4, SMT
  <2> SUFFICES ASSUME NEW i \in DOMAIN u, i \notin DOMAIN t
               PROVE  \E k \in DOMAIN q : i = n + k /\ u[i].id = msg[q[k]].id
    BY Zenon
  <2>2. PICK k \in DOMAIN q : i = n + k
    BY <2>1, Zenon
  <2> QED BY <1>2, <2>2, Zenon
<1>6. \A k \in DOMAIN q : msg[q[k]].id \notin Out(c) \cup Due
  BY <1>1, Zenon DEF OnceFor, Gets, Queued, Elems
<1>7. \A i \in DOMAIN t : t[i].id \in Out(c) /\ t[i].id \notin Due
  BY <1>1, Zenon DEF OnceFor, Out, Elems
<1>8. \A i \in DOMAIN u : u[i].id \notin Due
  BY <1>2, <1>5, <1>6, <1>7, Zenon
<1>9. Out(c)' \cap Due = {}
  BY <1>1, <1>8, Zenon DEF Out, Elems
<1>10. \A i, j \in DOMAIN q : msg[q[i]].id = msg[q[j]].id => i = j
  <2>1. \A i, j \in DOMAIN q : i < j => msg[q[i]].id < msg[q[j]].id
    BY <1>1, Zenon DEF LifeInv, QueuesOK
  <2>2. \A i \in DOMAIN q : msg[q[i]].id \in Nat
    <3>1. \A i \in DOMAIN q : q[i] \in DOMAIN msg
      BY <1>3, SeqFacts, Zenon
    <3> QED BY <3>1, MsgFields, Zenon
  <2>3. \A i, j \in DOMAIN q : i < j \/ j < i \/ i = j
    BY <1>4, SMT
  <2>4. \A x, y \in Nat : x < y => x # y
    BY SMT
  <2> QED BY <2>1, <2>2, <2>3, <2>4, Zenon
<1>11. ASSUME NEW i \in DOMAIN u, NEW j \in DOMAIN u, u[i].id = u[j].id PROVE i = j
  <2>1. CASE i \in DOMAIN t /\ j \in DOMAIN t
    BY <1>1, <1>2, <1>11, <2>1, Zenon DEF OnceFor
  <2>2. CASE i \notin DOMAIN t /\ j \notin DOMAIN t
    <3>1. PICK k \in DOMAIN q, l \in DOMAIN q :
            i = n + k /\ u[i].id = msg[q[k]].id /\ j = n + l /\ u[j].id = msg[q[l]].id
      BY <1>5, <2>2, Zenon
    <3>2. k = l
      BY <1>10, <1>11, <3>1, Zenon
    <3> QED BY <3>1, <3>2, Zenon
  <2>3. \A k \in DOMAIN u : k \in DOMAIN t => u[k].id \in Out(c)
    BY <1>2, <1>7, Zenon
  <2>4. \A k \in DOMAIN u : k \notin DOMAIN t => u[k].id \notin Out(c)
    BY <1>5, <1>6, Zenon
  <2> QED BY <1>11, <2>1, <2>2, <2>3, <2>4, Zenon
<1> QED BY <1>1, <1>9, <1>11, Zenon

\* The timeout errors that are due stay so, or one is sent.
LEMMA DueShrinks ==
  ASSUME TypeOK, TypeOK', DueOnce, RepliesPending
  PROVE  Due' \subseteq Due /\ DueOnce'
<1>1. PICK d \in {0, 1} : \A i \in DOMAIN tasks' :
        tasks'[i].op = "reply" => i + d \in DOMAIN tasks /\ tasks'[i] = tasks[i + d]
  BY Zenon DEF RepliesPending
<1>2. Due' \subseteq Due
  BY <1>1, Zenon DEF Due, Elems
<1>3. \A i, j \in DOMAIN tasks' : tasks'[i].op = "reply" /\ tasks'[j].op = "reply" /\ tasks'[i].id = tasks'[j].id
        => i + d = j + d
  BY <1>1, Zenon DEF DueOnce
<1>4. tasks' \in Seq(TaskType)
  BY Zenon DEF TypeOK, ControlType
<1>5. \A i, j \in DOMAIN tasks' : i + d = j + d => i = j
  BY <1>4, SMT
<1> QED BY <1>2, <1>3, <1>5, Zenon DEF DueOnce

\* The timeout error that is sent is due no more.
LEMMA ToldGone ==
  ASSUME TypeOK, LifeInv, DueOnce, tasks # <<>>, Head(tasks).op = "reply", tasks' = Tail(tasks)
  PROVE  Head(tasks).id \in Due /\ Head(tasks).id \notin Due'
<1>1. 1 \in DOMAIN tasks /\ Head(tasks) = tasks[1]
  BY HeadReply, Zenon
<1>2. \A i \in DOMAIN tasks' : \E j \in DOMAIN tasks : j # 1 /\ tasks'[i] = tasks[j]
  <2>1. tasks \in Seq(TaskType)
    BY Zenon DEF TypeOK, ControlType
  <2>2. \A i \in DOMAIN tasks' : i + 1 \in DOMAIN tasks /\ i + 1 # 1 /\ tasks'[i] = tasks[i + 1]
    BY <2>1, SeqHeadTail, SMT
  <2> QED BY <2>2, Zenon
<1>3. \A i \in DOMAIN tasks' : tasks'[i].op = "reply" => tasks'[i].id # tasks[1].id
  BY <1>1, <1>2, Zenon DEF DueOnce
<1>4. tasks[1].id \notin Due'
  BY <1>3, Zenon DEF Due, Elems
<1>5. tasks[1].id \in Due
  BY <1>1, Zenon DEF Due, Elems
<1> QED BY <1>1, <1>4, <1>5, Zenon

\* A Msg that stays in a queue is stuck, or has had no reply.
LEMMA StillOnce ==
  ASSUME TypeOK, LifeInv, LifeInv', MsgsStep, StuckStays, NEW c \in Client, OnceFor(c),
         NEW m \in Queued(c), m \in Queued(c)'
  PROVE  Stuck(m, msg, freeMsgs, frag)' \/ (msg'[m].id = msg[m].id /\ msg[m].id \notin Out(c) \cup Due)
<1>1. Stuck(m, msg, freeMsgs, frag) \/ msg[m].id \notin Out(c) \cup Due
  BY Zenon DEF OnceFor
<1>2. m \in DOMAIN msg
  BY Zenon DEF LifeInv, QueuesOK, Queued, Elems, Live
<1>3. msg'[m].id = msg[m].id
  BY QueuedKept, Zenon
<1> QED BY <1>1, <1>2, <1>3, Zenon DEF StuckStays

\* The ids of the Msgs in a queue.
LEMMA QueuedIds ==
  ASSUME TypeOK, LifeInv, NEW c \in Client, NEW m \in Queued(c)
  PROVE  /\ m \in Live(msg, freeMsgs) /\ msg[m].id \in Nat /\ msg[m].id <= msgId
         /\ handling.op = "react" => msg[m].id # msgId
<1>1. m \in Live(msg, freeMsgs)
  BY Zenon DEF LifeInv, QueuesOK, Queued, Elems
<1>2. msg[m].id \in Nat
  BY <1>1, MsgFields, Zenon DEF Live
<1>3. msg[m].id <= msgId
  BY <1>1, Zenon DEF LifeInv, MsgsOK
<1>4. ASSUME handling.op = "react" PROVE msg[m].id # msgId
  <2>1. handling.msg \in Live(msg, freeMsgs) /\ msg[handling.msg].id = msgId /\ handling.msg # m
    BY <1>4, Zenon DEF LifeInv, ReactOK, Queued
  <2> QED BY <1>1, <2>1, Zenon DEF LifeInv, MsgsOK
<1> QED BY <1>1, <1>2, <1>3, <1>4, Zenon

\* One more reply to a request that had none and that is not in the queue.
LEMMA TellsOnce ==
  ASSUME TypeOK, TypeOK', LifeInv, LifeInv', MsgsStep, StuckStays, NEW c \in Client, OnceFor(c), Due' \subseteq Due,
         NEW id \in Nat, NEW k \in {"error", "timeout", "immediate"},
         toClient'[c] = Append(toClient[c], Reply(id, k, {})), ~Reacting(c)',
         id \notin Out(c) \cup Due', inMsgQueue'[c] = inMsgQueue[c] \/ inMsgQueue'[c] = <<>>,
         \A m \in Queued(c) : Stuck(m, msg, freeMsgs, frag)' \/ msg[m].id # id
  PROVE  OnceFor(c)'
<1>1. /\ Out(c)' = Out(c) \cup {id}
      /\ \A i, j \in DOMAIN toClient'[c] : toClient'[c][i].id = toClient'[c][j].id => i = j
  BY OutAppend, Zenon
<1>2. Out(c)' \cap Due' = {}
  BY <1>1, Zenon DEF OnceFor
<1>3. Queued(c)' \subseteq Queued(c)
  BY QueueStays, Zenon
<1>4. \A m \in Queued(c)' : Stuck(m, msg, freeMsgs, frag)' \/ msg'[m].id \notin Out(c)' \cup Due'
  BY <1>1, <1>3, StillOnce, Zenon
<1> QED BY <1>1, <1>2, <1>4, Zenon DEF OnceFor

\* Of one client, every step that adds no timeout error to the tasks.
LEMMA ClientOnce ==
  ASSUME TypeOK, TypeOK', LifeInv, LifeInv', MsgsStep, StuckStays, DueOnce, Due' \subseteq Due,
         NEW c \in Client, OnceFor(c), ClientStep(c)
  PROVE  OnceFor(c)'
<1>0. /\ \A i, j \in DOMAIN toClient[c] : toClient[c][i].id = toClient[c][j].id => i = j
      /\ Out(c) \cap Due' = {}
      /\ \A id \in Out(c) \cup Due : id \in Nat /\ id <= msgId
      /\ msgId \in Nat /\ msgId + 1 \in Nat
  <2>1. msgId \in Nat /\ msgId + 1 \in Nat
    BY ProxyAssumption, SMT DEF TypeOK, MsgsType
  <2> QED BY <2>1, OutAsked, Zenon DEF OnceFor
<1>1. msgId + 1 \notin Out(c) \cup Due
  BY <1>0, SMT
<1>2. CASE Rests(c) \/ Leaves(c) \/ Asks(c) \/ Joins(c)
  <2>1. toClient'[c] = toClient[c] /\ Out(c)' = Out(c)
    BY <1>2, OutSame, Zenon DEF Rests, Leaves, Asks, Joins
  <2>2. ASSUME NEW m \in Queued(c)' PROVE Stuck(m, msg, freeMsgs, frag)' \/ msg'[m].id \notin Out(c)' \cup Due'
    <3>1. CASE m \in Queued(c)
      BY <2>1, <3>1, StillOnce, Zenon
    <3>2. CASE m \notin Queued(c)
      <4>1. Joins(c)
        BY <1>2, <3>2, QueueStays, Zenon DEF Rests, Leaves, Asks
      <4>2. PICK n, q, p : n = handling.msg /\ q = inMsgQueue[c] /\ p = inMsgQueue'[c]
        BY Zenon
      <4>3. q \in Seq(DOMAIN msg) /\ n \in DOMAIN msg /\ p = Append(q, n) /\ msg[n].id = msgId
        BY <4>1, <4>2, Zenon DEF TypeOK, ClientsType, LifeInv, ReactOK, Live, Joins, Reacting
      <4>4. Elems(p) = Elems(q) \cup {n}
        BY <4>3, ElemsAppend, SMT
      <4>5. m = n
        BY <3>2, <4>2, <4>4, Zenon DEF Queued
      <4>6. msg' = msg /\ msgId \notin Out(c) \cup Due
        BY <4>1, Zenon DEF Joins, OnceFor
      <4> QED BY <2>1, <4>3, <4>5, <4>6, Zenon
    <3> QED BY <3>1, <3>2, Zenon
  <2>3. ASSUME Reacting(c)' PROVE msgId' \notin Out(c)' \cup Due'
    <3>1. CASE Rests(c)
      BY <2>1, <2>3, <3>1, Zenon DEF Rests, OnceFor
    <3>2. CASE Asks(c)
      BY <1>1, <2>1, <3>2, Zenon DEF Asks
    <3> QED BY <1>2, <2>3, <3>1, <3>2, Zenon DEF Leaves, Joins
  <2> QED BY <1>0, <2>1, <2>2, <2>3, Zenon DEF OnceFor
<1>3. CASE Refused(c)
  <2>1. /\ toClient'[c] = Append(toClient[c], Reply(msgId, "error", {})) /\ inMsgQueue'[c] = inMsgQueue[c]
        /\ ~Reacting(c)' /\ Reacting(c)
    BY <1>3, Zenon DEF Refused
  <2>2. msgId \notin Out(c) \cup Due'
    BY <2>1, Zenon DEF OnceFor
  <2>3. \A m \in Queued(c) : msg[m].id # msgId
    BY <2>1, QueuedIds, Zenon DEF Reacting
  <2> QED BY <1>0, <2>1, <2>2, <2>3, TellsOnce, Zenon
<1>4. CASE Immediate(c)
  <2>1. /\ toClient'[c] = Append(toClient[c], Reply(msgId + 1, "immediate", {})) /\ ~Reacting(c)'
        /\ inMsgQueue'[c] = inMsgQueue[c] \/ inMsgQueue'[c] = <<>>
    BY <1>4, Zenon DEF Immediate
  <2>2. \A m \in Queued(c) : msg[m].id # msgId + 1
    <3>1. \A m \in Queued(c) : msg[m].id \in Nat /\ msg[m].id <= msgId
      BY QueuedIds, Zenon
    <3> QED BY <1>0, <3>1, SMT
  <2> QED BY <1>0, <1>1, <2>1, <2>2, TellsOnce, Zenon
<1>5. CASE Told(c)
  <2>1. PICK h : h = Head(tasks).id
    BY Zenon
  <2>2. /\ toClient'[c] = Append(toClient[c], Reply(h, "timeout", {})) /\ inMsgQueue'[c] = inMsgQueue[c]
        /\ ~Reacting(c)'
    BY <1>5, <2>1, Zenon DEF Told
  <2>3. h \in Nat /\ h \in Due /\ h \notin Due'
    BY <1>5, <2>1, HeadReply, ToldGone, Zenon DEF Told
  <2>4. h \notin Out(c)
    BY <2>3, Zenon DEF OnceFor
  <2>5. \A m \in Queued(c) : Stuck(m, msg, freeMsgs, frag)' \/ msg[m].id # h
    <3>1. Queued(c)' = Queued(c)
      BY <2>2, QueueStays, Zenon
    <3> QED BY <2>3, <3>1, StillOnce, Zenon
  <2> QED BY <2>2, <2>3, <2>4, <2>5, TellsOnce, Zenon
<1>6. CASE Gets(c)
  <2>1. ~Reacting(c)' /\ Queued(c)' = {}
    BY <1>6, QueueStays, Zenon DEF Gets
  <2>2. /\ \A i, j \in DOMAIN toClient'[c] : toClient'[c][i].id = toClient'[c][j].id => i = j
        /\ Out(c)' \cap Due = {}
    BY <1>6, GetsOnce, Zenon
  <2> QED BY <2>1, <2>2, Zenon DEF OnceFor
<1> QED BY <1>2, <1>3, <1>4, <1>5, <1>6, Zenon DEF ClientStep

\* The request msgTimeout gives up on: it waits in the queue of its client, has had
\* no reply, and is stuck from now on.
LEMMA TimedOutMsg ==
  ASSUME TypeOK, LifeInv, OwedInv, OnceInv, NEW f \in DOMAIN timeoutTree, TimedOut(f)
  PROVE  \E c \in Client : \E p \in Queued(c) :
           /\ c = frag[f].owner /\ msg[p].id = frag[f].req /\ frag[f].req \in Nat
           /\ frag[f].req \in Elems(asked[c]) /\ frag[f].req \notin Out(c) \cup Due
           /\ Stuck(p, msg, freeMsgs, frag)'
<1>1. /\ f \in DOMAIN frag /\ frag[f].owner # Nil /\ ~frag[f].done /\ cconn[frag[f].owner] = "open"
      /\ frag' = AllDone(msg[frag[f].peer].body) /\ handling.op # "react" /\ msg' = msg /\ freeMsgs' = freeMsgs
  BY IdleNotReact, Zenon DEF TimedOut, TypeOK, TimeoutsType
<1>2. PICK c, p : c = frag[f].owner /\ p = frag[f].peer
  BY Zenon
<1>3. /\ p \in Live(msg, freeMsgs) /\ c \in Client /\ MsgSound(msg[p], frag) /\ f \in msg[p].body
      /\ frag[f].req \in Elems(asked[c])
  BY <1>1, <1>2, UndoneFrag, Zenon DEF LifeInv
<1>4. p \in Queued(c) /\ frag[f].req = msg[p].id
  BY <1>1, <1>2, Zenon DEF OwedInv, LifeInv, FragsOK
<1>5. ~Stuck(p, msg, freeMsgs, frag)
  BY <1>1, <1>3, Zenon DEF Stuck, Partial
<1>6. msg[p].id \notin Out(c) \cup Due
  BY <1>3, <1>4, <1>5, Zenon DEF OnceInv, OnceFor
<1>7. Stuck(p, msg, freeMsgs, frag)'
  <2>1. ~msg[p].done
    BY <1>1, <1>3, Zenon DEF MsgSound, Finished
  <2>2. Marked(frag, frag', msg[p].body) /\ msg[p].body \subseteq DOMAIN frag
    BY <1>1, <1>2, <1>3, AllDoneMarked, Zenon DEF TypeOK, MsgsType, Live
  <2>3. \A g \in msg[p].body : frag'[g].done
    BY <2>2, Zenon DEF Marked
  <2> QED BY <1>1, <1>3, <2>1, <2>3, Zenon DEF Stuck, Partial
<1>8. frag[f].req \in Nat
  BY <1>3, AskedIds, Zenon DEF LifeInv
<1> QED BY <1>2, <1>3, <1>4, <1>6, <1>7, <1>8, Zenon

\* msgTimeout gives up on a request.
LEMMA TimedOutOnce ==
  ASSUME TypeOK, LifeInv, OwedInv, OnceInv, StuckStays, NEW f \in DOMAIN timeoutTree, TimedOut(f)
  PROVE  OnceInv'
<1>0. PICK id : id = frag[f].req
  BY Zenon
<1>1. PICK d \in Client : \E p \in Queued(d) :
        /\ d = frag[f].owner /\ msg[p].id = id /\ id \in Nat
        /\ id \in Elems(asked[d]) /\ id \notin Out(d) \cup Due
        /\ Stuck(p, msg, freeMsgs, frag)'
  BY <1>0, TimedOutMsg, Zenon
<1> PICK p \in Queued(d) : msg[p].id = id /\ Stuck(p, msg, freeMsgs, frag)'
  BY <1>1, Zenon
<1>2. /\ tasks' = Append(tasks, Task("reply", d, id)) /\ handling.op # "react"
      /\ UNCHANGED <<handling, msg, freeMsgs, msgId, cconn, inMsgQueue, asked, toClient>>
  BY <1>0, <1>1, IdleNotReact, Zenon DEF TimedOut
<1>3. Due' = Due \cup {id} /\ DueOnce'
  <2>1. PICK x : x = Task("reply", d, id)
    BY Zenon
  <2>2. x \in TaskType /\ x.op = "reply" /\ x.id = id /\ tasks \in Seq(TaskType) /\ tasks' = Append(tasks, x)
    BY <1>1, <1>2, <2>1, Zenon DEF Task, TaskType, TypeOK, ControlType
  <2>3. /\ DOMAIN tasks' = DOMAIN tasks \cup {Len(tasks) + 1} /\ tasks'[Len(tasks) + 1] = x
        /\ \A i \in DOMAIN tasks : tasks'[i] = tasks[i]
    BY <2>2, SeqAppend, SMT
  <2>4. \A i \in DOMAIN tasks : tasks[i].op = "reply" => tasks[i].id # id
    BY <1>1, Zenon DEF Due, Elems
  <2>5. \A i, j \in DOMAIN tasks :
          tasks[i].op = "reply" /\ tasks[j].op = "reply" /\ tasks[i].id = tasks[j].id => i = j
    BY Zenon DEF OnceInv, DueOnce
  <2>6. DueOnce'
    <3>1. \A i \in DOMAIN tasks' : i # Len(tasks) + 1 =>
            i \in DOMAIN tasks /\ tasks'[i] = tasks[i] /\ (tasks'[i].op = "reply" => tasks'[i].id # id)
      BY <2>3, <2>4, Zenon
    <3>2. tasks'[Len(tasks) + 1].id = id
      BY <2>2, <2>3, Zenon
    <3> QED BY <2>5, <3>1, <3>2, Zenon DEF DueOnce
  <2>7. Elems(tasks') = Elems(tasks) \cup {x}
    BY <2>3, Zenon DEF Elems
  <2>8. Due' = Due \cup {id}
    BY <2>2, <2>7, Zenon DEF Due
  <2> QED BY <2>6, <2>8, Zenon
<1>4. ASSUME NEW c \in Client PROVE OnceFor(c)'
  <2>1. /\ OnceFor(c) /\ Out(c)' = Out(c) /\ Queued(c)' = Queued(c) /\ ~Reacting(c)'
    BY <1>2, Zenon DEF OnceInv, Out, Queued, Reacting
  <2>2. id \notin Out(c)
    <3>1. Out(c) \subseteq Elems(asked[c])
      BY OutAsked, Zenon
    <3> QED BY <1>1, <3>1, Zenon DEF LifeInv, AskedOK
  <2>3. Out(c)' \cap Due' = {}
    BY <1>3, <2>1, <2>2, Zenon DEF OnceFor
  <2>4. ASSUME NEW m \in Queued(c)' PROVE Stuck(m, msg, freeMsgs, frag)' \/ msg'[m].id \notin Out(c)' \cup Due'
    <3>1. m \in Live(msg, freeMsgs) /\ p \in Live(msg, freeMsgs) /\ m \in Queued(c)
      BY <1>1, <2>1, <2>4, QueuedIds, Zenon
    <3>2. CASE Stuck(m, msg, freeMsgs, frag)
      BY <3>1, <3>2, Zenon DEF StuckStays, Live
    <3>3. CASE m = p
      BY <1>1, <3>3, Zenon
    <3>4. CASE m # p /\ ~Stuck(m, msg, freeMsgs, frag)
      <4>1. msg[m].id # id
        BY <1>1, <3>1, <3>4, Zenon DEF LifeInv, MsgsOK
      <4>2. msg[m].id \notin Out(c) \cup Due
        BY <2>1, <3>1, <3>4, Zenon DEF OnceFor
      <4> QED BY <1>2, <1>3, <2>1, <4>1, <4>2, Zenon
    <3> QED BY <3>2, <3>3, <3>4, Zenon
  <2>5. \A i, j \in DOMAIN toClient'[c] : toClient'[c][i].id = toClient'[c][j].id => i = j
    BY <1>2, <2>1, Zenon DEF OnceFor
  <2> QED BY <2>1, <2>3, <2>4, <2>5, Zenon DEF OnceFor
<1> QED BY <1>3, <1>4, Zenon DEF OnceInv

\* Every step answers a request once at most.
LEMMA NextOnce ==
  ASSUME TypeOK, TypeOK', LifeInv, LifeInv', MsgsStep, TasksStep, StuckStays, OwedInv, OnceInv,
         \A c \in Client : ClientStep(c)
  PROVE  OnceInv'
<1>1. CASE RepliesPending
  <2>1. Due' \subseteq Due /\ DueOnce' /\ DueOnce
    BY <1>1, DueShrinks, Zenon DEF OnceInv
  <2> QED BY <2>1, ClientOnce, Zenon DEF OnceInv
<1> QED BY <1>1, TimedOutOnce, Zenon DEF TasksStep

\* The invariant is what AtMostOnce needs.
LEMMA OnceImplies == OnceInv => AtMostOnce
BY Zenon DEF OnceInv, OnceFor, AtMostOnce

\* The frags of a Msg can be counted: sread compares their number with
\* FragDoneNumber.
LEMMA BodiesAreFinite ==
  ASSUME FiniteSetFacts, TypeOK
  PROVE  BodiesFinite
<1> SUFFICES ASSUME NEW m \in DOMAIN msg
             PROVE  Cardinality(msg[m].body) \in Nat
  BY Zenon DEF BodiesFinite
<1>1. msg[m].body \subseteq DOMAIN frag /\ frag \in Seq(FragType)
  BY Zenon DEF TypeOK, MsgsType, FragsType
<1>2. DOMAIN frag = 1 .. Len(frag) /\ Len(frag) \in Int /\ 1 \in Int
  BY <1>1
<1>3. IsFiniteSet(1 .. Len(frag))
  BY <1>2, Zenon DEF FiniteSetFacts
<1>4. IsFiniteSet(msg[m].body)
  BY <1>1, <1>2, <1>3, Zenon DEF FiniteSetFacts
<1> QED BY <1>4, Zenon DEF FiniteSetFacts
=============================================================================

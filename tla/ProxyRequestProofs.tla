------------------------- MODULE ProxyRequestProofs -------------------------
(***************************************************************************)
(* LifeInv is kept by OnCReact's loop, by the replies of Redis and by      *)
(* their delivery to the clients.  Then the order of the replies: DataInv  *)
(* and OrderInv are kept.                                                  *)
(***************************************************************************)
EXTENDS ProxyLemmas

USE DEF vars, control, msgVars, clientVars, serverVars, timeoutVars, poolVars, redisVars
-----------------------------------------------------------------------------
(* OnCReact's loop.                                                         *)

\* The Msg that enters the queue of its client is the latest one.
LEMMA QueueGrows ==
  ASSUME TypeOK, LifeInv, handling.op = "react", handling \in ReactType,
         UNCHANGED <<msg, freeMsgs, asked>>,
         inMsgQueue' = [inMsgQueue EXCEPT ![handling.client] = Append(@, handling.msg)]
  PROVE  QueuesOK(msg, freeMsgs)'
<1>1. PICK c \in Client, m \in DOMAIN msg : c = handling.client /\ m = handling.msg
  BY Zenon DEF ReactType
<1>2. QueuesOK(msg, freeMsgs) /\ MsgsOK(msg, freeMsgs, frag) /\ ReactOK
  BY Zenon DEF LifeInv
<1>3. /\ m \in Live(msg, freeMsgs) /\ msg[m].id = msgId /\ msgId \in Elems(asked[c])
      /\ \A d \in Client : m \notin Elems(inMsgQueue[d])
  BY <1>1, <1>2, Zenon DEF ReactOK
<1>4. /\ inMsgQueue \in [Client -> Seq(DOMAIN msg)] /\ inMsgQueue[c] \in Seq(DOMAIN msg)
      /\ msgId \in Nat /\ DOMAIN inMsgQueue[c] = 1 .. Len(inMsgQueue[c]) /\ Len(inMsgQueue[c]) \in Nat
  BY SeqFacts, SMTT(20) DEF TypeOK, ClientsType, MsgsType
<1>5. inMsgQueue'[c] = Append(inMsgQueue[c], m) /\ \A d \in Client : d # c => inMsgQueue'[d] = inMsgQueue[d]
  BY <1>1, <1>4, Zenon
<1>6. /\ DOMAIN inMsgQueue'[c] = DOMAIN inMsgQueue[c] \cup {Len(inMsgQueue[c]) + 1}
      /\ \A i \in DOMAIN inMsgQueue[c] : inMsgQueue'[c][i] = inMsgQueue[c][i]
      /\ inMsgQueue'[c][Len(inMsgQueue[c]) + 1] = m
  BY <1>4, <1>5, SeqAppend, SMTT(20)
<1>7. \A i \in DOMAIN inMsgQueue[c] : msg[inMsgQueue[c][i]].id < msgId
  <2> SUFFICES ASSUME NEW i \in DOMAIN inMsgQueue[c] PROVE msg[inMsgQueue[c][i]].id < msgId
    BY Zenon
  <2>1. inMsgQueue[c][i] \in Live(msg, freeMsgs) /\ inMsgQueue[c][i] # m
    BY <1>2, <1>3, Zenon DEF QueuesOK, Elems
  <2>2. msg[inMsgQueue[c][i]].id <= msgId /\ msg[inMsgQueue[c][i]].id # msgId
    BY <2>1, <1>2, <1>3, Zenon DEF MsgsOK
  <2>3. msg[inMsgQueue[c][i]].id \in Nat
    BY <2>1, MsgFields, Zenon DEF Live
  <2> QED BY <2>2, <2>3, <1>4, SMTT(20)
<1>8. ASSUME NEW d \in Client, NEW i \in DOMAIN inMsgQueue'[d]
      PROVE  /\ inMsgQueue'[d][i] \in Live(msg, freeMsgs)
             /\ msg[inMsgQueue'[d][i]].id \in Elems(asked[d])
             /\ \A j \in DOMAIN inMsgQueue'[d] :
                  i < j => msg[inMsgQueue'[d][i]].id < msg[inMsgQueue'[d][j]].id
  <2>1. CASE d # c
    BY <2>1, <1>8, <1>5, <1>2, Zenon DEF QueuesOK
  <2>2. CASE d = c /\ i \in DOMAIN inMsgQueue[c]
    BY <2>2, <1>2, <1>3, <1>6, <1>7, SMTT(30) DEF QueuesOK
  <2>3. CASE d = c /\ i = Len(inMsgQueue[c]) + 1
    BY <2>3, <1>3, <1>4, <1>6, SMTT(30)
  <2> QED BY <2>1, <2>2, <2>3, <1>6, <1>8, Zenon
<1>9. msg' = msg /\ freeMsgs' = freeMsgs /\ asked' = asked
  BY Zenon
<1> QED BY <1>8, <1>9, Zenon DEF QueuesOK

\* A turn of the loop keeps the invariant.
LEMMA DispatchLife ==
  ASSUME TypeOK, TypeOK', LifeInv, NEW f \in DOMAIN frag, NEW s \in SConn, Dispatch(f, s)
  PROVE  LifeInv'
<1>0. /\ AskedOK /\ MsgsOK(msg, freeMsgs, frag) /\ FragsOK(msg, freeMsgs, frag)
      /\ QueuesOK(msg, freeMsgs) /\ ReactOK /\ TasksOK /\ RepliesOwn
  BY Zenon DEF LifeInv
<1>1. handling.op = "react" /\ handling \in ReactType /\ f \in handling.todo
  BY DispatchFacts, Zenon
<1>2. /\ DOMAIN frag' = DOMAIN frag /\ frag'[f].owner = handling.client
      /\ \A g \in DOMAIN frag :
           /\ g # f => frag'[g] = frag[g]
           /\ frag'[g].req = frag[g].req /\ frag'[g].done = frag[g].done
           /\ frag'[g].rsp = frag[g].rsp /\ frag'[g].peer = frag[g].peer
  BY DispatchFacts, Zenon
<1>3. msg' = msg /\ freeMsgs' = freeMsgs /\ msgId' = msgId /\ asked' = asked
  BY DispatchFacts, Zenon
<1>4. toClient' = toClient /\ cconn' = cconn /\ RepliesPending
  BY DispatchFacts, Zenon
<1>5. PICK c \in Client, m \in DOMAIN msg : c = handling.client /\ m = handling.msg
  BY <1>1, Zenon DEF ReactType
<1>6. /\ m \in Live(msg, freeMsgs) /\ msg[m].id = msgId /\ msgId \in Elems(asked[c])
      /\ cconn[c] = "open" /\ handling.todo \subseteq msg[m].body
      /\ \A d \in Client : m \notin Elems(inMsgQueue[d])
  BY <1>0, <1>1, <1>5, Zenon DEF ReactOK
<1>7. /\ \A g \in handling.todo : frag[g].owner = Nil /\ ~frag[g].done /\ frag[g].peer = m
      /\ \A g \in msg[m].body \ handling.todo : frag[g].owner = c
  BY <1>0, <1>1, <1>5, Zenon DEF ReactOK
<1>8. FragsGrow /\ AskedGrow
  <2>1. FragsGrow
    BY <1>2, Zenon DEF FragsGrow
  <2>2. AskedGrow
    BY <1>3, Zenon DEF AskedGrow
  <2> QED BY <2>1, <2>2, Zenon
<1>9. \A n \in Live(msg, freeMsgs) :
        MsgSound(msg[n], frag) /\ MsgSound(msg[n], frag') /\ (Partial(msg[n], frag') <=> Partial(msg[n], frag))
  <2> SUFFICES ASSUME NEW n \in Live(msg, freeMsgs)
               PROVE  /\ MsgSound(msg[n], frag) /\ MsgSound(msg[n], frag')
                      /\ Partial(msg[n], frag') <=> Partial(msg[n], frag)
    BY Zenon
  <2>1. MsgSound(msg[n], frag) /\ msg[n].id <= msgId /\ msg[n].id \in Nat
    BY <1>0, MsgFields, Zenon DEF MsgsOK, Live
  <2>2. \A g \in msg[n].body : frag'[g].done = frag[g].done /\ frag'[g].rsp = frag[g].rsp
    BY <2>1, <1>2, Zenon DEF MsgSound
  <2> QED BY <2>1, <2>2, <1>8, MsgStays, Zenon
<1>10. MsgsOK(msg, freeMsgs, frag)'
  BY <1>0, <1>3, <1>9, Zenon DEF MsgsOK
<1>11. msg[m].body \subseteq DOMAIN frag /\ \A g \in msg[m].body : frag[g].req = msgId
  BY <1>6, <1>9, Zenon DEF MsgSound
<1>12. FragsOK(msg, freeMsgs, frag)'
  <2>1. frag[f].req = msgId /\ frag[f].peer = m /\ msgId <= msgId
    BY <1>1, <1>6, <1>7, <1>11, SMTT(30) DEF TypeOK, MsgsType
  <2> QED BY <2>1, <1>0, <1>2, <1>3, <1>5, <1>6, SMTT(20) DEF FragsOK
<1>13. AskedOK'
  BY <1>0, <1>3, <1>4, Zenon DEF AskedOK
<1>14. TasksOK' /\ RepliesOwn'
  BY <1>0, <1>4, <1>8, TasksStay, RepliesStay, Zenon
<1>15. CASE handling.todo = {f}
  <2>1. handling' = Idle /\ inMsgQueue' = [inMsgQueue EXCEPT ![handling.client] = Append(@, handling.msg)]
    BY <1>15, Zenon DEF Dispatch, EnqueueInMsg
  <2>2. QueuesOK(msg, freeMsgs)'
    BY <2>1, <1>1, <1>3, QueueGrows, Zenon
  <2>3. ReactOK'
    BY <2>1, IdleNotReact, Zenon DEF ReactOK
  <2> QED BY <2>2, <2>3, <1>10, <1>12, <1>13, <1>14, Zenon DEF LifeInv
<1>16. CASE handling.todo # {f}
  <2>1. handling' = [handling EXCEPT !.todo = @ \ {f}] /\ inMsgQueue' = inMsgQueue
    BY <1>16, Zenon DEF Dispatch
  <2>2. QueuesOK(msg, freeMsgs)'
    BY <2>1, <1>0, <1>3, Zenon DEF QueuesOK
  <2>3. /\ handling'.op = "react" /\ handling'.client = c /\ handling'.msg = m
        /\ handling'.todo = handling.todo \ {f}
    BY <2>1, <1>1, <1>5, Zenon DEF ReactType
  <2>4. handling'.todo # {} /\ handling'.todo \subseteq msg[m].body
    BY <2>3, <1>1, <1>6, <1>16, Zenon
  <2>5. \A g \in handling'.todo : frag'[g].owner = Nil /\ ~frag'[g].done /\ frag'[g].peer = m
    BY <2>3, <2>4, <1>2, <1>7, <1>11, Zenon
  <2>6. \A g \in msg[m].body \ handling'.todo : frag'[g].owner = c
    BY <2>3, <1>2, <1>5, <1>7, <1>11, Zenon
  <2>7. ReactOK'
    BY <2>1, <2>3, <2>4, <2>5, <2>6, <1>3, <1>4, <1>6, Zenon DEF ReactOK
  <2> QED BY <2>2, <2>7, <1>10, <1>12, <1>13, <1>14, Zenon DEF LifeInv
<1> QED BY <1>15, <1>16, Zenon

\* The loop gives up on a request none of whose frags it has dispatched: nothing
\* refers to the Msg it puts back.
LEMMA DispatchFailsLife ==
  ASSUME TypeOK, TypeOK', LifeInv, NEW f \in DOMAIN frag, DispatchFails(f),
         handling.todo = msg[handling.msg].body
  PROVE  LifeInv'
<1>0. /\ AskedOK /\ MsgsOK(msg, freeMsgs, frag) /\ FragsOK(msg, freeMsgs, frag)
      /\ QueuesOK(msg, freeMsgs) /\ ReactOK /\ TasksOK /\ RepliesOwn
  BY Zenon DEF LifeInv
<1>1. handling.op = "react" /\ handling \in ReactType
  BY ReactHandling, Zenon DEF DispatchFails, TypeOK
<1>2. PICK c \in Client, m \in DOMAIN msg : c = handling.client /\ m = handling.msg
  BY <1>1, Zenon DEF ReactType
<1>3. PICK r : r = Reply(msg[m].id, "error", {})
  BY Zenon
<1>4. /\ toClient' = [toClient EXCEPT ![c] = Append(@, r)]
      /\ msg' = [msg EXCEPT ![m] = PutMsg] /\ freeMsgs' = freeMsgs \cup {m}
      /\ handling' = Idle
  BY <1>2, <1>3, Zenon DEF DispatchFails
<1>5. UNCHANGED <<tasks, msgId, frag, cconn, inMsgQueue, asked>>
  BY Zenon  DEF DispatchFails
<1>6. /\ m \in Live(msg, freeMsgs) /\ msg[m].id = msgId /\ msgId \in Elems(asked[c])
      /\ \A g \in msg[m].body : frag[g].owner = Nil
      /\ \A d \in Client : m \notin Elems(inMsgQueue[d])
  BY <1>0, <1>1, <1>2, Zenon DEF ReactOK
<1>7. /\ Live(msg', freeMsgs') = Live(msg, freeMsgs) \ {m} /\ msg'[m] = PutMsg
      /\ \A n \in DOMAIN msg : n # m => msg'[n] = msg[n]
  <2>1. DOMAIN msg' = DOMAIN msg /\ msg'[m] = PutMsg /\ \A n \in DOMAIN msg : n # m => msg'[n] = msg[n]
    BY <1>4, Zenon
  <2> QED BY <2>1, <1>4, Zenon DEF Live
<1>8. FragsGrow /\ AskedGrow
  <2>1. FragsGrow
    BY <1>5, Zenon DEF FragsGrow
  <2>2. AskedGrow
    BY <1>5, Zenon DEF AskedGrow
  <2> QED BY <2>1, <2>2, Zenon
<1>9. MsgsOK(msg, freeMsgs, frag)'
  <2>0. freeMsgs \subseteq DOMAIN msg /\ Live(msg, freeMsgs) \subseteq DOMAIN msg
    BY Zenon DEF TypeOK, MsgsType, Live
  <2>1. \A n \in freeMsgs' : msg'[n] = PutMsg
    BY <2>0, <1>0, <1>4, <1>7, Zenon DEF MsgsOK
  <2>2. frag' = frag /\ msgId' = msgId
    BY <1>5, Zenon
  <2> QED BY <2>0, <2>1, <2>2, <1>0, <1>7, Zenon DEF MsgsOK
<1>10. FragsOK(msg, freeMsgs, frag)'
  <2>1. msg[m].body = {g \in DOMAIN frag : frag[g].req = msgId}
    BY <1>0, <1>6, SMTT(20) DEF MsgsOK, MsgSound
  <2>2. \A g \in DOMAIN frag : frag[g].owner # Nil => frag[g].req # msgId
    BY <2>1, <1>6, Zenon
  <2>3. \A g \in DOMAIN frag : frag[g].owner # Nil /\ ~frag[g].done =>
          frag[g].peer \in Live(msg', freeMsgs') /\ frag[g].req = msg'[frag[g].peer].id
    BY <2>2, <1>0, <1>6, <1>7, Zenon DEF FragsOK, Live
  <2> QED BY <2>3, <1>0, <1>5, Zenon DEF FragsOK
<1>11. QueuesOK(msg, freeMsgs)'
  <2>1. \A d \in Client : \A n \in Elems(inMsgQueue[d]) : n \in Live(msg, freeMsgs)
    BY <1>0, Zenon DEF QueuesOK, Elems
  <2>2. \A d \in Client : \A n \in Elems(inMsgQueue[d]) :
          n \in Live(msg', freeMsgs') /\ msg'[n].id = msg[n].id
    BY <2>1, <1>6, <1>7, Zenon DEF Live
  <2>3. inMsgQueue' = inMsgQueue
    BY <1>5, Zenon
  <2> QED BY <2>2, <2>3, <1>0, <1>8, QueuesStay, Zenon
<1>12. ReactOK' /\ AskedOK'
  <2>1. ReactOK'
    BY <1>4, IdleNotReact, Zenon DEF ReactOK
  <2>2. AskedOK'
    BY <1>0, <1>5, Zenon DEF AskedOK
  <2> QED BY <2>1, <2>2, Zenon
<1>13. TasksOK'
  <2>1. RepliesPending
    BY <1>5, RepliesPendingSame, Zenon DEF TypeOK, ControlType
  <2> QED BY <2>1, <1>0, <1>8, TasksStay, Zenon
<1>14. RepliesOwn'
  <2>1. msgId \in Nat
    <3>1. msgId \in 0 .. MaxReq
      BY Zenon DEF TypeOK, MsgsType
    <3> QED BY <3>1, SMT
  <2>2. r \in ReplyType /\ r.id = msgId /\ r.kind # "data"
    BY <2>1, <1>3, <1>6, OwnReplies, Zenon
  <2>3. r.id \in Elems(asked'[c])
    BY <2>2, <1>5, <1>6, Zenon
  <2>4. ReplyOK(r, c)'
    BY <2>2, <2>3, Zenon DEF ReplyOK
  <2> QED BY <2>2, <2>4, <1>0, <1>4, <1>8, ReplyAdded, Zenon
<1> QED BY <1>9, <1>10, <1>11, <1>12, <1>13, <1>14, Zenon DEF LifeInv
-----------------------------------------------------------------------------
(* eventloop.sread gives a client its replies.                              *)

\* Several replies are added to those of one client.
LEMMA RepliesAdded ==
  ASSUME TypeOK, AskedOK, FragsGrow, AskedGrow, RepliesOwn, NEW c \in Client,
         NEW rs \in Seq(ReplyType), \A x \in Elems(rs) : ReplyOK(x, c)',
         toClient' = [toClient EXCEPT ![c] = @ \o rs]
  PROVE  RepliesOwn'
<1>0. toClient \in [Client -> Seq(ReplyType)]
  BY Zenon DEF TypeOK, ClientsType
<1>1. Elems(toClient'[c]) = Elems(toClient[c]) \cup Elems(rs)
  <2>1. toClient'[c] = toClient[c] \o rs /\ toClient[c] \in Seq(ReplyType)
    BY <1>0, Zenon
  <2> QED BY <2>1, ElemsConcat, Zenon
<1>2. \A d \in Client : \A x \in Elems(toClient[d]) : ReplyOK(x, d)
  BY Zenon DEF RepliesOwn, ReplyOK
<1>3. \A d \in Client : \A x \in Elems(toClient[d]) : ReplyOK(x, d)'
  BY <1>2, ReplyStays, Zenon
<1>4. \A d \in Client : d # c => toClient'[d] = toClient[d]
  BY <1>0, Zenon
<1>5. \A d \in Client : \A x \in Elems(toClient'[d]) : ReplyOK(x, d)'
  BY <1>1, <1>3, <1>4, Zenon
<1> QED BY <1>5, Zenon DEF RepliesOwn, ReplyOK

\* Only whole replies are sent, to the client that asked, and no frag that is under
\* way keeps a Msg that is put back.
LEMMA FlushedLife ==
  ASSUME TypeOK, TypeOK', AskedOK, RepliesOwn, FragsGrow, AskedGrow,
         NEW c \in Client, NEW mm \in Seq(MsgType), DOMAIN mm = DOMAIN msg,
         MsgsOK(mm, freeMsgs, frag'), FragsOK(mm, freeMsgs, frag'), QueuesOK(mm, freeMsgs),
         Flushed(c, mm), asked' = asked, msgId' = msgId
  PROVE  /\ MsgsOK(msg, freeMsgs, frag)' /\ FragsOK(msg, freeMsgs, frag)'
         /\ QueuesOK(msg, freeMsgs)' /\ RepliesOwn'
<1> PICK q : q = inMsgQueue[c]
  BY Zenon
<1>0. q \in Seq(DOMAIN msg) /\ \A i \in DOMAIN q : q[i] \in DOMAIN msg
  BY SeqFacts, Zenon DEF TypeOK, ClientsType
<1>1. /\ \A i \in DOMAIN q : mm[q[i]].done
      /\ \A m \in DOMAIN mm : msg'[m] = IF m \in Elems(q) THEN PutMsg ELSE mm[m]
      /\ DOMAIN msg' = DOMAIN mm
      /\ freeMsgs' = freeMsgs \cup Elems(q)
      /\ inMsgQueue' = [inMsgQueue EXCEPT ![c] = <<>>]
  BY Zenon DEF Flushed
<1>2. \A m \in Elems(q) : /\ m \in Live(mm, freeMsgs) /\ mm[m].id \in Elems(asked[c])
                          /\ Finished(mm[m], frag')
                          /\ mm[m].body = {f \in DOMAIN frag' : frag'[f].req = mm[m].id}
  <2> TAKE m \in Elems(q)
  <2>1. PICK i \in DOMAIN q : m = q[i]
    BY Zenon DEF Elems
  <2>2. m \in Live(mm, freeMsgs) /\ mm[m].id \in Elems(asked[c])
    BY <2>1, Zenon DEF QueuesOK
  <2>3. MsgSound(mm[m], frag') /\ mm[m].done
    BY <2>1, <2>2, <1>1, Zenon DEF MsgsOK
  <2> QED BY <2>2, <2>3, Zenon DEF MsgSound
<1>3. /\ Live(msg', freeMsgs') = Live(mm, freeMsgs) \ Elems(q)
      /\ \A m \in Live(msg', freeMsgs') : msg'[m] = mm[m]
  BY <1>1, Zenon DEF Live
<1>4. MsgsOK(msg, freeMsgs, frag)'
  <2>1. \A m \in freeMsgs' : msg'[m] = PutMsg
    <3>1. freeMsgs \subseteq DOMAIN mm /\ Elems(q) \subseteq DOMAIN mm
      BY <1>2, Zenon DEF TypeOK, MsgsType, Live
    <3> QED BY <3>1, <1>1, Zenon DEF MsgsOK
  <2>2. \A m \in Live(msg', freeMsgs') : MsgSound(msg'[m], frag') /\ msg'[m].id <= msgId'
    BY <1>3, Zenon DEF MsgsOK
  <2>3. \A m, n \in Live(msg', freeMsgs') : msg'[m].id = msg'[n].id => m = n
    BY <1>3, Zenon DEF MsgsOK
  <2>4. ~RequestTimeout => \A m \in Live(msg', freeMsgs') : msg'[m].done \/ Partial(msg'[m], frag')
    BY <1>3, Zenon DEF MsgsOK
  <2> QED BY <2>1, <2>2, <2>3, <2>4, Zenon DEF MsgsOK
<1>5. FragsOK(msg, freeMsgs, frag)'
  <2> SUFFICES ASSUME NEW f \in DOMAIN frag'
               PROVE  /\ frag'[f].req <= msgId'
                      /\ frag'[f].owner # Nil => frag'[f].req \in Elems(asked'[frag'[f].owner])
                      /\ frag'[f].owner # Nil /\ ~frag'[f].done =>
                           frag'[f].peer \in Live(msg', freeMsgs') /\ frag'[f].req = msg'[frag'[f].peer].id
    BY Zenon DEF FragsOK
  <2>1. /\ frag'[f].req <= msgId
        /\ frag'[f].owner # Nil => frag'[f].req \in Elems(asked[frag'[f].owner])
    BY Zenon DEF FragsOK
  <2>2. ASSUME frag'[f].owner # Nil, ~frag'[f].done
        PROVE  frag'[f].peer \in Live(msg', freeMsgs') /\ frag'[f].req = msg'[frag'[f].peer].id
    <3>1. frag'[f].peer \in Live(mm, freeMsgs) /\ frag'[f].req = mm[frag'[f].peer].id
      BY <2>2, Zenon DEF FragsOK
    <3>2. frag'[f].peer \notin Elems(q)
      BY <2>2, <3>1, <1>2, Zenon DEF Finished
    <3> QED BY <3>1, <3>2, <1>3, Zenon
  <2> QED BY <2>1, <2>2, Zenon
<1>6. QueuesOK(msg, freeMsgs)'
  <2> SUFFICES ASSUME NEW d \in Client, NEW i \in DOMAIN inMsgQueue'[d]
               PROVE  /\ inMsgQueue'[d][i] \in Live(msg', freeMsgs')
                      /\ msg'[inMsgQueue'[d][i]].id \in Elems(asked'[d])
                      /\ \A j \in DOMAIN inMsgQueue'[d] :
                           i < j => msg'[inMsgQueue'[d][i]].id < msg'[inMsgQueue'[d][j]].id
    BY Zenon DEF QueuesOK
  <2>1. inMsgQueue \in [Client -> Seq(DOMAIN msg)]
    BY Zenon DEF TypeOK, ClientsType
  <2>2. d # c /\ inMsgQueue'[d] = inMsgQueue[d]
    BY <2>1, <1>1
  <2>3. \A j \in DOMAIN inMsgQueue[d] :
          inMsgQueue[d][j] \in Live(mm, freeMsgs) /\ mm[inMsgQueue[d][j]].id \in Elems(asked[d])
    BY Zenon DEF QueuesOK
  <2>4. \A j \in DOMAIN inMsgQueue[d] : inMsgQueue[d][j] \notin Elems(q)
    BY <2>2, <2>3, <1>2, Zenon DEF AskedOK
  <2>5. \A j \in DOMAIN inMsgQueue[d] :
          inMsgQueue[d][j] \in Live(msg', freeMsgs') /\ msg'[inMsgQueue[d][j]] = mm[inMsgQueue[d][j]]
    BY <2>3, <2>4, <1>3, Zenon
  <2>6. \A j \in DOMAIN inMsgQueue[d] : i < j => mm[inMsgQueue[d][i]].id < mm[inMsgQueue[d][j]].id
    BY <2>2, Zenon DEF QueuesOK
  <2> QED BY <2>2, <2>3, <2>5, <2>6, Zenon
<1>7. RepliesOwn'
  <2>1. PICK rs : rs = [i \in DOMAIN q |-> Reply(mm[q[i]].id, mm[q[i]].rsp.kind, mm[q[i]].rsp.from)]
    BY Zenon
  <2>2. toClient' = [toClient EXCEPT ![c] = @ \o rs]
    BY <2>1, Zenon DEF Flushed
  <2>3. \A m \in DOMAIN msg : Reply(mm[m].id, mm[m].rsp.kind, mm[m].rsp.from) \in ReplyType
    <3>1. \A m \in DOMAIN msg : mm[m] \in MsgType
      BY SeqFacts, Zenon
    <3> QED BY <3>1, Zenon DEF Reply, ReplyType, MsgType
  <2>4. rs \in Seq(ReplyType)
    <3>1. rs \in [DOMAIN q -> ReplyType]
      BY <2>1, <2>3, <1>0, Zenon
    <3> QED BY <3>1, <1>0, SeqMap, Zenon
  <2>5. ASSUME NEW x \in Elems(rs) PROVE ReplyOK(x, c)'
    <3>1. PICK i \in DOMAIN q : x = Reply(mm[q[i]].id, mm[q[i]].rsp.kind, mm[q[i]].rsp.from)
      BY <2>1, Zenon DEF Elems
    <3>2. q[i] \in Elems(q)
      BY Zenon DEF Elems
    <3>3. x.id = mm[q[i]].id /\ x.kind = mm[q[i]].rsp.kind /\ x.from = mm[q[i]].rsp.from
      BY <3>1, Zenon DEF Reply
    <3>4. x.id \in Elems(asked'[c])
      BY <3>2, <3>3, <1>2, Zenon
    <3>5. x.kind = "data" => x.from = {f \in DOMAIN frag' : frag'[f].req = x.id}
      <4>1. mm[q[i]].rsp.kind = "data" => mm[q[i]].rsp.from = mm[q[i]].body
        BY <3>2, <1>2, Zenon DEF Finished
      <4>2. mm[q[i]].body = {f \in DOMAIN frag' : frag'[f].req = mm[q[i]].id}
        BY <3>2, <1>2, Zenon
      <4> QED BY <3>3, <4>1, <4>2, Zenon
    <3>6. x.kind = "data" => x.from = FragsOf(x.id)'
      BY <3>5, Zenon DEF FragsOf
    <3> QED BY <3>4, <3>6, Zenon DEF ReplyOK
  <2>6. \A x \in Elems(rs) : ReplyOK(x, c)'
    BY <2>5, Zenon
  <2> QED BY <2>2, <2>4, <2>6, RepliesAdded, Zenon
<1> QED BY <1>4, <1>5, <1>6, <1>7, Zenon

\* Delivering replies keeps the invariant.
LEMMA DeliverLife ==
  ASSUME TypeOK, TypeOK', AskedOK, TasksOK, RepliesOwn, FragsGrow,
         handling.op # "react", handling' = handling, tasks' = tasks,
         NEW c \in Client, NEW mm \in Seq(MsgType), DOMAIN mm = DOMAIN msg,
         MsgsOK(mm, freeMsgs, frag'), FragsOK(mm, freeMsgs, frag'), QueuesOK(mm, freeMsgs),
         Deliver(c, mm)
  PROVE  LifeInv'
<1>1. asked' = asked /\ msgId' = msgId /\ (Flushed(c, mm) \/ Withheld(c, mm))
  BY DeliverCases, Zenon
<1>2. AskedGrow
  BY <1>1, Zenon DEF AskedGrow
<1>3. TasksOK'
  <2>1. RepliesPending
    BY RepliesPendingSame, Zenon DEF TypeOK, ControlType
  <2> QED BY <2>1, <1>2, TasksStay, Zenon
<1>4. ReactOK'
  BY Zenon DEF ReactOK
<1>5. AskedOK'
  <2>1. \A d \in Client : cconn'[d] = "new" => cconn[d] = "new"
    BY <1>1, Zenon DEF Flushed, Withheld, TypeOK, ClientsType
  <2> QED BY <2>1, <1>1, Zenon DEF AskedOK
<1>6. CASE Flushed(c, mm)
  <2>1. /\ MsgsOK(msg, freeMsgs, frag)' /\ FragsOK(msg, freeMsgs, frag)'
        /\ QueuesOK(msg, freeMsgs)' /\ RepliesOwn'
    BY <1>1, <1>2, <1>6, FlushedLife, Zenon
  <2> QED BY <2>1, <1>3, <1>4, <1>5, Zenon DEF LifeInv
<1>7. CASE Withheld(c, mm)
  <2>1. msg' = mm /\ freeMsgs' = freeMsgs /\ toClient' = toClient
    BY <1>7, Zenon DEF Withheld
  <2>2. MsgsOK(msg, freeMsgs, frag)' /\ FragsOK(msg, freeMsgs, frag)'
    BY <2>1, <1>1, Zenon DEF MsgsOK, FragsOK
  <2>3. \A d \in Client : inMsgQueue'[d] = inMsgQueue[d] \/ inMsgQueue'[d] = <<>>
    BY <1>7, Zenon DEF Withheld, TypeOK, ClientsType
  <2>4. QueuesOK(msg, freeMsgs)'
    BY <2>1, <2>3, <1>1, SMTT(20) DEF QueuesOK
  <2>5. RepliesOwn'
    BY <2>1, <1>2, RepliesStay, Zenon
  <2> QED BY <2>2, <2>4, <2>5, <1>3, <1>4, <1>5, Zenon DEF LifeInv
<1> QED BY <1>1, <1>6, <1>7, Zenon
-----------------------------------------------------------------------------
(* The reply to a frag that waits for one.                                  *)

\* sread of s goes on with a reply: it is that of an undone frag of a live Msg.
AnswerTo(s, f, p) ==
  /\ f = Answered(s) /\ p = Peer(s) /\ Answer(s).frag = f
  /\ f \in DOMAIN frag /\ frag[f].owner \in Client /\ ~frag[f].done
  /\ p \in Live(msg, freeMsgs) /\ f \in msg[p].body /\ MsgSound(msg[p], frag)
  /\ p \in DOMAIN msg /\ msg[p] \in MsgType /\ msg[p].body \subseteq DOMAIN frag
  /\ handling.op # "react" /\ handling' = handling /\ tasks' = tasks

\* The reply is the one of the frag it is paired with (WireMatch), which is one of its Msg.
LEMMA AnswerTaken ==
  ASSUME TypeOK, LifeInv, WireMatch, NEW s \in SConn, NEW t, NEW kinds, TakeAnswer(s, t, kinds)
  PROVE  AnswerTo(s, Answered(s), Peer(s)) /\ msg[Peer(s)].type \in t /\ Answer(s).kind \in kinds
<1>0. MsgsOK(msg, freeMsgs, frag) /\ FragsOK(msg, freeMsgs, frag)
  BY Zenon DEF LifeInv
<1>1. /\ TakeReply(s) /\ frag[Answered(s)].owner # Nil /\ ~frag[Answered(s)].done
      /\ msg[frag[Answered(s)].peer].type \in t /\ Answer(s).kind \in kinds
      /\ handling' = handling /\ tasks' = tasks
  BY Zenon DEF TakeAnswer
<1>2. /\ Answered(s) \in DOMAIN frag /\ frag[Answered(s)].owner \in Client
      /\ Peer(s) \in DOMAIN msg /\ msg[Peer(s)] \in MsgType
  BY <1>1, TakeReplyType, Zenon
<1>3. /\ frag[Answered(s)].peer \in Live(msg, freeMsgs)
      /\ MsgSound(msg[frag[Answered(s)].peer], frag)
      /\ Answered(s) \in msg[frag[Answered(s)].peer].body
  BY <1>0, <1>1, <1>2, UndoneFrag, Zenon
<1>4. Answer(s).frag = Answered(s)
  <2>1. /\ fromRedis[s] \in Seq(AnswerType) /\ fromRedis[s] # <<>>
        /\ inFragQueue[s] \in Seq(DOMAIN frag) /\ inFragQueue[s] # <<>>
    BY <1>1, Zenon DEF TakeReply, TypeOK, ServersType
  <2>2. Answer(s) = fromRedis[s][1] /\ Answered(s) = inFragQueue[s][1] /\ 1 \in 1 .. Len(fromRedis[s])
    BY <2>1, SeqHeadTail, SeqFacts, SMTT(20) DEF Answer, Answered
  <2> QED BY <2>2, Zenon DEF WireMatch
<1>5. msg[Peer(s)].body \subseteq DOMAIN frag
  BY <1>2, Zenon DEF TypeOK, MsgsType
<1>6. handling.op # "react"
  BY <1>1, IdleNotReact, Zenon DEF TakeReply
<1> QED BY <1>1, <1>2, <1>3, <1>4, <1>5, <1>6, Zenon DEF AnswerTo, Peer

\* The Msg of the reply is done: eventloop.sread goes on with its client.
LEMMA DeliveredLife ==
  ASSUME TypeOK, TypeOK', LifeInv, NEW s \in SConn, NEW f, NEW p, AnswerTo(s, f, p),
         NEW b \in SUBSET msg[p].body, Marked(frag, frag', b),
         NEW x \in MsgType, SameRequest(x, msg[p]), MsgSound(x, frag'), x.done,
         Deliver(frag[Answered(s)].owner, [msg EXCEPT ![Peer(s)] = x])
  PROVE  LifeInv'
<1>0. /\ AskedOK /\ MsgsOK(msg, freeMsgs, frag) /\ FragsOK(msg, freeMsgs, frag)
      /\ QueuesOK(msg, freeMsgs) /\ TasksOK /\ RepliesOwn
  BY Zenon DEF LifeInv
<1>1. /\ p \in Live(msg, freeMsgs) /\ p \in DOMAIN msg /\ msg[p] \in MsgType
      /\ handling.op # "react" /\ handling' = handling /\ tasks' = tasks
      /\ f = Answered(s) /\ p = Peer(s)
  BY Zenon DEF AnswerTo
<1>2. PICK mm : mm = [msg EXCEPT ![p] = x]
  BY Zenon
<1>3. PICK c \in Client : c = frag[f].owner
  BY Zenon DEF AnswerTo
<1>4. Deliver(c, mm)
  BY <1>1, <1>2, <1>3, Zenon
<1>5. mm \in Seq(MsgType) /\ DOMAIN mm = DOMAIN msg
  BY <1>1, <1>2, SeqExcept, Zenon DEF TypeOK, MsgsType
<1>6. mm[p] = x /\ \A n \in DOMAIN msg : n # p => mm[n] = msg[n]
  BY <1>1, <1>2, Zenon
<1>7. mm[p].id = msg[p].id /\ MsgSound(mm[p], frag') /\ mm[p].done
  BY <1>6, Zenon DEF SameRequest
<1>8. /\ MsgsOK(mm, freeMsgs, frag') /\ FragsOK(mm, freeMsgs, frag') /\ QueuesOK(mm, freeMsgs)
      /\ FragsGrow
  BY <1>0, <1>1, <1>5, <1>6, <1>7, MarkedLife, Zenon
<1> QED BY <1>0, <1>1, <1>4, <1>5, <1>8, DeliverLife, Zenon

\* Another frag is missing (Continue).
LEMMA ContinueLife ==
  ASSUME FiniteSetFacts, TypeOK, TypeOK', LifeInv, NEW s \in SConn, NEW f, NEW p, AnswerTo(s, f, p),
         NEW fs, Marked(frag, fs, {f}), NEW m \in MsgType, SameRequest(m, msg[p]),
         m.ndone = msg[p].ndone, m.done = msg[p].done, Brought(m, msg[p], fs, f),
         Continue(s, fs, m)
  PROVE  LifeInv'
<1>0. /\ AskedOK /\ MsgsOK(msg, freeMsgs, frag) /\ FragsOK(msg, freeMsgs, frag)
      /\ QueuesOK(msg, freeMsgs) /\ ReactOK /\ TasksOK /\ RepliesOwn
  BY Zenon DEF LifeInv
<1>1. /\ p \in Live(msg, freeMsgs) /\ p \in DOMAIN msg /\ msg[p] \in MsgType
      /\ f \in msg[p].body /\ ~frag[f].done /\ MsgSound(msg[p], frag)
      /\ handling.op # "react" /\ handling' = handling /\ tasks' = tasks
      /\ f = Answered(s) /\ p = Peer(s)
  BY Zenon DEF AnswerTo
<1>2. PICK x, r : x = [m EXCEPT !.ndone = @ + 1] /\ r = msg[p]
  BY Zenon
<1>3. /\ Waiting(s) /\ frag' = fs /\ msg' = [msg EXCEPT ![p] = x]
      /\ UNCHANGED <<freeMsgs, msgId, cconn, inMsgQueue, asked, toClient>>
  BY <1>1, <1>2, Zenon DEF Continue
<1>4. x.id = m.id /\ x.type = m.type /\ x.body = m.body /\ x.del = m.del /\ x.ndone = m.ndone + 1
  BY <1>2, Zenon DEF MsgType
<1>5. x.done = m.done
  BY <1>2, Zenon DEF MsgType
<1>6. SameRequest(x, r) /\ Brought(x, r, frag', f) /\ x.ndone = r.ndone + 1 /\ x.done = r.done
  BY <1>2, <1>3, <1>4, <1>5, Zenon DEF SameRequest, Brought
<1>7. MsgSound(x, frag') /\ (x.ndone # Cardinality(r.body) => Partial(x, frag'))
  <2>1. /\ f \in r.body /\ MsgSound(r, frag) /\ ~frag[f].done /\ Marked(frag, frag', {f})
    BY <1>1, <1>2, <1>3, Zenon
  <2> QED BY <2>1, <1>6, SoundContinue, Zenon
<1>8. Partial(x, frag')
  <2>1. IsFiniteSet(r.body) /\ r.ndone \in Nat
    BY <1>1, <1>2, Zenon DEF MsgSound, MsgType
  <2>2. Cardinality(r.body) \in Nat
    BY <2>1, CardNat, Zenon
  <2>3. r.ndone + 1 < Cardinality(r.body)
    BY <1>1, <1>2, <1>3, Zenon DEF Waiting
  <2> QED BY <2>1, <2>2, <2>3, <1>6, <1>7, SMTT(20)
<1>9. PICK mm : mm = msg'
  BY Zenon
<1>10. /\ DOMAIN mm = DOMAIN msg /\ mm[p] = x /\ \A n \in DOMAIN msg : n # p => mm[n] = msg[n]
  BY <1>1, <1>3, <1>9, Zenon
<1>11. /\ MsgsOK(mm, freeMsgs, frag') /\ FragsOK(mm, freeMsgs, frag') /\ QueuesOK(mm, freeMsgs)
       /\ FragsGrow
  <2>1. {f} \in SUBSET msg[p].body /\ Marked(frag, frag', {f})
    BY <1>1, <1>3, Zenon
  <2>2. mm[p].id = msg[p].id /\ MsgSound(mm[p], frag') /\ Partial(mm[p], frag')
    BY <1>2, <1>6, <1>7, <1>8, <1>10, Zenon DEF SameRequest
  <2> QED BY <2>1, <2>2, <1>0, <1>1, <1>10, MarkedLife, Zenon
<1>12. MsgsOK(msg, freeMsgs, frag)' /\ FragsOK(msg, freeMsgs, frag)'
  <2>0. /\ freeMsgs' = freeMsgs /\ msgId' = msgId /\ msg' = mm /\ MsgsOK(mm, freeMsgs, frag')
    BY <1>3, <1>9, <1>11, Zenon
  <2>1. MsgsOK(msg, freeMsgs, frag)'
    BY <2>0, Zenon DEF MsgsOK
  <2>2. FragsOK(msg, freeMsgs, frag)'
    BY <1>3, <1>9, <1>11, Zenon DEF FragsOK
  <2> QED BY <2>1, <2>2, Zenon
<1>13. QueuesOK(msg, freeMsgs)' /\ AskedOK' /\ ReactOK'
  BY <1>0, <1>1, <1>3, <1>9, <1>11, Zenon DEF QueuesOK, AskedOK, ReactOK
<1>14. AskedGrow
  BY <1>3, Zenon DEF AskedGrow
<1>15. TasksOK' /\ RepliesOwn'
  <2>1. TasksOK'
    BY <1>0, <1>1, <1>3, Zenon DEF TasksOK
  <2>2. RepliesOwn'
    BY <1>0, <1>3, <1>11, <1>14, RepliesStay, Zenon
  <2> QED BY <2>1, <2>2, Zenon
<1> QED BY <1>12, <1>13, <1>15, Zenon DEF LifeInv

\* It was the last one (Complete).
LEMMA CompleteLife ==
  ASSUME FiniteSetFacts, TypeOK, TypeOK', LifeInv, NEW s \in SConn, NEW f, NEW p, AnswerTo(s, f, p),
         NEW fs, Marked(frag, fs, {f}), NEW m \in MsgType, SameRequest(m, msg[p]),
         m.ndone = msg[p].ndone, Brought(m, msg[p], fs, f),
         NEW kind \in {"data", "error"}, NEW from \in SUBSET Ids,
         \/ kind = "error"
         \/ msg[p].type \in {"mget", "mset"} /\ from = {fs[g].rsp : g \in msg[p].body}
         \/ msg[p].type = "del" /\ from = m.del,
         Complete(s, fs, m, kind, from)
  PROVE  LifeInv'
<1>1. /\ msg[p] \in MsgType /\ p = Peer(s)
      /\ f \in msg[p].body /\ ~frag[f].done /\ MsgSound(msg[p], frag)
  BY Zenon DEF AnswerTo
<1>2. PICK k, n : k = [kind |-> kind, from |-> from] /\ n = m.ndone + 1
  BY Zenon
<1>3. PICK x, r : x = [m EXCEPT !.ndone = n, !.done = TRUE, !.rsp = k] /\ r = msg[p]
  BY Zenon
<1>4. /\ ~Waiting(s) /\ frag' = fs
      /\ Deliver(frag[Answered(s)].owner, [msg EXCEPT ![Peer(s)] = x])
  BY <1>2, <1>3, Zenon DEF Complete
<1>5. /\ k \in [kind : {"none", "data", "error"}, from : SUBSET Ids] /\ n \in Nat
      /\ k.kind = kind /\ k.from = from
  BY <1>2 DEF MsgType
<1>6. /\ x \in MsgType /\ x.id = m.id /\ x.type = m.type /\ x.body = m.body /\ x.del = m.del
      /\ x.ndone = n /\ x.rsp = k
  BY <1>3, <1>5, Zenon DEF MsgType
<1>7. x.done
  BY <1>3, <1>5, Zenon DEF MsgType
<1>8. SameRequest(x, r) /\ Brought(x, r, frag', f) /\ x.ndone = r.ndone + 1
  BY <1>2, <1>3, <1>4, <1>6, Zenon DEF SameRequest, Brought
<1>9. r.ndone + 1 >= Cardinality(r.body)
  <2>1. IsFiniteSet(r.body) /\ r.ndone \in Nat
    BY <1>1, <1>3, Zenon DEF MsgSound, MsgType
  <2>2. Cardinality(r.body) \in Nat
    BY <2>1, CardNat, Zenon
  <2> QED BY <2>1, <2>2, <1>1, <1>3, <1>4, SMTT(20) DEF Waiting
<1>10. MsgSound(x, frag')
  <2>1. /\ f \in r.body /\ MsgSound(r, frag) /\ ~frag[f].done /\ Marked(frag, frag', {f})
    BY <1>1, <1>3, <1>4, Zenon
  <2>2. \/ x.rsp.kind = "error"
        \/ r.type \in {"mget", "mset"} /\ x.rsp.from = {frag'[g].rsp : g \in r.body}
        \/ r.type = "del" /\ x.rsp.from = x.del
    BY <1>3, <1>4, <1>5, <1>6, SMTT(20)
  <2> QED BY <2>1, <2>2, <1>8, <1>9, SoundComplete, Zenon
<1>11. {f} \in SUBSET msg[p].body /\ Marked(frag, frag', {f}) /\ SameRequest(x, msg[p])
  BY <1>1, <1>3, <1>4, <1>8, Zenon
<1> QED BY <1>4, <1>6, <1>7, <1>10, <1>11, DeliveredLife, Zenon

\* A reply that is too large.
LEMMA SReadTooLargeLife ==
  ASSUME FiniteSetFacts, TypeOK, TypeOK', LifeInv, WireMatch, NEW s \in SConn, SReadTooLarge(s)
  PROVE  LifeInv'
<1>1. PICK f, p : f = Answered(s) /\ p = Peer(s)
  BY Zenon
<1>2. AnswerTo(s, f, p)
  <2>1. TakeAnswer(s, Types \cup {"unknown"}, {"large"})
    BY Zenon DEF SReadTooLarge
  <2> QED BY <2>1, <1>1, AnswerTaken, Zenon
<1>3. PICK r, n, k : r = msg[p] /\ n = Cardinality(r.body) /\ k = [kind |-> "error", from |-> {}]
  BY Zenon
<1>4. PICK x : x = [r EXCEPT !.ndone = n, !.done = TRUE, !.rsp = k]
  BY Zenon
<1>5. frag' = AllDone(r.body) /\ Deliver(frag[Answered(s)].owner, [msg EXCEPT ![Peer(s)] = x])
  BY <1>1, <1>3, <1>4, Zenon DEF SReadTooLarge
<1>6. r \in MsgType /\ MsgSound(r, frag) /\ f \in r.body /\ ~frag[f].done
  BY <1>2, <1>3, Zenon DEF AnswerTo
<1>7. /\ n \in Nat /\ k \in [kind : {"none", "data", "error"}, from : SUBSET Ids] /\ k.kind = "error"
  <2>1. IsFiniteSet(r.body)
    BY <1>6, Zenon DEF MsgSound
  <2>2. n \in Nat
    BY <2>1, <1>3, CardNat, Zenon
  <2> QED BY <2>2, <1>3, Zenon
<1>8. x \in MsgType /\ x.id = r.id /\ x.type = r.type /\ x.body = r.body /\ x.ndone = n /\ x.rsp = k
  BY <1>4, <1>6, <1>7, Zenon DEF MsgType
<1>9. x.done
  BY <1>4, <1>6, <1>7, Zenon DEF MsgType
<1>10. Marked(frag, frag', r.body)
  BY <1>5, AllDoneMarked, Zenon
<1>11. SameRequest(x, r) /\ x.ndone = Cardinality(r.body) /\ x.rsp.kind = "error"
  BY <1>3, <1>7, <1>8, Zenon DEF SameRequest
<1>12. MsgSound(x, frag')
  BY <1>6, <1>10, <1>11, SoundFailed, Zenon
<1>13. r.body \in SUBSET msg[p].body /\ SameRequest(x, msg[p])
  BY <1>3, <1>11, Zenon
<1> QED BY <1>2, <1>5, <1>8, <1>9, <1>10, <1>12, <1>13, DeliveredLife, Zenon

\* The reply to a single-frag request.
LEMMA SReadDefaultLife ==
  ASSUME FiniteSetFacts, TypeOK, TypeOK', LifeInv, WireMatch, NEW s \in SConn, SReadDefault(s)
  PROVE  LifeInv'
<1>1. PICK f, p : f = Answered(s) /\ p = Peer(s)
  BY Zenon
<1>2. AnswerTo(s, f, p) /\ msg[p].type \in {"default", "unknown"}
  <2>1. TakeAnswer(s, {"default", "unknown"}, {"data", "error"})
    BY Zenon DEF SReadDefault
  <2> QED BY <2>1, <1>1, AnswerTaken, Zenon
<1>3. PICK r, n, k : r = msg[p] /\ n = r.ndone + 1 /\ k = [kind |-> "data", from |-> {f}]
  BY Zenon
<1>4. PICK x : x = [r EXCEPT !.ndone = n, !.done = TRUE, !.rsp = k]
  BY Zenon
<1>5. /\ r \in MsgType /\ MsgSound(r, frag) /\ f \in r.body /\ ~frag[f].done
      /\ f \in DOMAIN frag /\ p \in DOMAIN msg /\ Answer(s).frag = f
  BY <1>2, <1>3, Zenon DEF AnswerTo
<1>6. frag' = [frag EXCEPT ![f].done = TRUE] /\ Deliver(frag[Answered(s)].owner, [msg EXCEPT ![Peer(s)] = x])
  BY <1>1, <1>3, <1>4, <1>5, Zenon DEF SReadDefault
<1>7. n \in Nat /\ k \in [kind : {"none", "data", "error"}, from : SUBSET Ids] /\ k.from = {f}
  <2>1. f \in Ids /\ r.ndone \in Nat
    BY <1>5, Zenon DEF MsgType
  <2> QED BY <2>1, <1>3, SMTT(20)
<1>8. x \in MsgType /\ x.id = r.id /\ x.type = r.type /\ x.body = r.body /\ x.ndone = n /\ x.rsp = k
  BY <1>4, <1>5, <1>7, Zenon DEF MsgType
<1>9. x.done
  BY <1>4, <1>5, <1>7, Zenon DEF MsgType
<1>10. Marked(frag, frag', {f})
  <2>1. 0 \in Nat /\ TRUE \in BOOLEAN
    BY Zenon
  <2> QED BY <2>1, <1>5, <1>6, AnsweredMarked, Zenon
<1>11. r.type = "default"
  BY <1>2, <1>3, <1>5, Zenon DEF MsgSound, Types
<1>12. SameRequest(x, r) /\ Brought(x, r, frag', f) /\ x.ndone = r.ndone + 1 /\ x.rsp.from = {f}
  BY <1>3, <1>7, <1>8, <1>11, Zenon DEF SameRequest, Brought
<1>13. MsgSound(x, frag')
  BY <1>5, <1>10, <1>11, <1>12, SoundComplete, Zenon
<1>14. {f} \in SUBSET msg[p].body /\ SameRequest(x, msg[p])
  BY <1>3, <1>5, <1>12, Zenon
<1> QED BY <1>2, <1>6, <1>8, <1>9, <1>10, <1>13, <1>14, DeliveredLife, Zenon

\* MGet.
LEMMA SReadMGetLife ==
  ASSUME FiniteSetFacts, TypeOK, TypeOK', LifeInv, WireMatch, NEW s \in SConn, SReadMGet(s)
  PROVE  LifeInv'
<1>1. PICK f, p : f = Answered(s) /\ p = Peer(s)
  BY Zenon
<1>2. AnswerTo(s, f, p) /\ msg[p].type = "mget"
  <2>1. TakeAnswer(s, {"mget"}, {"data"})
    BY Zenon DEF SReadMGet
  <2>2. AnswerTo(s, f, p) /\ msg[p].type \in {"mget"}
    BY <2>1, <1>1, AnswerTaken, Zenon
  <2> QED BY <2>2, Zenon
<1>3. f \in DOMAIN frag /\ f \in Nat /\ f # 0 /\ p \in DOMAIN msg /\ msg[p] \in MsgType /\ Answer(s).frag = f
  BY <1>2, SeqFacts, SMTT(20) DEF AnswerTo, TypeOK, FragsType
<1>4. PICK fs, m : fs = Bytes(f, f) /\ m = msg[p]
  BY Zenon
<1>5. PICK from : from = {fs[g].rsp : g \in m.body}
  BY Zenon
<1>6. \/ Continue(s, fs, m)
      \/ 0 \notin from /\ Complete(s, fs, m, "data", from)
      \/ Complete(s, fs, m, "error", {})
  BY <1>1, <1>3, <1>4, <1>5, Zenon DEF SReadMGet, Bytes
<1>7. Marked(frag, fs, {f}) /\ fs[f].rsp = f
  <2>1. TRUE \in BOOLEAN
    BY Zenon
  <2> QED BY <2>1, <1>3, <1>4, AnsweredMarked, Zenon
<1>8. /\ m \in MsgType /\ SameRequest(m, msg[p]) /\ m.ndone = msg[p].ndone /\ m.done = msg[p].done
      /\ Brought(m, msg[p], fs, f)
  BY <1>2, <1>3, <1>4, <1>7, Zenon DEF SameRequest, Brought
<1>9. CASE Continue(s, fs, m)
  BY <1>2, <1>7, <1>8, <1>9, ContinueLife, Zenon
<1>10. CASE 0 \notin from /\ Complete(s, fs, m, "data", from)
  <2>1. FragsEdited(fs)
    <3>1. f \in Ids /\ TRUE \in BOOLEAN /\ frag[f] \in FragType /\ FragsType
      BY <1>3, FragFields, Zenon DEF Ids, TypeOK
    <3> QED BY <3>1, <1>3, <1>4, FragAnsweredType, Zenon DEF Bytes
  <2>2. from \in SUBSET Ids
    <3>1. {fs[g].rsp : g \in msg[p].body} \in SUBSET Nat
      BY <2>1, <1>3, FromType, Zenon
    <3> QED BY <3>1, <1>4, <1>5, <1>10, Zenon DEF Ids
  <2>3. msg[p].type \in {"mget", "mset"} /\ from = {fs[g].rsp : g \in msg[p].body}
    BY <1>2, <1>4, <1>5, Zenon
  <2> QED BY <2>2, <2>3, <1>2, <1>7, <1>8, <1>10, CompleteLife, Zenon
<1>11. CASE Complete(s, fs, m, "error", {})
  <2>1. {} \in SUBSET Ids /\ "error" \in {"data", "error"}
    BY Zenon
  <2> QED BY <2>1, <1>2, <1>7, <1>8, <1>11, CompleteLife, Zenon
<1> QED BY <1>6, <1>9, <1>10, <1>11, Zenon

\* MSet.
LEMMA SReadMSetLife ==
  ASSUME FiniteSetFacts, TypeOK, TypeOK', LifeInv, WireMatch, NEW s \in SConn, SReadMSet(s)
  PROVE  LifeInv'
<1>1. PICK f, p, b : f = Answered(s) /\ p = Peer(s) /\ b = (Answer(s).kind = "data") /\ b \in BOOLEAN
  BY Zenon
<1>2. AnswerTo(s, f, p) /\ msg[p].type = "mset"
  <2>1. TakeAnswer(s, {"mset"}, {"data", "error", "auth"})
    BY Zenon DEF SReadMSet
  <2>2. AnswerTo(s, f, p) /\ msg[p].type \in {"mset"}
    BY <2>1, <1>1, AnswerTaken, Zenon
  <2> QED BY <2>2, Zenon
<1>3. f \in DOMAIN frag /\ f \in Nat /\ f # 0 /\ p \in DOMAIN msg /\ msg[p] \in MsgType /\ Answer(s).frag = f
  BY <1>2, SeqFacts, SMTT(20) DEF AnswerTo, TypeOK, FragsType
<1>4. PICK fs, m : fs = BytesOk(f, f, b) /\ m = msg[p]
  BY Zenon
<1>5. PICK from : from = {fs[g].rsp : g \in m.body}
  BY Zenon
<1>6. \/ Continue(s, fs, m)
      \/ (\A g \in m.body : fs[g].ok) /\ Complete(s, fs, m, "data", from)
      \/ Complete(s, fs, m, "error", {})
  BY <1>1, <1>3, <1>4, <1>5, Zenon DEF SReadMSet, BytesOk
<1>7. Marked(frag, fs, {f}) /\ fs[f].rsp = f
  BY <1>1, <1>3, <1>4, AnsweredMarked, Zenon
<1>8. /\ m \in MsgType /\ SameRequest(m, msg[p]) /\ m.ndone = msg[p].ndone /\ m.done = msg[p].done
      /\ Brought(m, msg[p], fs, f)
  BY <1>2, <1>3, <1>4, <1>7, Zenon DEF SameRequest, Brought
<1>9. CASE Continue(s, fs, m)
  BY <1>2, <1>7, <1>8, <1>9, ContinueLife, Zenon
<1>10. CASE (\A g \in m.body : fs[g].ok) /\ Complete(s, fs, m, "data", from)
  <2>1. FragsEdited(fs)
    <3>1. f \in Ids /\ frag[f] \in FragType /\ FragsType
      BY <1>3, FragFields, Zenon DEF Ids, TypeOK
    <3> QED BY <3>1, <1>1, <1>3, <1>4, FragAnsweredType, Zenon DEF BytesOk
  <2>2. from \in SUBSET Ids
    <3>1. {fs[g].rsp : g \in msg[p].body} \in SUBSET Nat
      BY <2>1, <1>3, FromType, Zenon
    <3>2. m.body \subseteq DOMAIN frag
      BY <1>2, <1>4, Zenon DEF AnswerTo
    <3>3. \A g \in m.body : fs[g].rsp # 0
      BY <2>1, <3>2, <1>10, Zenon DEF FragsEdited
    <3> QED BY <3>1, <3>3, <1>4, <1>5, Zenon DEF Ids
  <2>3. msg[p].type \in {"mget", "mset"} /\ from = {fs[g].rsp : g \in msg[p].body}
    BY <1>2, <1>4, <1>5, Zenon
  <2> QED BY <2>2, <2>3, <1>2, <1>7, <1>8, <1>10, CompleteLife, Zenon
<1>11. CASE Complete(s, fs, m, "error", {})
  <2>1. {} \in SUBSET Ids /\ "error" \in {"data", "error"}
    BY Zenon
  <2> QED BY <2>1, <1>2, <1>7, <1>8, <1>11, CompleteLife, Zenon
<1> QED BY <1>6, <1>9, <1>10, <1>11, Zenon

\* Del.
LEMMA SReadDelLife ==
  ASSUME FiniteSetFacts, TypeOK, TypeOK', LifeInv, WireMatch, NEW s \in SConn, SReadDel(s)
  PROVE  LifeInv'
<1>1. PICK f, p : f = Answered(s) /\ p = Peer(s)
  BY Zenon
<1>2. AnswerTo(s, f, p) /\ msg[p].type = "del"
  <2>1. TakeAnswer(s, {"del"}, {"data", "error", "auth"})
    BY Zenon DEF SReadDel
  <2>2. AnswerTo(s, f, p) /\ msg[p].type \in {"del"}
    BY <2>1, <1>1, AnswerTaken, Zenon
  <2> QED BY <2>2, Zenon
<1>3. /\ f \in DOMAIN frag /\ f \in Nat /\ f # 0 /\ p \in DOMAIN msg /\ msg[p] \in MsgType
      /\ Answer(s).frag = f
  BY <1>2, SeqFacts, SMTT(30) DEF AnswerTo, TypeOK, FragsType
<1>4. PICK fs, r, d : fs = [frag EXCEPT ![f].done = TRUE] /\ r = msg[p] /\ d = r.del \cup {f}
  BY Zenon
<1>5. PICK m : m = [r EXCEPT !.del = d]
  BY Zenon
<1>6. Continue(s, fs, m) \/ Complete(s, fs, m, "data", m.del)
  BY <1>1, <1>3, <1>4, <1>5, Zenon DEF SReadDel
<1>7. Marked(frag, fs, {f})
  <2>1. TRUE \in BOOLEAN
    BY Zenon
  <2> QED BY <2>1, <1>3, <1>4, AnsweredMarked, Zenon
<1>8. r \in MsgType /\ d \in SUBSET Ids
  <2>1. r \in MsgType /\ f \in Ids
    BY <1>3, <1>4, Zenon DEF Ids
  <2>2. r.del \in SUBSET Ids
    BY <2>1, Zenon DEF MsgType
  <2> QED BY <2>1, <2>2, <1>4, Zenon
<1>9. /\ m \in MsgType /\ m.id = r.id /\ m.type = r.type /\ m.body = r.body /\ m.ndone = r.ndone
      /\ m.del = d
  BY <1>5, <1>8, Zenon DEF MsgType
<1>10. m.done = r.done
  BY <1>5, <1>8, Zenon DEF MsgType
<1>11. /\ m \in MsgType /\ SameRequest(m, msg[p]) /\ m.ndone = msg[p].ndone /\ m.done = msg[p].done
       /\ Brought(m, msg[p], fs, f)
  BY <1>2, <1>4, <1>9, <1>10, Zenon DEF SameRequest, Brought
<1>12. CASE Continue(s, fs, m)
  BY <1>2, <1>7, <1>11, <1>12, ContinueLife, Zenon
<1>13. CASE Complete(s, fs, m, "data", m.del)
  BY <1>2, <1>7, <1>8, <1>9, <1>11, <1>13, CompleteLife, Zenon
<1> QED BY <1>6, <1>12, <1>13, Zenon
-----------------------------------------------------------------------------
(* The order in which a client gets data.                                   *)

\* One more reply, which is no data.
LEMMA DataAppend ==
  ASSUME NEW q \in Seq(ReplyType), NEW x \in ReplyType, x.kind # "data", NEW p, p = Append(q, x),
         \A i, j \in DOMAIN q : i < j /\ q[i].kind = "data" /\ q[j].kind = "data" => q[i].id < q[j].id
  PROVE  /\ \A i, j \in DOMAIN p : i < j /\ p[i].kind = "data" /\ p[j].kind = "data" => p[i].id < p[j].id
         /\ \A r \in Elems(p) : r.kind = "data" => r \in Elems(q)
<1>1. DOMAIN p = DOMAIN q \cup {Len(q) + 1} /\ p[Len(q) + 1] = x /\ \A i \in DOMAIN q : p[i] = q[i]
  BY SeqAppend, SMT
<1>2. \A i \in DOMAIN p : p[i].kind = "data" => i \in DOMAIN q /\ p[i] = q[i]
  BY <1>1, Zenon
<1> QED BY <1>2, Zenon DEF Elems

\* A client gets one more reply, which is no data.
LEMMA ToldData ==
  ASSUME TypeOK, DataInv, NEW c \in Client, NEW id \in Nat, NEW k \in {"error", "timeout", "immediate"},
         toClient'[c] = Append(toClient[c], Reply(id, k, {}))
  PROVE  /\ \A i, j \in DOMAIN toClient'[c] :
              i < j /\ toClient'[c][i].kind = "data" /\ toClient'[c][j].kind = "data"
                => toClient'[c][i].id < toClient'[c][j].id
         /\ \A r \in Elems(toClient'[c]) : r.kind = "data" => r \in Elems(toClient[c])
<1>1. PICK q, x, p : q = toClient[c] /\ x = Reply(id, k, {}) /\ p = toClient'[c]
  BY Zenon
<1>2. q \in Seq(ReplyType) /\ x \in ReplyType /\ x.kind # "data" /\ p = Append(q, x)
  BY <1>1, OwnReplies, Zenon DEF TypeOK, ClientsType
<1>3. \A i, j \in DOMAIN q : i < j /\ q[i].kind = "data" /\ q[j].kind = "data" => q[i].id < q[j].id
  BY <1>1, Zenon DEF DataInv, QueuedInOrder
<1>4. /\ \A i, j \in DOMAIN p : i < j /\ p[i].kind = "data" /\ p[j].kind = "data" => p[i].id < p[j].id
      /\ \A r \in Elems(p) : r.kind = "data" => r \in Elems(q)
  BY <1>2, <1>3, DataAppend, Zenon
<1> QED BY <1>1, <1>4, Zenon

\* It gets the replies to its queue: their order is that of the queue, and what it
\* got before is earlier.
LEMMA GetsData ==
  ASSUME TypeOK, TypeOK', LifeInv, DataInv, NEW c \in Client, Gets(c),
         NEW i \in DOMAIN toClient'[c], NEW j \in DOMAIN toClient'[c],
         i < j, toClient'[c][i].kind = "data", toClient'[c][j].kind = "data"
  PROVE  toClient'[c][i].id < toClient'[c][j].id
<1>1. PICK q, t, u, n : q = inMsgQueue[c] /\ t = toClient[c] /\ u = toClient'[c] /\ n = Len(toClient[c])
  BY Zenon
<1>2. /\ Len(u) = n + Len(q) /\ \A k \in DOMAIN t : u[k] = t[k]
      /\ \A k \in DOMAIN q : u[n + k].id = msg[q[k]].id
  BY <1>1, Zenon DEF Gets
<1>3. q \in Seq(DOMAIN msg) /\ t \in Seq(ReplyType) /\ u \in Seq(ReplyType)
  BY <1>1, Zenon DEF TypeOK, ClientsType
<1>4. /\ n \in Nat /\ DOMAIN t = 1 .. n /\ DOMAIN u = 1 .. Len(u) /\ DOMAIN q = 1 .. Len(q) /\ Len(q) \in Nat
      /\ i \in DOMAIN u /\ j \in DOMAIN u
  BY <1>1, <1>3, SeqFacts, Zenon
<1>5. (i \in DOMAIN t \/ i - n \in DOMAIN q) /\ (j \in DOMAIN t \/ j - n \in DOMAIN q)
      /\ (j \in DOMAIN t => i \in DOMAIN t)
  BY <1>2, <1>4, SMT
<1>6. CASE j \in DOMAIN t
  <2>1. i \in DOMAIN t /\ u[i] = t[i] /\ u[j] = t[j] /\ t[i].kind = "data" /\ t[j].kind = "data"
    BY <1>1, <1>2, <1>5, <1>6, Zenon
  <2>2. t[i].id < t[j].id
    BY <1>1, <1>6, <2>1, Zenon DEF DataInv, QueuedInOrder
  <2> QED BY <1>1, <2>1, <2>2, Zenon
<1>7. CASE i \in DOMAIN t /\ j - n \in DOMAIN q
  <2>1. u[i] = t[i] /\ t[i].kind = "data" /\ u[n + (j - n)].id = msg[q[j - n]].id
    BY <1>1, <1>2, <1>7, Zenon
  <2>2. t[i] \in Elems(toClient[c]) /\ q[j - n] \in Queued(c)
    BY <1>1, <1>7, Zenon DEF Elems, Queued
  <2>3. t[i].id < msg[q[j - n]].id
    BY <2>1, <2>2, Zenon DEF DataInv
  <2>4. n + (j - n) = j
    BY <1>4, SMT
  <2> QED BY <1>1, <2>1, <2>3, <2>4, Zenon
<1>8. CASE i - n \in DOMAIN q /\ j - n \in DOMAIN q
  <2>1. u[n + (i - n)].id = msg[q[i - n]].id /\ u[n + (j - n)].id = msg[q[j - n]].id
    BY <1>2, <1>8, Zenon
  <2>2. n + (i - n) = i /\ n + (j - n) = j /\ i - n < j - n
    BY <1>4, SMT
  <2>3. msg[q[i - n]].id < msg[q[j - n]].id
    BY <1>1, <1>8, <2>2, Zenon DEF LifeInv, QueuesOK
  <2> QED BY <1>1, <2>1, <2>2, <2>3, Zenon
<1> QED BY <1>5, <1>6, <1>7, <1>8, Zenon

\* A step that adds no data to what a client got keeps DataInv for it.
LEMMA DataSame ==
  ASSUME TypeOK, LifeInv, LifeInv', MsgsStep, DataInv, NEW c \in Client,
         Rests(c) \/ Leaves(c) \/ Asks(c) \/ Joins(c),
         NEW r \in Elems(toClient'[c]), r.kind = "data"
  PROVE  /\ \A m \in Queued(c)' : r.id < msg'[m].id
         /\ Reacting(c)' => r.id < msgId'
<1>1. toClient'[c] = toClient[c] /\ r \in Elems(toClient[c])
  BY Zenon DEF Rests, Leaves, Asks, Joins
<1>2. (\A m \in Queued(c) : r.id < msg[m].id) /\ (Reacting(c) => r.id < msgId)
  BY <1>1, Zenon DEF DataInv
<1>3. CASE Rests(c)
  <2>1. Queued(c)' = Queued(c)
    BY <1>3, QueueStays, Zenon DEF Rests
  <2> QED BY <1>2, <1>3, <2>1, QueuedKept, Zenon DEF Rests
<1>4. CASE Leaves(c)
  <2>1. Queued(c)' = {}
    BY <1>4, QueueStays, Zenon DEF Leaves
  <2> QED BY <1>4, <2>1, Zenon DEF Leaves
<1>5. CASE Asks(c)
  <2>1. Queued(c)' = Queued(c)
    BY <1>5, QueueStays, Zenon DEF Asks
  <2>2. r.id \in Elems(asked[c])
    BY <1>1, Zenon DEF LifeInv, RepliesOwn
  <2>3. r.id \in Nat /\ r.id <= msgId
    BY <2>2, AskedIds, Zenon DEF LifeInv
  <2>4. msgId \in Nat /\ msgId' = msgId + 1
    BY <1>5, ProxyAssumption, SMT DEF TypeOK, MsgsType, Asks
  <2>5. r.id < msgId'
    BY <2>3, <2>4, SMT
  <2> QED BY <1>2, <2>1, <2>5, QueuedKept, Zenon
<1>6. CASE Joins(c)
  <2>1. handling.msg \in Live(msg, freeMsgs) /\ msg[handling.msg].id = msgId /\ Reacting(c) /\ msg' = msg
    BY <1>6, Zenon DEF LifeInv, ReactOK, Joins, Reacting
  <2>2. Elems(inMsgQueue'[c]) = Elems(inMsgQueue[c]) \cup {handling.msg}
    <3>1. inMsgQueue[c] \in Seq(DOMAIN msg) /\ handling.msg \in DOMAIN msg
      BY <2>1, Zenon DEF TypeOK, ClientsType, Live
    <3>2. Elems(Append(inMsgQueue[c], handling.msg)) = Elems(inMsgQueue[c]) \cup {handling.msg}
      BY <3>1, ElemsAppend, SMT
    <3> QED BY <1>6, <3>2, Zenon DEF Joins
  <2>3. Queued(c)' = Queued(c) \cup {handling.msg}
    BY <2>2, Zenon DEF Queued
  <2>4. r.id < msgId
    BY <1>2, <2>1, Zenon
  <2> QED BY <1>2, <1>6, <2>1, <2>3, <2>4, Zenon DEF Joins
<1> QED BY <1>3, <1>4, <1>5, <1>6, Zenon

\* Every step keeps, of one client, the order of the data it gets.
LEMMA ClientData ==
  ASSUME TypeOK, TypeOK', LifeInv, LifeInv', MsgsStep, DataInv, NEW c \in Client, ClientStep(c)
  PROVE  /\ \A i, j \in DOMAIN toClient'[c] :
              i < j /\ toClient'[c][i].kind = "data" /\ toClient'[c][j].kind = "data"
                => toClient'[c][i].id < toClient'[c][j].id
         /\ \A r \in Elems(toClient'[c]) : r.kind = "data" =>
              /\ \A m \in Queued(c)' : r.id < msg'[m].id
              /\ Reacting(c)' => r.id < msgId'
<1>1. CASE Rests(c) \/ Leaves(c) \/ Asks(c) \/ Joins(c)
  <2>1. toClient'[c] = toClient[c]
    BY <1>1, Zenon DEF Rests, Leaves, Asks, Joins
  <2>2. \A i, j \in DOMAIN toClient[c] :
          i < j /\ toClient[c][i].kind = "data" /\ toClient[c][j].kind = "data"
            => toClient[c][i].id < toClient[c][j].id
    BY Zenon DEF DataInv, QueuedInOrder
  <2> QED BY <1>1, <2>1, <2>2, DataSame, Zenon
<1>2. CASE Refused(c) \/ Immediate(c) \/ Told(c)
  <2>1. ~Reacting(c)' /\ (Queued(c)' = Queued(c) \/ Queued(c)' = {})
    BY <1>2, QueueStays, Zenon DEF Refused, Immediate, Told
  <2>2. \E id \in Nat, k \in {"error", "timeout", "immediate"} :
          toClient'[c] = Append(toClient[c], Reply(id, k, {}))
    <3>1. msgId \in Nat /\ msgId + 1 \in Nat
      BY ProxyAssumption, SMT DEF TypeOK, MsgsType
    <3>2. CASE Refused(c)
      BY <3>1, <3>2, Zenon DEF Refused
    <3>3. CASE Immediate(c)
      BY <3>1, <3>3, Zenon DEF Immediate
    <3>4. CASE Told(c)
      BY <3>4, HeadReply, Zenon DEF Told
    <3> QED BY <1>2, <3>2, <3>3, <3>4, Zenon
  <2>3. /\ \A i, j \in DOMAIN toClient'[c] :
             i < j /\ toClient'[c][i].kind = "data" /\ toClient'[c][j].kind = "data"
               => toClient'[c][i].id < toClient'[c][j].id
        /\ \A r \in Elems(toClient'[c]) : r.kind = "data" => r \in Elems(toClient[c])
    BY <2>2, ToldData, Zenon
  <2>4. \A r \in Elems(toClient[c]) : r.kind = "data" => \A m \in Queued(c) : r.id < msg[m].id
    BY Zenon DEF DataInv
  <2>5. \A r \in Elems(toClient'[c]) : r.kind = "data" => \A m \in Queued(c)' : r.id < msg'[m].id
    BY <2>1, <2>3, <2>4, QueuedKept, Zenon
  <2> QED BY <2>1, <2>3, <2>5, Zenon
<1>3. CASE Gets(c)
  <2>1. ~Reacting(c)' /\ Queued(c)' = {}
    BY <1>3, QueueStays, Zenon DEF Gets
  <2>2. \A i, j \in DOMAIN toClient'[c] :
          i < j /\ toClient'[c][i].kind = "data" /\ toClient'[c][j].kind = "data"
            => toClient'[c][i].id < toClient'[c][j].id
    BY <1>3, GetsData, Zenon
  <2> QED BY <2>1, <2>2, Zenon
<1> QED BY <1>1, <1>2, <1>3, Zenon DEF ClientStep

\* Every step keeps the order in which the clients get data.
LEMMA NextData ==
  ASSUME TypeOK, TypeOK', LifeInv, LifeInv', MsgsStep, DataInv, \A c \in Client : ClientStep(c)
  PROVE  DataInv'
<1>1. QueuedInOrder'
  BY ClientData, Zenon DEF QueuedInOrder
<1>2. \A c \in Client : \A r \in Elems(toClient'[c]) : r.kind = "data" =>
       /\ \A m \in Queued(c)' : r.id < msg'[m].id
       /\ Reacting(c)' => r.id < msgId'
  BY ClientData, Zenon
<1> QED BY <1>1, <1>2, Zenon DEF DataInv
-----------------------------------------------------------------------------
(* The order in which a client gets replies, when each request gets one.    *)

\* Only msgTimeout has a timeout error sent.
LEMMA NextTasks ==
  ASSUME TypeOK, Quiet \/ BusyStep
  PROVE  TasksStep
<1>0. tasks \in Seq(TaskType)
  BY Zenon DEF TypeOK, ControlType
<1>1. CASE Quiet
  BY <1>1, Zenon DEF Quiet, TasksStep
<1>2. CASE \E c \in Client, m \in freeMsgs \cup {Len(msg) + 1} :
             CReactImmediate(c, m) \/ \E q \in Requests : CReact(c, q, m)
  <2>1. PICK c \in Client, m \in freeMsgs \cup {Len(msg) + 1} :
          CReactImmediate(c, m) \/ \E q \in Requests : CReact(c, q, m)
    BY <1>2, Zenon
  <2>2. ASSUME CReactImmediate(c, m) PROVE tasks' = tasks
    BY <2>2, Zenon DEF CReactImmediate
  <2>3. ASSUME NEW q \in Requests, CReact(c, q, m) PROVE tasks' = tasks
    BY <2>3, Zenon DEF CReact
  <2>4. tasks' = tasks
    BY <2>1, <2>2, <2>3, Zenon
  <2> QED BY <1>0, <2>4, RepliesPendingSame, Zenon DEF TasksStep
<1>3. CASE OnCReact
  <2>1. ASSUME NEW f \in DOMAIN frag, DispatchFails(f) PROVE RepliesPending
    <3>1. tasks' = tasks
      BY <2>1, Zenon DEF DispatchFails
    <3> QED BY <1>0, <3>1, RepliesPendingSame, Zenon
  <2> QED BY <1>3, <2>1, DispatchFacts, Zenon DEF TasksStep, OnCReact
<1>4. CASE AsyncWrite
  <2>1. tasks # <<>> /\ tasks' = Tail(tasks)
    BY <1>4, Zenon DEF AsyncWrite, RunTask
  <2> QED BY <1>0, <2>1, RepliesPendingTail, Zenon DEF TasksStep
<1>5. ASSUME NEW f \in DOMAIN timeoutTree, MsgTimeout(f) PROVE TasksStep
  <2>1. CASE tasks' = tasks
    BY <1>0, <2>1, RepliesPendingSame, Zenon DEF TasksStep
  <2>2. CASE tasks' # tasks
    BY <1>5, <2>2, Zenon DEF MsgTimeout, TasksStep, TimedOut
  <2> QED BY <2>1, <2>2, Zenon
<1>6. CASE \E s \in SConn : SReadTooLarge(s) \/ SReadDefault(s) \/ SReadMGet(s) \/ SReadMSet(s) \/ SReadDel(s)
  <2>1. tasks' = tasks
    BY <1>6, AnswerMsgs, Zenon
  <2> QED BY <1>0, <2>1, RepliesPendingSame, Zenon DEF TasksStep
<1> QED BY <1>1, <1>2, <1>3, <1>4, <1>5, <1>6, Zenon DEF BusyStep
-----------------------------------------------------------------------------
\* OnCReact never gives up on a request where every slot has a node that can be reached.
LEMMA NeverRefused ==
  ASSUME Reachable, TypeOK, RouteInv, NEW f \in DOMAIN frag, DispatchFails(f)
  PROVE  FALSE
<1>1. /\ handling.op = "react" /\ f \in handling.todo
      /\ Slots2Node[frag[f].slot] \notin pools \/ "dial" \in Faults
  BY Zenon DEF DispatchFails, PoolGetNil
<1>2. frag[f].slot \in Slot
  BY <1>1, Zenon DEF TypeOK, FragsType
<1> QED BY <1>1, <1>2, Zenon DEF Reachable, RouteInv

\* Of one client, every step keeps the order of its replies.
LEMMA ClientOrder ==
  ASSUME TypeOK, TypeOK', LifeInv, LifeInv', MsgsStep, OrderInv, NEW c \in Client,
         Rests(c) \/ Leaves(c) \/ Asks(c) \/ Joins(c) \/ Gets(c)
  PROVE  /\ \A i \in DOMAIN toClient'[c] : i \in DOMAIN asked'[c] /\ toClient'[c][i].id = asked'[c][i]
         /\ cconn'[c] # "closed" => Lined(c)'
<1>0. PICK a, t, q : a = asked[c] /\ t = toClient[c] /\ q = inMsgQueue[c]
  BY Zenon
<1>1. a \in Seq(Ids) /\ t \in Seq(ReplyType) /\ q \in Seq(DOMAIN msg)
  BY <1>0, Zenon DEF TypeOK, ClientsType
<1>2. /\ DOMAIN a = 1 .. Len(a) /\ Len(a) \in Nat /\ DOMAIN t = 1 .. Len(t) /\ Len(t) \in Nat
      /\ DOMAIN q = 1 .. Len(q) /\ Len(q) \in Nat
  BY <1>1, SeqFacts, Zenon
<1>3. \A i \in DOMAIN t : i \in DOMAIN a /\ t[i].id = a[i]
  BY <1>0, Zenon DEF OrderInv, InOrder
<1>4. ASSUME cconn[c] # "closed"
      PROVE  /\ Len(a) = Len(t) + Len(q) + (IF Reacting(c) THEN 1 ELSE 0)
             /\ \A i \in DOMAIN q : a[Len(t) + i] = msg[q[i]].id
             /\ Reacting(c) => a[Len(a)] = msgId
  BY <1>0, <1>4, Zenon DEF OrderInv, Lined
<1>5. CASE Rests(c)
  <2>1. asked'[c] = a /\ toClient'[c] = t /\ inMsgQueue'[c] = q /\ (Reacting(c)' <=> Reacting(c))
        /\ (Reacting(c) => msgId' = msgId)
    BY <1>0, <1>5, Zenon DEF Rests
  <2>2. ASSUME cconn'[c] # "closed" PROVE Lined(c)'
    <3>1. cconn[c] # "closed"
      BY <1>5, <2>2, Zenon DEF Rests
    <3>2. \A i \in DOMAIN q : msg'[q[i]].id = msg[q[i]].id
      <4>1. \A i \in DOMAIN q : q[i] \in Queued(c) /\ q[i] \in Queued(c)'
        BY <1>0, <2>1, Zenon DEF Queued, Elems
      <4> QED BY <4>1, QueuedKept, Zenon
    <3> QED BY <1>4, <2>1, <3>1, <3>2, Zenon DEF Lined
  <2> QED BY <1>3, <2>1, <2>2, Zenon
<1>6. CASE Leaves(c)
  <2>1. asked'[c] = a /\ toClient'[c] = t /\ inMsgQueue'[c] = <<>> /\ ~Reacting(c)'
    BY <1>0, <1>6, Zenon DEF Leaves
  <2>2. ASSUME cconn'[c] # "closed" PROVE Lined(c)'
    <3>1. cconn'[c] = "new"
      BY <1>6, <2>2, Zenon DEF Leaves, TypeOK, ClientsType
    <3>2. a = <<>>
      BY <1>0, <1>6, <3>1, Zenon DEF Leaves, LifeInv, AskedOK
    <3>3. Len(a) = 0 /\ Len(t) = 0 /\ Len(<<>>) = 0 /\ DOMAIN <<>> = {} /\ Len(t) + 0 + 0 = 0
      BY <1>2, <1>3, <3>2, SMT
    <3> QED BY <2>1, <3>3, Zenon DEF Lined
  <2> QED BY <1>3, <2>1, <2>2, Zenon
<1>7. CASE Asks(c)
  <2>1. PICK b, n : b = asked'[c] /\ n = msgId + 1
    BY Zenon
  <2>2. /\ b = Append(a, n) /\ toClient'[c] = t /\ inMsgQueue'[c] = q /\ ~Reacting(c) /\ Reacting(c)'
        /\ msgId' = n /\ cconn[c] # "closed"
    BY <1>0, <1>7, <2>1, Zenon DEF Asks
  <2>3. b \in Seq(Ids)
    BY <2>1, Zenon DEF TypeOK, ClientsType
  <2>4. /\ Len(b) = Len(a) + 1 /\ DOMAIN a \subseteq DOMAIN b /\ b[Len(b)] = n
        /\ \A i \in DOMAIN a : b[i] = a[i]
    <3>1. n \in Ids
      <4>1. Len(b) \in Nat \ {0} /\ b[Len(b)] = n /\ Len(b) \in DOMAIN b
        BY <1>1, <2>2, SMT
      <4> QED BY <2>3, <4>1, SeqFacts, Zenon
    <3> QED BY <1>1, <2>2, <3>1, SeqAppend, SMT
  <2>5. \A i \in DOMAIN t : i \in DOMAIN b /\ t[i].id = b[i]
    BY <1>3, <2>4, Zenon
  <2>6. Len(a) = Len(t) + Len(q) /\ \A i \in DOMAIN q : a[Len(t) + i] = msg[q[i]].id
    <3>1. Len(a) = Len(t) + Len(q) + 0
      BY <1>4, <2>2, Zenon
    <3> QED BY <1>2, <1>4, <2>2, <3>1, SMT
  <2>7. Len(b) = Len(t) + Len(q) + 1 /\ \A i \in DOMAIN q : Len(t) + i \in DOMAIN a
    BY <1>2, <2>4, <2>6, SMT
  <2>8. \A i \in DOMAIN q : msg'[q[i]].id = msg[q[i]].id
    <3>1. \A i \in DOMAIN q : q[i] \in Queued(c) /\ q[i] \in Queued(c)'
      BY <1>0, <2>2, Zenon DEF Queued, Elems
    <3> QED BY <3>1, QueuedKept, Zenon
  <2>9. \A i \in DOMAIN q : b[Len(t) + i] = msg'[q[i]].id
    BY <2>4, <2>6, <2>7, <2>8, Zenon
  <2>10. Lined(c)'
    BY <2>1, <2>2, <2>4, <2>7, <2>9, Zenon DEF Lined
  <2> QED BY <2>1, <2>2, <2>5, <2>10, Zenon
<1>8. CASE Joins(c)
  <2>1. PICK p, m : p = inMsgQueue'[c] /\ m = handling.msg
    BY Zenon
  <2>2. /\ p = Append(q, m) /\ toClient'[c] = t /\ asked'[c] = a /\ Reacting(c) /\ ~Reacting(c)'
        /\ msg' = msg /\ cconn'[c] = cconn[c]
    BY <1>0, <1>8, <2>1, Zenon DEF Joins
  <2>3. m \in Live(msg, freeMsgs) /\ msg[m].id = msgId /\ cconn[c] # "closed"
    BY <2>1, <2>2, Zenon DEF LifeInv, ReactOK, Reacting
  <2>4. /\ Len(p) = Len(q) + 1 /\ DOMAIN p = DOMAIN q \cup {Len(q) + 1} /\ p[Len(q) + 1] = m
        /\ \A i \in DOMAIN q : p[i] = q[i]
    <3>1. m \in DOMAIN msg
      BY <2>3, Zenon DEF Live
    <3> QED BY <1>1, <2>2, <3>1, SeqAppend, SMT
  <2>5. Len(a) = Len(t) + Len(q) + 1 /\ a[Len(a)] = msgId
    BY <1>4, <2>2, <2>3, Zenon
  <2>6. Len(a) = Len(t) + Len(p) + 0 /\ Len(a) = Len(t) + (Len(q) + 1)
    BY <1>2, <2>4, <2>5, SMT
  <2>7. \A i \in DOMAIN p : a[Len(t) + i] = msg[p[i]].id
    BY <1>4, <2>3, <2>4, <2>5, <2>6, Zenon
  <2>8. Lined(c)'
    BY <2>1, <2>2, <2>6, <2>7, Zenon DEF Lined
  <2> QED BY <1>3, <2>2, <2>8, Zenon
<1>9. CASE Gets(c)
  <2>1. PICK u : u = toClient'[c]
    BY Zenon
  <2>2. /\ Len(u) = Len(t) + Len(q) /\ \A k \in DOMAIN t : u[k] = t[k]
        /\ \A k \in DOMAIN q : u[Len(t) + k].id = msg[q[k]].id
        /\ asked'[c] = a /\ inMsgQueue'[c] = <<>> /\ ~Reacting(c) /\ ~Reacting(c)' /\ cconn[c] # "closed"
    BY <1>0, <1>9, <2>1, Zenon DEF Gets
  <2>3. u \in Seq(ReplyType)
    BY <2>1, Zenon DEF TypeOK, ClientsType
  <2>4. DOMAIN u = 1 .. Len(u)
    BY <2>3, SeqFacts, Zenon
  <2>5. Len(a) = Len(t) + Len(q) + 0 /\ \A i \in DOMAIN q : a[Len(t) + i] = msg[q[i]].id
    BY <1>4, <2>2, Zenon
  <2>6. Len(a) = Len(u) + Len(<<>>) + 0 /\ DOMAIN <<>> = {} /\ DOMAIN u = DOMAIN a
    BY <1>2, <2>2, <2>4, <2>5, SMT
  <2>7. ASSUME NEW i \in DOMAIN u PROVE i \in DOMAIN a /\ u[i].id = a[i]
    <3>1. CASE i \in DOMAIN t
      BY <1>3, <2>2, <3>1, Zenon
    <3>2. CASE i - Len(t) \in DOMAIN q
      <4>1. Len(t) + (i - Len(t)) = i
        BY <1>2, <2>4, SMT
      <4> QED BY <2>2, <2>5, <2>6, <3>2, <4>1, Zenon
    <3>3. i \in DOMAIN t \/ i - Len(t) \in DOMAIN q
      BY <1>2, <2>2, <2>4, SMT
    <3> QED BY <3>1, <3>2, <3>3, Zenon
  <2>8. Lined(c)'
    BY <2>1, <2>2, <2>6, Zenon DEF Lined
  <2> QED BY <2>1, <2>2, <2>7, <2>8, Zenon
<1> QED BY <1>5, <1>6, <1>7, <1>8, <1>9, Zenon

\* Every step keeps the order of the replies, where nothing but the requests'
\* own replies is sent.
LEMMA NextOrder ==
  ASSUME Reachable, "immediate" \notin Faults, ~RequestTimeout, TypeOK, TypeOK', RouteInv, LifeInv, LifeInv',
         MsgsStep, TasksStep, OrderInv, \A c \in Client : ClientStep(c)
  PROVE  OrderInv'
<1>1. \A i \in DOMAIN tasks' : tasks'[i].op # "reply"
  BY Zenon DEF RouteInv, TasksStep, RepliesPending, OrderInv
<1>2. ASSUME NEW c \in Client PROVE Rests(c) \/ Leaves(c) \/ Asks(c) \/ Joins(c) \/ Gets(c)
  <2>1. ~Refused(c) /\ ~Immediate(c)
    BY NeverRefused, Zenon DEF Refused, Immediate
  <2>2. ~Told(c)
    BY HeadReply, Zenon DEF Told, OrderInv
  <2> QED BY <2>1, <2>2, Zenon DEF ClientStep
<1>3. InOrder'
  BY <1>2, ClientOrder, Zenon DEF InOrder
<1>4. \A c \in Client : cconn'[c] # "closed" => Lined(c)'
  BY <1>2, ClientOrder, Zenon
<1> QED BY <1>1, <1>3, <1>4, Zenon DEF OrderInv
-----------------------------------------------------------------------------
(* What LifeInv says of Done and FragDoneNumber.                            *)

\* A Msg in a queue that is Done has no frag left.
LEMMA LifeDone ==
  ASSUME TypeOK, LifeInv
  PROVE  DoneMeansAll
<1> SUFFICES ASSUME NEW c \in Client, NEW m \in Queued(c), msg[m].done
             PROVE  \A f \in msg[m].body : frag[f].done
  BY Zenon DEF DoneMeansAll
<1>1. m \in Live(msg, freeMsgs)
  BY Zenon DEF LifeInv, QueuesOK, Queued, Elems
<1> QED BY <1>1, Zenon DEF LifeInv, MsgsOK, MsgSound, Finished

\* Its FragDoneNumber is exact if nothing times out.
LEMMA LifeCount ==
  ASSUME TypeOK, LifeInv, ~RequestTimeout
  PROVE  FragDoneNumberExact
<1> SUFFICES ASSUME NEW c \in Client, NEW m \in Queued(c)
             PROVE  msg[m].ndone = Cardinality(DoneOf(msg[m].body, frag))
  BY Zenon DEF FragDoneNumberExact, DoneOf
<1>1. m \in Live(msg, freeMsgs)
  BY Zenon DEF LifeInv, QueuesOK, Queued, Elems
<1>2. MsgSound(msg[m], frag) /\ (msg[m].done \/ Partial(msg[m], frag))
  BY <1>1, Zenon DEF LifeInv, MsgsOK
<1>3. CASE msg[m].done
  <2>1. DoneOf(msg[m].body, frag) = msg[m].body
    BY <1>2, <1>3, Zenon DEF MsgSound, Finished, DoneOf
  <2> QED BY <1>2, <1>3, <2>1, Zenon DEF MsgSound, Finished
<1> QED BY <1>2, <1>3, Zenon DEF MsgSound, Gathered
=============================================================================

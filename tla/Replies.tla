------------------------------- MODULE Replies -------------------------------
(***************************************************************************)
(* The reply codec: what SRespCodec.Decode and conn.sread (codec_s.go,     *)
(* connection.go) make of the bytes Redis sends on the server connections, *)
(* and how the replies to the fragments of MGET, MSET and DEL become the   *)
(* reply to the client.                                                    *)
(***************************************************************************)
EXTENDS Resp, FiniteSets, Functions, SequencesExt

CONSTANTS
  Pipelines,     \* sequences of requests: [type, keys], or type "default"
                 \* with the reply Redis gives it
  Slot(_),       \* hashkit.Hash of a key
  ConnOf(_),     \* the connection the fragments of a slot are sent on
  Stored(_),     \* the bulk Redis holds for a key
  Failing,       \* the types Redis may answer with an error; not "mget", of
                 \* which Proxy has the consequences
  MsgMaxLength

Error == <<Char("-")>> \o CRLF
OK == <<Char("+OK")>> \o CRLF
Integer(n) == <<Length(":", n)>> \o CRLF
ErrUnKnown == <<Char("-ERR unknown")>> \o CRLF
ErrUnKnownMget == <<Char("-ERR unknown mget error")>> \o CRLF
ErrMsgRspTooLarge == <<Char("-ERR rsp msg length too large")>> \o CRLF

VARIABLES
  asked,      \* the pipeline
  msgs,       \* the messages as the proxy holds them
  inFrags,    \* per connection: the fragments Redis still has to answer
  replies,    \* what Redis answers to each fragment
  wire,       \* per connection: characters that have not arrived
  inbound     \* per connection: arrived and not decoded

vars == <<asked, msgs, inFrags, replies, wire, inbound>>

Conns == {ConnOf(s) : s \in 0..2}
SlotsOf(q) == IF q.type = "default" THEN {0} ELSE {Slot(k) : k \in Range(q.keys)}
Frags == {f \in (1..Len(asked)) \X (0..2) : f[2] \in SlotsOf(asked[f[1]])}
KeysIn(q, s) == SelectSeq(q.keys, LAMBDA k : Slot(k) = s)

(* What Redis answers to the keys ks of a request (external). *)
Answer(q, ks) ==
  CASE q.type = "mget" -> <<Length("*", Len(ks))>> \o CRLF
                            \o Concat([i \in 1..Len(ks) |-> Stored(ks[i])])
    [] q.type = "mset" -> OK
    [] q.type = "del" -> Integer(Cardinality({k \in Range(ks) : Stored(k) # NilBulk}))
    [] q.type = "default" -> q.reply

-----------------------------------------------------------------------------
(* readReply: the end of the reply that starts after r.  A negative length *)
(* ends a reply at its first line.  Arrays nest up to two deep here, and   *)
(* every other line is a status, an integer or an error.                   *)
readReply(buf, start) ==
  LET at[d \in 0..2, r \in 0..Len(buf)] ==
        LET line == ReadLine(buf, r)
            len == parseLen(line.val)
            items[i \in 0..len.n] ==
              IF i = 0 THEN line
              ELSE LET p == items[i - 1]
                   IN IF p.err # "" THEN p ELSE at[d - 1, p.r]
        IN IF line.err # "" THEN line
           ELSE IF line.val[1].c \notin {"$", "*"} \/ len.n < 0 THEN line
           ELSE IF line.val[1].c = "$" THEN ReadBulk(buf, line.r, len.n)
           ELSE items[len.n]
  IN at[2, start]

(* parseMGet: the elements of the array, each with its own length line.    *)
(* make([]string, -1) panics when the reply is no array: see Failing.      *)
parseMGet(body) ==
  LET head == ReadLine(body, 0)
      f[i \in 0..Len(body)] ==
        IF i = 0 THEN [r |-> head.r, els |-> <<>>]
        ELSE LET p == f[i - 1]
                 line == ReadLine(body, p.r)
                 n == parseLen(line.val).n
                 end == IF n < 0 THEN line.r ELSE ReadBulk(body, line.r, n).r
             IN IF line.err = "EmptyLine" THEN p
                ELSE [r |-> end, els |-> Append(p.els, SubSeq(body, p.r + 1, end))]
  IN f[Len(body)].els

AllIn(m) == m.fragDoneNumber = Cardinality(DOMAIN m.body)
Finish(m, rsp) == [m EXCEPT !.done = TRUE, !.rspBody = rsp]

(* Bug: the values are put together fragment by fragment. *)
MGetBySlot(m) ==
  LET rsp == <<Length("*", Len(m.keys))>> \o CRLF
               \o Concat([i \in 1..3 |-> IF i - 1 \in DOMAIN m.body
                                         THEN Concat(m.body[i - 1].rsp) ELSE <<>>])
  IN IF ~AllIn(m) THEN m
     ELSE IF Len(rsp) > MsgMaxLength THEN Finish(m, ErrMsgRspTooLarge)
     ELSE Finish(m, rsp)

(* MGet: the value of each key of the request, looked up by the key's      *)
(* first position among the keys of its slot.                              *)
MGet(m) ==
  LET ValueOf(k) ==
        LET ks == m.frags[Slot(k)]
            i == CHOOSE j \in 1..Len(ks) : ks[j] = k /\ \A h \in 1..j - 1 : ks[h] # k
        IN m.body[Slot(k)].rsp[i]
      rsp == <<Length("*", Len(m.keys))>> \o CRLF
               \o Concat([i \in 1..Len(m.keys) |-> ValueOf(m.keys[i])])
  IN IF ~AllIn(m) THEN m
     ELSE IF Len(rsp) > MsgMaxLength THEN Finish(m, ErrMsgRspTooLarge)
     ELSE Finish(m, rsp)

MSet(m, s) ==
  IF ~AllIn(m) THEN m
  ELSE IF \A t \in DOMAIN m.body : m.body[t].ok THEN Finish(m, OK)
  ELSE Finish(m, ErrUnKnown)

Del(m, body) ==
  LET n == [m EXCEPT !.delNum = @ + parseLen(body).n]
  IN IF ~AllIn(m) THEN n ELSE Finish(n, Integer(n.delNum))

(* An error of one fragment is the answer to the whole message. *)
FailMsg(m, err) ==
  [Finish(m, err) EXCEPT !.fragDoneNumber = Cardinality(DOMAIN m.body),
                         !.body = [t \in DOMAIN m.body |-> [m.body[t] EXCEPT !.done = TRUE]]]

(* sread after Decode: the reply body to the fragment of slot s. *)
Handle(m, s, body) ==
  LET frag == [m.body[s] EXCEPT !.done = TRUE, !.ok = body = OK,
                                !.rsp = IF m.type = "mget" THEN parseMGet(body) ELSE <<>>]
      n == [m EXCEPT !.fragDoneNumber = @ + 1, !.body[s] = frag]
  IN IF m.body[s].done THEN m
     ELSE IF Len(body) > MsgMaxLength THEN FailMsg(m, ErrMsgRspTooLarge)
     ELSE IF m.type = "mget" /\ frag.rsp = <<>> THEN FailMsg(n, ErrUnKnownMget)
     ELSE CASE m.type = "mget" -> MGet(n)
            [] m.type = "mset" -> MSet(n, s)
            [] m.type = "del" -> Del(n, body)
            [] OTHER -> Finish(n, body)

-----------------------------------------------------------------------------
Fresh(q) ==
  [type |-> q.type,
   keys |-> IF q.type = "default" THEN <<>> ELSE q.keys,
   frags |-> [s \in SlotsOf(q) |-> IF q.type = "default" THEN <<>> ELSE KeysIn(q, s)],
   body |-> [s \in SlotsOf(q) |-> [done |-> FALSE, ok |-> FALSE, rsp |-> <<>>]],
   fragDoneNumber |-> 0, delNum |-> 0, done |-> FALSE, rspBody |-> <<>>]

Init ==
  /\ asked \in Pipelines
  /\ msgs = [i \in 1..Len(asked) |-> Fresh(asked[i])]
  /\ replies \in {r \in [Frags -> {"answer", "error"}] :
                    \A f \in Frags : r[f] = "error" => asked[f[1]].type \in Failing}
  /\ inFrags = [c \in Conns |->
       SelectSeq(SetToSortSeq(Frags, LAMBDA f, g : 3 * f[1] + f[2] < 3 * g[1] + g[2]),
                 LAMBDA f : ConnOf(f[2]) = c)]
  /\ wire = [c \in Conns |-> Concat([i \in 1..Len(inFrags[c]) |->
       LET f == inFrags[c][i]
           q == asked[f[1]]
       IN IF replies[f] = "error" THEN Error
          ELSE Answer(q, IF q.type = "default" THEN <<>> ELSE KeysIn(q, f[2]))])]
  /\ inbound = [c \in Conns |-> <<>>]

(* Decode and sread: one complete reply for the oldest fragment. *)
SRead(c) ==
  LET end == readReply(inbound[c], 0)
      f == inFrags[c][1]
      body == SubSeq(inbound[c], 1, end.r)
  IN /\ end.err = ""
     /\ inFrags' = [inFrags EXCEPT ![c] = Tail(@)]
     /\ inbound' = [inbound EXCEPT ![c] = SubSeq(@, end.r + 1, Len(@))]
     /\ msgs' = [msgs EXCEPT ![f[1]] = Handle(@, f[2], body)]
     /\ UNCHANGED <<asked, replies, wire>>

Arrive(c) ==
  /\ readReply(inbound[c], 0).err \notin {"", "ErrInvalidResp"}
  /\ \E k \in 1..Len(wire[c]) :
       /\ inbound' = [inbound EXCEPT ![c] = @ \o SubSeq(wire[c], 1, k)]
       /\ wire' = [wire EXCEPT ![c] = SubSeq(@, k + 1, Len(@))]
  /\ UNCHANGED <<asked, msgs, inFrags, replies>>

Next == \E c \in Conns : SRead(c) \/ Arrive(c)

Spec == Init /\ [][Next]_vars

-----------------------------------------------------------------------------
Erred(i) == \E f \in Frags : f[1] = i /\ replies[f] = "error"

(* Merging.  Whatever the order and the cuts in which the replies of the   *)
(* fragments arrive, the client gets what one Redis holding every key      *)
(* would have answered: the values of MGET in the order of its keys, the   *)
(* sum of DEL, OK for MSET; an error if that reply is over MsgMaxLength    *)
(* (sread, MGet, MSet, Del, Default).                                      *)
MergedAsAsked ==
  \A i \in 1..Len(msgs) :
    msgs[i].done /\ ~Erred(i) =>
      LET whole == Answer(asked[i], IF asked[i].type = "default" THEN <<>> ELSE asked[i].keys)
      IN msgs[i].rspBody = IF Len(whole) > MsgMaxLength THEN ErrMsgRspTooLarge ELSE whole

(* No false success.  An MSET or a command with one key of which some      *)
(* fragment failed in Redis is never answered as if it had succeeded (f.Ok *)
(* in MSet, Default).  MGET and DEL do not keep to it: see the README.     *)
FailureShown ==
  \A i \in 1..Len(msgs) :
    msgs[i].done /\ Erred(i) /\ asked[i].type \in {"mset", "default"} =>
      msgs[i].rspBody \in {Error, ErrUnKnown}

(* Nothing is stranded.  When every byte has arrived and been read, every  *)
(* message is complete: no cut, empty value, nil or LF inside a value      *)
(* makes readReply swallow or leave part of a neighbour's reply.           *)
AllMerged ==
  (\A c \in Conns : wire[c] = <<>> /\ readReply(inbound[c], 0).err # "") =>
    \A i \in 1..Len(msgs) : msgs[i].done
=============================================================================

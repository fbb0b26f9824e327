------------------------------ MODULE Requests ------------------------------
(***************************************************************************)
(* The request codec: what CRespCodec.Decode (codec_c.go) makes of the     *)
(* bytes of one client connection, however TCP cuts them, how it splits    *)
(* MGET, DEL and MSET into one fragment per hash slot, and what cread      *)
(* makes of a packet whose array has no elements or no length.             *)
(***************************************************************************)
EXTENDS Resp, Commands, Functions, SequencesExt

CONSTANTS
  Scripts,       \* the pipelines a client may send: sequences of requests
  Slot(_),       \* hashkit.Hash of a key
  MsgMaxLength

(* A request is [cmd, upper, args]: the command's name, whether the client *)
(* spells it in upper case, and the payloads of its arguments.  On the     *)
(* wire the name is one character whose n is 1 for upper case; the name "" *)
(* is an empty bulk.                                                       *)
Word(cmd, upper) == IF cmd = "" THEN <<>> ELSE <<[c |-> cmd, n |-> IF upper THEN 1 ELSE 0]>>

(* Packets that are no request: the header of an array and nothing else. *)
Headers == [empty |-> 0, null |-> -1, blank |-> NoDigits, garbled |-> NoNumber]
Header(n) == <<Length("*", n)>> \o CRLF

Wire(q) ==
  IF q.cmd \in DOMAIN Headers THEN Header(Headers[q.cmd])
  ELSE Array(<<Word(q.cmd, q.upper)>> \o q.args)

VARIABLES
  sent,      \* the pipeline
  wire,      \* its characters that have not arrived
  inbound,   \* those that have arrived and are not decoded
  decoded,   \* the messages handed to OnCReact
  conn       \* "open", "closed" by cread, "panicked" with the whole loop

vars == <<sent, wire, inbound, decoded, conn>>

-----------------------------------------------------------------------------
parseLine(buf, r) ==
  LET line == ReadLine(buf, r)
      len == parseLen(line.val)
  IN IF line.err # "" THEN line
     ELSE IF line.val[1].c # "$" THEN Failed("ErrInvalidResp", line.r)
     ELSE IF len.n < 0 \/ len.err # "" THEN [Failed(len.err, line.r) EXCEPT !.val = <<>>]
     ELSE ReadBulk(buf, line.r, len.n)

(* n calls of parseLine; stops at the first error. *)
ParseLines(buf, r, n) ==
  LET f[i \in 0..n] ==
        IF i = 0 THEN Read(<<>>, r)
        ELSE LET p == f[i - 1]
                 q == parseLine(buf, p.r)
             IN IF p.err # "" THEN p
                ELSE IF q.err # "" THEN q
                ELSE Read(Append(p.val, q.val), q.r)
  IN f[n]

(* toLower works in place: the word, at position at of the connection's    *)
(* buffer, changes.                                                        *)
toLower(buf, at) == [buf EXCEPT ![at].n = 0]

(* The request of a fragment of MGET, DEL (vs: its keys) or MSET (vs: its  *)
(* keys and values).                                                       *)
FragReq(word, vs) ==
  <<Length("*", Len(vs) + 1)>> \o CRLF \o Bulk(word)
    \o Concat([i \in 1..Len(vs) |-> Bulk(vs[i])])

(* Frag1 and MGet or Del: the keys by slot, in the order of the request. *)
Frag1(word, args) ==
  [s \in {Slot(k) : k \in Range(args)} |->
     FragReq(word, SelectSeq(args, LAMBDA k : Slot(k) = s))]

Pairs(args) == [i \in 1..Len(args) \div 2 |-> <<args[2 * i - 1], args[2 * i]>>]

(* Frag2 and MSet: the same for pairs of key and value. *)
Frag2(word, args) ==
  [s \in {Slot(kv[1]) : kv \in Range(Pairs(args))} |->
     FragReq(word, Concat(SelectSeq(Pairs(args), LAMBDA kv : Slot(kv[1]) = s)))]

(* Bug: the slot is always that of the first argument. *)
SingleFirst(read, args, at) ==
  [s \in {IF args = <<>> THEN 0 ELSE Slot(args[1])} |-> read]

(* Eval and Default: one fragment, the bytes read, in the slot of the      *)
(* argument at position at; without that argument the slot is 0.           *)
Single(read, args, at) ==
  [s \in {IF Len(args) < at THEN 0 ELSE Slot(args[at])} |-> read]

Decoded(type, keys, body, r) ==
  [err |-> "", r |-> r, msg |-> [type |-> type, keys |-> keys, body |-> body]]

NilMsg == [type |-> "nil"]
Undecoded(err) == [err |-> err, r |-> 0, msg |-> NilMsg]

-----------------------------------------------------------------------------
(* The switch on the type, once the arguments are read; n is their number, *)
(* lower the command's word and buf the buffer as toLower left it.         *)
BodyByType(type, n, lower, buf, args) ==
  LET pairs == Pairs(args.val)
      read == SubSeq(buf, 1, args.r)
  IN CASE args.err # "" -> Undecoded(args.err)
       [] args.err = "" /\ type \in {"mget", "del"} ->
            Decoded(type, args.val, Frag1(lower, args.val), args.r)
       [] args.err = "" /\ type = "mset" ->
            Decoded(type, [i \in 1..Len(pairs) |-> pairs[i][1]], Frag2(lower, args.val), args.r)
       [] args.err = "" /\ type \in {"eval", "evalsha"} ->
            Decoded(IF n < 3 THEN "ReqWrongArgumentsNumber" ELSE type,
                    <<>>, Single(read, args.val, 3), args.r)
       [] OTHER -> Decoded(type, <<>>, Single(read, args.val, 1), args.r)

NamedType(word, n) == IF word = <<>> THEN "UNKNOWN" ELSE Transform2Type(word[1].c, n)
Lowered(word) == [i \in DOMAIN word |-> [word[i] EXCEPT !.n = 0]]

(* Bug: the type is looked up before toLower. *)
DecodeNamedCaseSensitive(peeked, n, name) ==
  LET capital == name.val # <<>> /\ name.val[1].n = 1
      type == IF Len(peeked) > MsgMaxLength THEN "ReqTooLarge"
              ELSE IF capital THEN "UNKNOWN" ELSE NamedType(name.val, n)
      count == IF type = "mset" THEN 2 * ((n + 1) \div 2) ELSE n
      buf == IF name.val = <<>> THEN peeked ELSE toLower(peeked, name.r - 2)
  IN BodyByType(type, n, Lowered(name.val), buf, ParseLines(buf, name.r, count))

(* From the command's name on.  The size compared with MsgMaxLength is     *)
(* that of everything buffered.                                            *)
DecodeNamed(peeked, n, name) ==
  LET type == IF Len(peeked) > MsgMaxLength THEN "ReqTooLarge" ELSE NamedType(name.val, n)
      count == IF type = "mset" THEN 2 * ((n + 1) \div 2) ELSE n
      buf == IF name.val = <<>> THEN peeked ELSE toLower(peeked, name.r - 2)
  IN BodyByType(type, n, Lowered(name.val), buf, ParseLines(buf, name.r, count))

(* Decode: nothing is discarded unless the whole request is there.  A      *)
(* length below 1 ends it with parseLen's error, which there is none of    *)
(* for 0 and -1: neither a Msg nor an error is returned.                   *)
Decode(peeked) ==
  LET line == ReadLine(peeked, 0)
      len == parseLen(line.val)
      name == parseLine(peeked, line.r)
  IN IF peeked = <<>> \/ line.err # "" THEN Undecoded("ErrIncompletePacket")
     ELSE IF line.val[1].c # "*" THEN Undecoded("ErrInvalidResp")
     ELSE IF len.n < 1 \/ len.err # "" THEN Undecoded(len.err)
     ELSE IF name.err # "" THEN Undecoded(name.err)
     ELSE DecodeNamed(peeked, len.n - 1, name)

-----------------------------------------------------------------------------
Init ==
  /\ sent \in Scripts
  /\ wire = Concat([i \in 1..Len(sent) |-> Wire(sent[i])])
  /\ inbound = <<>>
  /\ decoded = <<>>
  /\ conn = "open"

(* cread: every complete request is decoded before the loop reads again. *)
CRead ==
  \E d \in {Decode(inbound)} :
    /\ conn = "open" /\ d.err = "" /\ d.msg # NilMsg
    /\ decoded' = Append(decoded, d.msg)
    /\ inbound' = SubSeq(inbound, d.r + 1, Len(inbound))
    /\ UNCHANGED <<sent, wire, conn>>

(* cread hands OnCReact what it got: without a Msg, r.Type panics. *)
CReadNil ==
  /\ conn = "open" /\ Decode(inbound) = Undecoded("")
  /\ conn' = "panicked"
  /\ UNCHANGED <<sent, wire, inbound, decoded>>

(* cread closes the connection on ErrInvalidResp. *)
CReadInvalid ==
  /\ conn = "open" /\ Decode(inbound).err = "ErrInvalidResp"
  /\ conn' = "closed"
  /\ UNCHANGED <<sent, wire, inbound, decoded>>

(* cread breaks out of its loop on any other error and keeps the bytes. *)
Waits == conn = "open" /\ Decode(inbound).err \notin {"", "ErrInvalidResp"}

(* The next packet. *)
Arrive ==
  /\ Waits
  /\ \E k \in 1..Len(wire) :
       /\ inbound' = inbound \o SubSeq(wire, 1, k)
       /\ wire' = SubSeq(wire, k + 1, Len(wire))
  /\ UNCHANGED <<sent, decoded, conn>>

Next == CRead \/ CReadNil \/ CReadInvalid \/ Arrive

Spec == Init /\ [][Next]_vars

-----------------------------------------------------------------------------
(* What a request means, from the request and not from its bytes. *)
Accepted(q) ==
  /\ checkArgs(q.cmd, Len(q.args)) = q.cmd
  /\ q.cmd \in {"eval", "evalsha"} => Len(q.args) >= 3

KeysOf(q) == IF q.cmd = "mset" THEN [i \in 1..Len(q.args) \div 2 |-> q.args[2 * i - 1]]
             ELSE q.args

(* The arguments of q that belong to slot s. *)
Share(q, s) ==
  IF q.cmd = "mset"
  THEN FoldLeft(LAMBDA acc, i : IF Slot(q.args[2 * i - 1]) = s
                                THEN acc \o <<q.args[2 * i - 1], q.args[2 * i]>> ELSE acc,
                <<>>, [i \in 1..Len(q.args) \div 2 |-> i])
  ELSE SelectSeq(q.args, LAMBDA k : Slot(k) = s)

Means(m, q) ==
  LET low == [q EXCEPT !.upper = FALSE]
  IN IF m.type = "ReqTooLarge"
     THEN MsgMaxLength < Len(Concat([i \in 1..Len(sent) |-> Wire(sent[i])]))
     ELSE /\ m.type = IF q.cmd \notin CommandStr2Type THEN "UNKNOWN"
                      ELSE IF Accepted(q) THEN q.cmd ELSE "ReqWrongArgumentsNumber"
          /\ IF m.type \in {"mget", "del", "mset"}
             THEN /\ m.keys = KeysOf(q)
                  /\ DOMAIN m.body = {Slot(k) : k \in Range(KeysOf(q))}
                  /\ \A s \in DOMAIN m.body :
                       m.body[s] = Wire([low EXCEPT !.args = Share(q, s)])
             ELSE \E s \in DOMAIN m.body : m.body = [t \in {s} |-> Wire(low)]

(* Framing.  However the bytes are cut into packets, the messages handed   *)
(* to OnCReact are the client's requests, in order, none twice, each with  *)
(* the fragments its keys call for, and no bytes of one request are taken  *)
(* for another's (CRespCodec.Decode with Discard(ReadSize), cread).        *)
DecodedAsSent ==
  /\ Len(decoded) <= Len(sent)
  /\ \A i \in 1..Len(decoded) : Means(decoded[i], sent[i])

(* What the client sent behind the requests that were decoded. *)
NextSent == IF Len(decoded) < Len(sent) THEN sent[Len(decoded) + 1].cmd ELSE "none"

(* Nothing is stranded.  Once every byte has arrived and Decode asks for   *)
(* more, it is because every request was decoded: no cut, no empty payload *)
(* and no LF inside a payload makes Decode wait for bytes that never come. *)
(* Only behind an array header without digits the client waits for ever.   *)
NothingStranded ==
  wire = <<>> /\ Waits =>
    \/ Len(decoded) = Len(sent) /\ inbound = <<>>
    \/ NextSent = "blank"

(* Nobody is cut off for a request.  A connection is closed only when the  *)
(* next thing on it is an array header that is not a number, and the loop  *)
(* ends only at an array of no elements: no cut of a pipeline of requests  *)
(* makes Decode take one for such a packet, and the requests before one    *)
(* are decoded first.                                                      *)
CutOffForCause ==
  /\ conn = "closed" => NextSent = "garbled"
  /\ conn = "panicked" => NextSent \in {"empty", "null"}

(* Routing.  Whatever its number of arguments, a command that is passed on *)
(* goes by the slot of a key it has: the key of EVAL is its third          *)
(* argument, of every other command its first (Eval, Default, checkArgs).  *)
RoutedByKey ==
  \A i \in 1..Len(decoded) :
    LET q == sent[i]
        m == decoded[i]
    IN m.type \in CommandStr2Type \ {"ping", "quit", "mget", "mset", "del"} =>
         DOMAIN m.body = {Slot(q.args[IF q.cmd \in {"eval", "evalsha"} THEN 3 ELSE 1])}
=============================================================================

----------------------------- MODULE SyncClient -----------------------------
(***************************************************************************)
(* The blocking Redis client the cluster refresh uses (pkg/redis/conn.go): *)
(* Dial, Do, Send, Flush, Receive and Close over one TCP connection, with  *)
(* deadlines on every read and write.  Commands are numbered in the order  *)
(* they are written; a reply is the number of its command, and `bad` holds *)
(* the commands Redis answers with an error.                               *)
(***************************************************************************)
EXTENDS Integers, Sequences, FiniteSets

CONSTANT MaxCommands   \* bound on the commands of a behaviour

VARIABLES
  pc,         \* "closed", "auth", "idle", "do" or "receive"
  err,        \* c.err is set and the socket closed
  pending,    \* c.pending
  left,       \* replies the Do under way still reads
  failed,     \* the error Do will return: a command number, or 0
  written,    \* commands written so far
  bw,         \* commands in the write buffer
  toRedis,    \* commands on their way to Redis
  toClient,   \* replies on their way back
  bad,        \* the commands Redis refuses
  owed,       \* commands whose reply the caller has not been given, oldest first
  results     \* what the calls returned: [of, reply, error]

vars == <<pc, err, pending, left, failed, written, bw, toRedis, toClient, bad, owed, results>>

Init ==
  /\ pc = "closed" /\ err = FALSE /\ pending = 0 /\ left = 0 /\ failed = 0
  /\ written = 0 /\ bw = <<>> /\ toRedis = <<>> /\ toClient = <<>>
  /\ bad \in SUBSET (1..MaxCommands)
  /\ owed = <<>> /\ results = <<>>

-----------------------------------------------------------------------------
(* Bug: a failed read leaves the connection usable. *)
fatalKeepsConn ==
  /\ pc' = "idle"
  /\ left' = 0 /\ failed' = 0 /\ owed' = <<>>
  /\ UNCHANGED <<err, bw, toRedis, toClient>>

(* fatal: the error sticks and the socket is closed, so that every later   *)
(* call fails at its SetDeadline.  A failing AUTH makes Dial return no     *)
(* connection, which for the caller is the same.                           *)
fatal ==
  /\ err' = TRUE
  /\ pc' = "idle"
  /\ bw' = <<>> /\ toRedis' = <<>> /\ toClient' = <<>>
  /\ left' = 0 /\ failed' = 0 /\ owed' = <<>>

Write(n) ==
  /\ written + n <= MaxCommands
  /\ written' = written + n

(* DoWithTimeout up to its first read. *)
StartDo(next) ==
  /\ Write(1)
  /\ left' = pending + 1
  /\ pending' = 0
  /\ toRedis' = toRedis \o Append(bw, written + 1)
  /\ bw' = <<>>
  /\ owed' = Append(owed, written + 1)
  /\ pc' = next
  /\ UNCHANGED <<err, failed, toClient, bad, results>>

Dial ==
  /\ pc = "closed"
  /\ pc' = "idle"
  /\ UNCHANGED <<err, pending, left, failed, written, bw, toRedis, toClient, bad, owed, results>>

DialWithPassword == pc = "closed" /\ StartDo("auth")

Do == pc = "idle" /\ ~err /\ StartDo("do")

(* Send only fills the write buffer; bufio flushes it at any time. *)
Send ==
  /\ pc = "idle" /\ ~err
  /\ Write(1)
  /\ pending' = pending + 1
  /\ \E full \in BOOLEAN :
       IF full THEN toRedis' = toRedis \o Append(bw, written + 1) /\ bw' = <<>>
       ELSE bw' = Append(bw, written + 1) /\ UNCHANGED toRedis
  /\ owed' = Append(owed, written + 1)
  /\ UNCHANGED <<pc, err, left, failed, toClient, bad, results>>

Flush ==
  /\ pc = "idle" /\ ~err /\ bw # <<>>
  /\ toRedis' = toRedis \o bw
  /\ bw' = <<>>
  /\ UNCHANGED <<pc, err, pending, left, failed, written, toClient, bad, owed, results>>

Receive ==
  /\ pc = "idle" /\ ~err /\ pending > 0
  /\ pc' = "receive"
  /\ UNCHANGED <<err, pending, left, failed, written, bw, toRedis, toClient, bad, owed, results>>

-----------------------------------------------------------------------------
(* One readReply of Do.  It returns the last reply, with the first error.  *)
(* The calls before it are answered by it, too.                            *)
DoReads ==
  LET reply == Head(toClient)
      e == IF failed = 0 /\ reply \in bad THEN reply ELSE failed
  IN /\ pc \in {"do", "auth"} /\ toClient # <<>>
     /\ left' = left - 1
     /\ IF left > 1
        THEN /\ toClient' = Tail(toClient)
             /\ failed' = e
             /\ owed' = Tail(owed)
             /\ UNCHANGED <<pc, err, bw, toRedis, results>>
        ELSE /\ results' = Append(results, [of |-> written, reply |-> reply, error |-> e])
             /\ failed' = 0
             /\ owed' = Tail(owed)
             /\ pc' = "idle"
             /\ IF pc = "auth" /\ e # 0
                THEN err' = TRUE /\ toClient' = <<>>
                ELSE toClient' = Tail(toClient) /\ UNCHANGED err
             /\ UNCHANGED <<bw, toRedis>>
     /\ UNCHANGED <<pending, written, bad>>

ReceiveReads ==
  LET reply == Head(toClient)
  IN /\ pc = "receive" /\ toClient # <<>>
     /\ results' = Append(results, [of |-> Head(owed), reply |-> reply,
                                    error |-> IF reply \in bad THEN reply ELSE 0])
     /\ toClient' = Tail(toClient)
     /\ pending' = IF pending > 0 THEN pending - 1 ELSE 0
     /\ owed' = Tail(owed)
     /\ pc' = "idle"
     /\ UNCHANGED <<err, left, failed, written, bw, toRedis, bad>>

(* The read deadline passes, or the peer closes, during a read. *)
ReadFails ==
  /\ pc \in {"do", "auth", "receive"}
  /\ fatal
  /\ UNCHANGED <<pending, written, bad, results>>

Close ==
  /\ pc = "idle" /\ ~err
  /\ fatal
  /\ UNCHANGED <<pending, written, bad, results>>

(* A write or its deadline fails in Do, Send or Flush; of pending, which   *)
(* only Do and Send change, nothing reads any more.                        *)
WriteFails ==
  /\ pc = "idle" /\ ~err
  /\ fatal
  /\ pending' \in {0, pending, pending + 1}
  /\ UNCHANGED <<written, bad, results>>

(* Redis takes a command and answers it in order (external). *)
RedisAnswers ==
  /\ toRedis # <<>>
  /\ toClient' = Append(toClient, Head(toRedis))
  /\ toRedis' = Tail(toRedis)
  /\ UNCHANGED <<pc, err, pending, left, failed, written, bw, bad, owed, results>>

Next ==
  \/ Dial \/ DialWithPassword \/ Do \/ Send \/ Flush \/ Receive \/ DoReads \/ ReceiveReads
  \/ ReadFails \/ WriteFails \/ Close \/ RedisAnswers

Spec == Init /\ [][Next]_vars

-----------------------------------------------------------------------------
(* No mix-up.  Every reply a call returns is the reply to the command of   *)
(* that call, also after a time-out whose late answer is still on its way  *)
(* (c.fatal, c.pending in DoWithTimeout and ReceiveWithTimeout).           *)
OwnReply == \A i \in 1..Len(results) : results[i].of = results[i].reply
=============================================================================

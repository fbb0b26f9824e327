--------------------------- MODULE ServiceProofs ---------------------------
(***************************************************************************)
(* The theorems about the components around the request pipeline, each in  *)
(* a part of its own: Poller, whose state this module extends, and         *)
(* SyncClient, Timeouts, Engine, RedisPool, ByteSlicePool, Cluster and     *)
(* AuthIp, each declared and instantiated at the head of its part.         *)
(***************************************************************************)
EXTENDS Poller, Sequences, FiniteSetTheorems, WellFoundedInduction, TLAPS

-----------------------------------------------------------------------------
(* Poller: the wake-up protocol.  PollerInv is an inductive invariant for any *)
(* finite set of goroutines, any batch size and any number of tasks;        *)
(* NoLostWakeup and SingleWakeup follow from it.                            *)

USE DEF Queues, Procs

\* The set of goroutines that have linked a node and not counted it is finite.
LEMMA UncountedFinite ==
  ASSUME NEW q
  PROVE  IsFiniteSet(Uncounted(q))
<1>1. IsFiniteSet(Procs)
  BY PollerAssumption, FS_AddElement
<1> QED
  BY <1>1, FS_Subset DEF Uncounted

\* A queue whose counter reads 0 while a node is linked has a goroutine that has
\* linked and not yet counted: IsEmpty errs only while somebody is in Enqueue.
LEMMA EmptyButLinked ==
  ASSUME TypeOK, LengthLag, NEW q \in Queues, length[q] = 0, linked[q] > 0
  PROVE  \E p \in Procs : pc[p] = "linked"
<1>1. Cardinality(Uncounted(q)) = linked[q]
  BY UncountedFinite, FS_CardinalityType DEF LengthLag, TypeOK
<1>2. Uncounted(q) # {}
  BY <1>1, FS_EmptySet DEF TypeOK
<1> QED
  BY <1>2 DEF Uncounted

\* Type correctness is preserved by every step of the poller.
LEMMA PollerTypeStep == TypeOK /\ [Next]_vars => TypeOK'
<1> SUFFICES ASSUME TypeOK, [Next]_vars PROVE TypeOK'
  OBVIOUS
<1> USE DEF TypeOK, TriggerPCs, LoopPCs
<1>1. ASSUME NEW p \in Procs, NEW q \in Queues, Link(p, q) PROVE TypeOK'
  BY <1>1, PollerAssumption DEF Link
<1>2. ASSUME NEW p \in Procs, Count(p) PROVE TypeOK'
  BY <1>2 DEF Count
<1>3. ASSUME NEW p \in Procs, CasWakeup(p) PROVE TypeOK'
  BY <1>3 DEF CasWakeup
<1>4. ASSUME NEW p \in Procs, WriteEfd(p) PROVE TypeOK'
  BY <1>4 DEF WriteEfd
<1>5. CASE RunUrgent \/ RunAsync
  BY <1>5, PollerAssumption DEF RunUrgent, RunAsync, Dequeue, LoopAt
<1>6. CASE EndUrgent \/ EndAsync \/ StoreWakeup
  BY <1>6, PollerAssumption DEF EndUrgent, EndAsync, StoreWakeup, LoopAt
<1>7. CASE Ticker \/ EpollTimeout \/ EpollEvents \/ ReadEfd \/ EndEvents
  <2>1. CASE Ticker \/ EpollTimeout
    BY <2>1 DEF Ticker, EpollTimeout
  <2>2. CASE EpollEvents
    <3>1. ready' \in BOOLEAN
      BY <2>2 DEF EpollEvents
    <3> QED BY <2>2, <3>1 DEF EpollEvents
  <2>3. CASE ReadEfd
    BY <2>3, Zenon DEF ReadEfd
  <2>4. CASE EndEvents
    BY <2>4, Zenon DEF EndEvents
  <2> QED BY <1>7, <2>1, <2>2, <2>3, <2>4
<1>8. CASE RecheckAsync \/ RecheckUrgent \/ LoopCas \/ LoopWriteEfd \/ MsgTimeout
  BY <1>8 DEF RecheckAsync, RecheckUrgent, LoopCas, LoopWriteEfd, MsgTimeout, LoopAt
<1>9. CASE CallbackShutdown \/ EpollError \/ UNCHANGED vars
  BY <1>9 DEF CallbackShutdown, EpollError, LoopAt, vars
<1> QED
  BY <1>1, <1>2, <1>3, <1>4, <1>5, <1>6, <1>7, <1>8, <1>9 DEF Next, Trigger, Polling

\* length = linked - |Uncounted| is preserved by every step.
LEMMA LengthLagStep == TypeOK /\ LengthLag /\ [Next]_vars => LengthLag'
<1> SUFFICES ASSUME TypeOK, LengthLag, [Next]_vars,
                    NEW r \in Queues
             PROVE  length'[r] = linked'[r] - Cardinality(Uncounted(r)')
  BY DEF LengthLag
<1>0. Cardinality(Uncounted(r)) \in Nat /\ length[r] = linked[r] - Cardinality(Uncounted(r))
  BY UncountedFinite, FS_CardinalityType DEF LengthLag
<1>1. ASSUME NEW p \in Procs, NEW q \in Queues, Link(p, q)
      PROVE  length'[r] = linked'[r] - Cardinality(Uncounted(r)')
  <2>1. CASE q = r
    <3>1. Uncounted(r)' = Uncounted(r) \cup {p} /\ p \notin Uncounted(r)
      BY <1>1, <2>1 DEF Link, Uncounted, TypeOK
    <3>2. Cardinality(Uncounted(r)') = Cardinality(Uncounted(r)) + 1
      BY <3>1, UncountedFinite, FS_AddElement
    <3> QED BY <1>0, <1>1, <2>1, <3>2 DEF Link, TypeOK
  <2>2. CASE q # r
    <3>1. Uncounted(r)' = Uncounted(r)
      BY <1>1, <2>2 DEF Link, Uncounted, TypeOK
    <3> QED BY <1>0, <1>1, <2>2, <3>1 DEF Link, TypeOK
  <2> QED BY <2>1, <2>2
<1>2. ASSUME NEW p \in Procs, Count(p)
      PROVE  length'[r] = linked'[r] - Cardinality(Uncounted(r)')
  <2>1. CASE target[p] = r
    <3>1. Uncounted(r)' = Uncounted(r) \ {p} /\ p \in Uncounted(r)
      BY <1>2, <2>1 DEF Count, Uncounted, TypeOK
    <3>2. Cardinality(Uncounted(r)') = Cardinality(Uncounted(r)) - 1
      BY <3>1, UncountedFinite, FS_RemoveElement
    <3> QED BY <1>0, <1>2, <2>1, <3>2 DEF Count, TypeOK
  <2>2. CASE target[p] # r
    <3>1. Uncounted(r)' = Uncounted(r)
      BY <1>2, <2>2 DEF Count, Uncounted, TypeOK
    <3> QED BY <1>0, <1>2, <2>2, <3>1 DEF Count, TypeOK
  <2> QED BY <2>1, <2>2
<1>3. ASSUME NEW p \in Procs, CasWakeup(p) \/ WriteEfd(p)
      PROVE  length'[r] = linked'[r] - Cardinality(Uncounted(r)')
  <2>1. Uncounted(r)' = Uncounted(r)
    BY <1>3 DEF CasWakeup, WriteEfd, Uncounted, TypeOK
  <2> QED BY <1>0, <1>3, <2>1 DEF CasWakeup, WriteEfd
<1>4. CASE RunUrgent \/ RunAsync
  <2>1. Uncounted(r)' = Uncounted(r)
    BY <1>4 DEF RunUrgent, RunAsync, Uncounted
  <2> QED BY <1>0, <1>4, <2>1 DEF RunUrgent, RunAsync, Dequeue, TypeOK
<1>5. CASE (Polling /\ ~RunUrgent /\ ~RunAsync) \/ CallbackShutdown \/ EpollError \/ UNCHANGED vars
  <2>1. UNCHANGED <<linked, length, pc, target>>
    BY <1>5 DEF Polling, Ticker, EpollTimeout, EpollEvents, ReadEfd, EndEvents, EndUrgent,
         EndAsync, StoreWakeup, RecheckAsync, RecheckUrgent, LoopCas, LoopWriteEfd,
         MsgTimeout, CallbackShutdown, EpollError, vars
  <2>2. Uncounted(r)' = Uncounted(r)
    BY <2>1 DEF Uncounted
  <2> QED BY <1>0, <2>1, <2>2
<1> QED
  BY <1>1, <1>2, <1>3, <1>4, <1>5 DEF Next, Trigger, Polling

\* The control state of the loop and the eventfd stay consistent.
LEMMA LoopShapeStep == TypeOK /\ LoopShape /\ [Next]_vars => LoopShape'
<1> SUFFICES ASSUME TypeOK, LoopShape, [Next]_vars PROVE LoopShape'
  OBVIOUS
<1> USE DEF TypeOK, LoopShape, InHandler, LoopAt, TriggerPCs, LoopPCs
<1>1. ASSUME NEW p \in Procs, NEW q \in Queues, Link(p, q) PROVE LoopShape'
  BY <1>1 DEF Link
<1>2. ASSUME NEW p \in Procs, Trigger(p) PROVE LoopShape'
  BY <1>2 DEF Trigger, Count, CasWakeup, WriteEfd
<1>3. CASE Ticker \/ EpollTimeout \/ EpollEvents
  BY <1>3 DEF Ticker, EpollTimeout, EpollEvents
<1>4. CASE ReadEfd \/ EndEvents
  BY <1>4 DEF ReadEfd, EndEvents
<1>5. CASE RunUrgent \/ EndUrgent \/ RunAsync \/ EndAsync
  BY <1>5 DEF RunUrgent, EndUrgent, RunAsync, EndAsync
<1>6. CASE StoreWakeup \/ RecheckAsync \/ RecheckUrgent
  BY <1>6 DEF StoreWakeup, RecheckAsync, RecheckUrgent
<1>7. CASE LoopCas \/ LoopWriteEfd \/ MsgTimeout
  BY <1>7 DEF LoopCas, LoopWriteEfd, MsgTimeout
<1>8. CASE CallbackShutdown \/ EpollError \/ UNCHANGED vars
  BY <1>8 DEF CallbackShutdown, EpollError, vars
<1> QED
  BY <1>1, <1>2, <1>3, <1>4, <1>5, <1>6, <1>7, <1>8 DEF Next, Polling

\* At most one wake-up is in flight, and wakeupCall says whether there is one:
\* the two facts need each other, since the flag is what keeps a second goroutine
\* from writing, and the single write is what makes the flag truthful.
LEMMA WakeupStep ==
  TypeOK /\ LoopShape /\ SingleWakeup /\ WakeupFlag /\ [Next]_vars
    => SingleWakeup' /\ WakeupFlag'
<1> SUFFICES ASSUME TypeOK, LoopShape, SingleWakeup, WakeupFlag, [Next]_vars
             PROVE  SingleWakeup' /\ WakeupFlag'
  OBVIOUS
<1> USE DEF TypeOK, SingleWakeup, WakeupFlag, Waking, InChores, LoopShape, InHandler, LoopAt, TriggerPCs, LoopPCs
<1>1. ASSUME NEW p \in Procs, NEW q \in Queues, Link(p, q)
      PROVE  SingleWakeup' /\ WakeupFlag'
  BY <1>1 DEF Link
<1>2. ASSUME NEW p \in Procs, Count(p)
      PROVE  SingleWakeup' /\ WakeupFlag'
  BY <1>2 DEF Count
<1>3. ASSUME NEW p \in Procs, CasWakeup(p)
      PROVE  SingleWakeup' /\ WakeupFlag'
  BY <1>3 DEF CasWakeup
<1>4. ASSUME NEW p \in Procs, WriteEfd(p)
      PROVE  SingleWakeup' /\ WakeupFlag'
  BY <1>4 DEF WriteEfd
<1>5. CASE Ticker \/ EpollTimeout \/ EpollEvents
  BY <1>5 DEF Ticker, EpollTimeout, EpollEvents
<1>6. CASE ReadEfd
  BY <1>6 DEF ReadEfd
<1>7. CASE EndEvents
  BY <1>7 DEF EndEvents
<1>8. CASE RunUrgent \/ EndUrgent \/ RunAsync \/ EndAsync
  BY <1>8 DEF RunUrgent, EndUrgent, RunAsync, EndAsync
<1>9. CASE StoreWakeup
  BY <1>9 DEF StoreWakeup
<1>10. CASE RecheckAsync \/ RecheckUrgent \/ MsgTimeout
  BY <1>10 DEF RecheckAsync, RecheckUrgent, MsgTimeout
<1>11. CASE LoopCas
  BY <1>11 DEF LoopCas
<1>12. CASE LoopWriteEfd
  BY <1>12 DEF LoopWriteEfd
<1>13. CASE CallbackShutdown \/ EpollError \/ UNCHANGED vars
  BY <1>13 DEF CallbackShutdown, EpollError, vars
<1> QED
  BY <1>1, <1>2, <1>3, <1>4, <1>5, <1>6, <1>7, <1>8, <1>9, <1>10, <1>11, <1>12, <1>13
  DEF Next, Polling, Trigger

\* A linked task is always announced, or about to be, or about to be seen.
LEMMA WorkCoveredStep ==
  PollerInv /\ [Next]_vars => WorkCovered'
<1> SUFFICES ASSUME PollerInv, [Next]_vars PROVE WorkCovered'
  OBVIOUS
<1> USE DEF TypeOK, WorkCovered, LoopAt, TriggerPCs, LoopPCs
<1> USE DEF PollerInv
<1>1. ASSUME NEW p \in Procs, NEW q \in Queues, Link(p, q) PROVE WorkCovered'
  BY <1>1 DEF Link
<1>2. ASSUME NEW p \in Procs, Count(p) PROVE WorkCovered'
  BY <1>2 DEF Count
<1>3. ASSUME NEW p \in Procs, CasWakeup(p) PROVE WorkCovered'
  BY <1>3 DEF CasWakeup
<1>4. ASSUME NEW p \in Procs, WriteEfd(p) PROVE WorkCovered'
  BY <1>4 DEF WriteEfd
<1>5. CASE Ticker \/ EpollTimeout \/ EpollEvents \/ ReadEfd \/ EndEvents
  BY <1>5 DEF Ticker, EpollTimeout, EpollEvents, ReadEfd, EndEvents
<1>6. CASE RunUrgent \/ EndUrgent \/ RunAsync \/ EndAsync
  BY <1>6 DEF RunUrgent, EndUrgent, RunAsync, EndAsync, Dequeue, WakeupFlag, Waking, InChores
<1>7. CASE StoreWakeup
  BY <1>7 DEF StoreWakeup
<1>8. CASE RecheckAsync
  BY <1>8, EmptyButLinked DEF RecheckAsync
<1>9. CASE RecheckUrgent
  BY <1>9, EmptyButLinked DEF RecheckUrgent
<1>10. CASE LoopCas \/ LoopWriteEfd \/ MsgTimeout
  BY <1>10 DEF LoopCas, LoopWriteEfd, MsgTimeout
<1>11. CASE CallbackShutdown \/ EpollError \/ UNCHANGED vars
  BY <1>11 DEF CallbackShutdown, EpollError, vars
<1> QED
  BY <1>1, <1>2, <1>3, <1>4, <1>5, <1>6, <1>7, <1>8, <1>9, <1>10, <1>11
  DEF Next, Polling, Trigger

\* The inductive invariant holds in every reachable state of the poller.
THEOREM PollerInvariant == Spec => []PollerInv
<1>1. Init => PollerInv
  <2> SUFFICES ASSUME Init PROVE PollerInv
    OBVIOUS
  <2>1. TypeOK
    <3>1. ready \in BOOLEAN /\ doChores \in BOOLEAN
      BY Zenon DEF Init
    <3> QED BY <3>1, PollerAssumption DEF Init, TypeOK, TriggerPCs, LoopPCs
  <2>2. LengthLag
    <3>1. \A q \in Queues : Uncounted(q) = {}
      BY DEF Init, Uncounted
    <3> QED BY <3>1, FS_EmptySet DEF Init, LengthLag
  <2>3. SingleWakeup /\ WakeupFlag
    BY DEF Init, SingleWakeup, WakeupFlag, Waking, InChores
  <2>4. WorkCovered /\ LoopShape
    BY DEF Init, WorkCovered, LoopShape
  <2> QED BY <2>1, <2>2, <2>3, <2>4 DEF PollerInv
<1>2. PollerInv /\ [Next]_vars => PollerInv'
  BY PollerTypeStep, LengthLagStep, LoopShapeStep, WakeupStep, WorkCoveredStep DEF PollerInv
<1> QED
  BY <1>1, <1>2, PTL DEF Spec

\* A loop blocked in EpollWait on a silent eventfd, with nobody inside Trigger,
\* has no task left in either queue: no wake-up is ever lost.
THEOREM NoWakeupIsLost == Spec => []NoLostWakeup
<1>1. PollerInv => NoLostWakeup
  BY DEF PollerInv, NoLostWakeup, WorkCovered, WakeupFlag, Waking, InChores, LoopShape, TypeOK
<1> QED
  BY <1>1, PollerInvariant, PTL

\* The eventfd is written at most once per round of tasks: its counter never
\* passes 1 and no two goroutines are ever about to write it.
THEOREM WakeupIsSingle == Spec => []SingleWakeup
<1>1. PollerInv => SingleWakeup
  BY DEF PollerInv
<1> QED
  BY <1>1, PollerInvariant, PTL
-----------------------------------------------------------------------------
(* Sequences and numbers: what the parts below share.                        *)

\* The head and the tail of a sequence that is not empty.
LEMMA SeqHeadTail ==
  ASSUME NEW S, NEW q \in Seq(S), q # <<>>
  PROVE  /\ Head(q) = q[1] /\ q[1] \in S /\ Tail(q) \in Seq(S)
         /\ Len(q) \in Nat \ {0} /\ Len(Tail(q)) = Len(q) - 1
         /\ DOMAIN q = 1 .. Len(q) /\ DOMAIN Tail(q) = 1 .. Len(q) - 1
         /\ \A i \in 1 .. Len(q) - 1 : Tail(q)[i] = q[i + 1]
OBVIOUS

\* The type, the domain and the elements of s with e appended.
LEMMA SeqAppend ==
  ASSUME NEW S, NEW s \in Seq(S), NEW e \in S
  PROVE  /\ Append(s, e) \in Seq(S)
         /\ Len(Append(s, e)) = Len(s) + 1
         /\ DOMAIN Append(s, e) = DOMAIN s \cup {Len(s) + 1}
         /\ DOMAIN s = 1 .. Len(s) /\ Len(s) \in Nat
         /\ \A i \in DOMAIN s : Append(s, e)[i] = s[i]
         /\ Append(s, e)[Len(s) + 1] = e
OBVIOUS

\* The same for the concatenation of two sequences.
LEMMA SeqConcat ==
  ASSUME NEW S, NEW s \in Seq(S), NEW t \in Seq(S)
  PROVE  /\ s \o t \in Seq(S)
         /\ Len(s \o t) = Len(s) + Len(t)
         /\ DOMAIN s = 1 .. Len(s) /\ Len(s) \in Nat
         /\ DOMAIN t = 1 .. Len(t) /\ Len(t) \in Nat
         /\ DOMAIN (s \o t) = DOMAIN s \cup (Len(s) + 1 .. Len(s) + Len(t))
         /\ \A i \in DOMAIN s : (s \o t)[i] = s[i]
         /\ \A i \in Len(s) + 1 .. Len(s) + Len(t) : (s \o t)[i] = t[i - Len(s)]
OBVIOUS

\* Sequences of the same length with the same elements are equal.
LEMMA SeqEqual ==
  ASSUME NEW S, NEW s \in Seq(S), NEW t \in Seq(S), Len(s) = Len(t),
         \A i \in 1 .. Len(s) : s[i] = t[i]
  PROVE  s = t
OBVIOUS

\* Concatenation is associative, and the empty sequence its unit.
LEMMA ConcatAssoc ==
  ASSUME NEW S, NEW a \in Seq(S), NEW b \in Seq(S), NEW c \in Seq(S)
  PROVE  a \o (b \o c) = (a \o b) \o c /\ a \o <<>> = a /\ <<>> \o a = a
<1>1. a \o (b \o c) = (a \o b) \o c
  <2>1. a \o (b \o c) \in Seq(S) /\ (a \o b) \o c \in Seq(S)
    OBVIOUS
  <2>2. Len(a \o (b \o c)) = Len((a \o b) \o c)
    OBVIOUS
  <2>3. \A i \in 1 .. Len(a \o (b \o c)) : (a \o (b \o c))[i] = ((a \o b) \o c)[i]
    OBVIOUS
  <2> QED BY <2>1, <2>2, <2>3, SeqEqual
<1>2. a \o <<>> = a /\ <<>> \o a = a
  OBVIOUS
<1> QED BY <1>1, <1>2

\* Appending is concatenating a sequence of one.
LEMMA AppendConcat ==
  ASSUME NEW S, NEW a \in Seq(S), NEW e \in S
  PROVE  Append(a, e) = a \o <<e>> /\ <<e>> \in Seq(S)
<1>1. Append(a, e) \in Seq(S) /\ a \o <<e>> \in Seq(S) /\ <<e>> \in Seq(S)
  OBVIOUS
<1>2. Len(Append(a, e)) = Len(a \o <<e>>)
  OBVIOUS
<1>3. \A i \in 1 .. Len(Append(a, e)) : Append(a, e)[i] = (a \o <<e>>)[i]
  OBVIOUS
<1> QED BY <1>1, <1>2, <1>3, SeqEqual

\* The head and the tail of a sequence make up the sequence.
LEMMA HeadConcat ==
  ASSUME NEW S, NEW a \in Seq(S), a # <<>>
  PROVE  a = <<Head(a)>> \o Tail(a)
<1>1. Head(a) \in S /\ Tail(a) \in Seq(S) /\ <<Head(a)>> \o Tail(a) \in Seq(S)
  OBVIOUS
<1>2. Len(a) = Len(<<Head(a)>> \o Tail(a))
  OBVIOUS
<1>3. \A i \in 1 .. Len(a) : a[i] = (<<Head(a)>> \o Tail(a))[i]
  OBVIOUS
<1> QED BY <1>1, <1>2, <1>3, SeqEqual

\* A sequence is empty exactly when its length is 0.
LEMMA SeqEmpty ==
  ASSUME NEW S, NEW t \in Seq(S)
  PROVE  t = <<>> <=> Len(t) = 0
OBVIOUS

(* A set of numbers has a least one.                                          *)
LEMMA Least ==
  ASSUME NEW T, T \subseteq Nat, T # {}
  PROVE  \E x \in T : \A y \in T : x <= y
<1> DEFINE R == {ss \in Nat \X Nat : ss[1] < ss[2]}
<1>1. IsWellFoundedOn(R, Nat)
  BY NatLessThanWellFounded DEF OpToRel
<1> HIDE DEF R
<1>2. PICK x \in T : \A y \in T : <<y, x>> \notin R
  BY <1>1, WFMin, Zenon
<1>3. ASSUME NEW y \in T PROVE x <= y
  <2>1. x \in Nat /\ y \in Nat /\ <<y, x>> \notin R
    BY <1>2, <1>3, Zenon
  <2> QED BY <2>1, SMT DEF R
<1> QED BY <1>3, Zenon
-----------------------------------------------------------------------------
(* SyncClient: the synchronous client never mixes up replies, for any number *)
(* of commands and whichever of them time out or are refused.               *)

CONSTANTS MaxCommands
VARIABLES clientPc, err, pending, left, failed, written, bw, toRedis, toClient, bad, owed, results

Sync == INSTANCE SyncClient WITH pc <- clientPc

Result == [of : Nat, reply : Nat, error : Nat]

(* The types the proof needs.                                                  *)
ClientTypes ==
  /\ clientPc \in {"closed", "auth", "idle", "do", "receive"}
  /\ err \in BOOLEAN
  /\ pending \in Nat /\ left \in Nat /\ failed \in Nat /\ written \in Nat
  /\ bw \in Seq(Nat) /\ toRedis \in Seq(Nat) /\ toClient \in Seq(Nat) /\ owed \in Seq(Nat)
  /\ results \in Seq(Result)

(* What the caller is owed is under way, in the same order: answered, sent, or    *)
(* still in the write buffer.                                                  *)
UnderWay == owed = toClient \o (toRedis \o bw)

(* The client counts what it is owed: in pending between calls, in left during    *)
(* a Do, whose own command is the last one written.                             *)
Counted ==
  /\ err => clientPc = "idle"
  /\ ~err /\ clientPc \in {"closed", "idle", "receive"} => pending = Len(owed)
  /\ clientPc \in {"do", "auth"} => pending = 0 /\ left = Len(owed) /\ left > 0 /\ owed[left] = written

ClientInv == ClientTypes /\ UnderWay /\ Counted /\ Sync!OwnReply

(* Concatenation of sequences of commands is associative.                        *)
LEMMA CommandsAssoc == \A x, y, z \in Seq(Nat) : x \o (y \o z) = (x \o y) \o z
BY ConcatAssoc

(* What appending n to all, the concatenation of a, b and c, gives.                *)
Appended(all, a, b, c, n) ==
  /\ Append(all, n) = a \o (b \o Append(c, n))
  /\ Append(c, n) \in Seq(Nat) /\ b \o Append(c, n) \in Seq(Nat)
  /\ (b \o Append(c, n)) \o <<>> = b \o Append(c, n)
  /\ Append(all, n) \in Seq(Nat) /\ Len(Append(all, n)) = Len(all) + 1
  /\ Append(all, n)[Len(all) + 1] = n

(* Appending to three concatenated sequences is appending to the last of them.     *)
LEMMA AppendLast ==
  \A a, b, c \in Seq(Nat), n \in Nat : Appended(a \o (b \o c), a, b, c, n)
<1> TAKE a, b, c \in Seq(Nat), n \in Nat
<1> DEFINE all == a \o (b \o c)
<1>1. b \o c \in Seq(Nat) /\ all \in Seq(Nat)
  BY SeqConcat
<1>2. /\ Append(all, n) = all \o <<n>>
      /\ Append(c, n) = c \o <<n>> /\ <<n>> \in Seq(Nat)
  BY <1>1, AppendConcat, Zenon
<1>3. (a \o (b \o c)) \o <<n>> = a \o ((b \o c) \o <<n>>)
  BY <1>1, <1>2, CommandsAssoc, Zenon
<1>4. (b \o c) \o <<n>> = b \o (c \o <<n>>)
  BY <1>2, CommandsAssoc, Zenon
<1>5. Append(c, n) \in Seq(Nat) /\ b \o Append(c, n) \in Seq(Nat)
  BY SeqAppend, SeqConcat
<1>6. (b \o Append(c, n)) \o <<>> = b \o Append(c, n)
  BY <1>5, ConcatAssoc
<1>7. /\ Append(all, n) \in Seq(Nat) /\ Len(Append(all, n)) = Len(all) + 1
      /\ Append(all, n)[Len(all) + 1] = n
  BY <1>1, SeqAppend
<1> QED BY <1>2, <1>3, <1>4, <1>5, <1>6, <1>7, Zenon DEF Appended

(* What taking the head of all, the concatenation of a and b, gives.              *)
Taken(all, a, b) ==
  /\ Head(a) \in Nat /\ Tail(a) \in Seq(Nat)
  /\ Tail(all) = Tail(a) \o b /\ Tail(all) \in Seq(Nat)
  /\ Len(all) \in Nat \ {0} /\ Len(Tail(all)) = Len(all) - 1
  /\ all[1] = Head(a) /\ Head(all) = Head(a)
  /\ \A i \in 1 .. Len(all) - 1 : Tail(all)[i] = all[i + 1]

(* The head of two concatenated sequences is that of the first.                   *)
LEMMA TakeHead == \A a, b \in Seq(Nat) : a # <<>> => Taken(a \o b, a, b)
<1> TAKE a, b \in Seq(Nat)
<1> HAVE a # <<>>
<1> QED BY DEF Taken

(* Moving the head of the second of three sequences to the end of the first.      *)
LEMMA MoveHead ==
  ASSUME NEW a \in Seq(Nat), NEW b \in Seq(Nat), NEW c \in Seq(Nat), b # <<>>
  PROVE  /\ a \o (b \o c) = Append(a, Head(b)) \o (Tail(b) \o c)
         /\ Tail(b) \in Seq(Nat) /\ Append(a, Head(b)) \in Seq(Nat)
<1>1. Head(b) \in Nat /\ Tail(b) \in Seq(Nat) /\ Tail(b) \o c \in Seq(Nat)
  BY SeqHeadTail, SeqConcat
<1>2. b = <<Head(b)>> \o Tail(b)
  BY HeadConcat
<1>3. Append(a, Head(b)) = a \o <<Head(b)>> /\ <<Head(b)>> \in Seq(Nat)
  BY <1>1, AppendConcat
<1>4. (<<Head(b)>> \o Tail(b)) \o c = <<Head(b)>> \o (Tail(b) \o c)
  BY <1>1, <1>3, CommandsAssoc, Zenon
<1>5. a \o (<<Head(b)>> \o (Tail(b) \o c)) = (a \o <<Head(b)>>) \o (Tail(b) \o c)
  BY <1>1, <1>3, CommandsAssoc, Zenon
<1>6. Append(a, Head(b)) \in Seq(Nat)
  BY <1>1, SeqAppend
<1> QED BY <1>1, <1>2, <1>3, <1>4, <1>5, <1>6, Zenon

(* A new client is owed nothing (Dial).                                          *)
LEMMA ClientInit == Sync!Init => ClientInv
<1> SUFFICES ASSUME Sync!Init PROVE ClientInv
  OBVIOUS
<1>1. ClientTypes
  <2>1. err \in BOOLEAN
    BY Zenon DEF Sync!Init
  <2> QED BY <2>1 DEF Sync!Init, ClientTypes
<1>2. UnderWay /\ Counted /\ Sync!OwnReply
  BY DEF Sync!Init, UnderWay, Counted, Sync!OwnReply
<1> QED BY <1>1, <1>2 DEF ClientInv

(* fatal leaves nothing under way and nothing owed.                              *)
LEMMA FatalStep ==
  ASSUME ClientInv, Sync!fatal, pending' \in Nat, UNCHANGED <<written, results>>
  PROVE  ClientInv'
<1>1. ClientTypes'
  BY DEF ClientInv, ClientTypes, Sync!fatal
<1>2. UnderWay' /\ Counted'
  BY DEF Sync!fatal, UnderWay, Counted
<1>3. Sync!OwnReply'
  BY DEF ClientInv, Sync!OwnReply
<1> QED BY <1>1, <1>2, <1>3 DEF ClientInv

(* A command appended to what is owed is appended to what is under way.            *)
LEMMA AppendOwed ==
  ASSUME ClientInv, NEW n \in Nat
  PROVE  Appended(owed, toClient, toRedis, bw, n)
<1>1. /\ toClient \in Seq(Nat) /\ toRedis \in Seq(Nat) /\ bw \in Seq(Nat)
      /\ owed = toClient \o (toRedis \o bw)
  BY DEF ClientInv, ClientTypes, UnderWay
<1> QED BY <1>1, AppendLast

(* A Do, or the AUTH of Dial, adds its command behind all that is owed.           *)
LEMMA StartDoStep ==
  ASSUME ClientInv, ~err, clientPc \in {"closed", "idle"}, NEW next \in {"auth", "do"}, Sync!StartDo(next)
  PROVE  ClientInv'
<1> USE DEF ClientInv
<1>1. written + 1 \in Nat /\ pending = Len(owed)
  BY DEF ClientTypes, Counted
<1>2. ClientTypes'
  BY <1>1, AppendOwed DEF Appended, ClientTypes, Sync!StartDo, Sync!Write
<1>3. UnderWay'
  BY <1>1, AppendOwed, Zenon DEF Appended, UnderWay, Sync!StartDo
<1>4. Counted'
  BY <1>1, AppendOwed DEF Appended, Counted, ClientTypes, Sync!StartDo, Sync!Write
<1>5. Sync!OwnReply'
  BY DEF Sync!OwnReply, Sync!StartDo
<1> QED BY <1>2, <1>3, <1>4, <1>5

(* Send adds its command behind all that is owed, in the buffer or on its way.    *)
LEMMA SendStep ==
  ASSUME ClientInv, Sync!Send
  PROVE  ClientInv'
<1> USE DEF ClientInv
<1>1. written + 1 \in Nat /\ pending = Len(owed) /\ ~err /\ clientPc = "idle"
  BY DEF ClientTypes, Counted, Sync!Send
<1>2. ClientTypes'
  <2>1. /\ err' \in BOOLEAN /\ clientPc' = "idle" /\ results' \in Seq(Result) /\ toClient' \in Seq(Nat)
        /\ pending' \in Nat /\ left' \in Nat /\ failed' \in Nat /\ written' \in Nat
    BY <1>1 DEF ClientTypes, Sync!Send, Sync!Write
  <2>2. bw' \in Seq(Nat) /\ toRedis' \in Seq(Nat) /\ owed' \in Seq(Nat)
    <3>1. /\ Append(bw, written + 1) \in Seq(Nat) /\ Append(owed, written + 1) \in Seq(Nat)
          /\ toRedis \o Append(bw, written + 1) \in Seq(Nat)
      BY <1>1, AppendOwed DEF Appended
    <3>2. <<>> \in Seq(Nat) /\ bw \in Seq(Nat) /\ toRedis \in Seq(Nat)
      BY DEF ClientTypes
    <3> QED BY <3>1, <3>2, Zenon DEF Sync!Send
  <2> QED BY <2>1, <2>2 DEF ClientTypes
<1>3. UnderWay'
  BY <1>1, AppendOwed, Zenon DEF Appended, UnderWay, Sync!Send
<1>4. Counted'
  BY <1>1, AppendOwed DEF Appended, Counted, ClientTypes, Sync!Send
<1>5. Sync!OwnReply'
  BY DEF Sync!OwnReply, Sync!Send
<1> QED BY <1>2, <1>3, <1>4, <1>5

(* The reply at hand is the reply to the first command owed.                       *)
LEMMA FirstOwed ==
  ASSUME ClientInv, toClient # <<>>
  PROVE  Taken(owed, toClient, toRedis \o bw)
<1>1. toClient \in Seq(Nat) /\ toRedis \o bw \in Seq(Nat) /\ owed = toClient \o (toRedis \o bw)
  BY SeqConcat DEF ClientInv, ClientTypes, UnderWay
<1> QED BY <1>1, TakeHead, Zenon

(* Appending a result whose reply is the reply to its own command.                 *)
LEMMA AppendResult ==
  ASSUME ClientInv, NEW r \in Result, r.of = r.reply, results' = Append(results, r)
  PROVE  Sync!OwnReply' /\ results' \in Seq(Result)
BY SeqAppend DEF ClientInv, ClientTypes, Sync!OwnReply

(* One reply read by Do, or by the AUTH of Dial.                                   *)
LEMMA DoReadsStep ==
  ASSUME ClientInv, Sync!DoReads
  PROVE  ClientInv'
<1> DEFINE reply == Head(toClient)
<1> DEFINE e == IF failed = 0 /\ reply \in bad THEN reply ELSE failed
<1>1. /\ clientPc \in {"do", "auth"} /\ toClient # <<>> /\ left' = left - 1
      /\ ~err /\ pending = 0 /\ left = Len(owed) /\ left \in Nat \ {0} /\ owed[left] = written
      /\ UNCHANGED <<pending, written, bw, toRedis>>
  BY DEF ClientInv, ClientTypes, Counted, Sync!DoReads
<1>2. e \in Nat /\ reply \in Nat
  BY <1>1, FirstOwed DEF Taken, ClientInv, ClientTypes
<1>3. CASE left > 1
  <2>1. toClient' = Tail(toClient) /\ failed' = e /\ owed' = Tail(owed) /\ UNCHANGED <<clientPc, err, results>>
    BY <1>3 DEF Sync!DoReads
  <2>2. ClientTypes'
    BY <1>1, <1>2, <2>1, FirstOwed DEF Taken, ClientInv, ClientTypes
  <2>3. UnderWay'
    BY <1>1, <2>1, FirstOwed, Zenon DEF Taken, UnderWay
  <2>4. Counted'
    BY <1>1, <1>3, <2>1, FirstOwed DEF Taken, Counted
  <2>5. Sync!OwnReply'
    BY <2>1 DEF ClientInv, Sync!OwnReply
  <2> QED BY <2>2, <2>3, <2>4, <2>5 DEF ClientInv
<1>4. CASE ~(left > 1)
  <2> DEFINE r == [of |-> written, reply |-> reply, error |-> e]
  <2>1. /\ results' = Append(results, r)
        /\ failed' = 0 /\ owed' = Tail(owed) /\ clientPc' = "idle"
        /\ \/ err' = TRUE /\ toClient' = <<>>
           \/ toClient' = Tail(toClient) /\ UNCHANGED err
    BY <1>4 DEF Sync!DoReads
  <2>2. left = 1 /\ reply = written /\ Len(owed) = 1
    BY <1>1, <1>4, FirstOwed DEF Taken
  <2>3. owed' = <<>> /\ toClient' = <<>> /\ toRedis = <<>> /\ bw = <<>>
    <3>1. toClient \in Seq(Nat) /\ toRedis \in Seq(Nat) /\ bw \in Seq(Nat) /\ owed \in Seq(Nat)
      BY DEF ClientInv, ClientTypes
    <3>2. Len(owed) = Len(toClient) + (Len(toRedis) + Len(bw)) /\ Len(toClient) >= 1
      BY <1>1, <3>1, SeqConcat, SeqHeadTail DEF ClientInv, UnderWay
    <3>3. Len(toClient) = 1 /\ Len(toRedis) = 0 /\ Len(bw) = 0
      <4>1. Len(toClient) \in Nat /\ Len(toRedis) \in Nat /\ Len(bw) \in Nat
        BY <3>1
      <4> QED BY <2>2, <3>2, <4>1
    <3>4. \A q \in Seq(Nat) : Len(q) = 0 => q = <<>>
      BY SeqEqual
    <3>5. Tail(owed) \in Seq(Nat) /\ Len(Tail(owed)) = 0 /\ Tail(toClient) \in Seq(Nat) /\ Len(Tail(toClient)) = 0
      BY <1>1, <2>2, <3>1, <3>3, SeqHeadTail
    <3>6. Tail(owed) = <<>> /\ Tail(toClient) = <<>> /\ toRedis = <<>> /\ bw = <<>>
      BY <3>1, <3>3, <3>4, <3>5, Zenon
    <3> QED BY <2>1, <3>6, Zenon
  <2>4. r \in Result /\ r.of = r.reply
    BY <1>1, <1>2, <2>2 DEF Result, ClientInv, ClientTypes
  <2>5. Sync!OwnReply' /\ results' \in Seq(Result)
    BY <2>1, <2>4, AppendResult
  <2>6. ClientTypes'
    <3>1. err' \in BOOLEAN /\ clientPc' = "idle"
      BY <2>1, Zenon DEF ClientInv, ClientTypes
    <3>2. pending' \in Nat /\ left' \in Nat /\ failed' \in Nat /\ written' \in Nat
      BY <1>1, <2>1 DEF ClientInv, ClientTypes
    <3>3. bw' \in Seq(Nat) /\ toRedis' \in Seq(Nat) /\ toClient' \in Seq(Nat) /\ owed' \in Seq(Nat)
      BY <1>1, <2>3
    <3> QED BY <2>5, <3>1, <3>2, <3>3 DEF ClientTypes
  <2>7. UnderWay' /\ Counted'
    BY <1>1, <2>1, <2>3 DEF UnderWay, Counted
  <2> QED BY <2>5, <2>6, <2>7 DEF ClientInv
<1> QED BY <1>3, <1>4

(* The reply read by Receive.                                                      *)
LEMMA ReceiveReadsStep ==
  ASSUME ClientInv, Sync!ReceiveReads
  PROVE  ClientInv'
<1> DEFINE reply == Head(toClient)
<1> DEFINE r == [of |-> Head(owed), reply |-> reply, error |-> IF reply \in bad THEN reply ELSE 0]
<1>1. /\ clientPc = "receive" /\ toClient # <<>> /\ ~err /\ pending = Len(owed)
      /\ results' = Append(results, r) /\ toClient' = Tail(toClient) /\ owed' = Tail(owed)
      /\ pending' = (IF pending > 0 THEN pending - 1 ELSE 0) /\ clientPc' = "idle"
      /\ UNCHANGED <<err, left, failed, written, bw, toRedis>>
  BY DEF ClientInv, ClientTypes, Counted, Sync!ReceiveReads
<1>2. /\ reply \in Nat /\ Head(owed) = reply /\ Len(owed) \in Nat \ {0}
      /\ Tail(toClient) \in Seq(Nat) /\ Tail(owed) \in Seq(Nat) /\ Len(Tail(owed)) = Len(owed) - 1
      /\ Tail(owed) = Tail(toClient) \o (toRedis \o bw)
  BY <1>1, FirstOwed, Zenon DEF Taken
<1>3. r \in Result /\ r.of = r.reply
  BY <1>2, Zenon DEF Result
<1>4. Sync!OwnReply' /\ results' \in Seq(Result)
  BY <1>1, <1>3, AppendResult
<1>5. ClientTypes'
  BY <1>1, <1>2, <1>4 DEF ClientInv, ClientTypes
<1>6. UnderWay'
  BY <1>1, <1>2, Zenon DEF UnderWay
<1>7. Counted'
  <2>1. pending' = Len(owed') /\ clientPc' = "idle"
    BY <1>1, <1>2
  <2> QED BY <2>1 DEF Counted
<1> QED BY <1>4, <1>5, <1>6, <1>7 DEF ClientInv

(* Redis answers the first command on its way: the reply joins those on their way   *)
(* back.                                                                         *)
LEMMA RedisAnswersStep ==
  ASSUME ClientInv, Sync!RedisAnswers
  PROVE  ClientInv'
<1>1. toClient \in Seq(Nat) /\ toRedis \in Seq(Nat) /\ bw \in Seq(Nat) /\ toRedis # <<>>
  BY DEF ClientInv, ClientTypes, Sync!RedisAnswers
<1>2. /\ toClient \o (toRedis \o bw) = Append(toClient, Head(toRedis)) \o (Tail(toRedis) \o bw)
      /\ Tail(toRedis) \in Seq(Nat) /\ Append(toClient, Head(toRedis)) \in Seq(Nat)
  BY <1>1, MoveHead, Zenon
<1>3. ClientTypes'
  BY <1>2 DEF ClientInv, ClientTypes, Sync!RedisAnswers
<1>4. UnderWay'
  BY <1>2 DEF ClientInv, UnderWay, Sync!RedisAnswers
<1>5. Counted' /\ Sync!OwnReply'
  BY DEF ClientInv, Counted, Sync!OwnReply, Sync!RedisAnswers
<1> QED BY <1>3, <1>4, <1>5 DEF ClientInv

(* Flush sends what is in the buffer.                                              *)
LEMMA FlushStep ==
  ASSUME ClientInv, Sync!Flush
  PROVE  ClientInv'
<1>1. toRedis \o bw \in Seq(Nat) /\ (toRedis \o bw) \o <<>> = toRedis \o bw
  BY SeqConcat, ConcatAssoc DEF ClientInv, ClientTypes
<1>2. ClientTypes'
  BY <1>1 DEF ClientInv, ClientTypes, Sync!Flush
<1>3. UnderWay'
  BY <1>1 DEF ClientInv, UnderWay, Sync!Flush
<1>4. Counted' /\ Sync!OwnReply'
  BY DEF ClientInv, Counted, Sync!OwnReply, Sync!Flush
<1> QED BY <1>2, <1>3, <1>4 DEF ClientInv

(* Every step of a caller, of Redis and of the network keeps the invariant.         *)
LEMMA ClientNext == ClientInv /\ [Sync!Next]_(Sync!vars) => ClientInv'
<1> SUFFICES ASSUME ClientInv, [Sync!Next]_(Sync!vars) PROVE ClientInv'
  OBVIOUS
<1>1. CASE Sync!Dial \/ Sync!Receive
  <2>1. ClientTypes'
    BY <1>1 DEF ClientInv, ClientTypes, Sync!Dial, Sync!Receive
  <2>2. UnderWay' /\ Sync!OwnReply'
    BY <1>1, Zenon DEF ClientInv, UnderWay, Sync!OwnReply, Sync!Dial, Sync!Receive
  <2>3. Counted'
    BY <1>1 DEF ClientInv, Counted, Sync!Dial, Sync!Receive
  <2> QED BY <2>1, <2>2, <2>3 DEF ClientInv
<1>2. CASE Sync!DialWithPassword \/ Sync!Do
  <2>1. ~err /\ clientPc \in {"closed", "idle"}
    BY <1>2 DEF ClientInv, Counted, Sync!DialWithPassword, Sync!Do
  <2>2. Sync!StartDo("auth") \/ Sync!StartDo("do")
    BY <1>2 DEF Sync!DialWithPassword, Sync!Do
  <2> QED BY <2>1, <2>2, StartDoStep
<1>3. CASE Sync!Send \/ Sync!Flush
  BY <1>3, SendStep, FlushStep
<1>4. CASE Sync!DoReads \/ Sync!ReceiveReads
  BY <1>4, DoReadsStep, ReceiveReadsStep
<1>5. CASE Sync!ReadFails \/ Sync!Close
  BY <1>5, FatalStep DEF Sync!ReadFails, Sync!Close, ClientInv, ClientTypes
<1>6. CASE Sync!WriteFails
  BY <1>6, FatalStep DEF Sync!WriteFails, ClientInv, ClientTypes
<1>7. CASE Sync!RedisAnswers
  BY <1>7, RedisAnswersStep
<1>8. CASE UNCHANGED Sync!vars
  BY <1>8 DEF ClientInv, ClientTypes, UnderWay, Counted, Sync!OwnReply, Sync!vars
<1> QED BY <1>1, <1>2, <1>3, <1>4, <1>5, <1>6, <1>7, <1>8 DEF Sync!Next

(* Every reply a call returns is the reply to its own command, for any number of    *)
(* commands, whichever of them fail, time out or are refused (fatal,                *)
(* DoWithTimeout, ReceiveWithTimeout).                                           *)
THEOREM ClientOwnReply == Sync!Spec => []Sync!OwnReply
<1>1. ClientInv => Sync!OwnReply
  BY DEF ClientInv
<1> QED BY ClientInit, ClientNext, <1>1, PTL DEF Sync!Spec
-----------------------------------------------------------------------------
(* Timeouts: no frag loses its deadline to another, for any frags and requests, *)
(* as long as no two calls of time.Now return the same time.                *)

CONSTANTS Frags, Peer, RequestTimeout, Horizon, Coarse
VARIABLES now, Timeout, out, sent, Done, timeoutTree, reported, round

Deadlines == INSTANCE Timeouts

(* The inductive invariant: deadlines lie before any that will be set, no two    *)
(* frags that were sent have the same one, and what Redis has not answered is    *)
(* in the tree until it is Done.                                               *)
DeadlineInv ==
  /\ now \in Nat \ {0}
  /\ Timeout \in [Frags -> Nat]
  /\ sent \subseteq Frags /\ timeoutTree \subseteq Frags
  /\ \A f \in Frags : Timeout[f] < now + RequestTimeout
  /\ \A f \in sent \cup timeoutTree : Timeout[f] > 0
  /\ \A f, g \in Frags : f # g /\ Timeout[f] = Timeout[g] => Timeout[f] = 0
  /\ Deadlines!Armed

(* Deleting a frag from the tree takes no other one along: deadlines differ.     *)
LEMMA DeleteOne ==
  ASSUME DeadlineInv, NEW f \in sent \cup timeoutTree, Deadlines!Delete(f)
  PROVE  timeoutTree' = timeoutTree \ {f}
BY DEF DeadlineInv, Deadlines!Delete

(* Every step of the loop and of the clock keeps the invariant.                  *)
LEMMA DeadlineNext ==
  ASSUME ~Coarse, RequestTimeout \in Nat, DeadlineInv, [Deadlines!Next]_(Deadlines!vars)
  PROVE  DeadlineInv'
<1>1. CASE Deadlines!Tick
  BY <1>1 DEF Deadlines!Tick, DeadlineInv, Deadlines!Armed
<1>2. CASE Deadlines!Events \/ Deadlines!EventsHandled \/ Deadlines!Break \/ UNCHANGED Deadlines!vars
  BY <1>2 DEF Deadlines!Events, Deadlines!EventsHandled, Deadlines!Break, Deadlines!vars, DeadlineInv, Deadlines!Armed
<1>3. ASSUME NEW f \in Frags, Deadlines!SkipDone(f)
      PROVE  DeadlineInv'
  <2>1. timeoutTree' = timeoutTree \ {f}
    BY <1>3, DeleteOne DEF Deadlines!SkipDone, Deadlines!Earliest
  <2> QED BY <1>3, <2>1 DEF Deadlines!SkipDone, DeadlineInv, Deadlines!Armed
<1>4. ASSUME NEW f \in Frags, Deadlines!Report(f)
      PROVE  DeadlineInv'
  <2>1. timeoutTree' = timeoutTree \ {f}
    BY <1>4, DeleteOne DEF Deadlines!Report, Deadlines!Earliest
  <2>2. f \in Deadlines!Siblings(f)
    BY DEF Deadlines!Siblings
  <2> QED BY <1>4, <2>1, <2>2 DEF Deadlines!Report, DeadlineInv, Deadlines!Armed
<1>5. ASSUME NEW f \in Frags, Deadlines!EnqueueInFrag(f)
      PROVE  DeadlineInv'
  <2> DEFINE d == now + RequestTimeout
  <2>1. d \in Nat \ {0} /\ \A g \in Frags : Timeout[g] # d
    BY DEF DeadlineInv
  <2>2. timeoutTree' = timeoutTree \cup {f} /\ Timeout' = [Timeout EXCEPT ![f] = d]
    BY <1>5, <2>1 DEF Deadlines!EnqueueInFrag, Deadlines!PushToTimeoutQueue, DeadlineInv
  <2>3. now' = now + 1 /\ sent' = sent \cup {f} /\ Done' = Done
    BY <1>5 DEF Deadlines!EnqueueInFrag
  <2>4. \A g \in Frags : Timeout'[g] = IF g = f THEN d ELSE Timeout[g]
    BY <2>2 DEF DeadlineInv
  <2>5. Timeout' \in [Frags -> Nat]
    BY <2>1, <2>2 DEF DeadlineInv
  <2>6. \A g, h \in Frags : g # h /\ Timeout'[g] = Timeout'[h] => Timeout'[g] = 0
    BY <2>1, <2>4 DEF DeadlineInv
  <2> HIDE DEF d
  <2>7. \A g \in Frags : Timeout'[g] < now' + RequestTimeout
    BY <2>3, <2>4 DEF DeadlineInv, d
  <2>8. \A g \in sent' \cup timeoutTree' : Timeout'[g] > 0
    BY <2>1, <2>2, <2>3, <2>4 DEF DeadlineInv
  <2>9. Deadlines!Armed'
    BY <2>2, <2>3 DEF DeadlineInv, Deadlines!Armed
  <2> QED BY <2>2, <2>3, <2>5, <2>6, <2>7, <2>8, <2>9 DEF DeadlineInv
<1>6. ASSUME NEW f \in Frags, NEW answer \in {"moved", "reply", "fails"}, Deadlines!DequeueInFrag(f, answer)
      PROVE  DeadlineInv'
  <2>1. timeoutTree' = timeoutTree \ {f} /\ sent' = sent \ {f} /\ UNCHANGED <<now, Timeout>>
    BY <1>6, DeleteOne DEF Deadlines!DequeueInFrag
  <2>2. Done \subseteq Done'
    BY <1>6 DEF Deadlines!DequeueInFrag
  <2> QED BY <2>1, <2>2 DEF DeadlineInv, Deadlines!Armed
<1> QED BY <1>1, <1>2, <1>3, <1>4, <1>5, <1>6 DEF Deadlines!Next, Deadlines!MsgTimeout

(* A frag that Redis has not answered is in the timeout tree until its request   *)
(* is done, through replies, redirections and reports of others                 *)
(* (PushToTimeoutQueue, DeleteFromTimeoutQueue, msgTimeout).                    *)
THEOREM FragsStayArmed ==
  ASSUME ~Coarse, RequestTimeout \in Nat
  PROVE  Deadlines!Spec => []Deadlines!Armed
<1>1. Deadlines!Init => DeadlineInv
  BY DEF Deadlines!Init, DeadlineInv, Deadlines!Armed
<1>2. DeadlineInv /\ [Deadlines!Next]_(Deadlines!vars) => DeadlineInv'
  BY DeadlineNext
<1>3. DeadlineInv => Deadlines!Armed
  BY DEF DeadlineInv
<1> QED BY <1>1, <1>2, <1>3, PTL DEF Deadlines!Spec
-----------------------------------------------------------------------------
(* Engine: no Stop returns before the engine has stopped.                   *)

CONSTANTS Stoppers
VARIABLES main, el, epoll, engineLoop, connections, allEngines, once, urgent, inShutdown, stop

Eng == INSTANCE Engine WITH loop <- engineLoop

(* Where a Stop can be.                                                         *)
StopPCs == {"idle", "signal", "check", "polling", "done", "ctxDone", "errInShutdown"}

(* The inductive invariant: how far serve has come says what the loop and the   *)
(* poller can be, and inShutdown says how far serve has come.                   *)
EngineInv ==
  /\ stop \in [Stoppers -> StopPCs]
  /\ main \in {"start", "panicked", "failed"} => engineLoop = "none"
  /\ main \in {"close", "flag", "returned"} => engineLoop = "ended"
  /\ main = "start" => epoll = "none"
  /\ main \in {"flag", "returned"} => epoll = "closed"
  /\ epoll = "closed" => main \in {"failed", "flag", "returned"}
  /\ engineLoop \in {"none", "signal", "ended"} => ~connections
  /\ inShutdown => main = "returned"
  /\ \A t \in Stoppers : stop[t] = "done" => inShutdown

(* Whatever the loop and serve have come to when a Stop returns, the inductive   *)
(* invariant gives StopMeansStopped (engine.stop, Stop).                        *)
LEMMA EngineInvImplies == EngineInv => Eng!StopMeansStopped
BY DEF EngineInv, Eng!StopMeansStopped

(* Before serve runs, nothing is open and no Stop has returned (serve).           *)
LEMMA EngineInvInit == Eng!Init => EngineInv
BY DEF Eng!Init, EngineInv, StopPCs

(* Every step of serve, the loop and Stop keeps the invariant.                    *)
LEMMA EngineInvNext == EngineInv /\ [Eng!Next]_(Eng!vars) => EngineInv'
<1> SUFFICES ASSUME EngineInv, [Eng!Next]_(Eng!vars) PROVE EngineInv'
    OBVIOUS
<1>1. CASE Eng!StartFails \/ Eng!PreconnectFails \/ Eng!Start
      BY <1>1 DEF EngineInv, Eng!StartFails, Eng!PreconnectFails, Eng!Start
<1>2. CASE Eng!MainStep
  <2>1. CASE Eng!Store \/ Eng!WaitForShutdown \/ Eng!UrgentTrigger
        BY <1>2, <2>1 DEF EngineInv, Eng!Store, Eng!WaitForShutdown, Eng!UrgentTrigger
  <2>2. CASE Eng!WgWait \/ Eng!CloseEventLoops \/ Eng!SetInShutdown
        BY <1>2, <2>2 DEF EngineInv, Eng!WgWait, Eng!CloseEventLoops, Eng!SetInShutdown
  <2> QED BY <1>2, <2>1, <2>2 DEF Eng!MainStep
<1>3. CASE Eng!LoopFails \/ Eng!LoopStep
  <2>1. CASE Eng!PollingEnds
        BY <1>3, <2>1 DEF EngineInv, Eng!PollingEnds
  <2>2. CASE Eng!CloseAllSockets \/ Eng!LoopSignals
        BY <1>3, <2>2 DEF EngineInv, Eng!CloseAllSockets, Eng!LoopSignals, Eng!SignalShutdown
  <2> QED BY <1>3, <2>1, <2>2 DEF Eng!LoopFails, Eng!LoopStep, Eng!RunTask
<1>4. ASSUME NEW t \in Stoppers, Eng!Load(t) \/ Eng!StopStep(t) \/ Eng!StopGivesUp(t)
      PROVE EngineInv'
  <2>1. CASE Eng!Load(t) \/ Eng!StopChecks(t) \/ Eng!StopGivesUp(t)
        BY <1>4, <2>1 DEF EngineInv, StopPCs, Eng!Load, Eng!StopChecks, Eng!StopGivesUp, Eng!Goto
  <2>2. CASE Eng!StopSignals(t)
        BY <1>4, <2>2 DEF EngineInv, StopPCs, Eng!StopSignals, Eng!SignalShutdown, Eng!Goto
  <2>3. CASE Eng!StopReturns(t)
        BY <1>4, <2>3 DEF EngineInv, StopPCs, Eng!StopReturns, Eng!Goto
  <2> QED BY <1>4, <2>1, <2>2, <2>3 DEF Eng!StopStep
<1>5. CASE UNCHANGED Eng!vars
      BY <1>5 DEF EngineInv, Eng!vars
<1> QED BY <1>1, <1>2, <1>3, <1>4, <1>5 DEF Eng!Next

(* The poller is not closed under a loop that runs, and a Stop that returned     *)
(* nil left no loop and no connection behind, however many call Stop and         *)
(* whenever the loop fails (engine.stop, run, Stop).                            *)
THEOREM EngineStopMeansStopped == Eng!Spec => []Eng!StopMeansStopped
<1>1. EngineInv /\ [Eng!Next]_(Eng!vars) => EngineInv'
      BY EngineInvNext
<1> QED BY EngineInvInit, EngineInvImplies, <1>1, PTL DEF Eng!Spec
-----------------------------------------------------------------------------
(* RedisPool: the roles of the connections and the limits of a pool.         *)

CONSTANTS Node, InitMaster, InitSlaves, maxActive, MaxOrder, MaxFailovers, Removal, Fragile
VARIABLES up, master, slaves, pool, mpc, req, failovers

Pools == INSTANCE RedisPool

Connections == [open : BOOLEAN, ro : BOOLEAN]

PoolRecords == [order : 0 .. MaxOrder, banned : BOOLEAN, flag : BOOLEAN,
                isSlave : BOOLEAN, closed : BOOLEAN, active : Seq(Connections)]

(* The connections were dialled for the role the pool has.                   *)
OfRole(active, isSlave) == \A i \in 1 .. Len(active) : active[i].ro = isSlave

(* What every pool is like: the limits of LiftBanOrder and active, the roles. *)
GoodPool(p) == p \in PoolRecords /\ Len(p.active) <= maxActive /\ OfRole(p.active, p.isSlave)

(* The inductive invariant.                                                  *)
PoolsInv ==
  /\ up \subseteq Node /\ master \in Node /\ slaves \in Seq(Node)
  /\ pool \in [Node -> PoolRecords]
  /\ \A a \in Node : GoodPool(pool[a])
  /\ "at" \in DOMAIN req /\ req.at \in {"idle", "route", "get", "order", "flag", "failed"}

(* A step that writes one pool keeps the pools good if it writes a good one.  *)
LEMMA OnePool ==
  ASSUME NEW P, P \in [Node -> PoolRecords], \A a \in Node : GoodPool(P[a]),
         NEW a, NEW p, a \in Node => GoodPool(p)
  PROVE  LET Q == [P EXCEPT ![a] = p]
         IN  Q \in [Node -> PoolRecords] /\ \A b \in Node : GoodPool(Q[b])
BY Zenon DEF GoodPool

(* The ban, its order and the mark of a closed pool say nothing of the connections. *)
LEMMA FieldsGood ==
  ASSUME NEW p, GoodPool(p), NEW v \in BOOLEAN, NEW n \in 0 .. MaxOrder
  PROVE  /\ GoodPool([p EXCEPT !.banned = v])
         /\ GoodPool([p EXCEPT !.flag = v])
         /\ GoodPool([p EXCEPT !.closed = v])
         /\ GoodPool([p EXCEPT !.order = n])
BY SMT DEF GoodPool, PoolRecords, OfRole

(* Connections of the pool's role, not too many, make a good pool.            *)
LEMMA ActiveGood ==
  ASSUME NEW p, GoodPool(p), NEW s \in Seq(Connections), Len(s) <= maxActive, OfRole(s, p.isSlave)
  PROVE  GoodPool([p EXCEPT !.active = s])
BY SMT DEF GoodPool, PoolRecords, OfRole

(* The first n connections, and a sequence with its last element at the front. *)
LEMMA PartOfRole ==
  ASSUME NEW s \in Seq(Connections), NEW b, OfRole(s, b), NEW n \in 0 .. Len(s)
  PROVE  /\ SubSeq(s, 1, n) \in Seq(Connections) /\ Len(SubSeq(s, 1, n)) = n
         /\ OfRole(SubSeq(s, 1, n), b)
<1>1. SubSeq(s, 1, n) \in Seq(Connections) /\ Len(SubSeq(s, 1, n)) = n
  BY SMT
<1>2. \A i \in 1 .. n : SubSeq(s, 1, n)[i] = s[i] /\ i \in 1 .. Len(s)
  BY SMT
<1> QED BY <1>1, <1>2, Zenon DEF OfRole

(* A connection put in front of others of its role.                          *)
LEMMA InFront ==
  ASSUME NEW s \in Seq(Connections), NEW b, OfRole(s, b), NEW c \in Connections, c.ro = b
  PROVE  /\ <<c>> \o s \in Seq(Connections) /\ Len(<<c>> \o s) = Len(s) + 1
         /\ OfRole(<<c>> \o s, b)
<1> DEFINE r == <<c>> \o s
<1>1. r \in Seq(Connections) /\ Len(r) = Len(s) + 1 /\ Len(s) \in Nat
  BY SMT
<1>2. r[1] = c /\ \A i \in 2 .. Len(s) + 1 : r[i] = s[i - 1]
  BY SMT
<1>3. ASSUME NEW i \in 1 .. Len(r) PROVE r[i].ro = b
  <2>1. CASE i = 1
    BY <1>2, <2>1, Zenon
  <2>2. CASE i # 1
    <3>1. i \in 2 .. Len(s) + 1 /\ i - 1 \in 1 .. Len(s)
      BY <1>1, <2>2, SMT
    <3> QED BY <1>2, <3>1, Zenon DEF OfRole
  <2> QED BY <2>1, <2>2, Zenon
<1> QED BY <1>1, <1>3, Zenon DEF OfRole

(* A set of positions of a sequence has a last one.                          *)
LEMMA LastPosition ==
  ASSUME NEW n \in Nat, NEW T, T \subseteq 1 .. n, T # {}
  PROVE  \E x \in T : \A y \in T : y <= x
<1> DEFINE U == {n - i : i \in T}
<1>1. \A i \in T : i \in Nat /\ n - i \in Nat
  BY SMT
<1>2. U \subseteq Nat /\ U # {}
  BY <1>1, Zenon
<1>3. PICK u \in U : \A v \in U : u <= v
  <2> HIDE DEF U
  <2> QED BY <1>2, Least, Zenon
<1>4. PICK x \in T : u = n - x
  BY Zenon
<1>5. ASSUME NEW y \in T PROVE y <= x
  <2>1. n - x <= n - y
    BY <1>3, <1>4, Zenon
  <2> QED BY <1>1, <2>1, SMT
<1> QED BY <1>5, Zenon

(* What Get keeps of a full pool: a part of its connections.                 *)
LEMMA KeptOfRole ==
  ASSUME NEW s \in Seq(Connections), NEW b, OfRole(s, b)
  PROVE  LET k == Pools!Kept(s)
         IN  k \in Seq(Connections) /\ Len(k) <= Len(s) /\ OfRole(k, b)
<1> DEFINE opened == {i \in 1 .. Len(s) : Pools!IsOpened(s[i])}
           n == IF opened = {} THEN 0 ELSE CHOOSE i \in opened : \A j \in opened : j <= i
<1>1. n \in 0 .. Len(s)
  <2>1. CASE opened = {}
    BY <2>1, SMT
  <2>2. CASE opened # {}
    <3>1. Len(s) \in Nat /\ opened \subseteq 1 .. Len(s)
      BY SMT
    <3>2. \E i \in opened : \A j \in opened : j <= i
      BY <2>2, <3>1, LastPosition, Zenon
    <3>3. n \in opened
      BY <2>2, <3>2, Zenon
    <3> HIDE DEF n
    <3> QED BY <3>1, <3>3, SMT
  <2> QED BY <2>1, <2>2, Zenon
<1>2. Pools!Kept(s) = SubSeq(s, 1, n)
  BY Zenon DEF Pools!Kept
<1> HIDE DEF n
<1>3. n <= Len(s)
  BY <1>1, SMT
<1> QED BY <1>1, <1>2, <1>3, PartOfRole, Zenon

(* What a step that writes pool a leaves to show.                            *)
LEMMA PoolWritten ==
  ASSUME PoolsInv, NEW a, NEW p, a \in Node => GoodPool(p), pool' = [pool EXCEPT ![a] = p],
         up' \subseteq Node, master' \in Node, slaves' \in Seq(Node),
         "at" \in DOMAIN req', req'.at \in {"idle", "route", "get", "order", "flag", "failed"}
  PROVE  PoolsInv'
<1>1. pool \in [Node -> PoolRecords] /\ \A b \in Node : GoodPool(pool[b])
  BY Zenon DEF PoolsInv
<1> DEFINE Q == [pool EXCEPT ![a] = p]
<1>2. Q \in [Node -> PoolRecords] /\ \A b \in Node : GoodPool(Q[b])
  BY <1>1, OnePool, Zenon
<1>3. pool' \in [Node -> PoolRecords] /\ \A b \in Node : GoodPool(pool'[b])
  BY <1>2, Zenon
<1> QED BY <1>3, Zenon DEF PoolsInv, GoodPool

(* The connections of a node that goes down keep their roles.                *)
LEMMA BrokenOfRole ==
  ASSUME NEW s \in Seq(Connections), NEW b, OfRole(s, b)
  PROVE  LET k == Pools!Broken(s)
         IN  k \in Seq(Connections) /\ Len(k) = Len(s) /\ OfRole(k, b)
<1>1. \A i \in 1 .. Len(s) : s[i] \in Connections
  BY SMT
<1>2. ASSUME NEW c \in Connections
      PROVE  [c EXCEPT !.open = FALSE] \in Connections /\ [c EXCEPT !.open = FALSE].ro = c.ro
  BY <1>2, Zenon DEF Connections
<1> DEFINE k == Pools!Broken(s)
<1>3. k = [i \in 1 .. Len(s) |-> [s[i] EXCEPT !.open = FALSE]]
  BY Zenon DEF Pools!Broken
<1>4. k \in [1 .. Len(s) -> Connections] /\ \A i \in 1 .. Len(s) : k[i].ro = s[i].ro
  BY <1>1, <1>2, <1>3, Zenon
<1>5. k \in Seq(Connections) /\ Len(k) = Len(s)
  <2> HIDE DEF k
  <2> QED BY <1>4, SMT
<1> QED BY <1>4, <1>5, Zenon DEF OfRole

(* A new pool has no connection.                                             *)
LEMMA PoolsInit ==
  ASSUME InitMaster \in Node, InitSlaves \in Seq(Node), MaxOrder \in Nat, maxActive \in Nat \ {0}
  PROVE  Pools!Init => PoolsInv
<1> SUFFICES ASSUME Pools!Init PROVE PoolsInv
  BY Zenon
<1>1. ASSUME NEW b \in BOOLEAN
      PROVE  GoodPool([order |-> 0, banned |-> FALSE, flag |-> FALSE, isSlave |-> b,
                       closed |-> FALSE, active |-> << >>])
  BY <1>1, SMT DEF GoodPool, PoolRecords, OfRole
<1>2. \A a \in Node : GoodPool(pool[a])
  BY <1>1, Zenon DEF Pools!Init
<1>3. pool \in [Node -> PoolRecords]
  BY <1>2, Zenon DEF Pools!Init, GoodPool
<1> QED BY <1>2, <1>3, Zenon DEF Pools!Init, Pools!Idle, PoolsInv

(* What the monitors write leaves the connections alone.                     *)
LEMMA MonitorGood ==
  ASSUME PoolsInv, MaxOrder \in Nat, NEW a \in Node,
         Pools!Monitor(a) \/ Pools!BanExpires(a)
  PROVE  PoolsInv'
<1>1. GoodPool(pool[a]) /\ 0 \in 0 .. MaxOrder
  <2>1. 0 \in 0 .. MaxOrder
    BY SMT
  <2> QED BY <2>1, Zenon DEF PoolsInv
<1>2. /\ up' \subseteq Node /\ master' \in Node /\ slaves' \in Seq(Node)
      /\ "at" \in DOMAIN req' /\ req'.at \in {"idle", "route", "get", "order", "flag", "failed"}
  BY Zenon DEF PoolsInv, Pools!Monitor, Pools!Stays, Pools!BanExpires, Pools!MonitorTick,
               Pools!Detect, Pools!ResetOrder, Pools!Unflag, Pools!Ban, Pools!Flag
<1>3. CASE pool' = pool
  BY <1>2, <1>3, Zenon DEF PoolsInv, GoodPool
<1>4. ASSUME NEW p, GoodPool(p), pool' = [pool EXCEPT ![a] = p] PROVE PoolsInv'
  BY <1>2, <1>4, PoolWritten, Zenon
<1>5. CASE pool' = [pool EXCEPT ![a].order = 0]
  BY <1>1, <1>4, <1>5, FieldsGood, Zenon
<1>6. ASSUME NEW v \in BOOLEAN, pool' = [pool EXCEPT ![a].flag = v] PROVE PoolsInv'
  BY <1>1, <1>4, <1>6, FieldsGood, Zenon
<1>7. ASSUME NEW v \in BOOLEAN, pool' = [pool EXCEPT ![a].banned = v] PROVE PoolsInv'
  BY <1>1, <1>4, <1>7, FieldsGood, Zenon
<1> QED BY <1>3, <1>5, <1>6, <1>7, Zenon
     DEF Pools!Monitor, Pools!BanExpires, Pools!MonitorTick, Pools!Detect, Pools!ResetOrder,
         Pools!Unflag, Pools!Ban, Pools!Flag

(* Get leaves connections of the pool's role, and no more than maxActive.     *)
LEMMA GetGood ==
  ASSUME PoolsInv, MaxOrder \in Nat, maxActive \in Nat \ {0},
         Pools!GetDialled \/ Pools!GetKept \/ Pools!GetFailed
  PROVE  PoolsInv'
<1> DEFINE a == req.addr
           P == pool[a]
<1>1. /\ up' \subseteq Node /\ master' \in Node /\ slaves' \in Seq(Node)
      /\ "at" \in DOMAIN req' /\ req'.at \in {"idle", "route", "get", "order", "flag", "failed"}
  <2>1. CASE Pools!GetFailed
    <3>1. req' = [req EXCEPT !.at = "order"] /\ UNCHANGED <<up, master, slaves>>
      BY <2>1, Zenon DEF Pools!GetFailed
    <3> QED BY <3>1, Zenon DEF PoolsInv
  <2>2. CASE Pools!GetDialled \/ Pools!GetKept
    <3>1. req' = Pools!Idle /\ UNCHANGED <<up, master, slaves>>
      BY <2>2, Zenon DEF Pools!GetDialled, Pools!GetKept
    <3> QED BY <3>1, Zenon DEF PoolsInv, Pools!Idle
  <2> QED BY <2>1, <2>2, Zenon
<1>2. ASSUME NEW p, a \in Node => GoodPool(p), pool' = [pool EXCEPT ![a] = p] PROVE PoolsInv'
  BY <1>1, <1>2, PoolWritten, Zenon
<1>3. ASSUME a \in Node
      PROVE  /\ GoodPool(P) /\ P.active \in Seq(Connections) /\ Len(P.active) <= maxActive
             /\ OfRole(P.active, P.isSlave) /\ P.isSlave \in BOOLEAN
  BY <1>3, Zenon DEF PoolsInv, GoodPool, PoolRecords
<1>4. ASSUME a \in Node
      PROVE  /\ Pools!Base(a) \in Seq(Connections) /\ OfRole(Pools!Base(a), P.isSlave)
             /\ Len(Pools!Base(a)) + 1 <= maxActive
  <2>1. CASE Len(P.active) < maxActive
    <3>1. Pools!Base(a) = P.active
      BY <2>1, Zenon DEF Pools!Base
    <3>2. Len(P.active) + 1 <= maxActive
      BY <1>3, <1>4, <2>1, SMT
    <3> QED BY <1>3, <1>4, <3>1, <3>2, Zenon
  <2>2. CASE ~(Len(P.active) < maxActive)
    <3>1. Pools!Base(a) = << >>
      BY <2>2, Zenon DEF Pools!Base
    <3>2. << >> \in Seq(Connections) /\ Len(<< >>) + 1 <= maxActive /\ OfRole(<< >>, P.isSlave)
      BY SMT DEF OfRole
    <3> QED BY <3>1, <3>2, Zenon
  <2> QED BY <2>1, <2>2, Zenon
<1>5. 0 \in 0 .. MaxOrder
  BY SMT
<1>6. ASSUME NEW s, pool' = [pool EXCEPT ![a].active = s, ![a].order = 0],
             a \in Node => s \in Seq(Connections) /\ Len(s) <= maxActive /\ OfRole(s, P.isSlave)
      PROVE  PoolsInv'
  <2> DEFINE p == [P EXCEPT !.active = s]
             q == [p EXCEPT !.order = 0]
  <2>1. a \in Node => GoodPool(p)
    BY <1>3, <1>6, ActiveGood, Zenon
  <2>2. a \in Node => GoodPool(q)
    BY <1>5, <2>1, FieldsGood, Zenon
  <2>3. pool' = [pool EXCEPT ![a] = q]
    <3>1. pool \in [Node -> PoolRecords]
      BY Zenon DEF PoolsInv
    <3> QED BY <1>6, <3>1, Zenon
  <2> QED BY <1>2, <2>2, <2>3, Zenon
<1>7. CASE Pools!GetDialled
  <2> DEFINE c == Pools!Conn(a)
             s == <<c>> \o Pools!Base(a)
  <2>1. pool' = [pool EXCEPT ![a].active = s, ![a].order = 0]
    BY <1>7, Zenon DEF Pools!GetDialled
  <2>2. ASSUME a \in Node
        PROVE  s \in Seq(Connections) /\ Len(s) <= maxActive /\ OfRole(s, P.isSlave)
    <3>1. c \in Connections /\ c.ro = P.isSlave
      BY <1>3, <2>2, Zenon DEF Pools!Conn, Connections
    <3> HIDE DEF c
    <3>2. s \in Seq(Connections) /\ Len(s) = Len(Pools!Base(a)) + 1 /\ OfRole(s, P.isSlave)
      BY <1>4, <2>2, <3>1, InFront, Zenon
    <3> QED BY <1>4, <2>2, <3>2, Zenon
  <2> QED BY <1>6, <2>1, <2>2, Zenon
<1>8. CASE Pools!GetKept
  <2> DEFINE k == Pools!Kept(P.active)
             s == <<k[Len(k)]>> \o SubSeq(k, 1, Len(k) - 1)
  <2>1. pool' = [pool EXCEPT ![a].active = s, ![a].order = 0] /\ k # << >>
    BY <1>8, Zenon DEF Pools!GetKept, Pools!Dials
  <2>2. ASSUME a \in Node
        PROVE  s \in Seq(Connections) /\ Len(s) <= maxActive /\ OfRole(s, P.isSlave)
    <3>1. k \in Seq(Connections) /\ Len(k) <= Len(P.active) /\ OfRole(k, P.isSlave)
      BY <1>3, <2>2, KeptOfRole, Zenon
    <3> HIDE DEF k
    <3>2. /\ Len(k) \in 1 .. Len(k) /\ k[Len(k)] \in Connections /\ Len(k) - 1 \in 0 .. Len(k)
          /\ Len(P.active) \in Nat /\ Len(k) \in Nat
      BY <1>3, <2>1, <2>2, <3>1, SMT
    <3>3. k[Len(k)].ro = P.isSlave
      BY <3>1, <3>2, Zenon DEF OfRole
    <3>4. s = <<k[Len(k)]>> \o SubSeq(k, 1, Len(k) - 1)
      OBVIOUS
    <3>5. /\ SubSeq(k, 1, Len(k) - 1) \in Seq(Connections) /\ OfRole(SubSeq(k, 1, Len(k) - 1), P.isSlave)
          /\ Len(SubSeq(k, 1, Len(k) - 1)) = Len(k) - 1
      BY <3>1, <3>2, PartOfRole, Zenon
    <3>6. /\ s \in Seq(Connections) /\ OfRole(s, P.isSlave)
          /\ Len(s) = Len(SubSeq(k, 1, Len(k) - 1)) + 1
      BY <3>2, <3>3, <3>4, <3>5, InFront, Zenon
    <3> HIDE DEF s
    <3>7. Len(s) <= maxActive
      <4>1. Len(s) = (Len(k) - 1) + 1
        BY <3>5, <3>6, Zenon
      <4> QED BY <1>3, <2>2, <3>1, <3>2, <4>1, SMT
    <3> QED BY <3>6, <3>7, Zenon
  <2> QED BY <1>6, <2>1, <2>2, Zenon
<1>9. CASE Pools!GetFailed
  <2> DEFINE s == Pools!Base(a)
             p == [P EXCEPT !.active = s]
             q == [p EXCEPT !.banned = TRUE]
  <2>1. pool' = [pool EXCEPT ![a].active = s, ![a].banned = TRUE]
    BY <1>9, Zenon DEF Pools!GetFailed
  <2>2. ASSUME a \in Node PROVE GoodPool(q)
    <3>1. Len(s) <= maxActive
      <4>1. Len(s) + 1 <= maxActive /\ s \in Seq(Connections)
        BY <1>4, <2>2, Zenon
      <4> HIDE DEF s
      <4> QED BY <4>1, SMT
    <3>2. GoodPool(p)
      BY <1>3, <1>4, <2>2, <3>1, ActiveGood, Zenon
    <3> QED BY <3>2, <1>5, FieldsGood, Zenon
  <2>3. pool' = [pool EXCEPT ![a] = q]
    <3>1. pool \in [Node -> PoolRecords]
      BY Zenon DEF PoolsInv
    <3> QED BY <2>1, <3>1, Zenon
  <2> QED BY <1>2, <2>2, <2>3, Zenon
<1> QED BY <1>7, <1>8, <1>9, Zenon

(* Routing, the order and the flag of a failed dial, and the end of a request. *)
LEMMA ServeGood ==
  ASSUME PoolsInv, MaxOrder \in Nat, maxActive \in Nat \ {0}, Pools!Request \/ Pools!Serve
  PROVE  PoolsInv'
<1> DEFINE At == {"idle", "route", "get", "order", "flag", "failed"}
<1>1. ASSUME UNCHANGED <<up, master, slaves>>, "at" \in DOMAIN req', req'.at \in At,
             NEW a, NEW p, pool' = [pool EXCEPT ![a] = p], a \in Node => GoodPool(p)
      PROVE  PoolsInv'
  <2>1. up' \subseteq Node /\ master' \in Node /\ slaves' \in Seq(Node)
    BY <1>1, Zenon DEF PoolsInv
  <2> QED BY <1>1, <2>1, PoolWritten, Zenon
<1>2. ASSUME UNCHANGED <<up, master, slaves, pool>>, "at" \in DOMAIN req', req'.at \in At
      PROVE  PoolsInv'
  BY <1>2, Zenon DEF PoolsInv, GoodPool
<1>3. "at" \in DOMAIN Pools!Idle /\ Pools!Idle.at = "idle"
  BY Zenon DEF Pools!Idle
<1>4. "at" \in DOMAIN req /\ \A a \in Node : GoodPool(pool[a])
  BY Zenon DEF PoolsInv
<1>5. CASE Pools!Request
  <2>1. PICK type \in {"read", "write"} : req' = [Pools!Idle EXCEPT !.at = "route", !.type = type]
    BY <1>5, Zenon DEF Pools!Request
  <2>2. "at" \in DOMAIN req' /\ req'.at \in At
    BY <2>1, SMT DEF Pools!Idle
  <2> QED BY <1>2, <1>5, <2>2, Zenon DEF Pools!Request
<1>6. CASE Pools!RouteMaster
  <2>1. req' = [req EXCEPT !.at = "get", !.addr = master, !.slave = FALSE] /\ UNCHANGED <<up, master, slaves, pool>>
    BY <1>6, Zenon DEF Pools!RouteMaster
  <2>2. "at" \in DOMAIN req' /\ req'.at \in At
    BY <1>4, <2>1, Zenon
  <2> QED BY <1>2, <2>1, <2>2, Zenon
<1>7. CASE Pools!RouteSlave
  <2>1. PICK a \in Pools!Picks : /\ req' = [req EXCEPT !.at = "get", !.addr = a, !.slave = TRUE]
                                 /\ pool' = [pool EXCEPT ![a].flag = FALSE]
    BY <1>7, Zenon DEF Pools!RouteSlave
  <2>2. "at" \in DOMAIN req' /\ req'.at \in At
    BY <1>4, <2>1, Zenon
  <2>3. a \in Node => GoodPool([pool[a] EXCEPT !.flag = FALSE])
    <3>1. 0 \in 0 .. MaxOrder
      BY SMT
    <3> QED BY <1>4, <3>1, FieldsGood, Zenon
  <2>4. UNCHANGED <<up, master, slaves>>
    BY <1>7, Zenon DEF Pools!RouteSlave
  <2> QED BY <1>1, <2>1, <2>2, <2>3, <2>4, Zenon
<1>8. CASE Pools!RaiseOrder
  <2> DEFINE a == req.addr
             n == IF pool[a].order >= MaxOrder THEN MaxOrder ELSE pool[a].order + 1
  <2>1. /\ pool' = [pool EXCEPT ![a] = [pool[a] EXCEPT !.order = n]]
        /\ req' = [req EXCEPT !.at = "flag"] /\ UNCHANGED <<up, master, slaves>>
    BY <1>8, Zenon DEF Pools!RaiseOrder
  <2>2. "at" \in DOMAIN req' /\ req'.at \in At
    BY <1>4, <2>1, Zenon
  <2>3. ASSUME a \in Node PROVE GoodPool([pool[a] EXCEPT !.order = n])
    <3>1. pool[a].order \in 0 .. MaxOrder
      BY <1>4, <2>3, Zenon DEF GoodPool, PoolRecords
    <3>2. n \in 0 .. MaxOrder
      BY <3>1, SMT
    <3> HIDE DEF n
    <3> QED BY <1>4, <2>3, <3>2, FieldsGood, Zenon
  <2> QED BY <1>1, <2>1, <2>2, <2>3, Zenon
<1>9. CASE Pools!SetFlag
  <2> DEFINE a == req.addr
  <2>1. /\ pool' = [pool EXCEPT ![a].flag = TRUE] /\ UNCHANGED <<up, master, slaves>>
        /\ \/ req' = [req EXCEPT !.at = "route", !.try = 2]
           \/ req' = [req EXCEPT !.at = "failed"]
    BY <1>9, Zenon DEF Pools!SetFlag
  <2>2. "at" \in DOMAIN req' /\ req'.at \in At
    BY <1>4, <2>1, Zenon
  <2>3. a \in Node => GoodPool([pool[a] EXCEPT !.flag = TRUE])
    <3>1. 0 \in 0 .. MaxOrder
      BY SMT
    <3> QED BY <1>4, <3>1, FieldsGood, Zenon
  <2> QED BY <1>1, <2>1, <2>2, <2>3, Zenon
<1>10. CASE Pools!Refuse
  BY <1>2, <1>3, <1>10, Zenon DEF Pools!Refuse
<1>11. CASE Pools!GetDialled \/ Pools!GetKept \/ Pools!GetFailed
  BY <1>11, GetGood, Zenon
<1> QED BY <1>5, <1>6, <1>7, <1>8, <1>9, <1>10, <1>11, Zenon DEF Pools!Serve

(* SetIsSlave releases the connections when the role changes.                *)
LEMMA RoleGood ==
  ASSUME NEW p, GoodPool(p), maxActive \in Nat \ {0}, NEW b \in BOOLEAN
  PROVE  GoodPool(Pools!SetIsSlave(p, b))
<1>1. CASE p.isSlave = b
  BY <1>1, Zenon DEF Pools!SetIsSlave
<1>2. CASE p.isSlave # b
  <2>1. Pools!SetIsSlave(p, b) = [p EXCEPT !.isSlave = b, !.active = << >>]
    BY <1>2, Zenon DEF Pools!SetIsSlave
  <2> DEFINE r == [p EXCEPT !.isSlave = b, !.active = << >>]
  <2>2. << >> \in Seq(Connections) /\ Len(<< >>) <= maxActive /\ OfRole(<< >>, b)
    BY SMT DEF OfRole
  <2>3. r \in PoolRecords /\ r.active = << >> /\ r.isSlave = b
    BY <2>2, Zenon DEF GoodPool, PoolRecords
  <2> HIDE DEF r
  <2>4. GoodPool(r)
    BY <2>2, <2>3, Zenon DEF GoodPool
  <2> QED BY <2>1, <2>4, Zenon DEF r
<1> QED BY <1>1, <1>2, Zenon

(* The ticker changes the roles of two pools, or closes one.                 *)
LEMMA TopologyGood ==
  ASSUME PoolsInv, MaxOrder \in Nat, maxActive \in Nat \ {0}, Pools!Failover \/ Pools!Close
  PROVE  PoolsInv'
<1>1. slaves # << >> /\ UNCHANGED <<up, req>>
  BY Zenon DEF Pools!Failover, Pools!Close
<1> DEFINE m == Head(slaves)
<1>2. m \in Node /\ Tail(slaves) \in Seq(Node) /\ Append(Tail(slaves), master) \in Seq(Node)
  <2>1. slaves \in Seq(Node) /\ master \in Node
    BY Zenon DEF PoolsInv
  <2>2. m \in Node /\ Tail(slaves) \in Seq(Node)
    BY <1>1, <2>1, SMT
  <2>3. Append(Tail(slaves), master) \in Seq(Node)
    BY <2>1, <2>2, SMT
  <2> QED BY <2>2, <2>3, Zenon
<1>3. /\ pool \in [Node -> PoolRecords] /\ \A a \in Node : GoodPool(pool[a])
      /\ up \subseteq Node /\ master \in Node
      /\ "at" \in DOMAIN req /\ req.at \in {"idle", "route", "get", "order", "flag", "failed"}
  BY Zenon DEF PoolsInv
<1>4. CASE Pools!Failover
  <2> DEFINE p == Pools!SetIsSlave(pool[m], FALSE)
             P == [pool EXCEPT ![m] = p]
             q == Pools!SetIsSlave(pool[master], TRUE)
             Q == [P EXCEPT ![master] = q]
  <2>1. master' = m /\ slaves' = Append(Tail(slaves), master) /\ pool' = Q
    BY <1>4, Zenon DEF Pools!Failover
  <2>2. GoodPool(p)
    BY <1>2, <1>3, RoleGood, Zenon
  <2>3. P \in [Node -> PoolRecords] /\ \A a \in Node : GoodPool(P[a])
    <3> HIDE DEF p
    <3> QED BY <1>3, <2>2, OnePool, Zenon
  <2>4. GoodPool(q)
    BY <1>3, RoleGood, Zenon
  <2>5. Q \in [Node -> PoolRecords] /\ \A a \in Node : GoodPool(Q[a])
    <3> HIDE DEF P, q
    <3> QED BY <2>3, <2>4, OnePool, Zenon
  <2>6. pool' \in [Node -> PoolRecords] /\ \A a \in Node : GoodPool(pool'[a])
    <3> HIDE DEF Q
    <3> QED BY <2>1, <2>5, Zenon
  <2>7. master' \in Node /\ slaves' \in Seq(Node)
    BY <1>2, <2>1, Zenon
  <2> QED BY <1>1, <1>3, <2>6, <2>7, Zenon DEF PoolsInv, GoodPool
<1>5. CASE Pools!Close
  <2> DEFINE p == [pool[m] EXCEPT !.closed = TRUE]
             q == [p EXCEPT !.active = << >>]
  <2>1. slaves' = Tail(slaves) /\ pool' = [pool EXCEPT ![m].closed = TRUE, ![m].active = << >>]
        /\ UNCHANGED master
    BY <1>5, Zenon DEF Pools!Close
  <2>2. pool' = [pool EXCEPT ![m] = q]
    BY <1>3, <2>1, Zenon
  <2>3. GoodPool(p)
    <3>1. 0 \in 0 .. MaxOrder
      BY SMT
    <3> QED BY <1>2, <1>3, <3>1, FieldsGood, Zenon
  <2>4. GoodPool(q)
    <3>1. << >> \in Seq(Connections) /\ Len(<< >>) <= maxActive /\ OfRole(<< >>, p.isSlave)
      BY SMT DEF OfRole
    <3> HIDE DEF p
    <3> QED BY <2>3, <3>1, ActiveGood, Zenon
  <2>5. /\ up' \subseteq Node /\ master' \in Node /\ slaves' \in Seq(Node) /\ "at" \in DOMAIN req'
        /\ req'.at \in {"idle", "route", "get", "order", "flag", "failed"}
    BY <1>1, <1>2, <1>3, <2>1, Zenon
  <2> HIDE DEF q
  <2> QED BY <2>2, <2>4, <2>5, PoolWritten, Zenon
<1> QED BY <1>4, <1>5, Zenon

(* Every step keeps the invariant.                                           *)
LEMMA PoolsNext ==
  ASSUME MaxOrder \in Nat, maxActive \in Nat \ {0}
  PROVE  PoolsInv /\ [Pools!Next]_(Pools!vars) => PoolsInv'
<1> SUFFICES ASSUME PoolsInv, [Pools!Next]_(Pools!vars) PROVE PoolsInv'
  BY Zenon
<1>1. CASE Pools!Request \/ Pools!Serve
  BY <1>1, ServeGood, Zenon
<1>2. CASE Pools!Failover \/ Pools!Close
  BY <1>2, TopologyGood, Zenon
<1>3. ASSUME NEW a \in Node, Pools!Monitor(a) \/ Pools!BanExpires(a) PROVE PoolsInv'
  BY <1>3, MonitorGood, Zenon
<1>4. ASSUME NEW a \in Node, Pools!GoesDown(a) PROVE PoolsInv'
  <2> DEFINE s == Pools!Broken(pool[a].active)
  <2>1. /\ pool' = [pool EXCEPT ![a].active = s] /\ up' = up \ {a}
        /\ UNCHANGED <<master, slaves, req>>
    BY <1>4, Zenon DEF Pools!GoesDown
  <2>2. GoodPool(pool[a])
    BY <1>4, Zenon DEF PoolsInv
  <2>3. /\ pool[a].active \in Seq(Connections) /\ OfRole(pool[a].active, pool[a].isSlave)
        /\ Len(pool[a].active) <= maxActive
    BY <2>2, Zenon DEF GoodPool, PoolRecords
  <2>4. s \in Seq(Connections) /\ Len(s) <= maxActive /\ OfRole(s, pool[a].isSlave)
    BY <2>3, BrokenOfRole, Zenon
  <2> HIDE DEF s
  <2>5. GoodPool([pool[a] EXCEPT !.active = s])
    BY <2>2, <2>4, ActiveGood, Zenon
  <2>6. /\ up' \subseteq Node /\ master' \in Node /\ slaves' \in Seq(Node) /\ "at" \in DOMAIN req'
        /\ req'.at \in {"idle", "route", "get", "order", "flag", "failed"}
    BY <2>1, Zenon DEF PoolsInv
  <2> QED BY <2>1, <2>5, <2>6, PoolWritten, Zenon
<1>5. ASSUME NEW a \in Node, Pools!ComesBack(a) PROVE PoolsInv'
  BY <1>5, Zenon DEF Pools!ComesBack, PoolsInv, GoodPool
<1>6. CASE UNCHANGED Pools!vars
  BY <1>6, Zenon DEF Pools!vars, PoolsInv, GoodPool
<1> QED BY <1>1, <1>2, <1>3, <1>4, <1>5, <1>6, Zenon DEF Pools!Next

(* A pool hands out only connections dialled for the role its node has, holds   *)
(* at most maxActive of them and keeps LiftBanOrder within its limits, for any  *)
(* nodes, limits and number of failovers and however the loop, the ticker, the  *)
(* monitors and the nodes interleave (Get, SetIsSlave, Close, monitor).        *)
THEOREM PoolRoles ==
  ASSUME InitMaster \in Node, InitSlaves \in Seq(Node), MaxOrder \in Nat, maxActive \in Nat \ {0}
  PROVE  Pools!Spec => [](Pools!TypeOK /\ Pools!RoleMatches)
<1>1. PoolsInv => Pools!TypeOK /\ Pools!RoleMatches
  BY Zenon DEF PoolsInv, GoodPool, PoolRecords, OfRole, Pools!TypeOK, Pools!RoleMatches
<1> QED BY <1>1, PoolsInit, PoolsNext, PTL DEF Pools!Spec
-----------------------------------------------------------------------------
(* ByteSlicePool: a slice ends within its array, whatever was put and handed *)
(* out again, for any number of arrays and any sizes.                        *)

CONSTANTS Arrays, MaxSize
VARIABLES size, held, pools

Memory == INSTANCE ByteSlicePool

(* The two equations that define the powers of two.                          *)
PowersOfTwo == \A k \in Nat : 2 ^ k \in Nat \ {0} /\ 2 ^ (k + 1) = 2 * 2 ^ k

(* The powers of two outgrow their exponents.                                 *)
LEMMA PowersGrow ==
  ASSUME PowersOfTwo, NEW n \in Nat
  PROVE  n <= 2 ^ n
<1> DEFINE T == {k \in Nat : ~(k <= 2 ^ k)}
<1>1. CASE T = {}
  BY <1>1, Zenon
<1>2. CASE T # {}
  <2>1. T \subseteq Nat
    BY Zenon
  <2>2. PICK m \in T : \A k \in T : m <= k
    <3> HIDE DEF T
    <3> QED BY <1>2, <2>1, Least, Zenon
  <2>3. m \in Nat /\ ~(m <= 2 ^ m)
    BY Zenon
  <2>4. CASE m = 0
    <3>1. 2 ^ 0 \in Nat
      BY Zenon DEF PowersOfTwo
    <3> QED BY <2>3, <2>4, <3>1, SMT
  <2>5. CASE m # 0
    <3>1. PICK k \in Nat : m = k + 1
      <4>1. m - 1 \in Nat /\ m = (m - 1) + 1
        BY <2>3, <2>5, SMT
      <4> QED BY <4>1, Zenon
    <3>2. ~(m <= k)
      BY <3>1, SMT
    <3>3. k <= 2 ^ k
      BY <2>2, <3>2, Zenon
    <3>4. 2 ^ k \in Nat \ {0} /\ 2 ^ m = 2 * 2 ^ k
      BY <3>1, Zenon DEF PowersOfTwo
    <3> QED BY <2>3, <3>1, <3>3, <3>4, SMT
  <2> QED BY <2>4, <2>5, Zenon
<1> QED BY <1>1, <1>2, Zenon

(* index(n) is the least exponent whose power holds n.                        *)
LEMMA IndexLeast ==
  ASSUME PowersOfTwo, NEW n \in Nat
  PROVE  LET i == Memory!index(n)
         IN  i \in Nat /\ n <= 2 ^ i /\ \A j \in Nat : n <= 2 ^ j => i <= j
<1> DEFINE T == {j \in Nat : n <= 2 ^ j}
           i == Memory!index(n)
<1>1. n \in T
  BY PowersGrow, Zenon
<1>2. PICK k \in T : \A j \in T : k <= j
  <2>1. T \subseteq Nat
    BY Zenon
  <2> HIDE DEF T
  <2> QED BY <1>1, <2>1, Least, Zenon
<1>3. k \in 0 .. n
  BY <1>1, <1>2, SMT
<1>4. \A j \in 0 .. k - 1 : n > 2 ^ j
  <2>1. ASSUME NEW j \in 0 .. k - 1 PROVE n > 2 ^ j
    <3>1. j \in Nat /\ ~(k <= j)
      BY <2>1, SMT
    <3>2. ~(n <= 2 ^ j)
      BY <1>2, <3>1, Zenon
    <3>3. 2 ^ j \in Nat
      BY <3>1, Zenon DEF PowersOfTwo
    <3> QED BY <3>2, <3>3, SMT
  <2> QED BY <2>1, Zenon
<1>5. i \in 0 .. n /\ n <= 2 ^ i /\ \A j \in 0 .. i - 1 : n > 2 ^ j
  <2>1. \E x \in 0 .. n : n <= 2 ^ x /\ \A j \in 0 .. x - 1 : n > 2 ^ j
    BY <1>2, <1>3, <1>4, Zenon
  <2> QED BY <2>1, Zenon DEF Memory!index
<1> HIDE DEF i
<1>6. ASSUME NEW j \in Nat, n <= 2 ^ j PROVE i <= j
  <2>1. 2 ^ j \in Nat
    BY Zenon DEF PowersOfTwo
  <2>2. ~(n > 2 ^ j)
    BY <1>6, <2>1, SMT
  <2>3. j \notin 0 .. i - 1
    BY <1>5, <2>2, Zenon
  <2> QED BY <1>5, <2>3, SMT
<1>7. i \in Nat
  BY <1>5, SMT
<1> QED BY <1>5, <1>6, <1>7, Zenon DEF i

Slices == [arr : Arrays, off : Nat, cap : Nat \ {0}]
Pointers == [arr : Arrays, off : Nat]

(* What is in use ends within its array, and so does what a pool will hand out. *)
Fits(sz, h, ps) ==
  /\ \A s \in h : s.off + s.cap <= sz[s.arr]
  /\ \A i \in Memory!Indexes : \A p \in ps[i] : p.off + 2 ^ i <= sz[p.arr]

(* An array is in one hand: of one user, or of one pool.                      *)
OneHand(h, ps) ==
  /\ \A s, t \in h : s.arr = t.arr => s = t
  /\ \A s \in h : \A i \in Memory!Indexes : \A p \in ps[i] : s.arr # p.arr
  /\ \A i, j \in Memory!Indexes : \A p \in ps[i] : \A q \in ps[j] :
       p.arr = q.arr => i = j /\ p = q

(* The inductive invariant.                                                   *)
MemoryInv ==
  /\ size \in [Arrays -> Nat] /\ held \subseteq Slices
  /\ pools \in [Memory!Indexes -> SUBSET Pointers]
  /\ Fits(size, held, pools) /\ OneHand(held, pools)

(* An array of size 0 is in nobody's hand.                                    *)
LEMMA NobodyHolds ==
  ASSUME PowersOfTwo, MaxSize \in Nat, MemoryInv, NEW a \in Arrays, size[a] = 0
  PROVE  /\ \A s \in held : s.arr # a
         /\ \A i \in Memory!Indexes : \A p \in pools[i] : p.arr # a
<1>1. ASSUME NEW s \in held PROVE s.arr # a
  <2>1. s.off \in Nat /\ s.cap \in Nat \ {0} /\ s.off + s.cap <= size[s.arr]
    BY <1>1, Zenon DEF MemoryInv, Fits, Slices
  <2>2. size[s.arr] # 0
    <3>1. size[s.arr] \in Nat
      BY <1>1, Zenon DEF MemoryInv, Slices
    <3> QED BY <2>1, <3>1, SMT
  <2> QED BY <2>2, Zenon
<1>2. ASSUME NEW i \in Memory!Indexes, NEW p \in pools[i] PROVE p.arr # a
  <2>1. i \in Nat
    <3>1. i \in 0 .. Memory!index(MaxSize)
      BY Zenon DEF Memory!Indexes
    <3>2. Memory!index(MaxSize) \in Nat
      BY IndexLeast, Zenon
    <3> QED BY <3>1, <3>2, SMT
  <2>2. p \in Pointers
    BY <1>2, Zenon DEF MemoryInv
  <2>3. p.off \in Nat /\ 2 ^ i \in Nat \ {0} /\ p.off + 2 ^ i <= size[p.arr] /\ size[p.arr] \in Nat
    BY <1>2, <2>1, <2>2, Zenon DEF MemoryInv, Fits, Pointers, PowersOfTwo
  <2>4. size[p.arr] # 0
    BY <2>3, SMT
  <2> QED BY <2>4, Zenon
<1> QED BY <1>1, <1>2, Zenon

(* An array is allocated for a slice.                                         *)
LEMMA AllocateSound ==
  ASSUME PowersOfTwo, MaxSize \in Nat, MemoryInv, NEW a \in Arrays, NEW n \in Nat \ {0},
         Memory!Allocate(a, n, n), UNCHANGED pools
  PROVE  MemoryInv'
<1> DEFINE x == [arr |-> a, off |-> 0, cap |-> n]
<1>1. size[a] = 0 /\ size' = [size EXCEPT ![a] = n] /\ held' = held \union {x}
  BY Zenon DEF Memory!Allocate
<1>2. /\ \A s \in held : s.arr # a
      /\ \A i \in Memory!Indexes : \A p \in pools[i] : p.arr # a
  BY <1>1, NobodyHolds, Zenon
<1>3. x \in Slices /\ x.arr = a /\ x.off + x.cap <= n
  <2>1. 0 \in Nat /\ 0 + n <= n
    BY SMT
  <2> QED BY <2>1, Zenon DEF Slices
<1> HIDE DEF x
<1>4. /\ size \in [Arrays -> Nat] /\ held \subseteq Slices
      /\ pools \in [Memory!Indexes -> SUBSET Pointers] /\ Fits(size, held, pools) /\ OneHand(held, pools)
  BY Zenon DEF MemoryInv
<1>5. size' \in [Arrays -> Nat] /\ size'[a] = n /\ \A b \in Arrays : b # a => size'[b] = size[b]
  BY <1>1, <1>4, Zenon
<1>6. \A s \in held : s.arr \in Arrays
  BY <1>4, Zenon DEF Slices
<1>7. ASSUME NEW i \in Memory!Indexes, NEW p \in pools[i] PROVE p.arr \in Arrays
  <2>1. p \in Pointers
    BY <1>4, <1>7, Zenon
  <2> QED BY <2>1, Zenon DEF Pointers
<1>8. Fits(size', held', pools)
  BY <1>1, <1>2, <1>3, <1>4, <1>5, <1>6, <1>7, Zenon DEF Fits
<1>9. OneHand(held', pools)
  <2>1. ASSUME NEW s \in held', NEW t \in held', s.arr = t.arr PROVE s = t
    BY <1>1, <1>2, <1>3, <1>4, <2>1, Zenon DEF OneHand
  <2>2. ASSUME NEW s \in held', NEW i \in Memory!Indexes, NEW p \in pools[i] PROVE s.arr # p.arr
    BY <1>1, <1>2, <1>3, <1>4, <2>2, Zenon DEF OneHand
  <2> QED BY <1>4, <2>1, <2>2, Zenon DEF OneHand
<1> QED BY <1>1, <1>3, <1>4, <1>5, <1>8, <1>9, Zenon DEF MemoryInv

(* A slice gives way to another one of its array that ends where it ended.      *)
LEMMA AdvanceSound ==
  ASSUME MemoryInv, NEW s \in held, NEW m \in Nat, Memory!Advance(s, m)
  PROVE  MemoryInv'
<1> DEFINE x == [s EXCEPT !.off = @ + m, !.cap = @ - m]
<1>1. m < s.cap /\ held' = (held \ {s}) \union {x} /\ UNCHANGED <<size, pools>>
  BY Zenon DEF Memory!Advance
<1>2. /\ size \in [Arrays -> Nat] /\ held \subseteq Slices
      /\ pools \in [Memory!Indexes -> SUBSET Pointers] /\ Fits(size, held, pools) /\ OneHand(held, pools)
  BY Zenon DEF MemoryInv
<1>3. s \in Slices /\ s.off + s.cap <= size[s.arr] /\ size[s.arr] \in Nat
  BY <1>2, Zenon DEF Fits, Slices
<1>4. s.off \in Nat /\ s.cap \in Nat \ {0} /\ s.arr \in Arrays
  BY <1>3, Zenon DEF Slices
<1>5. s.off + m \in Nat /\ s.cap - m \in Nat \ {0} /\ (s.off + m) + (s.cap - m) <= size[s.arr]
  BY <1>1, <1>3, <1>4, SMT
<1>6. x \in Slices /\ x.arr = s.arr /\ x.off = s.off + m /\ x.cap = s.cap - m
  BY <1>3, <1>5, Zenon DEF Slices
<1> HIDE DEF x
<1>7. Fits(size, held', pools)
  BY <1>1, <1>2, <1>5, <1>6, Zenon DEF Fits
<1>8. OneHand(held', pools)
  <2>1. ASSUME NEW u \in held', NEW t \in held', u.arr = t.arr PROVE u = t
    BY <1>1, <1>2, <1>6, <2>1, Zenon DEF OneHand
  <2>2. ASSUME NEW u \in held', NEW i \in Memory!Indexes, NEW p \in pools[i] PROVE u.arr # p.arr
    BY <1>1, <1>2, <1>6, <2>2, Zenon DEF OneHand
  <2> QED BY <1>2, <2>1, <2>2, Zenon DEF OneHand
<1> QED BY <1>1, <1>2, <1>6, <1>7, <1>8, Zenon DEF MemoryInv

(* Put: a slice becomes a pointer of the pool whose capacity it has at least.  *)
LEMMA PutSound ==
  ASSUME PowersOfTwo, MaxSize \in Nat, MemoryInv, NEW s \in held, Memory!Put(s)
  PROVE  MemoryInv'
<1> DEFINE idx == IF s.cap = 2 ^ Memory!index(s.cap) THEN Memory!index(s.cap) ELSE Memory!index(s.cap) - 1
           x == [arr |-> s.arr, off |-> s.off]
<1>1. held' = held \ {s} /\ pools' = [pools EXCEPT ![idx] = @ \union {x}] /\ UNCHANGED size
  BY Zenon DEF Memory!Put
<1>2. /\ size \in [Arrays -> Nat] /\ held \subseteq Slices
      /\ pools \in [Memory!Indexes -> SUBSET Pointers] /\ Fits(size, held, pools) /\ OneHand(held, pools)
  BY Zenon DEF MemoryInv
<1>3. s \in Slices /\ s.off + s.cap <= size[s.arr] /\ size[s.arr] \in Nat
  BY <1>2, Zenon DEF Fits, Slices
<1>4. s.off \in Nat /\ s.cap \in Nat \ {0} /\ s.arr \in Arrays
  BY <1>3, Zenon DEF Slices
<1>5. idx \in Nat /\ 2 ^ idx <= s.cap
  <2> DEFINE i == Memory!index(s.cap)
  <2>1. s.cap \in Nat
    BY <1>4, SMT
  <2>2. i \in Nat /\ s.cap <= 2 ^ i /\ \A j \in Nat : s.cap <= 2 ^ j => i <= j
    BY <2>1, IndexLeast, Zenon
  <2>3. CASE s.cap = 2 ^ i
    <3>1. idx = i
      BY <2>3, Zenon
    <3>2. s.cap <= s.cap
      BY <2>1, SMT
    <3> QED BY <2>2, <2>3, <3>1, <3>2, Zenon
  <2>4. CASE s.cap # 2 ^ i
    <3>1. idx = i - 1
      BY <2>4, Zenon
    <3> HIDE DEF i
    <3>2. i # 0
      <4>1. ASSUME i = 0 PROVE FALSE
        <5>1. s.cap <= 2 ^ 0 /\ s.cap # 2 ^ 0
          BY <2>2, <2>4, <4>1, Zenon
        <5>2. 2 ^ 0 = 1
          OBVIOUS
        <5> QED BY <1>4, <5>1, <5>2, SMT
      <4> QED BY <4>1, Zenon
    <3>3. i - 1 \in Nat /\ ~(i <= i - 1)
      BY <2>2, <3>2, SMT
    <3>4. ~(s.cap <= 2 ^ (i - 1)) /\ 2 ^ (i - 1) \in Nat
      BY <2>2, <3>3, Zenon DEF PowersOfTwo
    <3>5. 2 ^ (i - 1) <= s.cap
      BY <2>1, <3>4, SMT
    <3> QED BY <3>1, <3>3, <3>5, Zenon
  <2> QED BY <2>3, <2>4, Zenon
<1> HIDE DEF idx
<1>6. x.off + 2 ^ idx <= size[x.arr]
  <2>1. s.off + 2 ^ idx <= size[s.arr]
    <3>1. 2 ^ idx \in Nat
      BY <1>5, Zenon DEF PowersOfTwo
    <3> QED BY <1>3, <1>4, <1>5, <3>1, SMT
  <2> QED BY <2>1, Zenon
<1>7. x \in Pointers /\ x.arr = s.arr
  BY <1>4, Zenon DEF Pointers
<1> HIDE DEF x
<1>8. pools' \in [Memory!Indexes -> SUBSET Pointers]
  BY <1>1, <1>2, <1>7, Zenon
<1>9. ASSUME NEW i \in Memory!Indexes, NEW p \in pools'[i] PROVE p \in pools[i] \/ (i = idx /\ p = x)
  BY <1>1, <1>2, <1>9, Zenon
<1>10. Fits(size, held', pools')
  BY <1>1, <1>2, <1>6, <1>9, Zenon DEF Fits
<1>11. OneHand(held', pools')
  <2>1. ASSUME NEW u \in held', NEW t \in held', u.arr = t.arr PROVE u = t
    BY <1>1, <1>2, <2>1, Zenon DEF OneHand
  <2>2. ASSUME NEW u \in held', NEW i \in Memory!Indexes, NEW p \in pools'[i] PROVE u.arr # p.arr
    <3>1. u \in held /\ u # s
      BY <1>1, <2>2, Zenon
    <3>2. u.arr # s.arr
      BY <1>2, <3>1, Zenon DEF OneHand
    <3> QED BY <1>2, <1>7, <1>9, <2>2, <3>1, <3>2, Zenon DEF OneHand
  <2>3. ASSUME NEW i \in Memory!Indexes, NEW p \in pools'[i] PROVE p.arr = s.arr => i = idx /\ p = x
    <3>1. p \in pools[i] => s.arr # p.arr
      BY <1>2, Zenon DEF OneHand
    <3> QED BY <1>9, <3>1, Zenon
  <2>4. ASSUME NEW i \in Memory!Indexes, NEW j \in Memory!Indexes, NEW p \in pools'[i], NEW q \in pools'[j],
               p.arr = q.arr
        PROVE  i = j /\ p = q
    <3>1. CASE p.arr = s.arr
      BY <2>3, <2>4, <3>1, Zenon
    <3>2. CASE p.arr # s.arr
      <4>1. p \in pools[i] /\ q \in pools[j]
        BY <1>7, <1>9, <2>4, <3>2, Zenon
      <4> QED BY <1>2, <2>4, <4>1, Zenon DEF OneHand
    <3> QED BY <3>1, <3>2, Zenon
  <2> QED BY <2>1, <2>2, <2>4, Zenon DEF OneHand
<1> QED BY <1>1, <1>2, <1>8, <1>10, <1>11, Zenon DEF MemoryInv

(* GetPooled: a pointer becomes a slice with the capacity of its pool.          *)
LEMMA GetPooledSound ==
  ASSUME PowersOfTwo, MaxSize \in Nat, MemoryInv, NEW n \in Memory!Sizes, Memory!GetPooled(n)
  PROVE  MemoryInv'
<1> DEFINE idx == Memory!index(n)
<1>1. PICK p \in pools[idx] :
        /\ pools' = [pools EXCEPT ![idx] = @ \ {p}]
        /\ held' = held \union {[arr |-> p.arr, off |-> p.off, cap |-> 2 ^ idx]}
        /\ UNCHANGED size
  BY Zenon DEF Memory!GetPooled
<1> DEFINE x == [arr |-> p.arr, off |-> p.off, cap |-> 2 ^ idx]
<1>2. /\ size \in [Arrays -> Nat] /\ held \subseteq Slices
      /\ pools \in [Memory!Indexes -> SUBSET Pointers] /\ Fits(size, held, pools) /\ OneHand(held, pools)
  BY Zenon DEF MemoryInv
<1>3. idx \in Nat /\ idx \in Memory!Indexes
  <2>1. n \in Nat /\ n <= MaxSize
    <3>1. n \in 1 .. MaxSize
      BY Zenon DEF Memory!Sizes
    <3> QED BY <3>1, SMT
  <2>2. idx \in Nat /\ \A j \in Nat : n <= 2 ^ j => idx <= j
    BY <2>1, IndexLeast, Zenon
  <2> DEFINE top == Memory!index(MaxSize)
  <2>3. top \in Nat /\ MaxSize <= 2 ^ top
    BY IndexLeast, Zenon
  <2>4. 2 ^ top \in Nat
    BY <2>3, Zenon DEF PowersOfTwo
  <2> HIDE DEF idx, top
  <2>5. n <= 2 ^ top
    BY <2>1, <2>3, <2>4, SMT
  <2>6. idx <= top
    BY <2>2, <2>3, <2>5, Zenon
  <2>7. idx \in 0 .. top
    BY <2>2, <2>3, <2>6, SMT
  <2> QED BY <2>2, <2>7, Zenon DEF Memory!Indexes, top
<1> HIDE DEF idx
<1>4. p \in Pointers /\ p.off + 2 ^ idx <= size[p.arr]
  BY <1>2, <1>3, Zenon DEF Fits
<1>5. x \in Slices /\ x.arr = p.arr /\ x.off + x.cap <= size[x.arr]
  BY <1>3, <1>4, Zenon DEF Slices, Pointers, PowersOfTwo
<1>6. held' = held \union {x}
  BY <1>1, Zenon
<1> HIDE DEF x
<1>7. pools' \in [Memory!Indexes -> SUBSET Pointers]
  BY <1>1, <1>2, Zenon
<1>8. ASSUME NEW i \in Memory!Indexes, NEW q \in pools'[i] PROVE q \in pools[i] /\ q.arr # p.arr
  <2>1. q \in pools[i] /\ (i = idx => q # p)
    BY <1>1, <1>2, <1>8, Zenon
  <2> QED BY <1>2, <1>3, <2>1, Zenon DEF OneHand
<1>9. ASSUME NEW s \in held PROVE s.arr # p.arr
  BY <1>2, <1>3, <1>9, Zenon DEF OneHand
<1>10. Fits(size, held', pools')
  BY <1>2, <1>5, <1>6, <1>8, Zenon DEF Fits
<1>11. OneHand(held', pools')
  <2>1. ASSUME NEW u \in held', NEW t \in held', u.arr = t.arr PROVE u = t
    BY <1>2, <1>5, <1>6, <1>9, <2>1, Zenon DEF OneHand
  <2>2. ASSUME NEW u \in held', NEW i \in Memory!Indexes, NEW q \in pools'[i] PROVE u.arr # q.arr
    BY <1>2, <1>5, <1>6, <1>8, <2>2, Zenon DEF OneHand
  <2>3. ASSUME NEW i \in Memory!Indexes, NEW j \in Memory!Indexes, NEW q \in pools'[i], NEW r \in pools'[j],
               q.arr = r.arr
        PROVE  i = j /\ q = r
    BY <1>2, <1>8, <2>3, Zenon DEF OneHand
  <2> QED BY <2>1, <2>2, <2>3, Zenon DEF OneHand
<1> QED BY <1>1, <1>2, <1>5, <1>6, <1>7, <1>10, <1>11, Zenon DEF MemoryInv

(* The collector frees the arrays of one pool, which are in no other hand.     *)
LEMMA CollectSound ==
  ASSUME MemoryInv, NEW k \in Memory!Indexes, Memory!Collect(k)
  PROVE  MemoryInv'
<1>1. /\ size' = [a \in Arrays |-> IF \E p \in pools[k] : p.arr = a THEN 0 ELSE size[a]]
      /\ pools' = [pools EXCEPT ![k] = {}] /\ held' = held
  BY Zenon DEF Memory!Collect
<1>2. /\ size \in [Arrays -> Nat] /\ held \subseteq Slices
      /\ pools \in [Memory!Indexes -> SUBSET Pointers] /\ Fits(size, held, pools) /\ OneHand(held, pools)
  BY Zenon DEF MemoryInv
<1>3. size' \in [Arrays -> Nat] /\ pools' \in [Memory!Indexes -> SUBSET Pointers]
  <2>1. 0 \in Nat
    OBVIOUS
  <2> QED BY <1>1, <1>2, <2>1, Zenon
<1>4. ASSUME NEW i \in Memory!Indexes, NEW q \in pools'[i]
      PROVE  q \in pools[i] /\ size'[q.arr] = size[q.arr]
  <2>1. q \in pools[i] /\ i # k
    BY <1>1, <1>2, <1>4, Zenon
  <2>2. \A p \in pools[k] : p.arr # q.arr
    BY <1>2, <2>1, Zenon DEF OneHand
  <2>3. q \in Pointers
    BY <1>2, <2>1, Zenon
  <2>4. q.arr \in Arrays
    BY <2>3, Zenon DEF Pointers
  <2> QED BY <1>1, <2>1, <2>2, <2>4, Zenon
<1>5. ASSUME NEW s \in held PROVE size'[s.arr] = size[s.arr]
  <2>1. s.arr \in Arrays
    BY <1>2, Zenon DEF Slices
  <2>2. \A p \in pools[k] : p.arr # s.arr
    BY <1>2, Zenon DEF OneHand
  <2> QED BY <1>1, <2>1, <2>2, Zenon
<1>6. Fits(size', held', pools')
  BY <1>1, <1>2, <1>4, <1>5, ZenonT(40) DEF Fits
<1>7. OneHand(held', pools')
  <2>1. ASSUME NEW i \in Memory!Indexes, NEW j \in Memory!Indexes, NEW q \in pools'[i], NEW r \in pools'[j],
               q.arr = r.arr
        PROVE  i = j /\ q = r
    <3>1. q \in pools[i] /\ r \in pools[j]
      BY <1>4, Zenon
    <3> QED BY <1>2, <2>1, <3>1, Zenon DEF OneHand
  <2>2. ASSUME NEW s \in held, NEW i \in Memory!Indexes, NEW q \in pools'[i] PROVE s.arr # q.arr
    BY <1>2, <1>4, <2>2, Zenon DEF OneHand
  <2>3. \A s, t \in held' : s.arr = t.arr => s = t
    BY <1>1, <1>2, Zenon DEF OneHand
  <2> QED BY <1>1, <2>1, <2>2, <2>3, Zenon DEF OneHand
<1> QED BY <1>1, <1>2, <1>3, <1>6, <1>7, Zenon DEF MemoryInv

(* What the invariant says of one array, in the counting of SlicesSound.       *)
LEMMA MemoryInvSound == ASSUME MemoryInv PROVE Memory!SlicesSound
<1>1. Fits(size, held, pools) /\ OneHand(held, pools)
  BY Zenon DEF MemoryInv
<1>2. ASSUME NEW a \in Arrays
      PROVE  Cardinality({s \in held : s.arr = a})
               + Cardinality({i \in Memory!Indexes : \E p \in pools[i] : p.arr = a}) <= 1
  <2> DEFINE H == {s \in held : s.arr = a}
             P == {i \in Memory!Indexes : \E p \in pools[i] : p.arr = a}
  <2>1. H = {} \/ \E s \in H : H = {s}
    <3>1. ASSUME NEW s \in H, NEW t \in H PROVE s = t
      BY <1>1, <3>1, Zenon DEF OneHand
    <3> QED BY <3>1, Zenon
  <2>2. P = {} \/ \E i \in P : P = {i}
    <3>1. ASSUME NEW i \in P, NEW j \in P PROVE i = j
      <4>1. PICK p \in pools[i] : p.arr = a
        BY Zenon
      <4>2. PICK q \in pools[j] : q.arr = a
        BY Zenon
      <4> QED BY <1>1, <4>1, <4>2, Zenon DEF OneHand
    <3> HIDE DEF P
    <3> QED BY <3>1, Zenon
  <2>3. ASSUME NEW s \in H, NEW i \in P PROVE FALSE
    <3>1. PICK p \in pools[i] : p.arr = a
      BY Zenon
    <3> QED BY <1>1, <3>1, Zenon DEF OneHand
  <2> HIDE DEF H, P
  <2>4. Cardinality({}) = 0
    BY FS_EmptySet, Zenon
  <2>5. \A e : Cardinality({e}) = 1
    BY FS_Singleton, Zenon
  <2>6. (H = {} => Cardinality(H) = 0) /\ (H # {} => Cardinality(H) = 1)
    BY <2>1, <2>4, <2>5, Zenon
  <2>7. (P = {} => Cardinality(P) = 0) /\ (P # {} => Cardinality(P) = 1)
    BY <2>2, <2>4, <2>5, Zenon
  <2>8. Cardinality(H) + Cardinality(P) <= 1
    <3>1. H = {} \/ P = {}
      BY <2>3, Zenon
    <3> QED BY <2>6, <2>7, <3>1, SMT
  <2> QED BY <2>8, Zenon DEF H, P
<1>3. /\ \A s \in held : s.off + s.cap <= size[s.arr]
      /\ \A i \in Memory!Indexes : \A p \in pools[i] : p.off + 2 ^ i <= size[p.arr]
  BY <1>1, Zenon DEF Fits
<1>4. ASSUME NEW S PROVE Memory!Cardinality(S) = Cardinality(S)
  BY Zenon DEF Memory!Cardinality, Cardinality
<1> QED BY <1>2, <1>3, <1>4, Zenon DEF Memory!SlicesSound

(***************************************************************************)
(* MEMORY SAFETY OF THE SLICE POOL.  However many slices of whatever sizes *)
(* are handed out, advanced, returned and collected, a slice ends within   *)
(* its array and no array is in two hands (pkg/pool/byteslice's Get, Put). *)
(***************************************************************************)
THEOREM PooledSlicesSound ==
  ASSUME PowersOfTwo, MaxSize \in Nat PROVE Memory!Spec => []Memory!SlicesSound
<1>1. Memory!Init => MemoryInv
  <2> SUFFICES ASSUME Memory!Init PROVE MemoryInv
    OBVIOUS
  <2>1. 0 \in Nat
    OBVIOUS
  <2>2. size = [a \in Arrays |-> 0] /\ held = {} /\ pools = [i \in Memory!Indexes |-> {}]
    BY Zenon DEF Memory!Init
  <2>3. Fits(size, held, pools) /\ OneHand(held, pools)
    BY <2>2, Zenon DEF Fits, OneHand
  <2> QED BY <2>1, <2>2, <2>3, Zenon DEF MemoryInv
<1>2. ASSUME MemoryInv, [Memory!Next]_Memory!vars PROVE MemoryInv'
  <2>1. \A n \in Memory!Sizes : n \in Nat \ {0}
    <3>1. \A n \in 1 .. MaxSize : n \in Nat \ {0}
      BY SMT
    <3> QED BY <3>1, Zenon DEF Memory!Sizes
  <2>2. ASSUME NEW n \in Memory!Sizes, Memory!GetNew(n) PROVE MemoryInv'
    <3>1. PICK a \in Arrays :
            Memory!Allocate(a, 2 ^ Memory!index(n), 2 ^ Memory!index(n)) /\ UNCHANGED pools
      BY <2>2, Zenon DEF Memory!GetNew
    <3>2. n \in Nat
      BY <2>1, Zenon
    <3>3. Memory!index(n) \in Nat
      BY <3>2, IndexLeast, Zenon
    <3>4. 2 ^ Memory!index(n) \in Nat \ {0}
      BY <3>3, Zenon DEF PowersOfTwo
    <3> QED BY <1>2, <3>1, <3>4, AllocateSound, Zenon
  <2>3. ASSUME NEW n \in Memory!Sizes, Memory!Foreign(n) PROVE MemoryInv'
    BY <1>2, <2>1, <2>3, AllocateSound, Zenon DEF Memory!Foreign
  <2>4. ASSUME NEW n \in Memory!Sizes, Memory!GetPooled(n) PROVE MemoryInv'
    BY <1>2, <2>4, GetPooledSound, Zenon
  <2>5. ASSUME NEW s \in held, Memory!Put(s) PROVE MemoryInv'
    BY <1>2, <2>5, PutSound, Zenon
  <2>6. ASSUME NEW s \in held, NEW m \in Memory!Sizes, Memory!Advance(s, m) PROVE MemoryInv'
    BY <1>2, <2>1, <2>6, AdvanceSound, Zenon
  <2>7. ASSUME NEW i \in Memory!Indexes, Memory!Collect(i) PROVE MemoryInv'
    BY <1>2, <2>7, CollectSound, Zenon
  <2>8. ASSUME UNCHANGED Memory!vars PROVE MemoryInv'
    <3>1. size' = size /\ held' = held /\ pools' = pools
      BY <2>8, Zenon DEF Memory!vars
    <3> QED BY <1>2, <3>1, Zenon DEF MemoryInv
  <2> QED BY <1>2, <2>2, <2>3, <2>4, <2>5, <2>6, <2>7, <2>8, Zenon DEF Memory!Next
<1>3. MemoryInv => Memory!SlicesSound
  BY MemoryInvSound
<1> QED BY <1>1, <1>2, <1>3, PTL DEF Memory!Spec
-----------------------------------------------------------------------------
(* Cluster: what loopClusterNodes publishes is whole when it waits again.     *)

CONSTANTS Slot, Layouts, Seeds, MinNodes, ChanCap, MaxAsked, MaxChanges, Faults
VARIABLES cluster, changes, asked, clusterChan, gpc, allNodes, serverMap, replicasets,
          lastServerNames, serverChanged, tpc, proxyPool, proxyAddrs, slots2Node

Topology == INSTANCE Cluster

(* No two of the lines, or of the nodes parsed from them, have one address.   *)
OneEach(lines) == \A k, l \in lines : k.addr = l.addr => k = l

(* CLUSTER NODES lists a node once.                                          *)
LinesDiffer == \A reply \in Layouts : OneEach(reply)

AddrsOfNodes == {n.addr : n \in allNodes}

(* ServerMap holds the nodes parsed last, each under its address.             *)
Mapped == DOMAIN serverMap = AddrsOfNodes /\ \A n \in allNodes : serverMap[n.addr] = n

(* The inductive invariant: how far setServer and setReplicaset have come.    *)
ClusterInv ==
  /\ cluster \in Layouts
  /\ clusterChan \in Seq(Layouts \cup {Topology!ErrorReply})
  /\ OneEach(allNodes)
  /\ gpc \in {"setServer", "insert", "setReplicaset", "append", "flag"} =>
       lastServerNames = Topology!ServerNames(allNodes)
  /\ gpc = "insert" => DOMAIN serverMap = {}
  /\ gpc \in {"setReplicaset", "append", "flag"} => Mapped
  /\ gpc = "flag" => replicasets = Topology!Replicasets(allNodes)
  /\ Topology!PublishedWhole
  /\ Topology!AddrsHavePools

(* parse keeps the address of a line.                                        *)
LEMMA ParsedOneEach ==
  ASSUME NEW reply, OneEach(reply), NEW silent
  PROVE  OneEach(Topology!parse(reply, silent))
<1> SUFFICES ASSUME NEW k \in Topology!parse(reply, silent), NEW l \in Topology!parse(reply, silent),
                    k.addr = l.addr
             PROVE  k = l
  BY Zenon DEF OneEach
<1>1. \A n \in Topology!parse(reply, silent) :
        \E line \in reply : n = Topology!newClusterNode(line)
  BY Zenon DEF Topology!parse, Topology!Answering
<1>2. \A line : Topology!newClusterNode(line).addr = line.addr
  BY Zenon DEF Topology!newClusterNode
<1>3. PICK x \in reply : k = Topology!newClusterNode(x)
  BY <1>1, Zenon
<1>4. PICK y \in reply : l = Topology!newClusterNode(y)
  BY <1>1, Zenon
<1>5. x.addr = y.addr
  BY <1>2, <1>3, <1>4, Zenon
<1> QED BY <1>3, <1>4, <1>5, Zenon DEF OneEach

(* Before the first reply everything is empty.                               *)
LEMMA ClusterInit == Topology!Init => ClusterInv
<1> SUFFICES ASSUME Topology!Init PROVE ClusterInv
  BY Zenon
<1>1. clusterChan \in Seq(Layouts \cup {Topology!ErrorReply}) /\ DOMAIN serverMap = {}
  BY SMT DEF Topology!Init
<1>2. Topology!PublishedWhole
  BY <1>1, Zenon DEF Topology!Init, Topology!PublishedWhole, Topology!ServerNames
<1>3. Topology!AddrsHavePools
  BY Zenon DEF Topology!Init, Topology!AddrsHavePools
<1> QED BY <1>1, <1>2, <1>3, Zenon DEF Topology!Init, ClusterInv, OneEach

(* When what is mapped is what was parsed and Replicasets was built from it,    *)
(* the two and lastServerNames agree.                                        *)
LEMMA MappedIsWhole ==
  ASSUME Mapped
  PROVE  /\ {serverMap[a] : a \in DOMAIN serverMap} = allNodes
         /\ \A rs \in Topology!Replicasets(allNodes) :
              rs.addr \in DOMAIN serverMap /\ rs.slaves \subseteq DOMAIN serverMap
<1>1. {serverMap[a] : a \in DOMAIN serverMap} = allNodes
  <2>1. ASSUME NEW a \in DOMAIN serverMap PROVE serverMap[a] \in allNodes
    <3>1. PICK n \in allNodes : a = n.addr
      BY <2>1, Zenon DEF Mapped, AddrsOfNodes
    <3> QED BY <3>1, Zenon DEF Mapped
  <2>2. ASSUME NEW n \in allNodes PROVE n.addr \in DOMAIN serverMap /\ serverMap[n.addr] = n
    BY <2>2, Zenon DEF Mapped, AddrsOfNodes
  <2> QED BY <2>1, <2>2, Zenon
<1>2. ASSUME NEW rs \in Topology!Replicasets(allNodes)
      PROVE  rs.addr \in DOMAIN serverMap /\ rs.slaves \subseteq DOMAIN serverMap
  <2>1. PICK m \in allNodes :
          rs = [addr |-> m.addr, slots |-> m.slots,
                slaves |-> {s.addr : s \in {n \in allNodes : n.role = "slave" /\ n.masterId = m.addr}}]
    BY <1>2, Zenon DEF Topology!Replicasets
  <2>2. rs.addr = m.addr /\ rs.slaves = {s.addr : s \in {n \in allNodes : n.role = "slave" /\ n.masterId = m.addr}}
    BY <2>1, Zenon
  <2> QED BY <2>2, Zenon DEF Mapped, AddrsOfNodes
<1> QED BY <1>1, <1>2, Zenon

(* A step that leaves the goroutine's variables alone.                        *)
LEMMA GoroutineKept ==
  ASSUME ClusterInv, UNCHANGED <<gpc, allNodes, serverMap, replicasets, lastServerNames>>,
         cluster' \in Layouts, clusterChan' \in Seq(Layouts \cup {Topology!ErrorReply}),
         Topology!AddrsHavePools'
  PROVE  ClusterInv'
<1>1. Topology!PublishedWhole'
  BY Zenon DEF ClusterInv, Topology!PublishedWhole, Topology!ServerNames, Topology!ServerName
<1>2. /\ Topology!ServerNames(allNodes)' = Topology!ServerNames(allNodes)
      /\ Topology!Replicasets(allNodes)' = Topology!Replicasets(allNodes)
      /\ OneEach(allNodes)' <=> OneEach(allNodes)
      /\ Mapped' <=> Mapped
      /\ Topology!ErrorReply' = Topology!ErrorReply
  BY Zenon DEF OneEach, Mapped, AddrsOfNodes, Topology!ErrorReply,
               Topology!ServerNames, Topology!ServerName, Topology!Replicasets
<1> QED BY <1>1, <1>2, Zenon DEF ClusterInv

(* The ticker, a reply, a lost one and a change of the topology.              *)
LEMMA LoopStep ==
  ASSUME ClusterInv, Topology!Ticker \/ Topology!SRead \/ Topology!ReplyLost \/ Topology!TopologyChanges
  PROVE  ClusterInv'
<1> USE DEF Topology!published, Topology!loaded
<1>1. UNCHANGED <<gpc, allNodes, serverMap, replicasets, lastServerNames>>
  BY Zenon DEF Topology!Ticker, Topology!SRead, Topology!ReplyLost, Topology!TopologyChanges,
     Topology!Tick, Topology!RemovePools, Topology!AddPools, Topology!LoadSlots,
     Topology!LoadAddrs, Topology!OnTicker
<1>2. cluster' \in Layouts
  BY Zenon DEF ClusterInv, Topology!Ticker, Topology!SRead, Topology!ReplyLost, Topology!TopologyChanges,
     Topology!Tick, Topology!RemovePools, Topology!AddPools, Topology!LoadSlots,
     Topology!LoadAddrs, Topology!OnTicker
<1>3. clusterChan' \in Seq(Layouts \cup {Topology!ErrorReply})
  <2>1. CASE Topology!SRead
    <3>1. PICK reply \in {cluster} \cup (IF "error" \in Faults THEN {Topology!ErrorReply} ELSE {}) :
            clusterChan' = IF Len(clusterChan) < ChanCap THEN Append(clusterChan, reply) ELSE clusterChan
      BY <2>1, Zenon DEF Topology!SRead
    <3>2. reply \in Layouts \cup {Topology!ErrorReply}
      BY Zenon DEF ClusterInv
    <3> DEFINE R == Layouts \cup {Topology!ErrorReply}
    <3>3. clusterChan \in Seq(R)
      BY Zenon DEF ClusterInv
    <3> HIDE DEF R
    <3>4. Append(clusterChan, reply) \in Seq(R)
      <4>1. reply \in R
        BY <3>2, Zenon DEF R
      <4> QED BY <3>3, <4>1, SMT
    <3> QED BY <3>1, <3>3, <3>4, Zenon DEF R
  <2>2. CASE ~Topology!SRead
    BY <2>2, Zenon DEF ClusterInv, Topology!Ticker, Topology!ReplyLost, Topology!TopologyChanges,
       Topology!Tick, Topology!RemovePools, Topology!AddPools, Topology!LoadSlots,
       Topology!LoadAddrs, Topology!OnTicker
  <2> QED BY <2>1, <2>2, Zenon
<1>4. Topology!AddrsHavePools'
  BY Zenon DEF ClusterInv, Topology!AddrsHavePools, Topology!Ticker, Topology!SRead,
     Topology!ReplyLost, Topology!TopologyChanges, Topology!Tick, Topology!RemovePools,
     Topology!AddPools, Topology!LoadSlots, Topology!LoadAddrs, Topology!OnTicker
<1> QED BY <1>1, <1>2, <1>3, <1>4, GoroutineKept, Zenon

(* loopClusterNodes receives a reply and decides whether it is a change.      *)
LEMMA ReceiveStep ==
  ASSUME ClusterInv, LinesDiffer, Topology!Receive
  PROVE  ClusterInv'
<1> USE DEF Topology!published, Topology!loaded
<1> DEFINE R == Layouts \cup {Topology!ErrorReply}
<1>1. /\ gpc = "wait" /\ clusterChan # << >> /\ clusterChan' = Tail(clusterChan)
      /\ UNCHANGED <<cluster, serverMap, replicasets, tpc, proxyPool, proxyAddrs>>
  BY Zenon DEF Topology!Receive
<1>2. Head(clusterChan) \in R /\ clusterChan' \in Seq(R)
  <2>1. clusterChan \in Seq(R)
    BY Zenon DEF ClusterInv
  <2> HIDE DEF R
  <2> QED BY <1>1, <2>1, SMT
<1>3. cluster' \in Layouts /\ Topology!AddrsHavePools' /\ Topology!ErrorReply' = Topology!ErrorReply
  BY <1>1, Zenon DEF ClusterInv, Topology!AddrsHavePools, Topology!ErrorReply
<1>4. CASE Head(clusterChan) = Topology!ErrorReply
  <2>1. gpc' = "returned" /\ allNodes' = allNodes
    BY <1>4, Zenon DEF Topology!Receive
  <2>2. OneEach(allNodes)'
    BY <2>1, Zenon DEF ClusterInv, OneEach
  <2>3. Topology!PublishedWhole'
    BY <2>1, Zenon DEF Topology!PublishedWhole
  <2> QED BY <1>2, <1>3, <2>1, <2>2, <2>3, Zenon DEF ClusterInv
<1>5. CASE Head(clusterChan) # Topology!ErrorReply
  <2>1. PICK silent :
          LET nodes == Topology!parse(Head(clusterChan), silent)
              names == Topology!ServerNames(nodes)
          IN  \/ gpc' = "wait" /\ allNodes' = allNodes /\ lastServerNames' = lastServerNames
              \/ /\ gpc' = "wait" /\ allNodes' = nodes
                 /\ lastServerNames' = names /\ names = lastServerNames
              \/ gpc' = "setServer" /\ allNodes' = nodes /\ lastServerNames' = names
    BY <1>5, Zenon DEF Topology!Receive
  <2> DEFINE nodes == Topology!parse(Head(clusterChan), silent)
  <2>2. OneEach(nodes)
    <3>1. OneEach(Head(clusterChan))
      BY <1>2, <1>5, Zenon DEF LinesDiffer
    <3> QED BY <3>1, ParsedOneEach, Zenon
  <2>3. OneEach(allNodes')
    <3>1. allNodes' = allNodes \/ allNodes' = nodes
      BY <2>1, Zenon
    <3> HIDE DEF nodes
    <3> QED BY <2>2, <3>1, Zenon DEF ClusterInv
  <2>4. OneEach(allNodes)'
    BY <2>3, Zenon DEF OneEach
  <2>5. CASE gpc' = "wait" /\ lastServerNames' = lastServerNames
    <3>1. Topology!PublishedWhole'
      BY <1>1, <2>5, Zenon DEF ClusterInv, Topology!PublishedWhole, Topology!ServerNames, Topology!ServerName
    <3> QED BY <1>2, <1>3, <2>4, <2>5, <3>1, Zenon DEF ClusterInv
  <2>6. CASE gpc' = "setServer" /\ allNodes' = nodes /\ lastServerNames' = Topology!ServerNames(nodes)
    <3>1. lastServerNames' = Topology!ServerNames(allNodes)'
      BY <2>6, Zenon DEF Topology!ServerNames, Topology!ServerName
    <3>2. Topology!PublishedWhole'
      BY <2>6, Zenon DEF Topology!PublishedWhole
    <3> QED BY <1>2, <1>3, <2>4, <2>6, <3>1, <3>2, Zenon DEF ClusterInv
  <2> QED BY <2>1, <2>5, <2>6, Zenon
<1> QED BY <1>4, <1>5, Zenon

(* setServer, setReplicaset and the flag, one write at a time.                *)
LEMMA PublishStep ==
  ASSUME ClusterInv,
         \/ Topology!ClearServers \/ Topology!InsertServers \/ Topology!ClearReplicasets
         \/ Topology!AppendReplicasets \/ Topology!SetServerChanged
  PROVE  ClusterInv'
<1> USE DEF Topology!published, Topology!loaded
<1> DEFINE Later == {"setReplicaset", "append", "flag"}
<1>1. /\ gpc \in {"setServer", "insert"} \cup Later
      /\ UNCHANGED <<cluster, clusterChan, allNodes, lastServerNames, tpc, proxyPool, proxyAddrs>>
  BY Zenon DEF Topology!ClearServers, Topology!InsertServers, Topology!ClearReplicasets,
               Topology!AppendReplicasets, Topology!SetServerChanged
<1>2. /\ cluster' \in Layouts /\ clusterChan' \in Seq(Layouts \cup {Topology!ErrorReply})
      /\ OneEach(allNodes) /\ Topology!AddrsHavePools
      /\ lastServerNames = Topology!ServerNames(allNodes)
  BY <1>1, Zenon DEF ClusterInv
<1>3. /\ OneEach(allNodes)' /\ Topology!AddrsHavePools' /\ Topology!ErrorReply' = Topology!ErrorReply
      /\ lastServerNames' = Topology!ServerNames(allNodes)'
  BY <1>1, <1>2, Zenon DEF OneEach, Topology!AddrsHavePools, Topology!ErrorReply,
                           Topology!ServerNames, Topology!ServerName
<1>4. gpc' # "wait" => Topology!PublishedWhole'
  BY Zenon DEF Topology!PublishedWhole
<1>5. CASE Topology!ClearServers
  <2>1. gpc' = "insert" /\ serverMap' = << >>
    BY <1>5, Zenon DEF Topology!ClearServers
  <2>2. DOMAIN serverMap' = {}
    BY <2>1, SMT
  <2> QED BY <1>2, <1>3, <1>4, <2>1, <2>2, Zenon DEF ClusterInv
<1>6. CASE Topology!InsertServers
  <2>1. /\ gpc' = "setReplicaset" /\ DOMAIN serverMap = {}
        /\ serverMap' = [a \in DOMAIN serverMap \cup DOMAIN Topology!ServerMap(allNodes) |->
                           IF a \in DOMAIN Topology!ServerMap(allNodes)
                           THEN Topology!ServerMap(allNodes)[a] ELSE serverMap[a]]
    BY <1>6, Zenon DEF ClusterInv, Topology!InsertServers
  <2>2. DOMAIN Topology!ServerMap(allNodes) = AddrsOfNodes
    BY Zenon DEF Topology!ServerMap, AddrsOfNodes
  <2>3. DOMAIN serverMap' = AddrsOfNodes
    BY <2>1, <2>2, Zenon
  <2>4. ASSUME NEW n \in allNodes PROVE serverMap'[n.addr] = n
    <3>1. n.addr \in AddrsOfNodes
      BY <2>4, Zenon DEF AddrsOfNodes
    <3>2. serverMap'[n.addr] = Topology!ServerMap(allNodes)[n.addr]
      BY <2>1, <2>2, <3>1, Zenon
    <3>3. Topology!ServerMap(allNodes)[n.addr] = CHOOSE k \in allNodes : k.addr = n.addr
      BY <3>1, Zenon DEF Topology!ServerMap, AddrsOfNodes
    <3>4. (CHOOSE k \in allNodes : k.addr = n.addr) = n
      BY <1>2, <2>4, Zenon DEF OneEach
    <3> QED BY <3>2, <3>3, <3>4, Zenon
  <2>5. Mapped'
    BY <1>1, <2>3, <2>4, Zenon DEF Mapped, AddrsOfNodes
  <2> QED BY <1>2, <1>3, <1>4, <2>1, <2>5, Zenon DEF ClusterInv
<1>7. CASE Topology!ClearReplicasets
  <2>1. gpc = "setReplicaset" /\ gpc' = "append" /\ serverMap' = serverMap
    BY <1>7, Zenon DEF Topology!ClearReplicasets
  <2>2. Mapped'
    BY <1>1, <2>1, Zenon DEF ClusterInv, Mapped, AddrsOfNodes
  <2> QED BY <1>2, <1>3, <1>4, <2>1, <2>2, Zenon DEF ClusterInv
<1>8. CASE Topology!AppendReplicasets
  <2>1. /\ gpc = "append" /\ gpc' = "flag" /\ serverMap' = serverMap
        /\ replicasets' = Topology!Replicasets(allNodes)
    BY <1>8, Zenon DEF Topology!AppendReplicasets
  <2>2. Mapped'
    BY <1>1, <2>1, Zenon DEF ClusterInv, Mapped, AddrsOfNodes
  <2>3. replicasets' = Topology!Replicasets(allNodes)'
    BY <1>1, <2>1, ZenonT(40) DEF Topology!Replicasets
  <2> QED BY <1>2, <1>3, <1>4, <2>1, <2>2, <2>3, Zenon DEF ClusterInv
<1>9. CASE Topology!SetServerChanged
  <2>1. gpc = "flag" /\ gpc' = "wait" /\ UNCHANGED <<serverMap, replicasets>>
    BY <1>9, Zenon DEF Topology!SetServerChanged
  <2>2. Mapped /\ replicasets = Topology!Replicasets(allNodes)
    BY <2>1, Zenon DEF ClusterInv
  <2>3. /\ lastServerNames = Topology!ServerNames({serverMap[a] : a \in DOMAIN serverMap})
        /\ \A rs \in replicasets : rs.addr \in DOMAIN serverMap /\ rs.slaves \subseteq DOMAIN serverMap
    BY <1>2, <2>2, MappedIsWhole, Zenon
  <2>4. Topology!PublishedWhole'
    BY <1>1, <2>1, <2>3, Zenon DEF Topology!PublishedWhole, Topology!ServerNames, Topology!ServerName
  <2> QED BY <1>2, <1>3, <2>1, <2>4, Zenon DEF ClusterInv
<1> QED BY <1>5, <1>6, <1>7, <1>8, <1>9, Zenon

(* Every step keeps the invariant.                                           *)
LEMMA ClusterNext ==
  ASSUME LinesDiffer
  PROVE  ClusterInv /\ [Topology!Next]_(Topology!vars) => ClusterInv'
<1> SUFFICES ASSUME ClusterInv, [Topology!Next]_(Topology!vars) PROVE ClusterInv'
  BY Zenon
<1>1. CASE UNCHANGED Topology!vars
  <2>1. UNCHANGED <<cluster, clusterChan, gpc, allNodes, serverMap, replicasets, lastServerNames,
                    tpc, proxyPool, proxyAddrs>>
    BY <1>1, Zenon DEF Topology!vars, Topology!published, Topology!loaded
  <2>2. Topology!AddrsHavePools' /\ cluster' \in Layouts /\ clusterChan' \in Seq(Layouts \cup {Topology!ErrorReply})
    BY <2>1, Zenon DEF ClusterInv, Topology!AddrsHavePools
  <2> QED BY <2>1, <2>2, GoroutineKept, Zenon
<1> QED BY <1>1, ReceiveStep, PublishStep, LoopStep, Zenon DEF Topology!Next, Topology!Goroutine

(* Whenever loopClusterNodes waits, ServerMap, lastServerNames and Replicasets  *)
(* agree although they are written one after the other and without a lock, and  *)
(* between ticks the proxy asks only nodes it has a pool for: for any layouts    *)
(* that list a node once, and any number of requests, replies, losses and        *)
(* changes (loopClusterNodes, setServer, setReplicaset, isChanged, ticker).    *)
THEOREM TopologyPublished ==
  ASSUME LinesDiffer
  PROVE  Topology!Spec => [](Topology!PublishedWhole /\ Topology!AddrsHavePools)
<1>1. ClusterInv => Topology!PublishedWhole /\ Topology!AddrsHavePools
  BY Zenon DEF ClusterInv
<1> QED BY <1>1, ClusterInit, ClusterNext, PTL DEF Topology!Spec
-----------------------------------------------------------------------------
(* AuthIp: the list that is in force is the one that was saved.             *)

CONSTANTS Addresses, MaxSaves
VARIABLES file, events, alive, todo, enable, ipMap, saves, last

Auth == INSTANCE AuthIp

(* The file's list is in force, or is being inserted.                        *)
Loaded == enable = file.enable /\ (file.enable => file.list \subseteq ipMap \cup todo)

(* The inductive invariant: what was saved in place is loaded, unless the last *)
(* event that waits is the one that will load it.                            *)
AuthInv ==
  /\ events \in Seq({"Write", "Create"})
  /\ alive /\ last = "write" /\ file.valid =>
       \/ events # <<>> /\ events[Len(events)] = "Write"
       \/ Loaded

(* What is left when the first event has been taken.                         *)
LEMMA EventsLeft ==
  ASSUME NEW S, NEW s \in Seq(S), s # <<>>
  PROVE  /\ Head(s) \in S /\ Tail(s) \in Seq(S)
         /\ Tail(s) = <<>> => Head(s) = s[Len(s)]
         /\ Tail(s) # <<>> => Tail(s)[Len(Tail(s))] = s[Len(s)]
<1>1. Head(s) \in S /\ Head(s) = s[1] /\ Tail(s) \in Seq(S) /\ Len(s) \in Nat \ {0}
  OBVIOUS
<1>2. /\ Len(Tail(s)) = Len(s) - 1
      /\ \A i \in 1 .. Len(s) - 1 : Tail(s)[i] = s[i + 1]
  BY <1>1
<1>3. CASE Len(s) = 1
  <2>1. Len(Tail(s)) = 0
    BY <1>2, <1>3
  <2>2. Tail(s) = <<>>
    BY <1>1, <2>1, SeqEmpty, Zenon
  <2> QED BY <1>1, <1>3, <2>2, Zenon
<1>4. CASE Len(s) # 1
  <2>1. Len(Tail(s)) \in 1 .. Len(s) - 1 /\ Len(Tail(s)) + 1 = Len(s)
    BY <1>1, <1>2, <1>4
  <2>2. Tail(s)[Len(Tail(s))] = s[Len(s)]
    BY <1>2, <2>1
  <2>3. Len(Tail(s)) # 0
    BY <1>1, <2>1
  <2>4. Tail(s) # <<>>
    BY <1>1, <2>3, SeqEmpty, Zenon
  <2> QED BY <1>1, <2>2, <2>4, Zenon
<1> QED BY <1>3, <1>4, Zenon

(* A new event is the last one.                                              *)
LEMMA EventsAdded ==
  ASSUME NEW S, NEW s \in Seq(S), NEW e \in S
  PROVE  /\ Append(s, e) \in Seq(S) /\ Append(s, e) # <<>>
         /\ Append(s, e)[Len(Append(s, e))] = e
<1>1. Append(s, e) \in Seq(S) /\ Len(Append(s, e)) = Len(s) + 1 /\ Len(s) \in Nat
  OBVIOUS
<1> QED BY <1>1

(* LoopIPWhiteList loads the file before there are events.                   *)
LEMMA AuthInit == Auth!Init => AuthInv
BY DEF Auth!Init, AuthInv, Loaded

(* Saving the file, handling an event and inserting an address keep it.       *)
LEMMA AuthNext == AuthInv /\ [Auth!Next]_(Auth!vars) => AuthInv'
<1> SUFFICES ASSUME AuthInv, [Auth!Next]_(Auth!vars) PROVE AuthInv'
  BY Zenon
<1> DEFINE E == {"Write", "Create"}
<1>0. events \in Seq(E)
  BY Zenon DEF AuthInv
<1>1. CASE Auth!Truncate \/ Auth!WriteContents \/ Auth!Replace
  <2>1. PICK e \in E : events' = Append(events, e) /\ (last' = "write" => e = "Write")
    BY <1>1, Zenon DEF Auth!Truncate, Auth!WriteContents, Auth!Replace
  <2> QED BY <1>0, <2>1, EventsAdded, Zenon DEF AuthInv
<1>2. CASE Auth!HandleEvent
  <2>1. events # <<>> /\ events' = Tail(events) /\ todo = {} /\ UNCHANGED <<file, alive, ipMap, last>>
    BY <1>2, Zenon DEF Auth!HandleEvent
  <2>2. /\ Head(events) \in E /\ events' \in Seq(E)
        /\ events' = <<>> => Head(events) = events[Len(events)]
        /\ events' # <<>> => events'[Len(events')] = events[Len(events)]
    BY <1>0, <2>1, EventsLeft, Zenon
  <2>3. CASE Head(events) = "Write"
    <3>1. file.valid => Loaded'
      BY <1>2, <2>1, <2>3, Zenon DEF Auth!HandleEvent, Auth!Parse, Loaded
    <3> QED BY <2>1, <2>2, <3>1, Zenon DEF AuthInv
  <2>4. CASE Head(events) # "Write"
    <3>1. Head(events) = "Create"
      BY <2>2, <2>4, Zenon
    <3>2. UNCHANGED <<enable, todo>>
      BY <1>2, <3>1, Zenon DEF Auth!HandleEvent
    <3>3. Loaded => Loaded'
      BY <2>1, <3>2, Zenon DEF Loaded
    <3> QED BY <2>1, <2>2, <2>4, <3>3, Zenon DEF AuthInv
  <2> QED BY <2>3, <2>4, Zenon
<1>3. CASE Auth!Insert
  <2>1. /\ UNCHANGED <<file, events, alive, enable, last>>
        /\ ipMap \cup todo \subseteq ipMap' \cup todo'
    BY <1>3, Zenon DEF Auth!Insert
  <2>2. Loaded => Loaded'
    BY <2>1, Zenon DEF Loaded
  <2> QED BY <2>1, <2>2, Zenon DEF AuthInv
<1>4. CASE Auth!WatchError
  BY <1>4, Zenon DEF Auth!WatchError, AuthInv
<1>5. CASE UNCHANGED Auth!vars
  BY <1>5, Zenon DEF Auth!vars, AuthInv, Loaded
<1> QED BY <1>1, <1>2, <1>3, <1>4, <1>5, Zenon DEF Auth!Next

(* When the watcher has nothing left to do, a list saved in place is in force, *)
(* for any addresses and however often and in whatever states the file is     *)
(* saved and re-read (watchYml, parseAuthIp).                                *)
THEOREM AuthListLoaded == Auth!Spec => []Auth!LoadedWhenQuiet
<1>1. AuthInv => Auth!LoadedWhenQuiet
  BY Zenon DEF AuthInv, Loaded, Auth!LoadedWhenQuiet, Auth!Validate
<1> QED BY <1>1, AuthInit, AuthNext, PTL DEF Auth!Spec
=============================================================================

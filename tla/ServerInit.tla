----------------------------- MODULE ServerInit ------------------------------
(* The first replies on a connection to Redis: OnSOpened sends AUTH and        *)
(* READONLY, and sread takes their replies off the stream before it pairs      *)
(* replies with frags. The stream is cut into pieces anywhere: a reply is two  *)
(* pieces here, and either may arrive alone.                                   *)
EXTENDS Naturals, Sequences, SequencesExt

CONSTANTS
  Commands,      \* the sequences of commands OnSOpened may send
  InitReplies,   \* the replies Redis may give to each of them
  Kinds,         \* the replies Redis gives to frags
  MaxFrags       \* the number of frags sent (a bound)

VARIABLES
  initStep, initStatus,   \* the fields of the connection
  inFragQueue,            \* the frags sent and not yet answered
  written,                \* how many frags have been sent
  wire,                   \* what Redis has sent and the proxy has not read
  inbound,                \* what the proxy has read and not consumed
  answer,                 \* for each answered frag: the request it got the reply of
  sread,                  \* "idle", "looping", "spinning" or "shutdown"
  accepted                \* history: Redis accepted every command of OnSOpened

vars == <<accepted, initStep, initStatus, inFragQueue, written, wire, inbound, answer, sread>>

(* A piece of a reply: its text, and the request (0: of OnSOpened) it answers. *)
Reply(kind, id) == <<[text |-> kind, half |-> 1, id |-> id], [text |-> kind, half |-> 2, id |-> id]>>
Texts(s) == [i \in 1..Len(s) |-> <<s[i].text, s[i].half>>]

(* OnSOpened, and what Redis answers to the commands it sends.                 *)
Init ==
  /\ \E cmds \in Commands :
       /\ initStep = Len(cmds)
       /\ initStatus = IF cmds = <<>> THEN "Initialized" ELSE "Initializing"
       /\ \E kinds \in [1..Len(cmds) -> InitReplies] :
            /\ accepted = \A i \in DOMAIN kinds : kinds[i] = "+OK"
            /\ wire = FlattenSeq([i \in 1..Len(cmds) |-> Reply(kinds[i], 0)])
  /\ inFragQueue = <<>> /\ written = 0 /\ inbound = <<>> /\ answer = <<>>
  /\ sread = "idle"

(* The write task sends a frag, behind whatever is under way; Redis answers in *)
(* order.                                                                      *)
SWrite ==
  /\ sread = "idle" /\ written < MaxFrags
  /\ written' = written + 1
  /\ inFragQueue' = Append(inFragQueue, written + 1)
  /\ \E kind \in Kinds : wire' = wire \o Reply(kind, written + 1)
  /\ UNCHANGED <<accepted, initStep, initStatus, inbound, answer, sread>>

(* A read event brings some of the bytes, and the loop of sread begins.        *)
Read ==
  /\ sread = "idle"
  /\ \E n \in 1..Len(wire) :
       /\ inbound' = inbound \o SubSeq(wire, 1, n)
       /\ wire' = SubSeq(wire, n + 1, Len(wire))
  /\ sread' = "looping"
  /\ UNCHANGED <<accepted, initStep, initStatus, inFragQueue, written, answer>>

ShortcutOK == Texts(FlattenSeq([i \in 1..initStep |-> Reply("+OK", 0)]))

Initializing == sread = "looping" /\ initStatus = "Initializing" /\ inbound # <<>>

(* Bug: the replies are only recognized when nothing follows them.             *)
InitializedAlone ==
  /\ Initializing
  /\ ShortcutOK = Texts(inbound)
  /\ inbound' = <<>>
  /\ initStatus' = "Initialized"
  /\ UNCHANGED <<accepted, initStep, inFragQueue, written, wire, answer, sread>>

Initialize ==
  /\ Initializing
  /\ IsPrefix(ShortcutOK, Texts(inbound))
  /\ inbound' = SubSeq(inbound, Len(ShortcutOK) + 1, Len(inbound))
  /\ initStatus' = "Initialized"
  /\ UNCHANGED <<accepted, initStep, inFragQueue, written, wire, answer, sread>>

FirstChar == IF inbound[1].text = "$bulk" THEN "$" ELSE "+-"

(* A first reply that is neither a status nor an error is left where it is,    *)
(* and sread tries again.                                                      *)
UnknownInitReply ==
  /\ Initializing
  /\ FirstChar = "$"
  /\ sread' = "spinning"
  /\ UNCHANGED <<accepted, initStep, initStatus, inFragQueue, written, wire, inbound, answer>>

(* Nothing to decode, or a part of the expected replies or of a reply.         *)
Incomplete ==
  \/ inbound = <<>>
  \/ Initializing /\ IsStrictPrefix(Texts(inbound), ShortcutOK)
  \/ initStatus = "Initialized" /\ Len(inbound) < 2
  \/ Initializing /\ FirstChar # "$" /\ ~IsPrefix(Texts(inbound), ShortcutOK) /\ Len(inbound) < 2

WaitForMore ==
  /\ sread = "looping" /\ Incomplete
  /\ sread' = "idle"
  /\ UNCHANGED <<accepted, initStep, initStatus, inFragQueue, written, wire, inbound, answer>>

(* A reply is decoded: by an initialized connection, or by one whose           *)
(* initialization failed, which goes on as if the reply were a frag's.         *)
Decoding ==
  /\ sread = "looping" /\ ~Incomplete
  /\ initStatus = "Initialized" \/ (FirstChar # "$" /\ ~IsPrefix(ShortcutOK, Texts(inbound)))

Decode ==
  /\ Decoding
  /\ inFragQueue # <<>>
  /\ answer' = Append(answer, [frag |-> Head(inFragQueue), of |-> inbound[1].id])
  /\ inFragQueue' = Tail(inFragQueue)
  /\ inbound' = SubSeq(inbound, 3, Len(inbound))
  /\ sread' = IF inbound[1].text = "-ERR invalid password" THEN "shutdown" ELSE sread
  /\ UNCHANGED <<accepted, initStep, initStatus, written, wire>>

(* No frag waits for the reply: it stays where it is, and sread tries again.   *)
DecodeWithoutFrag ==
  /\ Decoding
  /\ inFragQueue = <<>>
  /\ sread' = "spinning"
  /\ UNCHANGED <<accepted, initStep, initStatus, inFragQueue, written, wire, inbound, answer>>

SReadStep == Read \/ Initialize \/ UnknownInitReply \/ WaitForMore \/ Decode \/ DecodeWithoutFrag

Next == SWrite \/ SReadStep

Spec == Init /\ [][Next]_vars

Fairness == WF_vars(SReadStep)

-----------------------------------------------------------------------------
(* However the stream is cut, the replies to AUTH and READONLY are taken off   *)
(* it exactly: when Redis accepts them, every frag gets the reply to its own   *)
(* command, also when that reply is an OK too.                                 *)
OwnReplies == accepted => \A i \in DOMAIN answer : answer[i].of = answer[i].frag

(* When Redis accepts AUTH and READONLY, sread never meets a reply it can do   *)
(* nothing with, whether or not a frag has been sent yet.                      *)
SpinsOnlyIfRefused == accepted => sread # "spinning"

(* When Redis accepts AUTH and READONLY, every frag sent behind them is        *)
(* answered: no half-read OK keeps the connection waiting for ever. MaxFrags   *)
(* frags are sent, so the queue is empty in the end.                           *)
FragsAnswered == accepted /\ inFragQueue # <<>> ~> inFragQueue = <<>>

(* "rcproxy shutdown because of invalid auth": a rejected password stops the   *)
(* proxy, it does not leave the event loop spinning on the rejection.          *)
(* Does not hold of the code: see the README, Disagreements.                   *)
NoSpinning == sread # "spinning"
=============================================================================

------------------------------ MODULE ByteQueue ------------------------------
(***************************************************************************)
(* What a byte buffer of rcproxy promises, whatever it is built from: bytes *)
(* come out once, in the order in which they went in.  `queue' holds the    *)
(* bytes not yet consumed; `ret' is what the caller saw last: the operation, *)
(* the size it asked for and the bytes it was given.                        *)
(*                                                                         *)
(* ring.Buffer, linkedlist.Buffer, elastic.Buffer and the inbound and       *)
(* outbound sides of a connection are shown to implement this module.      *)
(***************************************************************************)
EXTENDS ByteCalls

CONSTANT Byte

VARIABLES queue, ret

Init == queue = << >> /\ ret = Ret("New", 0, << >>)

(* Bytes are appended, and nothing else changes.                           *)
Put == /\ queue' \in Seq(Byte)
       /\ IsPrefix(queue, queue')
       /\ ret' = Ret("Write", Len(queue') - Len(queue), << >>)

(* The reader asks for n bytes and consumes what it is given.              *)
Take(n) == /\ ret' = Ret("Read", n, First(queue, n))
           /\ queue' = Rest(queue, n)

(* The reader looks at the first n bytes.                                   *)
Look(n) == /\ ret' = Ret("Peek", n, First(queue, n))
           /\ UNCHANGED queue

(* The reader skips n bytes.                                                *)
Skip(n) == /\ ret' = Ret("Discard", n, << >>)
           /\ queue' = Rest(queue, n)

(* Everything is thrown away, which the caller asked for.                   *)
Clear == /\ ret' = Ret("Reset", 0, << >>)
         /\ queue' = << >>

Next == \/ Put
        \/ Take(ret'.n)
        \/ Look(ret'.n)
        \/ Skip(ret'.n)
        \/ Clear

Spec == Init /\ [][Next]_<<queue, ret>>

(* One step of such a queue, or of somebody else.                           *)
Step == [Next]_<<queue, ret>>
=============================================================================

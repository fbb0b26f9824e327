-------------------------------- MODULE ByteCalls --------------------------------
(***************************************************************************)
(* Helpers that the byte buffers share.  A byte buffer is exercised with    *)
(* bytes that are numbered in the order of their arrival, modulo Numbers:   *)
(* a byte that is lost, repeated or misplaced then shows.                   *)
(***************************************************************************)
EXTENDS Integers, Sequences, SequencesExt, FiniteSetsExt

(* What a caller saw last: the operation, the size it asked for and the     *)
(* bytes it was given.                                                      *)
Ret(op, n, data) == [op |-> op, n |-> n, data |-> data]

(* The first n bytes of s, or all of them, and what is left of s then.      *)
First(s, n) == SubSeq(s, 1, Min({n, Len(s)}))
Rest(s, n) == SubSeq(s, Min({n, Len(s)}) + 1, Len(s))

(* The next n bytes to arrive after byte number `arrived', and their last.  *)
Fresh(arrived, n, numbers) == [i \in 1 .. n |-> (arrived + i) % numbers]
After(arrived, n, numbers) == (arrived + n) % numbers

(* The bytes that arrived after number i, up to and including number j.      *)
Between(i, j, numbers) == Fresh(i, (j + numbers - i) % numbers, numbers)
=============================================================================

------------------------------ MODULE MCPoller ------------------------------
(* Poller on small sets of goroutines. *)
EXTENDS Poller, TLC

\* Goroutines are interchangeable; sound for the safety run only.
Goroutines == Permutations(Producers)
=============================================================================

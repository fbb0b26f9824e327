----------------------------- MODULE BufferSizes -----------------------------
(***************************************************************************)
(* The capacities of the ring buffers: internal/toolkit/math.go and the     *)
(* size computation of ring.Buffer.grow.  The two constants stand for 1024  *)
(* and 4096 bytes.                                                          *)
(***************************************************************************)
EXTENDS Naturals, FiniteSetsExt

CONSTANTS DefaultBufferSize, bufferGrowThreshold

(* n / 4 is added to a capacity of at least the threshold: below 4 the loop *)
(* of grow would never end.                                                 *)
ASSUME SizeAssumption == /\ DefaultBufferSize \in Nat \ {0}
                         /\ bufferGrowThreshold \in Nat
                         /\ bufferGrowThreshold >= 4

(* The least power of two that is at least n, and never less than two.      *)
CeilToPowerOfTwo(n) ==
  LET power[k \in Nat] == IF k >= n THEN k ELSE power[2 * k]
  IN  power[2]

(* A quarter is added to size until newCap fits.                            *)
AddQuarters(size, newCap) ==
  LET add[n \in Nat] == IF n < newCap THEN add[n + n \div 4] ELSE n
  IN  add[size]

(* The capacity grow(newCap) gives to a buffer of the given size.           *)
GrowCap(size, newCap) ==
  CASE size = 0 /\ newCap <= DefaultBufferSize -> DefaultBufferSize
    [] size = 0 /\ newCap > DefaultBufferSize -> CeilToPowerOfTwo(newCap)
    [] size > 0 /\ newCap > 2 * size -> newCap
    [] size > 0 /\ newCap <= 2 * size ->
         IF size < bufferGrowThreshold THEN 2 * size ELSE AddQuarters(size, newCap)
=============================================================================

--------------------------- MODULE RingBufferPool ---------------------------
(***************************************************************************)
(* The pool of ring buffers (pkg/pool/ringbuffer): Put counts the buffers  *)
(* it is given by size class, and when one class has been counted more     *)
(* than calibrateCallsThreshold times calibrate resets the counts and      *)
(* computes the size of new buffers and the size above which a buffer is   *)
(* not kept.  Len and Cap of a ring buffer are both its size.              *)
(***************************************************************************)
EXTENDS Integers, Sequences, Functions, FiniteSetsExt

CONSTANTS
  Steps,        \* number of size classes
  Threshold,    \* calibrateCallsThreshold
  Sizes         \* sizes of the buffers in use

VARIABLES
  calls, defaultSize, maxSize,
  pool,         \* sizes of the buffers the sync.Pool holds
  counted       \* what the last calibration was based on

vars == <<calls, defaultSize, maxSize, pool, counted>>

Classes == 0..Steps - 1
Size(i) == 64 * 2 ^ i
Total(c) == FoldFunction(LAMBDA x, y : x + y, 0, c)

Init ==
  /\ calls = [i \in Classes |-> 0]
  /\ counted = calls
  /\ defaultSize = 0 /\ maxSize = 0
  /\ pool = {}

(* The orders sort.Sort may leave: by falling count, ties in any order. *)
Sorted(c) ==
  {p \in [1..Steps -> Classes] :
     \A i, j \in 1..Steps : i < j => p[i] # p[j] /\ c[p[i]] >= c[p[j]]}

(* How many classes the loop of calibrate takes: it goes on until the      *)
(* calls so far are more than maxPercentile of all of them.                *)
Taken(c, p) ==
  LET Before(n) == Total([i \in Classes |-> IF \E j \in 1..n : p[j] = i THEN c[i] ELSE 0])
  IN CHOOSE n \in 1..Steps : /\ \A m \in 1..n - 1 : Before(m) <= (Total(c) * 95) \div 100
                             /\ n = Steps \/ Before(n) > (Total(c) * 95) \div 100

calibrate(c) ==
  /\ calls' = [i \in Classes |-> 0]
  /\ counted' = c
  /\ \E p \in Sorted(c) :
       /\ defaultSize' = Size(p[1])
       /\ maxSize' = Max({Size(p[j]) : j \in 1..Taken(c, p)})

(* The class of size n: the smallest that holds it, or the last one. *)
index(n) == Min({i \in Classes : n <= Size(i)} \cup {Steps - 1})

(* Put keeps a buffer of size n: every one before the first calibration. *)
Keeps(n) == maxSize = 0 \/ n <= maxSize

(* Put of a buffer of size n.  The maxSize it is compared with is the new  *)
(* one when this call calibrates.                                          *)
Put(n) ==
  LET c == [calls EXCEPT ![index(n)] = @ + 1]
  IN /\ IF c[index(n)] > Threshold THEN calibrate(c)
        ELSE calls' = c /\ UNCHANGED <<defaultSize, maxSize, counted>>
     /\ pool' = IF Keeps(n)' THEN pool \cup {n} ELSE pool

(* Get takes the last buffer of size n, and so may sync.Pool at any time;  *)
(* a Get that makes a new buffer, of defaultSize, changes nothing.         *)
Get(n) ==
  /\ n \in pool /\ pool' = pool \ {n}
  /\ UNCHANGED <<calls, defaultSize, maxSize, counted>>

Next == \E n \in Sizes : Put(n) \/ Get(n)

Spec == Init /\ [][Next]_vars

-----------------------------------------------------------------------------
(* What calibration is for.  After it, buffers of the size classes that    *)
(* made up more than 95 % of the calls are kept by Put, a new buffer is    *)
(* not larger than what is kept, and the size of new buffers is the most   *)
(* frequent one.  A buffer beyond the last class counts as one of it, and  *)
(* is dropped all the same: maxSize is never larger than that class.       *)
KeepsUsualSizes ==
  maxSize > 0 =>
    /\ 100 * Total([i \in Classes |-> IF Keeps(Size(i)) THEN counted[i] ELSE 0])
         > 95 * Total(counted)
    /\ Keeps(defaultSize) /\ maxSize <= Size(Steps - 1)
    /\ \A i, j \in Classes : Size(i) = defaultSize => counted[i] >= counted[j]
=============================================================================

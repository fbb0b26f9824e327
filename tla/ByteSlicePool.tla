---------------------------- MODULE ByteSlicePool ----------------------------
(***************************************************************************)
(* The pool of byte slices (pkg/pool/byteslice).  The pool keeps bare      *)
(* pointers: the capacity of what Get hands out is whatever the index of   *)
(* the pool says.  The buffers return slices they have advanced            *)
(* (linkedlist's Read) and slices that never came from the pool, so what   *)
(* Put computes from cap(buf) is all that keeps the two in step.           *)
(***************************************************************************)
EXTENDS Integers, FiniteSets

CONSTANTS
  Arrays,     \* backing arrays that may be allocated
  MaxSize     \* bound on the sizes asked for

VARIABLES
  size,    \* the real size of each array, 0 until it is allocated
  held,    \* slices in use: [arr, off, cap]
  pools    \* the pointers in pool idx: [arr, off]

vars == <<size, held, pools>>

Sizes == 1..MaxSize

(* bits.Len32(n - 1): the least idx with n <= 2^idx. *)
index(n) == CHOOSE i \in 0..n : n <= 2 ^ i /\ \A j \in 0..i - 1 : n > 2 ^ j

Indexes == 0..index(MaxSize)

Init ==
  /\ size = [a \in Arrays |-> 0]
  /\ held = {}
  /\ pools = [i \in Indexes |-> {}]

Allocate(a, n, cap) ==
  /\ size[a] = 0
  /\ size' = [size EXCEPT ![a] = n]
  /\ held' = held \union {[arr |-> a, off |-> 0, cap |-> cap]}

(* A pool of sync may come up empty although something was put there. *)
GetNew(n) == \E a \in Arrays : Allocate(a, 2 ^ index(n), 2 ^ index(n)) /\ UNCHANGED pools

GetPooled(n) ==
  \E p \in pools[index(n)] :
    /\ pools' = [pools EXCEPT ![index(n)] = @ \ {p}]
    /\ held' = held \union {[arr |-> p.arr, off |-> p.off, cap |-> 2 ^ index(n)]}
    /\ UNCHANGED size

(* A slice from elsewhere that will be Put: its capacity is any number. *)
Foreign(n) == \E a \in Arrays : Allocate(a, n, n) /\ UNCHANGED pools

(* The reader of a slice keeps its rest: buf = buf[m:]. *)
Advance(s, m) ==
  /\ m < s.cap
  /\ held' = (held \ {s}) \union {[s EXCEPT !.off = @ + m, !.cap = @ - m]}
  /\ UNCHANGED <<size, pools>>

(* Bug: the pointer goes to the pool its capacity rounds up to. *)
PutRoundedUp(s) ==
  /\ held' = held \ {s}
  /\ pools' = [pools EXCEPT ![index(s.cap)] = @ \union {[arr |-> s.arr, off |-> s.off]}]
  /\ UNCHANGED size

Put(s) ==
  LET idx == IF s.cap = 2 ^ index(s.cap) THEN index(s.cap) ELSE index(s.cap) - 1
  IN /\ held' = held \ {s}
     /\ pools' = [pools EXCEPT ![idx] = @ \union {[arr |-> s.arr, off |-> s.off]}]
     /\ UNCHANGED size

(* The garbage collector empties a pool (external). *)
Collect(i) ==
  /\ pools[i] # {}
  /\ size' = [a \in Arrays |-> IF \E p \in pools[i] : p.arr = a THEN 0 ELSE size[a]]
  /\ pools' = [pools EXCEPT ![i] = {}]
  /\ UNCHANGED held

Next ==
  \/ \E n \in Sizes : GetNew(n) \/ GetPooled(n) \/ Foreign(n)
  \/ \E s \in held : Put(s) \/ \E m \in Sizes : Advance(s, m)
  \/ \E i \in Indexes : Collect(i)

Spec == Init /\ [][Next]_vars

-----------------------------------------------------------------------------
(* Memory safety of the pool.  However often a slice is advanced, returned *)
(* and handed out again, its capacity ends within its array, and no array  *)
(* is in two hands (Get's reflect.SliceHeader, Put's idx--).               *)
SlicesSound ==
  /\ \A s \in held : s.off + s.cap <= size[s.arr]
  /\ \A i \in Indexes : \A p \in pools[i] : p.off + 2 ^ i <= size[p.arr]
  /\ \A a \in Arrays : Cardinality({s \in held : s.arr = a})
                         + Cardinality({i \in Indexes : \E p \in pools[i] : p.arr = a}) <= 1
=============================================================================

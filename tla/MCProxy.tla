------------------------------ MODULE MCProxy ------------------------------
(* Instances of Proxy for model checking. *)
EXTENDS Proxy, TLC

CONSTANTS c1, c2, n1, n2, k1, k2, nil

One(k)     == [type |-> "default", slots |-> <<k>>]
Many(t, q) == [type |-> t, slots |-> q]

\* Two masters, with the slots spread over both.
Spread == [nodes |-> {n1, n2}, slaves |-> {}, slots |-> (k1 :> n1) @@ (k2 :> n2)]

\* All slots on the first node, the second gone; and a reload in between: the
\* nodes are new, the replica sets still the old ones.
Shrunk == [nodes |-> {n1}, slaves |-> {}, slots |-> [k \in Slot |-> n1]]
Torn   == [nodes |-> {n1}, slaves |-> {}, slots |-> Spread.slots]

\* The second node has become a slave of the first.
Demoted == [nodes |-> {n1, n2}, slaves |-> {n2}, slots |-> [k \in Slot |-> n1]]

Loading == [nodes |-> {n1, n2}, slaves |-> {}, slots |-> (k1 :> n1) @@ (k2 :> nil)]

Changing == {Spread, Shrunk, Torn, Demoted}
GetEither == {One(k1), One(k2)}
Multis == {Many(t, <<k1, k2>>) : t \in {"mset", "del", "mget"}} \cup {One(k1)}
SpreadOnly   == {Spread}
GetAndMGet   == {One(k1), Many("mget", <<k1, k2>>)}

JustGet == {One(k1)}
Clients == Permutations(Client)
=============================================================================

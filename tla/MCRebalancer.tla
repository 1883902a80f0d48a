----------------------------- MODULE MCRebalancer -----------------------------
(* Rebalancer for TLC.                                                     *)
EXTENDS Rebalancer, TLC

CONSTANTS v1, v2, v3, v4, v5

(* Two shards, one with an odd number of virtual shards.                   *)
TwoShards == 0 :> <<v1, v2>> @@ 1 :> <<v3, v4, v5>>

(* A shard that is cold, one that is hot, and one half of whose load comes *)
(* from hot keys.                                                          *)
Reports == {[rps |-> 1, salted |-> FALSE, many |-> FALSE],
            [rps |-> 9, salted |-> FALSE, many |-> FALSE],
            [rps |-> 4, salted |-> TRUE, many |-> TRUE]}

NoRemainder == <<0, 0>>

Symmetry == Permutations(Operators)
=============================================================================

---------------------------- MODULE MCHotTierRing ----------------------------
(* Instances of HotTierRing for TLC.                                       *)
EXTENDS HotTierRing, TLC

(* No writer is stalled while the others write a whole lap of the ring.    *)
NobodyLapped ==
  \A v, w \in Writers :
    Active(v) /\ Active(w) => writer[v].pos - writer[w].pos < Capacity

Symmetry == Permutations(Writers) \cup Permutations(Readers)
=============================================================================

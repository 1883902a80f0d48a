------------------------------- MODULE Sorting -------------------------------
(***************************************************************************)
(* What a sort of numbers leaves, whatever the order of its exchanges: the *)
(* sort.Slice of the ring's keys and the detector's bubble sort.           *)
(***************************************************************************)
EXTENDS Integers, FiniteSets

(* An element comes behind those less than it and behind those equal to it *)
(* that were before it.                                                    *)
Place(list, i) ==
  Cardinality({j \in DOMAIN list : list[j] < list[i] \/ (list[j] = list[i] /\ j <= i)})

Sorted(list) == [n \in DOMAIN list |-> list[CHOOSE i \in DOMAIN list : Place(list, i) = n]]
=============================================================================

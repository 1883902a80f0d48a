------------------------------ MODULE MCReadSide ------------------------------
(* ReadSide for TLC.  The sets that are equal in the configuration share   *)
(* one symmetry.                                                           *)
EXTENDS ReadSide, TLC

OneObjective == {[target |-> 1, critical |-> 4]}
StrictObjective == [target |-> 0, critical |-> 1]

Symmetry == Permutations(Services) \cup Permutations(Tables)
=============================================================================

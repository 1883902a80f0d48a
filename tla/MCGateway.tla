------------------------------- MODULE MCGateway -------------------------------
(* Gateway for TLC.                                                        *)
EXTENDS Gateway, TLC

OneEach == [c \in {"high", "normal", "low"} |-> 1]

Symmetry == Permutations(Callers) \cup Permutations(Requests)
=============================================================================

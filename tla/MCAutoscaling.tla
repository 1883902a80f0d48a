----------------------------- MODULE MCAutoscaling -----------------------------
(***************************************************************************)
(* Autoscaling for TLC: a chain of two cascade rules, as in the code's     *)
(* default configuration, of which a smaller set of services uses one.     *)
(***************************************************************************)
EXTENDS Autoscaling, Sequences, TLC

Chain ==
  <<[trigger |-> "gateway", threshold |-> 3, target |-> "stream-ingester",
     percent |-> 50, min |-> 1, max |-> 2],
    [trigger |-> "stream-ingester", threshold |-> 2, target |-> "hot-tier",
     percent |-> 30, min |-> 1, max |-> 2]>>

ChainOfServices == SelectSeq(Chain, LAMBDA r : r.target \in Services)
OneOfEach == [s \in Services |-> 1]
UpToTwo == [s \in Services |-> IF s = "gateway" THEN 4 ELSE 2]
=============================================================================

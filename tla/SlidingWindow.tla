---------------------------- MODULE SlidingWindow ----------------------------
(***************************************************************************)
(* What the ring buffer of a hot-tier node promises its readers: the       *)
(* positions oldest..next-1 are readable, positions are published in order,*)
(* at most Capacity of them at a time, and only the oldest is given up,    *)
(* and only to make room.                                                  *)
(***************************************************************************)
EXTENDS Integers

CONSTANT Capacity

VARIABLES oldest, next

vars == <<oldest, next>>

Init == oldest = 0 /\ next = 0

Publish ==
  /\ next - oldest < Capacity
  /\ next' = next + 1
  /\ UNCHANGED oldest

Evict ==
  /\ next - oldest = Capacity
  /\ oldest' = oldest + 1
  /\ UNCHANGED next

Next == Publish \/ Evict

Spec == Init /\ [][Next]_vars
=============================================================================

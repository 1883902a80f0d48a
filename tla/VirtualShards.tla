----------------------------- MODULE VirtualShards -----------------------------
(***************************************************************************)
(* The rebalancer's table from virtual to physical shards and the plan     *)
(* that gives less loaded shards more of them.  No code of the repository  *)
(* calls it.                                                               *)
(*                                                                         *)
(* The loads are read from a Go map, in an order of its choosing, sorted   *)
(* by a sort that is not stable, and the targets are read from another.    *)
(* Fractions are compared exactly where the code has float64.  The hash    *)
(* that the shuffle makes of a number is given by its remainder as Go      *)
(* computes it, with the sign of the hash read as an int.                  *)
(***************************************************************************)
EXTENDS Integers, Sequences, SequencesExt, FiniteSetsExt, Functions

CONSTANTS
  Physical,
  Loads,        (* of a physical shard                                     *)
  VirtualCount,
  Remainder     (* i -> int(fnv1a(i)) % (i + 1), the sign that of the hash *)

VirtualAssumption ==
  /\ IsFiniteSet(Physical) /\ Physical # {} /\ Loads \subseteq Nat
  /\ VirtualCount \in Nat \ {0}
  /\ Remainder \in [1..VirtualCount - 1 -> Int]
  /\ \A i \in 1..VirtualCount - 1 : Remainder[i] \in -i..i

VirtualIDs == 1..VirtualCount

VARIABLES
  virtualToPhysical,
  load,      (* loads the last plan was made for                           *)
  target,    (* physical shard -> virtual shards it was to have            *)
  plan,      (* the planned table                                          *)
  panicked   (* the shuffle has used a negative index                      *)

vars == <<virtualToPhysical, load, target, plan, panicked>>

Order == SetToSeq(Physical)
RoundRobin == [v \in VirtualIDs |-> Order[((v - 1) % Len(Order)) + 1]]

Init ==
  /\ virtualToPhysical = RoundRobin /\ plan = RoundRobin
  /\ load = [p \in Physical |-> 0]
  /\ target = [p \in Physical |-> Cardinality({v \in VirtualIDs : RoundRobin[v] = p})]
  /\ panicked = FALSE

-----------------------------------------------------------------------------
Total(l) == MapThenSumSet(LAMBDA p : l[p], Physical)
Larger(a, b) == IF a > b THEN a ELSE b
Smaller(a, b) == IF a < b THEN a ELSE b

(* V * max((total - load) / total, 0.1) / n, at least one.                 *)
Share(l, p) ==
  Larger(1, (VirtualCount * Larger(10 * (Total(l) - l[p]), Total(l)))
              \div (10 * Total(l) * Cardinality(Physical)))

(* What is left after the first shares of an order: each is given out as   *)
(* far as there is something left, ...                                     *)
Left(order, l) ==
  LET left[i \in 0..Len(order)] ==
        IF i = 0 THEN VirtualCount
        ELSE left[i - 1] - Smaller(Share(l, order[i]), left[i - 1])
  IN left

Position(order, p) == CHOOSE i \in 1..Len(order) : order[i] = p
Given(order, l, i) == Left(order, l)[i - 1] - Left(order, l)[i]
Rest(order, l) == Left(order, l)[Len(order)]

RestToLast(order, l) ==   \* mutant: the rest goes to the most loaded first
  [p \in Physical |->
     LET n == Len(order)
         i == Position(order, p)
     IN Given(order, l, i) + Rest(order, l) \div n
          + (IF n - i < Rest(order, l) % n THEN 1 ELSE 0)]

(* ... and the rest one by one, in the same order.                         *)
Targets(order, l) ==
  [p \in Physical |->
     LET n == Len(order)
         i == Position(order, p)
     IN Given(order, l, i) + Rest(order, l) \div n
          + (IF i <= Rest(order, l) % n THEN 1 ELSE 0)]

Orders == Bijection(1..Cardinality(Physical), Physical)
LeastLoadedFirst(l) == {o \in Orders : \A i \in 1..Len(o) - 1 : l[o[i]] <= l[o[i + 1]]}

(* The table before the shuffle.                                           *)
Laid(order, count) ==
  FlattenSeq([i \in 1..Len(order) |-> [j \in 1..count[order[i]] |-> order[i]]])

(* i and Remainder[i] change places, for i from the end; indices from 0.   *)
Swapped(list, i) ==
  LET j == Remainder[i]
  IN [list EXCEPT ![i + 1] = list[j + 1], ![j + 1] = list[i + 1]]
shuffleMapping(list) ==
  LET shuffled[k \in 0..VirtualCount - 1] ==
        IF k = 0 THEN list ELSE Swapped(shuffled[k - 1], VirtualCount - k)
  IN shuffled[VirtualCount - 1]
NegativeIndex == \E i \in 1..VirtualCount - 1 : Remainder[i] < 0

RebalanceVirtualShards ==
  \E l \in [Physical -> Loads] :
    /\ load' = l
    /\ IF Total(l) = 0
       THEN /\ plan' = virtualToPhysical
            /\ target' = [p \in Physical |-> Cardinality({v \in VirtualIDs : virtualToPhysical[v] = p})]
            /\ UNCHANGED panicked
       ELSE \E order \in LeastLoadedFirst(l), laid \in Orders :
              /\ target' = Targets(order, l)
              /\ IF NegativeIndex
                 THEN panicked' = TRUE /\ UNCHANGED plan
                 ELSE plan' = shuffleMapping(Laid(laid, target')) /\ UNCHANGED panicked
    /\ UNCHANGED virtualToPhysical

UpdateVirtualMapping ==
  /\ virtualToPhysical' = plan
  /\ UNCHANGED <<load, target, plan, panicked>>

Next == ~panicked /\ (RebalanceVirtualShards \/ UpdateVirtualMapping)

Spec == Init /\ [][Next]_vars

-----------------------------------------------------------------------------
Holds(table, p) == Cardinality({v \in VirtualIDs : table[v] = p})

TypeOK ==
  /\ virtualToPhysical \in [VirtualIDs -> Physical] /\ plan \in [VirtualIDs -> Physical]
  /\ load \in [Physical -> Nat] /\ target \in [Physical -> 0..VirtualCount]
  /\ panicked \in BOOLEAN

(* A plan gives every virtual shard away, and never fewer to a less loaded *)
(* shard than to a more loaded one (hasher.go:213, :233), with shares too  *)
(* small for one and with nothing left for the last; the shuffle changes   *)
(* places only (hasher.go:261).                                            *)
SharesFollowLoad ==
  /\ Total(target) = VirtualCount
  /\ Total(load) > 0 => \A p, q \in Physical : load[p] < load[q] => target[p] >= target[q]
  /\ ~panicked => \A p \in Physical : Holds(plan, p) = target[p]

(* Refuted with the hashes the code uses: a plan is made at all.           *)
ShuffleFinishes == ~panicked
=============================================================================

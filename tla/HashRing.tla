------------------------------- MODULE HashRing -------------------------------
(***************************************************************************)
(* The rebalancer's consistent hash ring: points of every shard on a ring  *)
(* of hashes, a map from points to shards and the sorted list the lookup   *)
(* searches.  No code of the repository calls it: its callers are any.     *)
(*                                                                         *)
(* Every method is one step under the ring's lock.  The 32-bit hashes of a *)
(* shard's points are any few of a small set, so that points of different  *)
(* shards coincide.  Adding a shard that is there would only repeat its    *)
(* points in the list: callers do not.                                     *)
(***************************************************************************)
EXTENDS Integers, Sequences, SequencesExt, FiniteSetsExt, Sorting

CONSTANTS
  Shards,      (* a shard is its number; what a missing entry reads is 0   *)
  MaxHash,     (* hashes are 0..MaxHash                                    *)
  VirtualNodes (* points of a shard                                        *)

RingAssumption ==
  Shards \subseteq Nat /\ MaxHash \in Nat /\ VirtualNodes \in Nat \ {0}

Hashes == 0..MaxHash
Missing == 0   \* what a Go map reads for a key it does not have

VARIABLES
  points,      (* shard -> the hashes of its virtual nodes                 *)
  members,     (* shards added and not removed                             *)
  nodes,       (* the map from hashes to shards                            *)
  sortedKeys

vars == <<points, members, nodes, sortedKeys>>

Init ==
  /\ points \in [Shards -> {P \in SUBSET Hashes : Cardinality(P) \in 1..VirtualNodes}]
  /\ members = {} /\ nodes = <<>> /\ sortedKeys = <<>>

Appended(s) ==   \* mutant: the list is not sorted again
  /\ s \notin members
  /\ members' = members \cup {s}
  /\ nodes' = [h \in DOMAIN nodes \cup points[s] |-> IF h \in points[s] THEN s ELSE nodes[h]]
  /\ sortedKeys' = sortedKeys \o SetToSeq(points[s])
  /\ UNCHANGED points

(* A point another shard has already is taken over.                        *)
AddNode(s) ==
  /\ s \notin members
  /\ members' = members \cup {s}
  /\ nodes' = [h \in DOMAIN nodes \cup points[s] |-> IF h \in points[s] THEN s ELSE nodes[h]]
  /\ sortedKeys' = Sorted(sortedKeys \o SetToSeq(points[s]))
  /\ UNCHANGED points

(* A point taken over is not given back.                                   *)
RemoveNode(s) ==
  LET kept == {h \in DOMAIN nodes : nodes[h] # s}
  IN /\ s \in members
     /\ members' = members \ {s}
     /\ nodes' = [h \in kept |-> nodes[h]]
     /\ sortedKeys' = Sorted(SetToSeq(kept))
     /\ UNCHANGED points

Next == \E s \in Shards : AddNode(s) \/ RemoveNode(s)

Spec == Init /\ [][Next]_vars

(* sort.Search over 0..n-1: the least index where the condition holds, by  *)
(* bisection, n if none was found.                                         *)
bisection(n, holds) ==
  LET f[range \in (0..n) \X (0..n)] ==
        LET lo == range[1]
            hi == range[2]
            mid == (lo + hi) \div 2
        IN IF lo >= hi THEN lo
           ELSE IF mid \in holds THEN f[<<lo, mid>>] ELSE f[<<mid + 1, hi>>]
  IN f
Search(n, holds) == bisection(n, holds)[<<0, n>>]

(* The owner of a key with this hash.                                      *)
GetNode(hash) ==
  IF sortedKeys = <<>> THEN Missing
  ELSE LET n == Len(sortedKeys)
           idx == Search(n, {i \in 0..n - 1 : sortedKeys[i + 1] >= hash})
           point == sortedKeys[(IF idx = n THEN 0 ELSE idx) + 1]
       IN IF point \in DOMAIN nodes THEN nodes[point] ELSE Missing

-----------------------------------------------------------------------------
TypeOK ==
  /\ points \in [Shards -> SUBSET Hashes] /\ members \subseteq Shards
  /\ DOMAIN nodes \subseteq Hashes /\ \A h \in DOMAIN nodes : nodes[h] \in members
  /\ \A i \in DOMAIN sortedKeys : sortedKeys[i] \in Hashes

Owner == [h \in Hashes |-> GetNode(h)]

(* A key moves only to a shard that has come or from one that has gone,    *)
(* whatever points coincide (hasher.go:299, :317).                         *)
MovesLittle ==
  \A h \in Hashes : Owner'[h] # Owner[h] =>
    Owner'[h] \in members' \ members \/ Owner[h] \in (members \ members') \cup {Missing}
MinimalMove == [][MovesLittle]_vars

(* Every key's owner is a member as long as the ring has a point.          *)
OwnersAreMembers == sortedKeys # <<>> => \A h \in Hashes : GetNode(h) \in members

(* Refuted: a ring with members has points.  A shard all of whose points   *)
(* were taken over by one removed since has none.                          *)
MembersHavePoints == \A s \in members : \E h \in DOMAIN nodes : nodes[h] = s
=============================================================================

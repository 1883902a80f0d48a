--------------------------- MODULE RebalancerProofs ---------------------------
(***************************************************************************)
(* For any number of operators, shards, virtual shards and epochs: the     *)
(* types, EpochValid, AtomicTransitions and KeepsAssigned of the           *)
(* coordinator; for any ring of hashes, shards and points: MinimalMove and *)
(* OwnersAreMembers; for any prime table size and any number of backends:  *)
(* FillsInTime; for any shards, samples and loads: DistributionRight of the*)
(* detector and SharesFollowLoad of the virtual shards.                    *)
(*                                                                         *)
(* EpochValid is carried by Validated: an epoch an operator is about to    *)
(* install is one that validateEpoch has accepted, and no step between the *)
(* two changes it.  AtomicTransitions and KeepsAssigned are carried by     *)
(* FreshInv: the plan and the edited copy of an operator that is not       *)
(* outdated are of the current epoch, so that what it installs is that     *)
(* epoch with its own edit, and the edit loses no virtual shard because    *)
(* the pieces of a split cover what is split (PiecesCover).                *)
(*                                                                         *)
(* The ring's theorems are carried by RingInv: the list the lookup         *)
(* searches is sorted and holds just the points of the map.  So what the   *)
(* bisection finds is the first point from the key on (Lookup), and that   *)
(* is a matter of the set of points only.  The Maglev table's is carried   *)
(* by Walked: a backend has looked at one slot for each of its turns, and  *)
(* every slot it has looked at is taken.  The steps of a backend miss no   *)
(* slot because the size is a prime (AllReached).                          *)
(*                                                                         *)
(* The detector's and the virtual shards' theorems rest on sums over finite*)
(* sets.  Induction is a minimal counterexample among the subsets, or the  *)
(* prefixes of a list.  The Gini coefficient is the sum of the gaps between*)
(* any two loads (GapsAddUp): the next larger load adds its gaps to all    *)
(* those before it (GapsToLargest).  A plan's shares add up because the    *)
(* last shard gets what the others leave (ServedSum), and the table laid   *)
(* out from them keeps the count of every shard through each swap of the   *)
(* shuffle (LaidRight, ShuffleKeeps).                                      *)
(***************************************************************************)
EXTENDS Rebalancer, Sequences, FiniteSetTheorems, WellFoundedInduction, TLAPS

Shaped ==
  operator = [o \in Operators |-> [pc |-> operator[o].pc, plan |-> operator[o].plan,
                                   next |-> operator[o].next]]

Validated ==
  \A o \in Operators : operator[o].pc = "install" => validateEpoch(operator[o].next)

ValidInv == Shaped /\ Validated /\ validateEpoch(currentEpoch)

(* The start-up configuration would pass validateEpoch.                    *)
LEMMA FirstEpochValid == validateEpoch(FirstEpoch)
<1>1. FirstEpoch.live = DOMAIN InitialShards
  BY DEF FirstEpoch
<1>2. \A s \in FirstEpoch.live : FirstEpoch.shards[s] = InitialShards[s]
  BY CoordinatorAssumption DEF FirstEpoch, CoordinatorAssumption
<1>3. AssignedOnce(FirstEpoch)
  BY <1>1, <1>2, CoordinatorAssumption DEF AssignedOnce, CoordinatorAssumption
<1>4. ASSUME NEW v \in Virtual PROVE FirstEpoch.where[v] \in FirstEpoch.live
  <2>1. FirstEpoch.where[v] =
          CHOOSE s \in DOMAIN InitialShards : v \in Members(InitialShards[s])
    BY DEF FirstEpoch
  <2>2. \E s \in DOMAIN InitialShards : v \in Members(InitialShards[s])
    BY CoordinatorAssumption DEF CoordinatorAssumption
  <2> QED BY <1>1, <2>1, <2>2
<1> QED BY <1>3, <1>4 DEF validateEpoch, TargetsExist

(* A step that gives one operator a new record, which at "install" holds a *)
(* validated epoch, keeps the operators' part of the invariant.            *)
LEMMA OperatorStep ==
  ASSUME Shaped, Validated, NEW o \in Operators, NEW p, NEW q, NEW n,
         Becomes(o, p, q, n),
         p = "install" => validateEpoch(n)
  PROVE  Shaped' /\ Validated'
<1>1. operator' = [d \in Operators |-> IF d = o THEN [pc |-> p, plan |-> q, next |-> n]
                                       ELSE operator[d]]
  BY DEF Shaped, Becomes
<1>2. \A d \in Operators : operator'[d] = IF d = o THEN [pc |-> p, plan |-> q, next |-> n]
                                          ELSE operator[d]
  BY <1>1
<1>3. \A d \in Operators : operator[d] = [pc |-> operator[d].pc, plan |-> operator[d].plan,
                                          next |-> operator[d].next]
  BY DEF Shaped
<1>4. Validated'
  BY <1>2 DEF Validated, validateEpoch, AssignedOnce, TargetsExist
<1>5. \A d \in Operators : operator'[d] = [pc |-> operator'[d].pc, plan |-> operator'[d].plan,
                                           next |-> operator'[d].next]
  BY <1>2, <1>3
<1>6. Shaped'
  BY <1>1, <1>5 DEF Shaped
<1> QED BY <1>4, <1>6

(* One case per action: only Install changes the epoch, and it installs    *)
(* what Accept validated.                                                  *)
LEMMA ValidStep == ValidInv /\ [Next]_vars => ValidInv'
<1> SUFFICES ASSUME ValidInv, [Next]_vars PROVE ValidInv'
  OBVIOUS
<1> USE DEF ValidInv
<1> DEFINE OnlyOperator(o, p, q, n) ==
      /\ Becomes(o, p, q, n)
      /\ p = "install" => validateEpoch(n)
      /\ UNCHANGED currentEpoch
<1>1. ASSUME NEW o \in Operators, NEW p, NEW q, NEW n, OnlyOperator(o, p, q, n)
      PROVE ValidInv'
  <2>1. Shaped' /\ Validated'
    BY <1>1, OperatorStep
  <2> QED BY <1>1, <2>1 DEF validateEpoch, AssignedOnce, TargetsExist
<1>2. ASSUME NEW o \in Operators, NEW p, p # "install", NEW q, Planned(o, p, q)
      PROVE ValidInv'
  <2>1. OnlyOperator(o, p, q, operator[o].next)
    BY <1>2 DEF Planned
  <2> QED BY <1>1, <2>1
<1>3. ASSUME NEW o \in Operators, Plan(o) PROVE ValidInv'
  <2>1. CASE GetNextShardID(o)
    <3>1. PICK q : OnlyOperator(o, "planned", q, operator[o].next)
      BY <2>1 DEF GetNextShardID
    <3> QED BY <1>1, <3>1
  <2>2. ASSUME NEW s \in ShardIds, NEW n \in SplitCounts, PlanShardSplit(o, s, n)
        PROVE ValidInv'
    BY <1>2, <2>2 DEF PlanShardSplit
  <2>3. ASSUME NEW s \in ShardIds, NEW t \in ShardIds, PlanShardMerge(o, s, t)
        PROVE ValidInv'
    BY <1>2, <2>3 DEF PlanShardMerge
  <2>4. ASSUME NEW s \in ShardIds, NEW t \in ShardIds, WriteMergePlan(o, s, t)
        PROVE ValidInv'
    BY <1>2, <2>4 DEF WriteMergePlan
  <2> QED BY <1>3, <2>1, <2>2, <2>3, <2>4 DEF Plan
<1>4. ASSUME NEW o \in Operators, Execute(o) PROVE ValidInv'
  <2>1. CASE prepareNewEpoch(o)
    <3>1. OnlyOperator(o, "edit", operator[o].plan, [currentEpoch EXCEPT !.number = epochCounter + 1])
      BY <2>1 DEF prepareNewEpoch
    <3> QED BY <1>1, <3>1
  <2>2. CASE EditSplit(o)
    <3>1. OnlyOperator(o, "validate", operator[o].plan,
                       SplitEpoch(operator[o].next, operator[o].plan))
      BY <2>2 DEF EditSplit
    <3> QED BY <1>1, <3>1
  <2>3. CASE EditMerge(o)
    <3>1. PICK n : OnlyOperator(o, "validate", operator[o].plan, n)
      BY <2>3 DEF EditMerge
    <3> QED BY <1>1, <3>1
  <2>4. CASE Reject(o)
    <3>1. OnlyOperator(o, "idle", NoPlan, FirstEpoch)
      BY <2>4 DEF Reject
    <3> QED BY <1>1, <3>1
  <2>5. CASE Accept(o)
    <3>1. OnlyOperator(o, "install", operator[o].plan, operator[o].next)
      BY <2>5 DEF Accept
    <3> QED BY <1>1, <3>1
  <2>6. CASE Install(o)
    <3>1. validateEpoch(operator[o].next)
      BY <2>6 DEF Install, At, Validated
    <3>2. Becomes(o, "idle", NoPlan, FirstEpoch) /\ currentEpoch' = operator[o].next
      BY <2>6 DEF Install
    <3>3. Shaped' /\ Validated'
      BY <3>2, OperatorStep
    <3>4. validateEpoch(currentEpoch)'
      BY <3>1, <3>2 DEF validateEpoch, AssignedOnce, TargetsExist
    <3> QED BY <3>3, <3>4
  <2> QED BY <1>4, <2>1, <2>2, <2>3, <2>4, <2>5, <2>6 DEF Execute
<1>5. CASE UNCHANGED vars
  <2>1. Shaped'
    BY <1>5 DEF vars, Shaped
  <2>2. Validated'
    BY <1>5 DEF vars, Validated, validateEpoch, AssignedOnce, TargetsExist
  <2>3. validateEpoch(currentEpoch)'
    BY <1>5 DEF vars, validateEpoch, AssignedOnce, TargetsExist
  <2> QED BY <2>1, <2>2, <2>3
<1> QED BY <1>3, <1>4, <1>5 DEF Next

LEMMA ValidStart == Init => ValidInv
<1> SUFFICES ASSUME Init PROVE ValidInv
  OBVIOUS
<1>1. \A o \in Operators : operator[o] = [pc |-> "idle", plan |-> NoPlan, next |-> FirstEpoch]
  BY DEF Init, Unplanned
<1>2. Shaped
  BY <1>1 DEF Init, Shaped
<1>3. Validated
  BY <1>1 DEF Validated
<1>4. validateEpoch(currentEpoch)
  BY FirstEpochValid DEF Init
<1> QED BY <1>2, <1>3, <1>4 DEF ValidInv

(* However the operators interleave, the current epoch assigns no virtual  *)
(* shard twice and maps none to a shard it does not have (validateEpoch,   *)
(* transitionToEpoch).                                                     *)
THEOREM EpochsValid == Spec => []EpochValid
<1>1. ValidInv => EpochValid
  BY DEF ValidInv, EpochValid, validateEpoch
<1> QED BY <1>1, ValidStart, ValidStep, PTL DEF Spec

-----------------------------------------------------------------------------
(* Epochs, numbers, pieces of a list.                                      *)

LEMMA EpochEdit ==
  ASSUME NEW e \in Epochs, NEW l, NEW s, NEW w
  PROVE  [e EXCEPT !.live = l, !.shards = s, !.where = w] =
           [number |-> e.number, live |-> l, shards |-> s, where |-> w]
<1> DEFINE a == [e EXCEPT !.live = l]
           b == [a EXCEPT !.shards = s]
<1>1. e = [number |-> e.number, live |-> e.live, shards |-> e.shards, where |-> e.where]
  BY DEF Epochs
<1>2. a = [number |-> e.number, live |-> l, shards |-> e.shards, where |-> e.where]
  BY <1>1
<1> HIDE DEF a
<1>3. b = [number |-> e.number, live |-> l, shards |-> s, where |-> e.where]
  BY <1>2
<1> HIDE DEF b
<1>4. [b EXCEPT !.where = w] = [number |-> e.number, live |-> l, shards |-> s, where |-> w]
  BY <1>3
<1> QED BY <1>4, Zenon DEF a, b

LEMMA Division ==
  ASSUME NEW a \in Nat, NEW b \in Nat \ {0}
  PROVE  a \div b \in Nat /\ a % b \in 0..b - 1 /\ a % b = a - b * (a \div b)
<1>1. a \div b \in Nat /\ a % b \in 0..b - 1
  OBVIOUS
<1>2. a % b = a - b * (a \div b)
  OBVIOUS
<1> QED BY <1>1, <1>2

LEMMA LeastOfNaturals ==
  ASSUME NEW T, T \subseteq Nat, T # {}
  PROVE  \E m \in T : \A n \in T : m <= n
<1> DEFINE R == {ss \in Nat \X Nat : ss[1] < ss[2]}
<1>1. IsWellFoundedOn(R, Nat)
  BY NatLessThanWellFounded DEF OpToRel
<1> HIDE DEF R
<1>2. PICK m \in T : \A n \in T : <<n, m>> \notin R
  BY <1>1, WFMin
<1>3. \A n \in T : ~(n < m)
  BY <1>2 DEF R
<1> QED BY <1>3

LEMMA LargestShard ==
  ASSUME NEW S \in SUBSET ShardIds, S # {}
  PROVE  Max(S) \in S /\ \A s \in S : s <= Max(S)
<1>1. MaxShard \in Nat
  BY CoordinatorAssumption DEF CoordinatorAssumption
<1> DEFINE D == {MaxShard - s : s \in S}
<1>2. PICK m \in D : \A n \in D : m <= n
  <2>1. D \subseteq Nat
    BY <1>1 DEF ShardIds
  <2>2. D # {}
    OBVIOUS
  <2> HIDE DEF D
  <2> QED BY <2>1, <2>2, LeastOfNaturals
<1>3. PICK x \in S : m = MaxShard - x
  BY <1>2
<1>4. \A s \in S : x >= s
  BY <1>1, <1>2, <1>3 DEF ShardIds
<1>5. \E y \in S : \A s \in S : y >= s
  BY <1>4
<1>6. Max(S) \in S /\ \A s \in S : Max(S) >= s
  BY <1>5 DEF Max
<1> QED BY <1>6, <1>1 DEF ShardIds

LEMMA PieceOf ==
  ASSUME NEW list \in Seq(Virtual), NEW m \in Nat, NEW n \in Nat, m <= n, n <= Len(list)
  PROVE  /\ SubSeq(list, m + 1, n) \in Seq(Virtual)
         /\ Members(SubSeq(list, m + 1, n)) = {list[k] : k \in m + 1..n}
<1>1. /\ SubSeq(list, m + 1, n) \in Seq(Virtual) /\ Len(SubSeq(list, m + 1, n)) = n - m
      /\ \A i \in 1..n - m : SubSeq(list, m + 1, n)[i] = list[m + i]
  OBVIOUS
<1>2. DOMAIN SubSeq(list, m + 1, n) = 1..n - m
  BY <1>1
<1>3. ASSUME NEW k \in m + 1..n PROVE k - m \in 1..n - m /\ list[k] = SubSeq(list, m + 1, n)[k - m]
  BY <1>1
<1>4. ASSUME NEW i \in 1..n - m PROVE m + i \in m + 1..n
  OBVIOUS
<1> DEFINE p == SubSeq(list, m + 1, n)
<1> HIDE DEF p
<1>5. Members(p) = {p[i] : i \in 1..n - m}
  BY <1>2 DEF Members, p
<1>6. {p[i] : i \in 1..n - m} = {list[k] : k \in m + 1..n}
  <2>1. \A i \in 1..n - m : p[i] = list[m + i]
    BY <1>1 DEF p
  <2>2. \A k \in m + 1..n : list[k] = p[k - m] /\ k - m \in 1..n - m
    BY <1>3 DEF p
  <2> QED BY <2>1, <2>2, <1>4
<1> QED BY <1>1, <1>5, <1>6 DEF p

(* Where the pieces before the k-th of n end.                              *)
Cut(list, n, k) ==
  LET extra == Len(list) % n
  IN k * (Len(list) \div n) + (IF k < extra THEN k ELSE extra)

LEMMA Cuts ==
  ASSUME NEW list \in Seq(Virtual), NEW n \in Nat \ {0}
  PROVE  /\ Cut(list, n, 0) = 0 /\ Cut(list, n, n) = Len(list)
         /\ \A k \in 0..n : Cut(list, n, k) \in 0..Len(list)
         /\ \A k \in 0..n - 1 : Cut(list, n, k) <= Cut(list, n, k + 1)
<1> DEFINE size == Len(list) \div n
           extra == Len(list) % n
<1>2. Len(list) \in Nat
  OBVIOUS
<1>1. size \in Nat /\ extra \in 0..n - 1 /\ extra = Len(list) - n * size
  <2> DEFINE length == Len(list)
  <2>1. length \in Nat
    BY <1>2
  <2> HIDE DEF length
  <2>2. length \div n \in Nat /\ length % n \in 0..n - 1 /\ length % n = length - n * (length \div n)
    BY <2>1, Division
  <2> QED BY <2>2 DEF length
<1>3. \A k : Cut(list, n, k) = k * size + (IF k < extra THEN k ELSE extra)
  BY DEF Cut
<1> HIDE DEF size, extra
<1>4. ASSUME NEW k \in 0..n
      PROVE k * size \in Nat /\ k * size <= n * size
  <2>1. k * size \in Nat /\ (n - k) * size \in Nat
    BY <1>1
  <2>2. n * size = k * size + (n - k) * size
    BY <1>1
  <2> QED BY <1>1, <2>1, <2>2
<1>5. \A k \in 0..n - 1 : (k + 1) * size = k * size + size
  BY <1>1
<1>6. n * size \in Nat /\ 0 * size = 0
  BY <1>1
<1>7. Cut(list, n, 0) = 0
  BY <1>1, <1>3, <1>6
<1>8. Cut(list, n, n) = Len(list)
  BY <1>1, <1>2, <1>3, <1>6
<1>9. ASSUME NEW k \in 0..n PROVE Cut(list, n, k) \in 0..Len(list)
  BY <1>1, <1>2, <1>3, <1>4, <1>6
<1>10. ASSUME NEW k \in 0..n - 1 PROVE Cut(list, n, k) <= Cut(list, n, k + 1)
  <2>1. k * size \in Nat /\ (k + 1) * size = k * size + size
    BY <1>4, <1>5
  <2>2. /\ Cut(list, n, k) = k * size + (IF k < extra THEN k ELSE extra)
        /\ Cut(list, n, k + 1) = (k + 1) * size + (IF k + 1 < extra THEN k + 1 ELSE extra)
    BY <1>3
  <2> DEFINE before == k * size
             rest == IF k < extra THEN k ELSE extra
             more == IF k + 1 < extra THEN k + 1 ELSE extra
  <2>3. before \in Nat /\ size \in Nat
    BY <1>1, <2>1
  <2>4. rest \in Nat /\ more \in Nat /\ rest <= more
    BY <1>1
  <2>5. Cut(list, n, k) = before + rest /\ Cut(list, n, k + 1) = before + size + more
    BY <2>1, <2>2
  <2> HIDE DEF before, rest, more
  <2> QED BY <2>3, <2>4, <2>5
<1> QED BY <1>7, <1>8, <1>9, <1>10

LEMMA PieceRange ==
  ASSUME NEW list \in Seq(Virtual), NEW n \in Nat \ {0}, NEW i \in 0..n - 1
  PROVE  /\ Piece(list, n, i) \in Seq(Virtual)
         /\ Members(Piece(list, n, i)) = {list[k] : k \in Cut(list, n, i) + 1..Cut(list, n, i + 1)}
<1>1. /\ Cut(list, n, i) \in 0..Len(list) /\ Cut(list, n, i + 1) \in 0..Len(list)
      /\ Cut(list, n, i) <= Cut(list, n, i + 1)
  BY Cuts
<1>2. Piece(list, n, i) = SubSeq(list, Cut(list, n, i) + 1, Cut(list, n, i + 1))
  BY DEF Piece, Cut
<1>3. Len(list) \in Nat
  OBVIOUS
<1> DEFINE from == Cut(list, n, i)
           to == Cut(list, n, i + 1)
<1>4. from \in Nat /\ to \in Nat /\ from <= to /\ to <= Len(list)
  BY <1>1, <1>3
<1> HIDE DEF from, to
<1>5. /\ SubSeq(list, from + 1, to) \in Seq(Virtual)
      /\ Members(SubSeq(list, from + 1, to)) = {list[k] : k \in from + 1..to}
  BY <1>4, PieceOf
<1> QED BY <1>2, <1>5 DEF from, to

(* The pieces have the members of the list, and nothing else.              *)
LEMMA PiecesCover ==
  ASSUME NEW list \in Seq(Virtual), NEW n \in Nat \ {0}
  PROVE  /\ \A i \in 0..n - 1 : Members(Piece(list, n, i)) \subseteq Members(list)
         /\ \A v \in Members(list) : \E i \in 0..n - 1 : v \in Members(Piece(list, n, i))
<1>1. Len(list) \in Nat /\ Members(list) = {list[k] : k \in 1..Len(list)}
  BY DEF Members
<1>2. ASSUME NEW i \in 0..n - 1 PROVE Members(Piece(list, n, i)) \subseteq Members(list)
  <2>1. /\ Cut(list, n, i) \in 0..Len(list) /\ Cut(list, n, i + 1) \in 0..Len(list)
    BY Cuts
  <2>2. Cut(list, n, i) + 1..Cut(list, n, i + 1) \subseteq 1..Len(list)
    BY <2>1
  <2>3. Members(Piece(list, n, i)) = {list[k] : k \in Cut(list, n, i) + 1..Cut(list, n, i + 1)}
    BY PieceRange
  <2> QED BY <1>1, <2>2, <2>3
<1>3. ASSUME NEW k \in 1..Len(list)
      PROVE \E i \in 0..n - 1 : list[k] \in Members(Piece(list, n, i))
  <2> DEFINE Past == {i \in 0..n : k <= Cut(list, n, i)}
  <2>1. Past \subseteq Nat /\ n \in Past
    <3>1. Cut(list, n, n) = Len(list) /\ n \in 0..n /\ k <= Len(list)
      BY <1>1, Cuts
    <3> QED BY <3>1
  <2>2. PICK m \in Past : \A i \in Past : m <= i
    <3> HIDE DEF Past
    <3> QED BY <2>1, LeastOfNaturals
  <2>3. m # 0
    BY <1>1, Cuts
  <2>4. m - 1 \in 0..n - 1 /\ m - 1 \notin Past /\ k <= Cut(list, n, m)
    BY <2>2, <2>3
  <2>5. Cut(list, n, m - 1) < k /\ (m - 1) + 1 = m
    BY <1>1, <2>4, Cuts
  <2>6. Cut(list, n, m) \in Nat /\ Cut(list, n, m - 1) \in Nat
    BY <1>1, <2>4, Cuts
  <2>7. k \in Cut(list, n, m - 1) + 1..Cut(list, n, m)
    BY <2>4, <2>5, <2>6
  <2>8. Members(Piece(list, n, m - 1)) = {list[j] : j \in Cut(list, n, m - 1) + 1..Cut(list, n, m)}
    BY <2>4, <2>5, PieceRange
  <2> HIDE DEF Past
  <2>9. list[k] \in Members(Piece(list, n, m - 1))
    BY <2>7, <2>8
  <2> QED BY <2>4, <2>9
<1> QED BY <1>1, <1>2, <1>3
-----------------------------------------------------------------------------
Labels == {"idle", "number", "planned", "edit", "validate", "install"}

(* A split has one source and its new shards' numbers are in range; a      *)
(* merge has two sources; who is idle has no plan.                         *)
PlanShaped(pc, p) ==
  /\ pc = "idle" => p = NoPlan
  /\ pc = "number" => p.kind = "split"
  /\ pc \notin {"idle", "number"} => p.kind \in {"split", "merge"}
  /\ p.kind = "split" =>
       /\ p.sources \in [1..1 -> ShardIds] /\ p.count \in Nat \ {0}
       /\ pc # "number" => p.first + p.count - 1 <= MaxShard
  /\ p.kind = "merge" => p.sources \in [1..2 -> ShardIds]
PlansShaped == \A o \in Operators : PlanShaped(operator[o].pc, operator[o].plan)

TypeInv == TypeOK /\ PlansShaped

LEMMA FirstTyped == FirstEpoch \in Epochs /\ FirstEpoch.number = 1
<1>1. \A v \in Virtual :
        (CHOOSE s \in DOMAIN InitialShards : v \in Members(InitialShards[s])) \in ShardIds
  BY CoordinatorAssumption DEF CoordinatorAssumption
<1>2. \A s \in DOMAIN InitialShards : InitialShards[s] \in Seq(Virtual)
  BY CoordinatorAssumption DEF CoordinatorAssumption
<1>3. DOMAIN InitialShards \in SUBSET ShardIds
  BY CoordinatorAssumption DEF CoordinatorAssumption
<1>4. [s \in ShardIds |-> IF s \in DOMAIN InitialShards THEN InitialShards[s] ELSE <<>>] \in Lists
  BY <1>2 DEF Lists
<1> QED BY <1>1, <1>3, <1>4 DEF FirstEpoch, Epochs

LEMMA NoPlanTyped == NoPlan \in Plans /\ PlanShaped("idle", NoPlan)
BY DEF NoPlan, Plans, PlanShaped

(* What an edit makes of the fields of an epoch.                           *)
NewShards(p) == p.first..p.first + p.count - 1
PieceFor(p, s) == Piece(p.list, p.count, s - p.first)
Homes(p, v) == {s \in NewShards(p) : v \in Members(PieceFor(p, s))}
SplitLive(e, p) == (e.live \cup NewShards(p)) \ {p.sources[1]}
SplitLists(e, p) ==
  [s \in ShardIds |-> IF s \in NewShards(p) THEN PieceFor(p, s)
                      ELSE IF s = p.sources[1] THEN <<>> ELSE e.shards[s]]
SplitPlaces(e, p) ==
  [v \in Virtual |-> IF Homes(p, v) = {} THEN e.where[v] ELSE CHOOSE s \in Homes(p, v) : TRUE]

LEMMA SplitFields ==
  ASSUME NEW e \in Epochs, NEW p
  PROVE  SplitEpoch(e, p) = [number |-> e.number, live |-> SplitLive(e, p),
                             shards |-> SplitLists(e, p), where |-> SplitPlaces(e, p)]
<1>1. [e EXCEPT !.live = SplitLive(e, p), !.shards = SplitLists(e, p), !.where = SplitPlaces(e, p)] =
        [number |-> e.number, live |-> SplitLive(e, p),
         shards |-> SplitLists(e, p), where |-> SplitPlaces(e, p)]
  BY EpochEdit
<1> QED
  BY <1>1, Zenon DEF SplitEpoch, SplitLive, SplitLists, SplitPlaces, Homes, PieceFor, NewShards

MergeLive(e, s, t) == (e.live \cup {s}) \ {t}
MergeLists(e, list, s, t) == [e.shards EXCEPT ![t] = <<>>, ![s] = list]
MergePlaces(e, list, s) == [v \in Virtual |-> IF v \in Members(list) THEN s ELSE e.where[v]]

LEMMA MergeFields ==
  ASSUME NEW e \in Epochs, NEW list, NEW s, NEW t
  PROVE  MergedEpoch(e, list, s, t) =
           [number |-> e.number, live |-> MergeLive(e, s, t),
            shards |-> MergeLists(e, list, s, t), where |-> MergePlaces(e, list, s)]
<1>1. [e EXCEPT !.live = MergeLive(e, s, t), !.shards = MergeLists(e, list, s, t),
                !.where = MergePlaces(e, list, s)] =
        [number |-> e.number, live |-> MergeLive(e, s, t),
         shards |-> MergeLists(e, list, s, t), where |-> MergePlaces(e, list, s)]
  BY EpochEdit
<1> QED BY <1>1, Zenon DEF MergedEpoch, MergeLive, MergeLists, MergePlaces

LEMMA SplitTyped ==
  ASSUME NEW e \in Epochs, NEW p \in Plans, PlanShaped("edit", p), p.kind = "split"
  PROVE  SplitEpoch(e, p) \in Epochs
<1>1. /\ p.first \in Nat /\ p.count \in Nat \ {0} /\ p.list \in Seq(Virtual)
      /\ p.first + p.count - 1 <= MaxShard /\ MaxShard \in Nat
  BY CoordinatorAssumption DEF Plans, PlanShaped, CoordinatorAssumption
<1>2. NewShards(p) \subseteq ShardIds
  BY <1>1 DEF ShardIds, NewShards
<1>3. ASSUME NEW s \in NewShards(p) PROVE PieceFor(p, s) \in Seq(Virtual)
  <2>1. s - p.first \in 0..p.count - 1
    BY <1>1 DEF NewShards
  <2> QED BY <1>1, <2>1, PieceRange DEF PieceFor
<1>4. e.number \in Nat /\ e.live \subseteq ShardIds /\ e.shards \in Lists /\ e.where \in [Virtual -> ShardIds]
  BY DEF Epochs
<1>5. SplitLists(e, p) \in Lists
  BY <1>3, <1>4 DEF Lists, SplitLists
<1>6. SplitPlaces(e, p) \in [Virtual -> ShardIds]
  <2>1. \A v : Homes(p, v) \subseteq ShardIds
    BY <1>2 DEF Homes
  <2> QED BY <1>4, <2>1 DEF SplitPlaces
<1>7. SplitLive(e, p) \in SUBSET ShardIds
  BY <1>2, <1>4 DEF SplitLive
<1> QED BY <1>4, <1>5, <1>6, <1>7, SplitFields DEF Epochs

LEMMA MergeTyped ==
  ASSUME NEW e \in Epochs, NEW list \in Seq(Virtual), NEW s \in ShardIds, NEW t \in ShardIds
  PROVE  MergedEpoch(e, list, s, t) \in Epochs
<1>1. e.number \in Nat /\ e.live \subseteq ShardIds /\ e.shards \in Lists /\ e.where \in [Virtual -> ShardIds]
  BY DEF Epochs
<1> DEFINE a == [e.shards EXCEPT ![t] = <<>>]
<1>2. a \in Lists
  BY <1>1 DEF Lists
<1> HIDE DEF a
<1>3. [a EXCEPT ![s] = list] \in Lists
  BY <1>2 DEF Lists
<1>4. MergeLists(e, list, s, t) \in Lists
  BY <1>3, Zenon DEF a, MergeLists
<1>5. MergePlaces(e, list, s) \in [Virtual -> ShardIds]
  BY <1>1 DEF MergePlaces
<1>6. MergeLive(e, s, t) \in SUBSET ShardIds
  BY <1>1 DEF MergeLive
<1> QED BY <1>1, <1>4, <1>5, <1>6, MergeFields DEF Epochs

LEMMA OperatorTyped ==
  ASSUME TypeInv, NEW o \in Operators, NEW pc \in Labels, NEW p \in Plans, NEW n \in Epochs,
         PlanShaped(pc, p), Becomes(o, pc, p, n)
  PROVE  /\ operator' \in [Operators -> [pc : Labels, plan : Plans, next : Epochs]]
         /\ PlansShaped'
<1>1. operator \in [Operators -> [pc : Labels, plan : Plans, next : Epochs]]
  BY DEF TypeInv, TypeOK, Labels
<1> DEFINE record == [pc |-> pc, plan |-> p, next |-> n]
<1>2. record \in [pc : Labels, plan : Plans, next : Epochs] /\ record.pc = pc /\ record.plan = p
  OBVIOUS
<1>3. operator' = [operator EXCEPT ![o] = record]
  BY DEF Becomes
<1> HIDE DEF record
<1>4. operator' \in [Operators -> [pc : Labels, plan : Plans, next : Epochs]]
  BY <1>1, <1>2, <1>3
<1>5. ASSUME NEW d \in Operators PROVE PlanShaped(operator'[d].pc, operator'[d].plan)
  <2>1. CASE d = o
    BY <1>1, <1>2, <1>3, <2>1
  <2>2. CASE d # o
    <3>1. operator'[d] = operator[d]
      BY <1>1, <1>3, <2>2
    <3> QED BY <3>1 DEF TypeInv, PlansShaped
  <2> QED BY <2>1, <2>2
<1> QED BY <1>4, <1>5 DEF PlansShaped

(* What is known of an operator.                                           *)
LEMMA OperatorHas ==
  ASSUME TypeInv, NEW o \in Operators
  PROVE  /\ operator[o].plan \in Plans /\ operator[o].next \in Epochs /\ operator[o].pc \in Labels
         /\ operator[o] = [pc |-> operator[o].pc, plan |-> operator[o].plan,
                           next |-> operator[o].next]
         /\ PlanShaped(operator[o].pc, operator[o].plan)
<1>1. operator[o] \in [pc : Labels, plan : Plans, next : Epochs]
  BY DEF TypeInv, TypeOK, Labels
<1> QED BY <1>1 DEF TypeInv, PlansShaped

(* The plan of a split or a merge as it is made.                           *)
LEMMA SplitPlan ==
  ASSUME NEW s, NEW list, NEW n
  PROVE  [NoPlan EXCEPT !.kind = "split", !.sources = <<s>>, !.list = list, !.count = n] =
           [kind |-> "split", sources |-> <<s>>, list |-> list, count |-> n, first |-> 0]
<1> DEFINE one == <<s>>
           a == [NoPlan EXCEPT !.kind = "split"]
           b == [a EXCEPT !.sources = one]
           c == [b EXCEPT !.list = list]
<1> HIDE DEF one
<1>1. a = [kind |-> "split", sources |-> <<>>, list |-> <<>>, count |-> 0, first |-> 0]
  BY DEF NoPlan
<1> HIDE DEF a
<1>2. b = [kind |-> "split", sources |-> one, list |-> <<>>, count |-> 0, first |-> 0]
  BY <1>1
<1> HIDE DEF b
<1>3. c = [kind |-> "split", sources |-> one, list |-> list, count |-> 0, first |-> 0]
  BY <1>2
<1> HIDE DEF c
<1>4. [c EXCEPT !.count = n] =
        [kind |-> "split", sources |-> one, list |-> list, count |-> n, first |-> 0]
  BY <1>3
<1> QED BY <1>4, Zenon DEF a, b, c, one

LEMMA MergePlan ==
  ASSUME NEW s, NEW t
  PROVE  [NoPlan EXCEPT !.kind = "merge", !.sources = <<s, t>>] =
           [kind |-> "merge", sources |-> <<s, t>>, list |-> <<>>, count |-> 0, first |-> 0]
<1> DEFINE two == <<s, t>>
           a == [NoPlan EXCEPT !.kind = "merge"]
<1> HIDE DEF two
<1>1. a = [kind |-> "merge", sources |-> <<>>, list |-> <<>>, count |-> 0, first |-> 0]
  BY DEF NoPlan
<1> HIDE DEF a
<1>2. [a EXCEPT !.sources = two] =
        [kind |-> "merge", sources |-> two, list |-> <<>>, count |-> 0, first |-> 0]
  BY <1>1
<1> QED BY <1>2, Zenon DEF a, two

LEMMA NumberedPlan ==
  ASSUME NEW p \in Plans, NEW f
  PROVE  [p EXCEPT !.first = f] =
           [kind |-> p.kind, sources |-> p.sources, list |-> p.list, count |-> p.count, first |-> f]
BY DEF Plans

LEMMA PlanMade ==
  ASSUME TypeInv, NEW o \in Operators, NEW pc \in Labels, NEW p \in Plans, PlanShaped(pc, p),
         Planned(o, pc, p)
  PROVE  TypeInv'
<1>1. Becomes(o, pc, p, operator[o].next) /\ UNCHANGED <<currentEpoch, epochCounter, assignments>>
  BY DEF Planned
<1>2. /\ operator' \in [Operators -> [pc : Labels, plan : Plans, next : Epochs]]
      /\ PlansShaped'
  BY <1>1, OperatorHas, OperatorTyped
<1> QED BY <1>1, <1>2 DEF TypeInv, TypeOK, Labels

LEMMA PlanTyped ==
  ASSUME TypeInv, NEW o \in Operators, Plan(o)
  PROVE  TypeInv'
<1>1. ASSUME NEW s \in ShardIds, NEW n \in SplitCounts, PlanShardSplit(o, s, n) PROVE TypeInv'
  <2> DEFINE p == [NoPlan EXCEPT !.kind = "split", !.sources = <<s>>,
                                 !.list = assignments.shards[s], !.count = n]
  <2>1. p = [kind |-> "split", sources |-> <<s>>, list |-> assignments.shards[s], count |-> n, first |-> 0]
    BY SplitPlan
  <2>2. s \in assignments.live /\ Planned(o, "number", p)
    BY <1>1 DEF PlanShardSplit
  <2> HIDE DEF p
  <2>3. assignments.shards[s] \in Seq(Virtual)
    BY <2>2 DEF TypeInv, TypeOK, Epochs, Lists
  <2>4. n \in Nat \ {0}
    BY CoordinatorAssumption DEF CoordinatorAssumption
  <2>5. p \in Plans /\ PlanShaped("number", p)
    BY <2>1, <2>3, <2>4 DEF Plans, PlanShaped
  <2> QED BY <2>2, <2>5, PlanMade DEF Labels
<1>2. ASSUME NEW s \in ShardIds, NEW t \in ShardIds, PlanShardMerge(o, s, t) \/ WriteMergePlan(o, s, t)
      PROVE TypeInv'
  <2> DEFINE p == [NoPlan EXCEPT !.kind = "merge", !.sources = <<s, t>>]
  <2>1. p = [kind |-> "merge", sources |-> <<s, t>>, list |-> <<>>, count |-> 0, first |-> 0]
    BY MergePlan
  <2>2. Planned(o, "planned", p)
    BY <1>2 DEF PlanShardMerge, WriteMergePlan
  <2> HIDE DEF p
  <2>3. p \in Plans /\ PlanShaped("planned", p)
    BY <2>1 DEF Plans, PlanShaped
  <2> QED BY <2>2, <2>3, PlanMade DEF Labels
<1>3. CASE GetNextShardID(o)
  <2> DEFINE first == NextShardID(assignments.live)
             p == [operator[o].plan EXCEPT !.first = first]
  <2>1. /\ At(o, "number") /\ first + operator[o].plan.count - 1 <= MaxShard
        /\ Becomes(o, "planned", p, operator[o].next)
        /\ UNCHANGED <<currentEpoch, epochCounter, assignments>>
    BY <1>3 DEF GetNextShardID
  <2>2. first \in Nat
    <3>1. assignments.live \in SUBSET ShardIds
      BY DEF TypeInv, TypeOK, Epochs
    <3>2. CASE assignments.live = {}
      BY <3>2 DEF NextShardID
    <3>3. CASE assignments.live # {}
      <4>1. Max(assignments.live) \in ShardIds
        BY <3>1, <3>3, LargestShard
      <4> QED BY <3>3, <4>1 DEF NextShardID, ShardIds
    <3> QED BY <3>2, <3>3
  <2> HIDE DEF first
  <2>3. p = [kind |-> operator[o].plan.kind, sources |-> operator[o].plan.sources,
             list |-> operator[o].plan.list, count |-> operator[o].plan.count, first |-> first]
    BY OperatorHas, NumberedPlan
  <2> HIDE DEF p
  <2>4. p \in Plans /\ PlanShaped("planned", p)
    BY <2>1, <2>2, <2>3, OperatorHas DEF Plans, PlanShaped, At
  <2>5. /\ operator' \in [Operators -> [pc : Labels, plan : Plans, next : Epochs]]
        /\ PlansShaped'
    BY <2>1, <2>4, OperatorHas, OperatorTyped DEF Labels
  <2> QED BY <2>1, <2>5 DEF TypeInv, TypeOK, Labels
<1> QED BY <1>1, <1>2, <1>3 DEF Plan

(* A copy of the current epoch with the next number.                       *)
Renewed == [currentEpoch EXCEPT !.number = currentEpoch.number + 1]

LEMMA RenewedFields ==
  ASSUME TypeInv
  PROVE  /\ Renewed \in Epochs /\ Renewed.number = currentEpoch.number + 1
         /\ Renewed.live = currentEpoch.live /\ Renewed.shards = currentEpoch.shards
         /\ Renewed.where = currentEpoch.where
         /\ Renewed = [currentEpoch EXCEPT !.number = epochCounter + 1]
BY DEF Renewed, TypeInv, TypeOK, Epochs

LEMMA ExecuteTyped ==
  ASSUME TypeInv, NEW o \in Operators, Execute(o)
  PROVE  TypeInv'
<1>0. /\ operator[o].plan \in Plans /\ operator[o].next \in Epochs
      /\ PlanShaped(operator[o].pc, operator[o].plan)
  BY OperatorHas
<1>1. ASSUME NEW pc \in Labels, NEW p \in Plans, NEW n \in Epochs, PlanShaped(pc, p),
             Becomes(o, pc, p, n), UNCHANGED <<currentEpoch, epochCounter, assignments>>
      PROVE TypeInv'
  <2>1. /\ operator' \in [Operators -> [pc : Labels, plan : Plans, next : Epochs]]
        /\ PlansShaped'
    BY <1>1, OperatorTyped
  <2> QED BY <1>1, <2>1 DEF TypeInv, TypeOK, Labels
<1>2. CASE prepareNewEpoch(o)
  <2>1. /\ At(o, "planned") /\ Becomes(o, "edit", operator[o].plan, Renewed)
        /\ UNCHANGED <<currentEpoch, epochCounter, assignments>>
    BY <1>2, RenewedFields DEF prepareNewEpoch
  <2>2. PlanShaped("edit", operator[o].plan)
    BY <1>0, <2>1 DEF PlanShaped, At
  <2> QED BY <1>0, <1>1, <2>1, <2>2, RenewedFields DEF Labels
<1>3. CASE EditSplit(o)
  <2>1. /\ At(o, "edit") /\ operator[o].plan.kind = "split"
        /\ Becomes(o, "validate", operator[o].plan, SplitEpoch(operator[o].next, operator[o].plan))
        /\ UNCHANGED <<currentEpoch, epochCounter, assignments>>
    BY <1>3 DEF EditSplit
  <2>2. PlanShaped("edit", operator[o].plan) /\ PlanShaped("validate", operator[o].plan)
    BY <1>0, <2>1 DEF PlanShaped, At
  <2>3. SplitEpoch(operator[o].next, operator[o].plan) \in Epochs
    BY <1>0, <2>1, <2>2, SplitTyped
  <2> QED BY <1>0, <1>1, <2>1, <2>2, <2>3 DEF Labels
<1>4. CASE EditMerge(o)
  <2> DEFINE s == operator[o].plan.sources[1]
             t == operator[o].plan.sources[2]
             list == currentEpoch.shards[s] \o currentEpoch.shards[t]
  <2>1. /\ At(o, "edit") /\ operator[o].plan.kind = "merge"
        /\ Becomes(o, "validate", operator[o].plan, MergedEpoch(operator[o].next, list, s, t))
        /\ UNCHANGED <<currentEpoch, epochCounter, assignments>>
    BY <1>4 DEF EditMerge
  <2>2. s \in ShardIds /\ t \in ShardIds /\ PlanShaped("validate", operator[o].plan)
    BY <1>0, <2>1 DEF PlanShaped, At
  <2>3. list \in Seq(Virtual)
    BY <2>2 DEF TypeInv, TypeOK, Epochs, Lists
  <2> HIDE DEF s, t, list
  <2>4. MergedEpoch(operator[o].next, list, s, t) \in Epochs
    BY <1>0, <2>2, <2>3, MergeTyped
  <2> QED BY <1>0, <1>1, <2>1, <2>2, <2>4 DEF Labels
<1>5. CASE Reject(o)
  <2>1. Becomes(o, "idle", NoPlan, FirstEpoch) /\ UNCHANGED <<currentEpoch, epochCounter, assignments>>
    BY <1>5 DEF Reject
  <2> QED BY <1>1, <2>1, FirstTyped, NoPlanTyped DEF Labels
<1>6. CASE Accept(o)
  <2>1. /\ At(o, "validate") /\ Becomes(o, "install", operator[o].plan, operator[o].next)
        /\ UNCHANGED <<currentEpoch, epochCounter, assignments>>
    BY <1>6 DEF Accept
  <2>2. PlanShaped("install", operator[o].plan)
    BY <1>0, <2>1 DEF PlanShaped, At
  <2> QED BY <1>0, <1>1, <2>1, <2>2 DEF Labels
<1>7. CASE Install(o)
  <2>1. /\ currentEpoch' = operator[o].next /\ epochCounter' = currentEpoch'.number
        /\ assignments' = [live |-> currentEpoch'.live, shards |-> currentEpoch'.shards]
        /\ Becomes(o, "idle", NoPlan, FirstEpoch)
    BY <1>7 DEF Install
  <2>2. /\ operator' \in [Operators -> [pc : Labels, plan : Plans, next : Epochs]]
        /\ PlansShaped'
    BY <2>1, OperatorTyped, FirstTyped, NoPlanTyped DEF Labels
  <2> QED BY <1>0, <2>1, <2>2 DEF TypeInv, TypeOK, Labels
<1> QED BY <1>2, <1>3, <1>4, <1>5, <1>6, <1>7 DEF Execute

LEMMA TypedStart == Init => TypeInv
<1> SUFFICES ASSUME Init PROVE TypeInv
  OBVIOUS
<1>1. operator = [o \in Operators |-> [pc |-> "idle", plan |-> NoPlan, next |-> FirstEpoch]]
  BY DEF Init, Unplanned
<1>2. operator \in [Operators -> [pc : Labels, plan : Plans, next : Epochs]] /\ PlansShaped
  BY <1>1, FirstTyped, NoPlanTyped DEF PlansShaped, Labels
<1> QED BY <1>2, FirstTyped DEF Init, TypeInv, TypeOK, Labels

LEMMA TypedStep == TypeInv /\ [Next]_vars => TypeInv'
<1> SUFFICES ASSUME TypeInv, [Next]_vars PROVE TypeInv'
  OBVIOUS
<1>1. CASE UNCHANGED vars
  BY <1>1 DEF vars, TypeInv, TypeOK, PlansShaped
<1> QED BY <1>1, PlanTyped, ExecuteTyped DEF Next

(* Every epoch, plan and copy is well formed for any number of operators,  *)
(* shards and epochs; the counter is the epoch's number, and the           *)
(* coordinator's own copy is empty or of the current epoch                 *)
(* (transitionToEpoch).                                                    *)
THEOREM TypeCorrect == Spec => []TypeOK
<1>1. TypeInv => TypeOK
  BY DEF TypeInv
<1> QED BY <1>1, TypedStart, TypedStep, PTL DEF Spec

-----------------------------------------------------------------------------
(* What an edit by plan p makes of the current epoch.                      *)
Edited(p) ==
  LET list == currentEpoch.shards[p.sources[1]] \o currentEpoch.shards[p.sources[2]]
  IN IF p.kind = "split" THEN SplitEpoch(Renewed, p)
     ELSE MergedEpoch(Renewed, list, p.sources[1], p.sources[2])

(* A copy that is not outdated is the current epoch, edited or not.        *)
FreshCopy(pc, p, n) ==
  /\ pc = "edit" => n = Renewed
  /\ pc \in {"validate", "install"} => n = Edited(p)

(* A split that is not outdated has its source's list, and numbers for its *)
(* new shards that no shard has.                                           *)
FreshPlan(pc, p) ==
  p.kind = "split" =>
    /\ p.sources[1] \in assignments.live /\ p.list = assignments.shards[p.sources[1]]
    /\ pc # "number" => \A s \in assignments.live : s < p.first

CopiesFresh ==
  \A o \in Operators : o \notin outdated.copy =>
    FreshCopy(operator[o].pc, operator[o].plan, operator[o].next)
PlansFresh ==
  \A o \in Operators : o \notin outdated.plan => FreshPlan(operator[o].pc, operator[o].plan)
FreshInv == TypeInv /\ CopiesFresh /\ PlansFresh

LEMMA FreshMove ==
  ASSUME FreshInv, NEW o \in Operators, NEW pc, NEW p, NEW n, Becomes(o, pc, p, n),
         UNCHANGED <<currentEpoch, assignments>>,
         outdated.plan \ {o} \subseteq outdated'.plan, outdated.copy \ {o} \subseteq outdated'.copy,
         o \notin outdated'.copy => FreshCopy(pc, p, n),
         o \notin outdated'.plan => FreshPlan(pc, p)
  PROVE  CopiesFresh' /\ PlansFresh'
<1>1. /\ \A d \in Operators : d # o => operator'[d] = operator[d]
      /\ operator'[o].pc = pc /\ operator'[o].plan = p /\ operator'[o].next = n
  BY DEF FreshInv, TypeInv, TypeOK, Becomes
<1>2. ASSUME NEW d \in Operators, d \notin outdated'.copy
      PROVE FreshCopy(operator'[d].pc, operator'[d].plan, operator'[d].next)
  BY <1>1, <1>2 DEF FreshInv, CopiesFresh
<1>3. ASSUME NEW d \in Operators, d \notin outdated'.plan
      PROVE FreshPlan(operator'[d].pc, operator'[d].plan)
  BY <1>1, <1>3 DEF FreshInv, PlansFresh
<1>4. CopiesFresh'
  BY <1>2 DEF CopiesFresh, FreshCopy, Edited, Renewed
<1>5. PlansFresh'
  BY <1>3 DEF PlansFresh, FreshPlan
<1> QED BY <1>4, <1>5

LEMMA FreshPlans ==
  ASSUME FreshInv, NEW o \in Operators, Plan(o)
  PROVE  CopiesFresh' /\ PlansFresh'
<1>1. ASSUME NEW pc \in {"number", "planned"}, NEW p, Planned(o, pc, p), FreshPlan(pc, p)
      PROVE CopiesFresh' /\ PlansFresh'
  <2>1. Becomes(o, pc, p, operator[o].next) /\ UNCHANGED <<currentEpoch, assignments, outdated>>
    BY <1>1 DEF Planned
  <2>2. FreshCopy(pc, p, operator[o].next)
    BY DEF FreshCopy
  <2> QED BY <1>1, <2>1, <2>2, FreshMove
<1>2. ASSUME NEW s \in ShardIds, NEW n \in SplitCounts, PlanShardSplit(o, s, n)
      PROVE CopiesFresh' /\ PlansFresh'
  <2> DEFINE p == [NoPlan EXCEPT !.kind = "split", !.sources = <<s>>,
                                 !.list = assignments.shards[s], !.count = n]
  <2>1. p = [kind |-> "split", sources |-> <<s>>, list |-> assignments.shards[s], count |-> n, first |-> 0]
    BY SplitPlan
  <2>2. s \in assignments.live /\ Planned(o, "number", p)
    BY <1>2 DEF PlanShardSplit
  <2> HIDE DEF p
  <2>3. FreshPlan("number", p)
    BY <2>1, <2>2 DEF FreshPlan
  <2> QED BY <1>1, <2>2, <2>3
<1>3. ASSUME NEW s \in ShardIds, NEW t \in ShardIds, PlanShardMerge(o, s, t) \/ WriteMergePlan(o, s, t)
      PROVE CopiesFresh' /\ PlansFresh'
  <2> DEFINE p == [NoPlan EXCEPT !.kind = "merge", !.sources = <<s, t>>]
  <2>1. p = [kind |-> "merge", sources |-> <<s, t>>, list |-> <<>>, count |-> 0, first |-> 0]
    BY MergePlan
  <2>2. Planned(o, "planned", p)
    BY <1>3 DEF PlanShardMerge, WriteMergePlan
  <2> HIDE DEF p
  <2>3. FreshPlan("planned", p)
    BY <2>1 DEF FreshPlan
  <2> QED BY <1>1, <2>2, <2>3
<1>4. CASE GetNextShardID(o)
  <2> DEFINE first == NextShardID(assignments.live)
             p == [operator[o].plan EXCEPT !.first = first]
  <2>1. /\ At(o, "number") /\ Becomes(o, "planned", p, operator[o].next)
        /\ UNCHANGED <<currentEpoch, assignments, outdated>>
    BY <1>4 DEF GetNextShardID
  <2>2. \A s \in assignments.live : s < first
    <3> SUFFICES ASSUME assignments.live # {} PROVE \A s \in assignments.live : s < first
      OBVIOUS
    <3>1. assignments.live \in SUBSET ShardIds
      BY DEF FreshInv, TypeInv, TypeOK, Epochs
    <3>2. /\ Max(assignments.live) \in assignments.live
          /\ \A s \in assignments.live : s <= Max(assignments.live)
      BY <3>1, LargestShard
    <3>3. first = 1 + Max(assignments.live)
      BY DEF NextShardID
    <3> HIDE DEF first
    <3> QED BY <3>1, <3>2, <3>3 DEF ShardIds
  <2> HIDE DEF first
  <2>3. p = [kind |-> operator[o].plan.kind, sources |-> operator[o].plan.sources,
             list |-> operator[o].plan.list, count |-> operator[o].plan.count, first |-> first]
    BY OperatorHas, NumberedPlan DEF FreshInv
  <2> HIDE DEF p
  <2>4. o \notin outdated.plan => FreshPlan("planned", p)
    BY <2>1, <2>2, <2>3 DEF FreshInv, PlansFresh, FreshPlan, At
  <2>5. FreshCopy("planned", p, operator[o].next)
    BY DEF FreshCopy
  <2> QED BY <2>1, <2>4, <2>5, FreshMove
<1> QED BY <1>2, <1>3, <1>4 DEF Plan

LEMMA FreshExecutes ==
  ASSUME FreshInv, NEW o \in Operators, Execute(o)
  PROVE  CopiesFresh' /\ PlansFresh'
<1>0. /\ o \notin outdated.copy => FreshCopy(operator[o].pc, operator[o].plan, operator[o].next)
      /\ o \notin outdated.plan => FreshPlan(operator[o].pc, operator[o].plan)
  BY DEF FreshInv, CopiesFresh, PlansFresh
<1>1. ASSUME NEW pc, NEW n, operator[o].pc # "number", pc # "number", Becomes(o, pc, operator[o].plan, n),
             UNCHANGED <<currentEpoch, assignments, outdated>>,
             o \notin outdated.copy => FreshCopy(pc, operator[o].plan, n)
      PROVE CopiesFresh' /\ PlansFresh'
  <2>1. o \notin outdated.plan => FreshPlan(pc, operator[o].plan)
    BY <1>0, <1>1 DEF FreshPlan
  <2> DEFINE p == operator[o].plan
  <2> HIDE DEF p
  <2>2. /\ Becomes(o, pc, p, n)
        /\ o \notin outdated'.copy => FreshCopy(pc, p, n)
        /\ o \notin outdated'.plan => FreshPlan(pc, p)
        /\ outdated.plan \ {o} \subseteq outdated'.plan /\ outdated.copy \ {o} \subseteq outdated'.copy
    BY <1>1, <2>1 DEF p
  <2> QED BY <1>1, <2>2, FreshMove
<1>2. CASE prepareNewEpoch(o)
  <2>1. /\ At(o, "planned") /\ Becomes(o, "edit", operator[o].plan, Renewed)
        /\ UNCHANGED <<currentEpoch, assignments, outdated>>
    BY <1>2, RenewedFields DEF prepareNewEpoch, FreshInv
  <2>2. FreshCopy("edit", operator[o].plan, Renewed)
    BY DEF FreshCopy
  <2> QED BY <1>1, <2>1, <2>2 DEF At
<1>3. CASE EditSplit(o)
  <2>1. /\ At(o, "edit") /\ operator[o].plan.kind = "split"
        /\ Becomes(o, "validate", operator[o].plan, SplitEpoch(operator[o].next, operator[o].plan))
        /\ UNCHANGED <<currentEpoch, assignments, outdated>>
    BY <1>3 DEF EditSplit
  <2>2. o \notin outdated.copy =>
          FreshCopy("validate", operator[o].plan, SplitEpoch(operator[o].next, operator[o].plan))
    BY <1>0, <2>1 DEF FreshCopy, Edited, At
  <2> QED BY <1>1, <2>1, <2>2 DEF At
<1>4. CASE EditMerge(o)
  <2> DEFINE s == operator[o].plan.sources[1]
             t == operator[o].plan.sources[2]
             list == currentEpoch.shards[s] \o currentEpoch.shards[t]
  <2>1. /\ At(o, "edit") /\ operator[o].plan.kind = "merge"
        /\ Becomes(o, "validate", operator[o].plan, MergedEpoch(operator[o].next, list, s, t))
        /\ UNCHANGED <<currentEpoch, assignments, outdated>>
    BY <1>4 DEF EditMerge
  <2>2. o \notin outdated.copy =>
          FreshCopy("validate", operator[o].plan, MergedEpoch(operator[o].next, list, s, t))
    BY <1>0, <2>1 DEF FreshCopy, Edited, At
  <2> HIDE DEF s, t, list
  <2> QED BY <1>1, <2>1, <2>2 DEF At
<1>5. CASE Reject(o)
  <2>1. /\ Becomes(o, "idle", NoPlan, FirstEpoch) /\ UNCHANGED <<currentEpoch, assignments>>
        /\ outdated'.plan = outdated.plan \ {o} /\ outdated'.copy = outdated.copy \ {o}
    BY <1>5 DEF Reject
  <2>2. FreshCopy("idle", NoPlan, FirstEpoch) /\ FreshPlan("idle", NoPlan)
    BY DEF FreshCopy, FreshPlan, NoPlan
  <2> QED BY <2>1, <2>2, FreshMove
<1>6. CASE Accept(o)
  <2>1. /\ At(o, "validate") /\ Becomes(o, "install", operator[o].plan, operator[o].next)
        /\ UNCHANGED <<currentEpoch, assignments, outdated>>
    BY <1>6 DEF Accept
  <2>2. o \notin outdated.copy => FreshCopy("install", operator[o].plan, operator[o].next)
    BY <1>0, <2>1 DEF FreshCopy, At
  <2> QED BY <1>1, <2>1, <2>2 DEF At
<1>7. CASE Install(o)
  <2>1. Becomes(o, "idle", NoPlan, FirstEpoch) /\ OutdatesOthers(o)
    BY <1>7 DEF Install
  <2>2. /\ operator'[o].pc = "idle" /\ operator'[o].plan = NoPlan
        /\ \A d \in Operators : d # o => operator'[d] = operator[d]
    BY <2>1 DEF FreshInv, TypeInv, TypeOK, Becomes
  <2>3. /\ outdated'.plan = {d \in Operators \ {o} : ~At(d, "idle")}
        /\ outdated'.copy = {d \in Operators \ {o} : operator[d].pc \in {"edit", "validate", "install"}}
    BY <2>1 DEF OutdatesOthers
  <2>4. ASSUME NEW d \in Operators, d \notin outdated'.copy
        PROVE operator'[d].pc \notin {"edit", "validate", "install"}
    BY <2>2, <2>3, <2>4
  <2>5. ASSUME NEW d \in Operators, d \notin outdated'.plan
        PROVE operator'[d].plan = NoPlan
    <3>1. CASE d = o
      BY <2>2, <3>1
    <3>2. CASE d # o
      <4>1. operator[d].pc = "idle" /\ operator'[d] = operator[d]
        BY <2>2, <2>3, <2>5, <3>2 DEF At
      <4>2. PlanShaped(operator[d].pc, operator[d].plan)
        BY OperatorHas DEF FreshInv
      <4> QED BY <4>1, <4>2 DEF PlanShaped
    <3> QED BY <3>1, <3>2
  <2>6. CopiesFresh'
    BY <2>4 DEF CopiesFresh, FreshCopy
  <2>7. PlansFresh'
    BY <2>5 DEF PlansFresh, FreshPlan, NoPlan
  <2> QED BY <2>6, <2>7
<1> QED BY <1>2, <1>3, <1>4, <1>5, <1>6, <1>7 DEF Execute

LEMMA FreshStart == Init => FreshInv
<1> SUFFICES ASSUME Init PROVE FreshInv
  OBVIOUS
<1>1. \A o \in Operators : operator[o].pc = "idle" /\ operator[o].plan = NoPlan
  BY DEF Init, Unplanned
<1> QED BY <1>1, TypedStart DEF FreshInv, CopiesFresh, PlansFresh, FreshCopy, FreshPlan, NoPlan

LEMMA FreshStep == FreshInv /\ [Next]_vars => FreshInv'
<1> SUFFICES ASSUME FreshInv, [Next]_vars PROVE FreshInv'
  OBVIOUS
<1>1. TypeInv'
  BY TypedStep DEF FreshInv
<1>2. CopiesFresh' /\ PlansFresh'
  <2>1. CASE UNCHANGED vars
    BY <2>1 DEF vars, FreshInv, CopiesFresh, PlansFresh, FreshCopy, FreshPlan, Edited, Renewed
  <2> QED BY <2>1, FreshPlans, FreshExecutes DEF Next
<1> QED BY <1>1, <1>2 DEF FreshInv

-----------------------------------------------------------------------------
(* What an up-to-date plan makes of an epoch.                              *)
Placed(e) == \A v \in Virtual : v \in Members(e.shards[e.where[v]])

LEMMA SplitKeeps ==
  ASSUME TypeInv, NEW p \in Plans, PlanShaped("install", p), p.kind = "split",
         p.list = currentEpoch.shards[p.sources[1]],
         \A s \in currentEpoch.live : s < p.first,
         TargetsExist(currentEpoch), Placed(currentEpoch)
  PROVE  Placed(SplitEpoch(Renewed, p))
<1> DEFINE lists == SplitLists(Renewed, p)
           places == SplitPlaces(Renewed, p)
<1>1. /\ p.first \in Nat /\ p.count \in Nat \ {0} /\ p.list \in Seq(Virtual)
      /\ p.first + p.count - 1 <= MaxShard /\ MaxShard \in Nat
  BY CoordinatorAssumption DEF Plans, PlanShaped, CoordinatorAssumption
<1>2. NewShards(p) \subseteq ShardIds
  BY <1>1 DEF ShardIds, NewShards
<1>3. ASSUME NEW v \in Members(p.list) PROVE Homes(p, v) # {}
  <2>1. PICK i \in 0..p.count - 1 : v \in Members(Piece(p.list, p.count, i))
    BY <1>1, PiecesCover
  <2>2. p.first + i \in NewShards(p) /\ (p.first + i) - p.first = i
    BY <1>1 DEF NewShards
  <2>3. p.first + i \in Homes(p, v)
    BY <2>1, <2>2 DEF Homes, PieceFor
  <2> QED BY <2>3
<1>4. \A s \in currentEpoch.live : s \notin NewShards(p)
  BY <1>1 DEF TypeInv, TypeOK, Epochs, ShardIds, NewShards
<1>5. SplitEpoch(Renewed, p).shards = lists /\ SplitEpoch(Renewed, p).where = places
  BY SplitFields, RenewedFields
<1>6. ASSUME NEW v \in Virtual PROVE v \in Members(lists[places[v]])
  <2>1. CASE Homes(p, v) = {}
    <3>1. places[v] = currentEpoch.where[v] /\ v \notin Members(p.list)
      BY <1>3, <2>1, RenewedFields DEF SplitPlaces
    <3>2. currentEpoch.where[v] \in currentEpoch.live /\ currentEpoch.where[v] \in ShardIds
      BY DEF TargetsExist, TypeInv, TypeOK, Epochs
    <3>3. v \in Members(currentEpoch.shards[currentEpoch.where[v]])
      BY DEF Placed
    <3>4. currentEpoch.where[v] \notin NewShards(p) /\ currentEpoch.where[v] # p.sources[1]
      BY <1>4, <3>1, <3>2, <3>3
    <3>5. lists[places[v]] = currentEpoch.shards[currentEpoch.where[v]]
      BY <3>1, <3>2, <3>4, RenewedFields DEF SplitLists
    <3> QED BY <3>3, <3>5
  <2>2. CASE Homes(p, v) # {}
    <3>1. places[v] \in Homes(p, v)
      BY <2>2 DEF SplitPlaces
    <3>2. places[v] \in NewShards(p) /\ v \in Members(PieceFor(p, places[v]))
      BY <3>1 DEF Homes
    <3>3. lists[places[v]] = PieceFor(p, places[v])
      BY <1>2, <3>2 DEF SplitLists
    <3> QED BY <3>2, <3>3
  <2> QED BY <2>1, <2>2
<1> HIDE DEF lists, places
<1> QED BY <1>5, <1>6 DEF Placed

LEMMA MembersOfBoth ==
  ASSUME NEW a \in Seq(Virtual), NEW b \in Seq(Virtual)
  PROVE  Members(a \o b) = Members(a) \cup Members(b)
<1>1. /\ Len(a) \in Nat /\ Len(b) \in Nat /\ DOMAIN a = 1..Len(a) /\ DOMAIN b = 1..Len(b)
      /\ DOMAIN (a \o b) = 1..Len(a) + Len(b)
  OBVIOUS
<1>2. /\ \A i \in 1..Len(a) : (a \o b)[i] = a[i]
      /\ \A i \in 1..Len(b) : (a \o b)[Len(a) + i] = b[i]
  OBVIOUS
<1> DEFINE both == a \o b
<1> HIDE DEF both
<1>3. ASSUME NEW i \in 1..Len(a) + Len(b) PROVE both[i] \in Members(a) \cup Members(b)
  <2>1. CASE i \in 1..Len(a)
    BY <1>1, <1>2, <2>1 DEF Members, both
  <2>2. CASE i \notin 1..Len(a)
    <3>1. i - Len(a) \in 1..Len(b) /\ Len(a) + (i - Len(a)) = i
      BY <1>1, <2>2
    <3>2. both[i] = b[i - Len(a)]
      BY <1>2, <3>1 DEF both
    <3> QED BY <1>1, <3>1, <3>2 DEF Members
  <2> QED BY <2>1, <2>2
<1>4. ASSUME NEW i \in 1..Len(a) PROVE a[i] \in Members(both)
  <2>1. i \in 1..Len(a) + Len(b) /\ both[i] = a[i]
    BY <1>1, <1>2 DEF both
  <2> QED BY <1>1, <2>1 DEF Members, both
<1>5. ASSUME NEW i \in 1..Len(b) PROVE b[i] \in Members(both)
  <2>1. Len(a) + i \in 1..Len(a) + Len(b) /\ both[Len(a) + i] = b[i]
    BY <1>1, <1>2 DEF both
  <2> QED BY <1>1, <2>1 DEF Members, both
<1>6. Members(both) \subseteq Members(a) \cup Members(b)
  BY <1>1, <1>3 DEF Members, both
<1>7. Members(a) \subseteq Members(both) /\ Members(b) \subseteq Members(both)
  BY <1>1, <1>4, <1>5 DEF Members
<1> QED BY <1>6, <1>7 DEF both

LEMMA MergeKeeps ==
  ASSUME TypeInv, NEW s \in ShardIds, NEW t \in ShardIds, Placed(currentEpoch)
  PROVE  Placed(MergedEpoch(Renewed, currentEpoch.shards[s] \o currentEpoch.shards[t], s, t))
<1> DEFINE list == currentEpoch.shards[s] \o currentEpoch.shards[t]
           lists == MergeLists(Renewed, list, s, t)
           places == MergePlaces(Renewed, list, s)
<1>1. /\ currentEpoch.shards[s] \in Seq(Virtual) /\ currentEpoch.shards[t] \in Seq(Virtual)
      /\ currentEpoch.shards \in [ShardIds -> Seq(Virtual)] /\ currentEpoch.where \in [Virtual -> ShardIds]
  BY DEF TypeInv, TypeOK, Epochs, Lists
<1>2. Members(currentEpoch.shards[s]) \cup Members(currentEpoch.shards[t]) \subseteq Members(list)
  BY <1>1, MembersOfBoth
<1> HIDE DEF list
<1>3. lists = [x \in ShardIds |-> IF x = s THEN list ELSE IF x = t THEN <<>> ELSE currentEpoch.shards[x]]
  <2> DEFINE a == [Renewed.shards EXCEPT ![t] = <<>>]
  <2>1. a = [x \in ShardIds |-> IF x = t THEN <<>> ELSE currentEpoch.shards[x]]
    BY <1>1, RenewedFields
  <2> HIDE DEF a
  <2>2. [a EXCEPT ![s] = list] =
          [x \in ShardIds |-> IF x = s THEN list ELSE IF x = t THEN <<>> ELSE currentEpoch.shards[x]]
    BY <2>1
  <2> QED BY <2>2, Zenon DEF a, MergeLists
<1>4. MergedEpoch(Renewed, list, s, t).shards = lists /\ MergedEpoch(Renewed, list, s, t).where = places
  BY MergeFields, RenewedFields
<1>5. ASSUME NEW v \in Virtual PROVE v \in Members(lists[places[v]])
  <2>1. CASE v \in Members(list)
    <3>1. places[v] = s
      BY <2>1 DEF MergePlaces
    <3> QED BY <1>3, <2>1, <3>1
  <2>2. CASE v \notin Members(list)
    <3>1. v \in Members(currentEpoch.shards[currentEpoch.where[v]])
      BY DEF Placed
    <3>2. currentEpoch.where[v] \notin {s, t} /\ currentEpoch.where[v] \in ShardIds
      BY <1>1, <1>2, <2>2, <3>1
    <3>3. places[v] = currentEpoch.where[v]
      BY <2>2, RenewedFields DEF MergePlaces
    <3>4. lists[places[v]] = currentEpoch.shards[currentEpoch.where[v]]
      BY <1>3, <3>2, <3>3
    <3> QED BY <3>1, <3>4
  <2> QED BY <2>1, <2>2
<1> HIDE DEF lists, places
<1>6. Placed(MergedEpoch(Renewed, list, s, t))
  BY <1>4, <1>5 DEF Placed
<1> QED BY <1>6 DEF list

LEMMA EditNumber ==
  ASSUME TypeInv, NEW p \in Plans, p.kind \in {"split", "merge"}
  PROVE  Edited(p).number = currentEpoch.number + 1
<1> DEFINE list == currentEpoch.shards[p.sources[1]] \o currentEpoch.shards[p.sources[2]]
<1>1. SplitEpoch(Renewed, p).number = Renewed.number
  BY SplitFields, RenewedFields
<1>2. MergedEpoch(Renewed, list, p.sources[1], p.sources[2]).number = Renewed.number
  <2> HIDE DEF list
  <2> QED BY MergeFields, RenewedFields
<1> QED BY <1>1, <1>2, RenewedFields DEF Edited

(* An edit moves only virtual shards of the plan's list or sources.        *)
LEMMA EditMoves ==
  ASSUME TypeInv, NEW p \in Plans, PlanShaped("install", p), p.kind \in {"split", "merge"},
         NEW v \in Virtual,
         v \notin Members(p.list),
         \A i \in DOMAIN p.sources : v \notin Members(currentEpoch.shards[p.sources[i]])
  PROVE  Edited(p).where[v] = currentEpoch.where[v]
<1>1. CASE p.kind = "split"
  <2>1. p.first \in Nat /\ p.count \in Nat \ {0} /\ p.list \in Seq(Virtual)
    BY <1>1 DEF Plans, PlanShaped
  <2>2. ASSUME NEW s \in NewShards(p) PROVE v \notin Members(PieceFor(p, s))
    <3>1. s - p.first \in 0..p.count - 1
      BY <2>1 DEF NewShards
    <3>2. Members(Piece(p.list, p.count, s - p.first)) \subseteq Members(p.list)
      BY <2>1, <3>1, PiecesCover
    <3> QED BY <3>2 DEF PieceFor
  <2>3. Homes(p, v) = {}
    BY <2>2 DEF Homes
  <2>4. Edited(p).where = SplitPlaces(Renewed, p)
    BY <1>1, SplitFields, RenewedFields DEF Edited
  <2> QED BY <2>3, <2>4, RenewedFields DEF SplitPlaces
<1>2. CASE p.kind = "merge"
  <2> DEFINE s == p.sources[1]
             t == p.sources[2]
             list == currentEpoch.shards[s] \o currentEpoch.shards[t]
  <2>1. p.sources \in [1..2 -> ShardIds] /\ s \in ShardIds /\ t \in ShardIds
    BY <1>2 DEF PlanShaped
  <2>2. currentEpoch.shards[s] \in Seq(Virtual) /\ currentEpoch.shards[t] \in Seq(Virtual)
    BY <2>1 DEF TypeInv, TypeOK, Epochs, Lists
  <2>3. v \notin Members(currentEpoch.shards[s]) /\ v \notin Members(currentEpoch.shards[t])
    BY <2>1
  <2>4. v \notin Members(list)
    BY <2>2, <2>3, MembersOfBoth
  <2>5. Edited(p) = MergedEpoch(Renewed, list, s, t)
    BY <1>2 DEF Edited
  <2> HIDE DEF s, t, list
  <2>6. Edited(p).where = MergePlaces(Renewed, list, s)
    BY <2>5, MergeFields, RenewedFields
  <2> QED BY <2>4, <2>6, RenewedFields DEF MergePlaces
<1> QED BY <1>1, <1>2

(* Only an operator that installs changes the epoch, and only the one that *)
(* takes the step.                                                         *)
LEMMA OnlyInstall ==
  ASSUME TypeInv, [Next]_vars
  PROVE  \/ UNCHANGED currentEpoch /\ \A o \in Operators : ~Installs(o)
         \/ \E o \in Operators : Install(o) /\ \A d \in Operators : Installs(d) <=> d = o
<1>1. CASE UNCHANGED vars
  BY <1>1 DEF vars, Installs, At
<1>2. ASSUME NEW o \in Operators, NEW pc, NEW p, NEW n, Becomes(o, pc, p, n)
      PROVE  operator'[o].pc = pc /\ \A d \in Operators : d # o => operator'[d] = operator[d]
  BY <1>2 DEF TypeInv, TypeOK, Becomes
<1>3. ASSUME NEW o \in Operators, NEW pc, NEW p, NEW n, Becomes(o, pc, p, n), UNCHANGED currentEpoch,
             operator[o].pc # "install"
      PROVE  UNCHANGED currentEpoch /\ \A d \in Operators : ~Installs(d)
  <2>1. operator'[o].pc = pc /\ \A d \in Operators : d # o => operator'[d] = operator[d]
    BY <1>2, <1>3
  <2> QED BY <1>3, <2>1 DEF Installs, At
<1>4. ASSUME NEW o \in Operators, Plan(o)
      PROVE  UNCHANGED currentEpoch /\ \A d \in Operators : ~Installs(d)
  <2>1. PICK pc, p, n : Becomes(o, pc, p, n) /\ UNCHANGED currentEpoch /\ operator[o].pc # "install"
    <3>1. ASSUME NEW pc, NEW p, Planned(o, pc, p)
          PROVE Becomes(o, pc, p, operator[o].next) /\ UNCHANGED currentEpoch /\ operator[o].pc # "install"
      BY <3>1 DEF Planned, At
    <3>2. CASE GetNextShardID(o)
      BY <3>2 DEF GetNextShardID, At
    <3>3. ASSUME NEW s \in ShardIds, NEW m \in SplitCounts, PlanShardSplit(o, s, m)
          PROVE \E pc, p, n : Becomes(o, pc, p, n) /\ UNCHANGED currentEpoch /\ operator[o].pc # "install"
      BY <3>1, <3>3 DEF PlanShardSplit
    <3>4. ASSUME NEW s \in ShardIds, NEW t \in ShardIds, PlanShardMerge(o, s, t) \/ WriteMergePlan(o, s, t)
          PROVE \E pc, p, n : Becomes(o, pc, p, n) /\ UNCHANGED currentEpoch /\ operator[o].pc # "install"
      BY <3>1, <3>4 DEF PlanShardMerge, WriteMergePlan
    <3> QED BY <1>4, <3>2, <3>3, <3>4 DEF Plan
  <2> QED BY <1>3, <2>1
<1>5. ASSUME NEW o \in Operators,
             prepareNewEpoch(o) \/ EditSplit(o) \/ EditMerge(o) \/ Reject(o) \/ Accept(o)
      PROVE  UNCHANGED currentEpoch /\ \A d \in Operators : ~Installs(d)
  <2>1. PICK pc, p, n : Becomes(o, pc, p, n) /\ UNCHANGED currentEpoch /\ operator[o].pc # "install"
    BY <1>5 DEF prepareNewEpoch, EditSplit, EditMerge, Reject, Accept, At
  <2> QED BY <1>3, <2>1
<1>6. ASSUME NEW o \in Operators, Install(o)
      PROVE  \A d \in Operators : Installs(d) <=> d = o
  <2>1. At(o, "install") /\ Becomes(o, "idle", NoPlan, FirstEpoch)
    BY <1>6 DEF Install
  <2>2. operator'[o].pc = "idle" /\ \A d \in Operators : d # o => operator'[d] = operator[d]
    BY <1>2, <2>1
  <2> QED BY <2>1, <2>2 DEF Installs, At
<1> QED BY <1>1, <1>4, <1>5, <1>6 DEF Next, Execute

(* Whatever the operators race, an operator whose copy is of the current   *)
(* epoch installs the next number and moves only what its plan names       *)
(* (prepareNewEpoch, transitionToEpoch).                                   *)
THEOREM TransitionsAtomic == Spec => AtomicTransitions
<1>1. FreshInv /\ [Next]_vars =>
        [\A o \in Operators : Installs(o) /\ o \notin outdated.copy => BuildsOnCurrent(o)]_vars
  <2> SUFFICES ASSUME FreshInv, [Next]_vars, NEW o \in Operators, Installs(o), o \notin outdated.copy
               PROVE  BuildsOnCurrent(o)
    OBVIOUS
  <2>1. Install(o)
    BY OnlyInstall DEF FreshInv
  <2> DEFINE p == operator[o].plan
  <2>2. currentEpoch' = operator[o].next /\ operator[o].pc = "install"
    BY <2>1 DEF Install, At
  <2>3. operator[o].next = Edited(p)
    BY <2>2 DEF FreshInv, CopiesFresh, FreshCopy
  <2>4. p \in Plans /\ PlanShaped("install", p)
    BY <2>2, OperatorHas DEF FreshInv
  <2>5. p.kind \in {"split", "merge"}
    BY <2>4 DEF PlanShaped
  <2> HIDE DEF p
  <2>6. ASSUME NEW v \in Virtual \ Moved(o)
        PROVE /\ v \notin Members(p.list)
              /\ \A i \in DOMAIN p.sources : v \notin Members(currentEpoch.shards[p.sources[i]])
    BY DEF Moved, p
  <2>7. ASSUME NEW v \in Virtual \ Moved(o) PROVE Edited(p).where[v] = currentEpoch.where[v]
    BY <2>4, <2>5, <2>6, EditMoves DEF FreshInv
  <2>8. Edited(p).number = currentEpoch.number + 1
    BY <2>4, <2>5, EditNumber DEF FreshInv
  <2> QED BY <2>2, <2>3, <2>7, <2>8 DEF BuildsOnCurrent
<1> QED BY <1>1, FreshStart, FreshStep, PTL DEF Spec, AtomicTransitions

(* An operator that is up to date loses no virtual shard: every one that   *)
(* is in the shard it is mapped to still is after the transition           *)
(* (PlanShardSplit, getNextShardID, ExecuteShardSplit, ExecuteShardMerge). *)
THEOREM AssignmentsKept == Spec => KeepsAssigned
<1>1. FreshInv /\ ValidInv /\ [Next]_vars =>
        [AllAssigned /\ (\A o \in Operators : Installs(o) => UpToDate(o)) => AllAssigned']_vars
  <2> SUFFICES ASSUME FreshInv, ValidInv, [Next]_vars, AllAssigned,
                      \A o \in Operators : Installs(o) => UpToDate(o)
               PROVE  AllAssigned'
    OBVIOUS
  <2>1. CASE UNCHANGED currentEpoch
    BY <2>1 DEF AllAssigned
  <2>2. ASSUME NEW o \in Operators, Install(o), \A d \in Operators : Installs(d) <=> d = o
        PROVE AllAssigned'
    <3> DEFINE p == operator[o].plan
    <3>1. /\ currentEpoch' = operator[o].next /\ operator[o].pc = "install"
          /\ o \notin outdated.copy /\ o \notin outdated.plan
      BY <2>2 DEF Install, At, UpToDate
    <3>2. operator[o].next = Edited(p) /\ FreshPlan("install", p)
      BY <3>1 DEF FreshInv, CopiesFresh, FreshCopy, PlansFresh
    <3>3. p \in Plans /\ PlanShaped("install", p) /\ p.kind \in {"split", "merge"}
      BY <3>1, OperatorHas DEF FreshInv, PlanShaped
    <3> HIDE DEF p
    <3>4. TargetsExist(currentEpoch) /\ Placed(currentEpoch) /\ TypeInv
      BY DEF ValidInv, validateEpoch, AllAssigned, Placed, FreshInv
    <3>5. Placed(Edited(p))
      <4>1. CASE p.kind = "split"
        <5>1. assignments = [live |-> currentEpoch.live, shards |-> currentEpoch.shards]
          BY <3>2, <4>1 DEF FreshPlan, FreshInv, TypeInv, TypeOK
        <5>2. /\ p.list = currentEpoch.shards[p.sources[1]]
              /\ \A s \in currentEpoch.live : s < p.first
          BY <3>2, <4>1, <5>1 DEF FreshPlan
        <5>3. Placed(SplitEpoch(Renewed, p))
          BY <3>3, <3>4, <4>1, <5>2, SplitKeeps
        <5> QED BY <4>1, <5>3 DEF Edited
      <4>2. CASE p.kind = "merge"
        <5>1. p.sources[1] \in ShardIds /\ p.sources[2] \in ShardIds
          BY <3>3, <4>2 DEF PlanShaped
        <5> QED BY <3>4, <4>2, <5>1, MergeKeeps DEF Edited
      <4> QED BY <3>3, <4>1, <4>2
    <3>6. Placed(currentEpoch')
      BY <3>1, <3>2, <3>5
    <3> QED BY <3>6 DEF AllAssigned, Placed
  <2> QED BY <2>1, <2>2, OnlyInstall DEF FreshInv
<1> QED BY <1>1, FreshStart, FreshStep, ValidStart, ValidStep, PTL DEF Spec, KeepsAssigned

-----------------------------------------------------------------------------
(* The hash ring.                                                          *)

Ascending(list) == \A i, j \in 1..Len(list) : i <= j => list[i] <= list[j]
Elements(list) == {list[i] : i \in 1..Len(list)}

LEMMA SameCardinality == \A S : Ring!Cardinality(S) = Cardinality(S)
BY DEF Ring!Cardinality, Cardinality

LEMMA CountTo ==
  ASSUME NEW n \in Nat
  PROVE  IsFiniteSet(1..n) /\ Cardinality(1..n) = n
<1>1. /\ IsFiniteSet(1..n)
      /\ Cardinality(1..n) = IF 1 > n THEN 0 ELSE n - 1 + 1
  BY FS_Interval
<1>2. (IF 1 > n THEN 0 ELSE n - 1 + 1) = n
  BY SMT
<1> QED BY <1>1, <1>2

(* An element and those that come before it in the order of the list.      *)
Before(list, i) ==
  {j \in 1..Len(list) : list[j] < list[i] \/ (list[j] = list[i] /\ j <= i)}

LEMMA Places ==
  ASSUME NEW list \in Seq(Nat), NEW i \in 1..Len(list)
  PROVE  /\ Ring!Place(list, i) = Cardinality(Before(list, i))
         /\ i \in Before(list, i) /\ Before(list, i) \in SUBSET (1..Len(list))
         /\ IsFiniteSet(Before(list, i)) /\ Ring!Place(list, i) \in 1..Len(list)
<1>1. DOMAIN list = 1..Len(list) /\ Len(list) \in Nat /\ list[i] \in Nat
  OBVIOUS
<1>2. Ring!Place(list, i) = Cardinality(Before(list, i))
  BY <1>1, SameCardinality DEF Ring!Place, Before
<1>3. i \in Before(list, i) /\ Before(list, i) \in SUBSET (1..Len(list))
  BY <1>1 DEF Before
<1>4. IsFiniteSet(1..Len(list)) /\ Cardinality(1..Len(list)) = Len(list)
  BY <1>1, CountTo
<1>5. IsFiniteSet(Before(list, i)) /\ Cardinality(Before(list, i)) <= Len(list)
  BY <1>3, <1>4, FS_Subset
<1>6. Cardinality(Before(list, i)) \in Nat /\ Cardinality(Before(list, i)) # 0
  BY <1>3, <1>5, FS_CardinalityType, FS_EmptySet
<1> QED BY <1>1, <1>2, <1>3, <1>5, <1>6

(* Who comes first in the order has the lower place.                       *)
LEMMA PlacesOrdered ==
  ASSUME NEW list \in Seq(Nat), NEW i \in 1..Len(list), NEW j \in 1..Len(list),
         list[i] < list[j] \/ (list[i] = list[j] /\ i < j)
  PROVE  Ring!Place(list, i) < Ring!Place(list, j)
<1>1. \A k \in 1..Len(list) : list[k] \in Nat
  OBVIOUS
<1>2. Before(list, i) \in SUBSET Before(list, j) /\ j \notin Before(list, i)
  BY <1>1 DEF Before
<1>3. /\ j \in Before(list, j) /\ IsFiniteSet(Before(list, j))
      /\ Ring!Place(list, j) = Cardinality(Before(list, j)) /\ Ring!Place(list, j) \in 1..Len(list)
  BY Places
<1>5. /\ Ring!Place(list, i) = Cardinality(Before(list, i)) /\ Ring!Place(list, i) \in 1..Len(list)
  BY Places
<1>4. /\ Cardinality(Before(list, i)) <= Cardinality(Before(list, j))
      /\ Cardinality(Before(list, i)) # Cardinality(Before(list, j))
  BY <1>2, <1>3, FS_Subset
<1> QED BY <1>3, <1>4, <1>5

(* An order that sorts: no two elements have the same place, so that every *)
(* place is somebody's.                                                    *)
LEMMA SortingOrder ==
  ASSUME NEW list \in Seq(Nat)
  PROVE  \E p \in Bijection(1..Len(list), 1..Len(list)) :
           /\ Ring!Sorted(list) = [k \in 1..Len(list) |-> list[p[k]]]
           /\ \A k, l \in 1..Len(list) : k <= l => list[p[k]] <= list[p[l]]
<1> DEFINE n == Len(list)
           I == 1..n
           place == [i \in I |-> Ring!Place(list, i)]
           at(k) == CHOOSE i \in I : Ring!Place(list, i) = k
<1>1. n \in Nat /\ DOMAIN list = I /\ \A i \in I : list[i] \in Nat
  OBVIOUS
<1>2. IsFiniteSet(I) /\ Cardinality(I) = n
  BY <1>1, CountTo
<1>3. \A i, j \in I : Ring!Place(list, i) = Ring!Place(list, j) => i = j
  <2> SUFFICES ASSUME NEW i \in I, NEW j \in I, i # j
               PROVE  Ring!Place(list, i) # Ring!Place(list, j)
    OBVIOUS
  <2>1. \/ list[i] < list[j] \/ (list[i] = list[j] /\ i < j)
        \/ list[j] < list[i] \/ (list[j] = list[i] /\ j < i)
    BY <1>1
  <2>2. Ring!Place(list, i) \in Nat /\ Ring!Place(list, j) \in Nat
    <3>1. Ring!Place(list, i) \in 1..n /\ Ring!Place(list, j) \in 1..n
      BY Places, Zenon
    <3> QED BY <3>1
  <2>3. Ring!Place(list, i) < Ring!Place(list, j) \/ Ring!Place(list, j) < Ring!Place(list, i)
    BY <2>1, PlacesOrdered
  <2> QED BY <2>2, <2>3
<1>4. \A i \in I : Ring!Place(list, i) \in I
  BY Places
<1>5. place \in Injection(I, I)
  BY <1>3, <1>4 DEF Injection, IsInjective
<1>6. \A k \in I : \E i \in I : Ring!Place(list, i) = k
  <2>1. place \in Surjection(I, I)
    <3> HIDE DEF place
    <3> QED BY <1>2, <1>5, FS_Injection
  <2> QED BY <2>1 DEF Surjection
<1>7. \A k \in I : at(k) \in I /\ Ring!Place(list, at(k)) = k
  BY <1>6
<1>8. Ring!Sorted(list) = [k \in I |-> list[at(k)]]
  BY <1>1 DEF Ring!Sorted
<1> HIDE DEF at
<1>9. \A i \in I : at(Ring!Place(list, i)) = i
  BY <1>3, <1>4, <1>7
<1> DEFINE p == [k \in I |-> at(k)]
<1>10. p \in Bijection(I, I)
  <2>1. p \in [I -> I] /\ \A k, l \in I : p[k] = p[l] => k = l
    BY <1>7
  <2>2. \A i \in I : \E k \in I : p[k] = i
    BY <1>4, <1>9
  <2> HIDE DEF p, I
  <2> QED BY <2>1, <2>2 DEF Bijection, Injection, Surjection, IsInjective
<1>11. \A k, l \in I : k <= l => list[at(k)] <= list[at(l)]
  <2> SUFFICES ASSUME NEW k \in I, NEW l \in I, k <= l PROVE list[at(k)] <= list[at(l)]
    OBVIOUS
  <2>1. ASSUME list[at(l)] < list[at(k)] PROVE FALSE
    <3>1. Ring!Place(list, at(l)) < Ring!Place(list, at(k))
      BY <1>7, <2>1, PlacesOrdered
    <3>2. l < k
      BY <1>7, <3>1
    <3> QED BY <3>2
  <2> QED BY <1>1, <1>7, <2>1
<1>12. Ring!Sorted(list) = [k \in I |-> list[p[k]]]
  BY <1>8
<1>13. \A k, l \in I : k <= l => list[p[k]] <= list[p[l]]
  BY <1>11
<1> HIDE DEF p
<1> QED BY <1>10, <1>12, <1>13

(* Sorting gives the same elements in ascending order.                     *)
LEMMA SortedRight ==
  ASSUME NEW list \in Seq(Nat)
  PROVE  /\ Ring!Sorted(list) \in Seq(Nat)
         /\ Ascending(Ring!Sorted(list))
         /\ Elements(Ring!Sorted(list)) = Elements(list)
<1> DEFINE I == 1..Len(list)
<1>1. PICK p \in Bijection(I, I) :
        /\ Ring!Sorted(list) = [k \in I |-> list[p[k]]]
        /\ \A k, l \in I : k <= l => list[p[k]] <= list[p[l]]
  BY SortingOrder
<1>2. /\ \A k \in I : p[k] \in I /\ list[k] \in Nat
      /\ \A i \in I : \E k \in I : p[k] = i
  <2>1. \A k \in I : list[k] \in Nat
    OBVIOUS
  <2> HIDE DEF I
  <2> QED BY <2>1 DEF Bijection, Injection, Surjection
<1>3. Ring!Sorted(list) \in Seq(Nat) /\ Len(Ring!Sorted(list)) = Len(list)
  <2>1. \A k \in I : list[p[k]] \in Nat
    BY <1>2, Zenon
  <2>2. Len(list) \in Nat
    OBVIOUS
  <2> DEFINE sorted == [k \in 1..Len(list) |-> list[p[k]]]
  <2>3. sorted \in [1..Len(list) -> Nat]
    BY <2>1
  <2>4. sorted \in Seq(Nat) /\ Len(sorted) = Len(list)
    <3>1. PICK s : s = sorted
      OBVIOUS
    <3> HIDE DEF sorted
    <3> QED BY <2>2, <2>3, <3>1
  <2> QED BY <1>1, <2>4
<1>4. Ascending(Ring!Sorted(list))
  BY <1>1, <1>2, <1>3 DEF Ascending
<1>5. Elements(Ring!Sorted(list)) = {list[p[k]] : k \in I}
  BY <1>1, <1>3 DEF Elements
<1>6. {list[p[k]] : k \in I} = Elements(list)
  BY <1>2 DEF Elements
<1> QED BY <1>3, <1>4, <1>5, <1>6

LEMMA ListOfSet ==
  ASSUME NEW S \in SUBSET Nat, IsFiniteSet(S)
  PROVE  Ring!SetToSeq(S) \in Seq(Nat) /\ Elements(Ring!SetToSeq(S)) = S
<1> DEFINE n == Cardinality(S)
<1>1. n \in Nat /\ \E f : f \in Bijection(1..n, S)
  BY FS_CardinalityType DEF ExistsBijection
<1>2. \E f \in [1..n -> S] : Ring!IsInjective(f)
  BY <1>1 DEF Bijection, Injection, IsInjective, Ring!IsInjective
<1> DEFINE list == Ring!SetToSeq(S)
<1>3. list \in [1..n -> S] /\ Ring!IsInjective(list)
  BY <1>2, SameCardinality DEF Ring!SetToSeq
<1> HIDE DEF list
<1>4. list \in Injection(1..n, S)
  BY <1>3 DEF Injection, IsInjective, Ring!IsInjective
<1>5. Cardinality(1..n) = n
  BY <1>1, CountTo
<1>6. list \in Surjection(1..n, S)
  BY <1>4, <1>5, FS_Injection
<1>7. list \in Seq(Nat) /\ Len(list) = n
  <2>1. list \in [1..n -> Nat]
    BY <1>3
  <2> QED BY <1>1, <1>3, <2>1
<1> QED BY <1>6, <1>7 DEF Elements, Surjection, list

(* The bisection finds the index c from which on the condition holds: the  *)
(* function that says so, the nearest to c in a range, is one that solves  *)
(* the recursive equation, and there is only one.                          *)
LEMMA Bisection ==
  ASSUME NEW n \in Nat, NEW holds, NEW c \in 0..n, \A i \in 0..n - 1 : i \in holds <=> c <= i
  PROVE  Ring!Search(n, holds) = c
<1> DEFINE D == (0..n) \X (0..n)
           mid(r) == (r[1] + r[2]) \div 2
           Step(f, r) == IF r[1] >= r[2] THEN r[1]
                         ELSE IF mid(r) \in holds THEN f[<<r[1], mid(r)>>] ELSE f[<<mid(r) + 1, r[2]>>]
           near(r) == IF r[1] >= r[2] THEN r[1]
                      ELSE IF c <= r[1] THEN r[1] ELSE IF r[2] <= c THEN r[2] ELSE c
           g == [r \in D |-> near(r)]
           found == Ring!bisection(n, holds)
<1>1. \A r \in D : r[1] \in 0..n /\ r[2] \in 0..n /\ r = <<r[1], r[2]>>
  OBVIOUS
<1>2. ASSUME NEW r \in D, r[1] < r[2]
      PROVE  /\ mid(r) \in 0..n - 1 /\ r[1] <= mid(r) /\ mid(r) < r[2]
             /\ <<r[1], mid(r)>> \in D /\ <<mid(r) + 1, r[2]>> \in D
  <2>1. mid(r) \in Int /\ r[1] <= mid(r) /\ mid(r) < r[2]
    BY <1>1, <1>2
  <2> HIDE DEF mid
  <2> QED BY <1>1, <1>2, <2>1
<1>3. ASSUME NEW r \in D PROVE near(r) = Step(g, r)
  <2>1. CASE r[1] >= r[2]
    BY <2>1
  <2>2. CASE r[1] < r[2]
    <3> DEFINE m == mid(r)
    <3>1. /\ m \in 0..n - 1 /\ r[1] <= m /\ m < r[2]
          /\ <<r[1], m>> \in D /\ <<m + 1, r[2]>> \in D
      BY <1>2, <2>2
    <3> HIDE DEF m
    <3>2. g[<<r[1], m>>] = near(<<r[1], m>>) /\ g[<<m + 1, r[2]>>] = near(<<m + 1, r[2]>>)
      BY <3>1
    <3>3. m \in holds => near(r) = near(<<r[1], m>>)
      BY <1>1, <2>2, <3>1
    <3>4. m \notin holds => near(r) = near(<<m + 1, r[2]>>)
      BY <1>1, <2>2, <3>1
    <3>5. Step(g, r) = IF m \in holds THEN g[<<r[1], m>>] ELSE g[<<m + 1, r[2]>>]
      <4> HIDE DEF g
      <4> QED BY <1>1, <2>2 DEF m
    <3> QED BY <3>2, <3>3, <3>4, <3>5
  <2> QED BY <1>1, <2>1, <2>2
<1>4. g = [r \in D |-> Step(g, r)]
  <2> HIDE DEF Step
  <2>1. \A r \in D : g[r] = Step(g, r)
    BY <1>3
  <2> QED BY <2>1
<1>5. found = [r \in D |-> Step(found, r)]
  <2>1. found = CHOOSE f : f = [r \in D |-> Step(f, r)]
    BY DEF Ring!bisection
  <2> HIDE DEF g, found, Step
  <2> QED BY <1>4, <2>1
<1> HIDE DEF g, found, D, mid
<1>6. ASSUME NEW r \in D, ~(r[1] < r[2]) PROVE found[r] = near(r)
  BY <1>1, <1>5, <1>6
<1> DEFINE T == {d \in Nat : \E r \in D : r[1] < r[2] /\ d = r[2] - r[1] /\ found[r] # near(r)}
<1>7. T = {}
  <2> SUFFICES ASSUME T # {} PROVE FALSE
    OBVIOUS
  <2>1. PICK d \in T : \A e \in T : d <= e
    <3>1. T \subseteq Nat
      OBVIOUS
    <3> HIDE DEF T
    <3> QED BY <3>1, LeastOfNaturals
  <2>2. PICK r \in D : r[1] < r[2] /\ d = r[2] - r[1] /\ found[r] # near(r)
    BY <2>1
  <2> DEFINE m == mid(r)
             a == <<r[1], m>>
             b == <<m + 1, r[2]>>
  <2>3. m \in 0..n - 1 /\ r[1] <= m /\ m < r[2] /\ a \in D /\ b \in D
    BY <1>2, <2>2
  <2> HIDE DEF m
  <2>4. found[a] = near(a) /\ found[b] = near(b)
    <3>1. \A s \in D : s[1] < s[2] /\ s[2] - s[1] < d => found[s] = near(s)
      <4> SUFFICES ASSUME NEW s \in D, s[1] < s[2], s[2] - s[1] < d, found[s] # near(s) PROVE FALSE
        OBVIOUS
      <4>1. s[2] - s[1] \in T
        BY <1>1
      <4> QED BY <1>1, <2>1, <4>1
    <3>2. \A s \in {a, b} : s[1] < s[2] => s[2] - s[1] < d
      BY <1>1, <2>2, <2>3
    <3> QED BY <1>6, <2>3, <3>1, <3>2
  <2>5. found[r] = IF m \in holds THEN found[a] ELSE found[b]
    BY <1>1, <1>5, <2>2 DEF m
  <2>6. near(r) = IF m \in holds THEN near(a) ELSE near(b)
    BY <1>1, <2>2, <2>3
  <2> QED BY <2>2, <2>4, <2>5, <2>6
<1>8. <<0, n>> \in D
  BY DEF D
<1>9. found[<<0, n>>] = near(<<0, n>>)
  <2>1. CASE n = 0
    BY <1>6, <1>8, <2>1
  <2>2. CASE n > 0
    BY <1>7, <1>8, <2>2
  <2> QED BY <2>1, <2>2
<1> QED BY <1>9 DEF Ring!Search, found

(* What the lookup finds with this list and this map.                      *)
Found(list, map, hash) ==
  IF list = <<>> THEN Ring!Missing
  ELSE LET n == Len(list)
           idx == Ring!Search(n, {i \in 0..n - 1 : list[i + 1] >= hash})
           point == list[(IF idx = n THEN 0 ELSE idx) + 1]
       IN IF point \in DOMAIN map THEN map[point] ELSE Ring!Missing

(* The point k of D is the first one from hash h on, round the ring.       *)
Follows(h, k, D) ==
  /\ k \in D
  /\ \/ h <= k /\ \A d \in D : h <= d => k <= d
     \/ k < h /\ \A d \in D : d < h /\ k <= d

LEMMA FollowsOnce ==
  ASSUME NEW D \in SUBSET Nat, NEW h \in Nat, NEW k, NEW l,
         Follows(h, k, D), Follows(h, l, D)
  PROVE  k = l
<1>1. k \in Nat /\ l \in Nat
  BY DEF Follows
<1> QED BY <1>1 DEF Follows

LEMMA Lookup ==
  ASSUME NEW list \in Seq(Nat), Ascending(list), list # <<>>,
         NEW map, Elements(list) = DOMAIN map, NEW h \in Nat
  PROVE  \E k : Follows(h, k, DOMAIN map) /\ Found(list, map, h) = map[k]
<1> DEFINE n == Len(list)
           holds == {i \in 0..n - 1 : list[i + 1] >= h}
<1>1. n \in Nat /\ n # 0 /\ \A i \in 1..n : list[i] \in Nat
  OBVIOUS
<1>2. holds \subseteq Nat /\ \A i \in holds : i \in 0..n - 1
  BY <1>1
<1>3. PICK c \in 0..n : \A i \in 0..n - 1 : i \in holds <=> c <= i
  <2>1. CASE holds = {}
    <3> HIDE DEF holds
    <3>1. \A i \in 0..n - 1 : i \in holds <=> n <= i
      BY <1>1, <2>1
    <3>2. n \in 0..n
      BY <1>1
    <3> HIDE DEF n
    <3> QED BY <3>1, <3>2
  <2>2. CASE holds # {}
    <3>1. PICK m \in holds : \A i \in holds : m <= i
      <4> HIDE DEF holds
      <4> QED BY <1>2, <2>2, LeastOfNaturals
    <3>2. ASSUME NEW i \in 0..n - 1, m <= i PROVE i \in holds
      <4>1. list[m + 1] <= list[i + 1]
        BY <1>1, <1>2, <3>1, <3>2 DEF Ascending
      <4> QED BY <1>1, <1>2, <3>1, <3>2, <4>1
    <3>3. \A i \in 0..n - 1 : i \in holds <=> m <= i
      BY <3>1, <3>2
    <3>4. m \in 0..n
      BY <1>1, <1>2
    <3> HIDE DEF n, holds
    <3> QED BY <3>3, <3>4
  <2> QED BY <2>1, <2>2
<1>4. Ring!Search(n, holds) = c
  <2> HIDE DEF holds
  <2> QED BY <1>1, <1>3, Bisection
<1> DEFINE k == list[(IF c = n THEN 0 ELSE c) + 1]
<1>5. k \in DOMAIN map
  BY <1>1, <1>3 DEF Elements
<1>6. Found(list, map, h) = map[k]
  BY <1>4, <1>5 DEF Found
<1>7. \A i \in 1..n : list[i] >= h <=> c < i
  <2> SUFFICES ASSUME NEW i \in 1..n PROVE list[i] >= h <=> c < i
    OBVIOUS
  <2>1. i - 1 \in 0..n - 1 /\ (i - 1) + 1 = i
    BY <1>1
  <2>2. i - 1 \in holds <=> list[i] >= h
    BY <2>1
  <2> HIDE DEF holds
  <2>3. i - 1 \in holds <=> c <= i - 1
    BY <1>3, <2>1
  <2> QED BY <1>1, <1>3, <2>2, <2>3
<1>8. Follows(h, k, DOMAIN map)
  <2>1. \A d \in DOMAIN map : \E i \in 1..n : d = list[i]
    BY DEF Elements
  <2>2. CASE c = n
    <3>1. \A i \in 1..n : list[i] < h /\ list[1] <= list[i]
      BY <1>1, <1>7, <2>2 DEF Ascending
    <3> QED BY <1>1, <1>5, <2>1, <2>2, <3>1 DEF Follows
  <2>3. CASE c # n
    <3>1. c + 1 \in 1..n /\ list[c + 1] >= h
      BY <1>1, <1>3, <1>7, <2>3
    <3>2. \A i \in 1..n : h <= list[i] => list[c + 1] <= list[i]
      BY <1>1, <1>3, <1>7, <3>1 DEF Ascending
    <3> QED BY <1>1, <1>5, <2>1, <2>3, <3>1, <3>2 DEF Follows
  <2> QED BY <2>2, <2>3
<1> QED BY <1>6, <1>8

LEMMA RingTypes ==
  /\ RingShards \subseteq Nat /\ MaxHash \in Nat /\ Ring!Hashes \subseteq Nat
  /\ IsFiniteSet(Ring!Hashes)
<1>1. RingShards \subseteq Nat /\ MaxHash \in Nat
  BY RebalancerAssumption DEF Ring!RingAssumption
<1>2. Ring!Hashes \subseteq Nat
  BY <1>1 DEF Ring!Hashes
<1>3. IsFiniteSet(Ring!Hashes)
  BY <1>1, FS_Interval DEF Ring!Hashes
<1> QED BY <1>1, <1>2, <1>3

(* The sorted list holds just the points of the map, and the map gives     *)
(* them to members.                                                        *)
RingInv ==
  /\ points \in [RingShards -> SUBSET Ring!Hashes]
  /\ members \subseteq RingShards
  /\ DOMAIN nodes \subseteq Ring!Hashes
  /\ \A h \in DOMAIN nodes : nodes[h] \in members
  /\ sortedKeys \in Seq(Nat) /\ Ascending(sortedKeys)
  /\ Elements(sortedKeys) = DOMAIN nodes

LEMMA RingInit == Ring!Init => RingInv
<1> SUFFICES ASSUME Ring!Init PROVE RingInv
  OBVIOUS
<1>1. members = {} /\ nodes = <<>> /\ sortedKeys = <<>>
  BY DEF Ring!Init
<1>2. points \in [RingShards -> SUBSET Ring!Hashes]
  BY DEF Ring!Init
<1>3. DOMAIN nodes = {}
  BY <1>1
<1>4. /\ sortedKeys \in Seq(Nat) /\ Ascending(sortedKeys)
      /\ Elements(sortedKeys) = {}
  BY <1>1 DEF Ascending, Elements
<1> QED BY <1>1, <1>2, <1>3, <1>4 DEF RingInv

LEMMA ElementsJoined ==
  ASSUME NEW a \in Seq(Nat), NEW b \in Seq(Nat)
  PROVE  a \o b \in Seq(Nat) /\ Elements(a \o b) = Elements(a) \cup Elements(b)
<1>1. /\ a \o b \in Seq(Nat) /\ Len(a \o b) = Len(a) + Len(b)
      /\ Len(a) \in Nat /\ Len(b) \in Nat
      /\ \A i \in 1..Len(a) + Len(b) : (a \o b)[i] = IF i <= Len(a) THEN a[i] ELSE b[i - Len(a)]
  OBVIOUS
<1>2. ASSUME NEW e \in Elements(a) PROVE e \in Elements(a \o b)
  BY <1>1 DEF Elements
<1>3. ASSUME NEW e \in Elements(b) PROVE e \in Elements(a \o b)
  <2>1. PICK i \in 1..Len(b) : e = b[i]
    BY DEF Elements
  <2>2. Len(a) + i \in 1..Len(a \o b) /\ (a \o b)[Len(a) + i] = b[i]
    BY <1>1
  <2> QED BY <2>1, <2>2 DEF Elements
<1>4. ASSUME NEW e \in Elements(a \o b) PROVE e \in Elements(a) \cup Elements(b)
  <2>1. PICK i \in 1..Len(a) + Len(b) : e = (a \o b)[i]
    BY <1>1 DEF Elements
  <2>2. CASE i <= Len(a)
    BY <1>1, <2>1, <2>2 DEF Elements
  <2>3. CASE i > Len(a)
    <3>1. i - Len(a) \in 1..Len(b) /\ e = b[i - Len(a)]
      BY <1>1, <2>1, <2>3
    <3> QED BY <3>1 DEF Elements
  <2> QED BY <1>1, <2>2, <2>3
<1> QED BY <1>1, <1>2, <1>3, <1>4

LEMMA RingAdds ==
  ASSUME RingInv, NEW s \in RingShards, Ring!AddNode(s)
  PROVE  RingInv'
<1> DEFINE new == Ring!SetToSeq(points[s])
<1>1. points[s] \subseteq Ring!Hashes /\ IsFiniteSet(points[s])
  <2>1. points[s] \subseteq Ring!Hashes
    BY DEF RingInv
  <2> QED BY <2>1, RingTypes, FS_Subset
<1>2. new \in Seq(Nat) /\ Elements(new) = points[s]
  <2>1. points[s] \in SUBSET Nat
    BY <1>1, RingTypes
  <2> QED BY <1>1, <2>1, ListOfSet
<1>3. /\ sortedKeys' = Ring!Sorted(sortedKeys \o new)
      /\ members' = members \cup {s} /\ UNCHANGED points
      /\ nodes' = [h \in DOMAIN nodes \cup points[s] |-> IF h \in points[s] THEN s ELSE nodes[h]]
  BY DEF Ring!AddNode
<1> HIDE DEF new
<1>4. sortedKeys' \in Seq(Nat) /\ Ascending(sortedKeys') /\ Elements(sortedKeys') = Elements(sortedKeys \o new)
  <2>1. sortedKeys \o new \in Seq(Nat)
    BY <1>2 DEF RingInv
  <2> QED BY <1>3, <2>1, SortedRight
<1>5. Elements(sortedKeys \o new) = DOMAIN nodes \cup points[s]
  BY <1>2, ElementsJoined DEF RingInv
<1>6. DOMAIN nodes' = DOMAIN nodes \cup points[s] /\ \A h \in DOMAIN nodes' : nodes'[h] \in members'
  BY <1>3 DEF RingInv
<1>7. points' \in [RingShards -> SUBSET Ring!Hashes] /\ members' \subseteq RingShards
  BY <1>3 DEF RingInv
<1>8. DOMAIN nodes' \subseteq Ring!Hashes
  BY <1>1, <1>6 DEF RingInv
<1> QED BY <1>4, <1>5, <1>6, <1>7, <1>8 DEF RingInv

LEMMA RingRemoves ==
  ASSUME RingInv, NEW s \in RingShards, Ring!RemoveNode(s)
  PROVE  RingInv'
<1> DEFINE kept == {h \in DOMAIN nodes : nodes[h] # s}
<1>1. kept \subseteq Ring!Hashes /\ IsFiniteSet(kept)
  <2>1. kept \subseteq Ring!Hashes
    BY DEF RingInv
  <2> QED BY <2>1, RingTypes, FS_Subset
<1> DEFINE list == Ring!SetToSeq(kept)
<1>2. /\ sortedKeys' = Ring!Sorted(list)
      /\ members' = members \ {s} /\ UNCHANGED points
      /\ nodes' = [h \in kept |-> nodes[h]]
  BY DEF Ring!RemoveNode
<1>3. list \in Seq(Nat) /\ Elements(list) = kept
  <2> HIDE DEF kept
  <2>1. kept \in SUBSET Nat
    BY <1>1, RingTypes
  <2> QED BY <1>1, <2>1, ListOfSet
<1>6. DOMAIN nodes' = kept /\ \A h \in DOMAIN nodes' : nodes'[h] \in members'
  BY <1>2 DEF RingInv
<1> HIDE DEF list, kept
<1>4. sortedKeys' \in Seq(Nat) /\ Ascending(sortedKeys') /\ Elements(sortedKeys') = kept
  BY <1>2, <1>3, SortedRight
<1>7. points' \in [RingShards -> SUBSET Ring!Hashes] /\ members' \subseteq RingShards
  BY <1>2 DEF RingInv
<1> QED BY <1>1, <1>4, <1>6, <1>7 DEF RingInv

LEMMA RingStep == RingInv /\ [Ring!Next]_Ring!vars => RingInv'
<1> SUFFICES ASSUME RingInv, [Ring!Next]_Ring!vars PROVE RingInv'
  OBVIOUS
<1>1. ASSUME NEW s \in RingShards, Ring!AddNode(s) PROVE RingInv'
  BY <1>1, RingAdds
<1>2. ASSUME NEW s \in RingShards, Ring!RemoveNode(s) PROVE RingInv'
  BY <1>2, RingRemoves
<1>3. CASE UNCHANGED Ring!vars
  BY <1>3 DEF RingInv, Ring!vars
<1> QED BY <1>1, <1>2, <1>3 DEF Ring!Next

(* Every hash has an owner, the member with the first point from there on. *)
LEMMA OwnersFound ==
  ASSUME RingInv, NEW h \in Ring!Hashes, sortedKeys # <<>>
  PROVE  \E k : Follows(h, k, DOMAIN nodes) /\ Ring!GetNode(h) = nodes[k]
<1>1. h \in Nat
  BY RingTypes
<1>2. Ring!GetNode(h) = Found(sortedKeys, nodes, h)
  BY DEF Ring!GetNode, Found
<1> QED BY <1>1, <1>2, Lookup DEF RingInv

LEMMA OwnersFoundNext ==
  ASSUME RingInv', NEW h \in Ring!Hashes, sortedKeys' # <<>>
  PROVE  \E k : Follows(h, k, DOMAIN nodes') /\ Ring!GetNode(h)' = nodes'[k]
<1>1. h \in Nat
  BY RingTypes
<1>2. Ring!GetNode(h)' = Found(sortedKeys', nodes', h)
  BY DEF Ring!GetNode, Found
<1>3. /\ sortedKeys' \in Seq(Nat) /\ Ascending(sortedKeys')
      /\ Elements(sortedKeys') = DOMAIN nodes'
  BY DEF RingInv
<1> QED BY <1>1, <1>2, <1>3, Lookup

LEMMA Ownership == RingInv => Ring!OwnersAreMembers
<1> SUFFICES ASSUME RingInv, sortedKeys # <<>>, NEW h \in Ring!Hashes
             PROVE  Ring!GetNode(h) \in members
  BY DEF Ring!OwnersAreMembers
<1>1. PICK k : Follows(h, k, DOMAIN nodes) /\ Ring!GetNode(h) = nodes[k]
  BY OwnersFound
<1> QED BY <1>1 DEF Follows, RingInv

LEMMA NoneOwned ==
  ASSUME NEW h \in Ring!Hashes
  PROVE  /\ sortedKeys = <<>> => Ring!GetNode(h) = Ring!Missing
         /\ sortedKeys' = <<>> => Ring!GetNode(h)' = Ring!Missing
BY DEF Ring!GetNode

(* A point that comes is the new shard's; where it does not come first,    *)
(* the first one is the same as before.                                    *)
LEMMA AddMovesLittle ==
  ASSUME RingInv, RingInv', NEW s \in RingShards, Ring!AddNode(s), NEW h \in Ring!Hashes
  PROVE  \/ Ring!GetNode(h)' = Ring!GetNode(h)
         \/ Ring!GetNode(h)' = s
         \/ Ring!GetNode(h) = Ring!Missing
<1>1. CASE sortedKeys = <<>>
  BY <1>1, NoneOwned
<1>2. CASE sortedKeys # <<>>
  <2>1. PICK k : Follows(h, k, DOMAIN nodes) /\ Ring!GetNode(h) = nodes[k]
    BY <1>2, OwnersFound
  <2>2. /\ DOMAIN nodes' = DOMAIN nodes \cup points[s]
        /\ \A d \in DOMAIN nodes' : nodes'[d] = IF d \in points[s] THEN s ELSE nodes[d]
    BY DEF Ring!AddNode
  <2>3. k \in DOMAIN nodes'
    BY <2>1, <2>2 DEF Follows
  <2>4. sortedKeys' # <<>>
    BY <2>3 DEF RingInv, Elements
  <2>5. PICK l : Follows(h, l, DOMAIN nodes') /\ Ring!GetNode(h)' = nodes'[l]
    BY <2>4, OwnersFoundNext
  <2>6. CASE l \in points[s]
    BY <2>2, <2>5, <2>6 DEF Follows
  <2>7. CASE l \notin points[s]
    <3>1. Follows(h, l, DOMAIN nodes)
      BY <2>2, <2>5, <2>7 DEF Follows
    <3>2. k = l
      BY <2>1, <3>1, FollowsOnce, RingTypes DEF RingInv
    <3> QED BY <2>1, <2>2, <2>3, <2>5, <2>7, <3>2
  <2> QED BY <2>6, <2>7
<1> QED BY <1>1, <1>2

(* A point that stays is still the first one where it was.                 *)
LEMMA RemoveMovesLittle ==
  ASSUME RingInv, RingInv', NEW s \in RingShards, Ring!RemoveNode(s), NEW h \in Ring!Hashes
  PROVE  \/ Ring!GetNode(h)' = Ring!GetNode(h)
         \/ Ring!GetNode(h) \in {s, Ring!Missing}
<1>1. CASE sortedKeys = <<>>
  BY <1>1, NoneOwned
<1>2. CASE sortedKeys # <<>>
  <2>1. PICK k : Follows(h, k, DOMAIN nodes) /\ Ring!GetNode(h) = nodes[k]
    BY <1>2, OwnersFound
  <2>2. /\ \A d \in DOMAIN nodes' : d \in DOMAIN nodes /\ nodes'[d] = nodes[d]
        /\ \A d \in DOMAIN nodes : nodes[d] # s => d \in DOMAIN nodes'
    BY DEF Ring!RemoveNode
  <2>3. CASE nodes[k] = s
    BY <2>1, <2>3
  <2>4. CASE nodes[k] # s
    <3>1. Follows(h, k, DOMAIN nodes')
      BY <2>1, <2>2, <2>4 DEF Follows
    <3>2. sortedKeys' # <<>>
      BY <3>1 DEF RingInv, Elements, Follows
    <3>3. PICK l : Follows(h, l, DOMAIN nodes') /\ Ring!GetNode(h)' = nodes'[l]
      BY <3>2, OwnersFoundNext
    <3>4. l = k
      BY <3>1, <3>3, FollowsOnce, RingTypes DEF RingInv
    <3> QED BY <2>1, <2>2, <3>1, <3>3, <3>4 DEF Follows
  <2> QED BY <2>3, <2>4
<1> QED BY <1>1, <1>2

LEMMA OwnersRead ==
  ASSUME NEW h \in Ring!Hashes
  PROVE  Ring!Owner[h] = Ring!GetNode(h) /\ Ring!Owner'[h] = Ring!GetNode(h)'
BY DEF Ring!Owner

LEMMA RingMovesLittle ==
  RingInv /\ RingInv' /\ [Ring!Next]_Ring!vars => [Ring!MovesLittle]_Ring!vars
<1> SUFFICES ASSUME RingInv, RingInv', Ring!Next, NEW h \in Ring!Hashes,
                    Ring!Owner'[h] # Ring!Owner[h]
             PROVE  \/ Ring!Owner'[h] \in members' \ members
                    \/ Ring!Owner[h] \in (members \ members') \cup {Ring!Missing}
  BY DEF Ring!MovesLittle
<1>1. ASSUME NEW s \in RingShards, Ring!AddNode(s)
      PROVE  \/ Ring!Owner'[h] \in members' \ members
             \/ Ring!Owner[h] = Ring!Missing
  <2>1. s \in members' \ members
    BY <1>1 DEF Ring!AddNode
  <2> QED BY <1>1, <2>1, AddMovesLittle, OwnersRead
<1>2. ASSUME NEW s \in RingShards, Ring!RemoveNode(s)
      PROVE  Ring!Owner[h] \in (members \ members') \cup {Ring!Missing}
  <2>1. s \in members \ members'
    BY <1>2 DEF Ring!RemoveNode
  <2> QED BY <1>2, <2>1, RemoveMovesLittle, OwnersRead
<1> QED BY <1>1, <1>2 DEF Ring!Next

THEOREM RingOwned == Ring!Spec => []Ring!OwnersAreMembers
<1>1. Ring!Spec => []RingInv
  BY RingInit, RingStep, PTL DEF Ring!Spec
<1> QED BY <1>1, Ownership, PTL

THEOREM RingMoves == Ring!Spec => Ring!MinimalMove
<1>1. Ring!Spec => []RingInv
  BY RingInit, RingStep, PTL DEF Ring!Spec
<1> QED BY <1>1, RingMovesLittle, PTL DEF Ring!Spec, Ring!MinimalMove

-----------------------------------------------------------------------------
(* Arithmetic modulo a size.                                               *)

LEMMA Products ==
  ASSUME NEW a \in Int, NEW b \in Int, NEW t \in Nat, a <= b
  PROVE  a * t <= b * t /\ a * t \in Int /\ b * t \in Int
<1>1. (b - a) * t >= 0
  BY SMT
<1>2. (b - a) * t = b * t - a * t
  BY SMT
<1>3. a * t \in Int /\ b * t \in Int
  BY SMT
<1> QED BY <1>1, <1>2, <1>3

LEMMA Remainders ==
  ASSUME NEW a \in Int, NEW t \in Nat \ {0}
  PROVE  /\ a % t \in 0..t - 1 /\ a \div t \in Int
         /\ a = (a \div t) * t + (a % t)
BY SMT

LEMMA OneRemainder ==
  ASSUME NEW q \in Int, NEW t \in Nat \ {0}, NEW r \in 0..t - 1
  PROVE  (q * t + r) % t = r
BY SMT

LEMMA SmallRemainder ==
  ASSUME NEW t \in Nat \ {0}, NEW r \in 0..t - 1
  PROVE  r % t = r
BY SMT

LEMMA AddedRemainder ==
  ASSUME NEW a \in Int, NEW s \in Int, NEW t \in Nat \ {0}
  PROVE  ((a % t) + s) % t = (a + s) % t
<1> DEFINE q == a \div t
           p == (a + s) \div t
           z == (a + s) % t
<1>1. q \in Int /\ a % t \in Int /\ a = q * t + (a % t)
  BY Remainders
<1>2. p \in Int /\ z \in 0..t - 1 /\ a + s = p * t + z
  BY Remainders
<1> HIDE DEF q, p, z
<1>3. (a % t) + s = (p - q) * t + z
  <2>1. (p - q) * t = p * t - q * t /\ p * t \in Int /\ q * t \in Int
    BY <1>1, <1>2
  <2> QED BY <1>1, <1>2, <2>1
<1>4. ((p - q) * t + z) % t = z
  BY <1>1, <1>2, OneRemainder
<1> QED BY <1>3, <1>4 DEF z

(* Of a prime t and a distance s from 1 on and below it: no smaller        *)
(* multiple of s is one of t.  The least multiple that is divides t.       *)
LEMMA PrimeSteps ==
  ASSUME NEW t \in Nat, Maglev!isPrime(t), NEW s \in 1..t - 1, NEW d \in 1..t - 1, NEW k \in Int
  PROVE  d * s # k * t
<1> SUFFICES ASSUME d * s = k * t PROVE FALSE
  OBVIOUS
<1> DEFINE D == {e \in Nat \ {0} : \E l \in Int : e * s = l * t}
<1>1. t > 1
  BY DEF Maglev!isPrime
<1>2. d \in D
  OBVIOUS
<1>3. PICK m \in D : \A e \in D : m <= e
  <2>1. D \subseteq Nat
    OBVIOUS
  <2> HIDE DEF D
  <2> QED BY <1>2, <2>1, LeastOfNaturals
<1>4. PICK l \in Int : m * s = l * t
  OBVIOUS
<1>5. m \in Nat \ {0} /\ m <= t - 1
  BY <1>2, <1>3
<1>6. m # 1
  <2> SUFFICES ASSUME m = 1 PROVE FALSE
    OBVIOUS
  <2>1. s = l * t /\ l * t \in Int
    BY <1>4
  <2>2. CASE l <= 0
    BY <1>1, <1>4, <2>1, <2>2, Products
  <2>3. CASE l >= 1
    <3>1. 1 * t <= l * t
      BY <1>4, <2>3, Products
    <3> QED BY <2>1, <3>1
  <2> QED BY <1>4, <2>2, <2>3
<1> DEFINE q == t \div m
           r == t % m
<1>7. q \in Int /\ r \in 0..m - 1 /\ t = q * m + r
  BY <1>5, Remainders
<1>8. r # 0
  BY <1>5, <1>6 DEF Maglev!isPrime
<1> HIDE DEF q, r
<1>9. r * s = (s - q * l) * t
  <2>1. r = t - q * m /\ q * m \in Int
    BY <1>5, <1>7
  <2>2. r * s = t * s - q * (m * s)
    BY <1>5, <1>7, <2>1
  <2>3. r * s = t * s - q * (l * t)
    BY <1>4, <2>2
  <2>4. (s - q * l) * t = t * s - q * (l * t)
    BY <1>4, <1>7
  <2> QED BY <2>3, <2>4
<1>10. r \in D
  <2>1. PICK p \in Int : r * s = p * t
    <3>1. s - q * l \in Int
      BY <1>4, <1>7
    <3> QED BY <1>9, <3>1
  <2> QED BY <1>7, <1>8, <2>1
<1> QED BY <1>3, <1>5, <1>7, <1>10

(* The places i * s from x on, as many as there are slots, are all slots.  *)
LEMMA AllReached ==
  ASSUME NEW t \in Nat, Maglev!isPrime(t), NEW s \in 1..t - 1, NEW x \in Nat
  PROVE  \A y \in 0..t - 1 : \E i \in 0..t - 1 : (x + i * s) % t = y
<1> DEFINE S == 0..t - 1
           at(i) == (x + i * s) % t
           place == [i \in S |-> at(i)]
<1>1. t \in Nat \ {0} /\ IsFiniteSet(S) /\ Cardinality(S) \in Nat
  BY FS_Interval, FS_CardinalityType DEF Maglev!isPrime
<1>2. \A i \in S : i * s \in Int /\ x + i * s \in Int
  OBVIOUS
<1>3. \A i \in S : at(i) \in S
  BY <1>1, <1>2, Remainders
<1>4. ASSUME NEW i \in S, NEW j \in S, i < j PROVE at(i) # at(j)
  <2> SUFFICES ASSUME at(i) = at(j) PROVE FALSE
    OBVIOUS
  <2> DEFINE a == x + i * s
             b == x + j * s
  <2>1. a \in Int /\ b \in Int /\ b - a = (j - i) * s
    BY SMT
  <2>2. a % t = b % t
    OBVIOUS
  <2> DEFINE p == a \div t
             q == b \div t
  <2> HIDE DEF a, b
  <2>3. p \in Int /\ q \in Int /\ a = p * t + (a % t) /\ b = q * t + (b % t) /\ a % t \in Int
    <3>1. p \in Int /\ a = p * t + (a % t) /\ a % t \in 0..t - 1
      BY <1>1, <2>1, Remainders
    <3>2. q \in Int /\ b = q * t + (b % t)
      BY <1>1, <2>1, Remainders
    <3> QED BY <1>1, <3>1, <3>2
  <2> HIDE DEF p, q
  <2>4. b - a = (q - p) * t
    <3>1. (q - p) * t = q * t - p * t /\ q * t \in Int /\ p * t \in Int
      BY <2>3
    <3> QED BY <2>1, <2>2, <2>3, <3>1
  <2>5. j - i \in 1..t - 1 /\ q - p \in Int
    BY <1>4, <2>3
  <2> QED BY <2>1, <2>4, <2>5, PrimeSteps
<1> HIDE DEF at
<1>5. place \in Injection(S, S)
  <2>1. \A i, j \in S : at(i) = at(j) => i = j
    BY <1>4
  <2> QED BY <1>3, <2>1 DEF Injection, IsInjective
<1>6. place \in Surjection(S, S)
  <2> HIDE DEF place, S
  <2> QED BY <1>1, <1>5, FS_Injection
<1> QED BY <1>6 DEF Surjection, at

-----------------------------------------------------------------------------
(* The Maglev table.                                                       *)

Others == 0..Backends - 1

(* Looks at a slot a backend has had, of so many whole rounds.             *)
Looks(rounds, b) == IF b < turn THEN rounds + 1 ELSE rounds

(* The slot of the i-th look of a backend that began at x.                 *)
LookAt(x, b, i) == (x + i * skip[b]) % TableSize

(* Every backend is as many steps from its first slot as it has had turns, *)
(* and no slot it has looked at is empty.                                  *)
Walked(first, rounds) ==
  /\ tries = rounds * Backends + turn
  /\ \A b \in Others :
       /\ next[b] = LookAt(first[b], b, Looks(rounds, b))
       /\ \A i \in Nat : i < Looks(rounds, b) => entry[LookAt(first[b], b, i)] # Maglev!Empty

Filled == {i \in Maglev!Slots : entry[i] # Maglev!Empty}

MaglevInv ==
  /\ skip \in [Others -> 1..TableSize - 1]
  /\ next \in [Others -> Maglev!Slots]
  /\ entry \in [Maglev!Slots -> {Maglev!Empty} \cup Others]
  /\ turn \in Others /\ taken = Cardinality(Filled) /\ tries \in Nat
  /\ \E first \in [Others -> Maglev!Slots], rounds \in Nat : Walked(first, rounds)

LEMMA MaglevTypes ==
  /\ Backends \in Nat \ {0} /\ TableSize \in Nat \ {0, 1} /\ Maglev!isPrime(TableSize)
  /\ IsFiniteSet(Maglev!Slots) /\ Cardinality(Maglev!Slots) = TableSize
  /\ Maglev!Slots = 0..TableSize - 1
<1>1. /\ Backends \in Nat \ {0} /\ TableSize \in Nat /\ Maglev!isPrime(TableSize)
      /\ TableSize > 1
  BY RebalancerAssumption DEF Maglev!MaglevAssumption, Maglev!isPrime
<1>2. IsFiniteSet(0..TableSize - 1) /\ Cardinality(0..TableSize - 1) = TableSize
  <2>1. /\ IsFiniteSet(0..TableSize - 1)
        /\ Cardinality(0..TableSize - 1) =
             IF 0 > TableSize - 1 THEN 0 ELSE (TableSize - 1) - 0 + 1
    BY <1>1, FS_Interval
  <2>2. (IF 0 > TableSize - 1 THEN 0 ELSE (TableSize - 1) - 0 + 1) = TableSize
    BY <1>1
  <2> QED BY <2>1, <2>2
<1> QED BY <1>1, <1>2 DEF Maglev!Slots

LEMMA MaglevInit == Maglev!Init => MaglevInv
<1> SUFFICES ASSUME Maglev!Init PROVE MaglevInv
  OBVIOUS
<1>1. /\ turn = 0 /\ taken = 0 /\ tries = 0 /\ next \in [Others -> Maglev!Slots]
      /\ entry = [i \in Maglev!Slots |-> Maglev!Empty]
  BY DEF Maglev!Init, Others
<1>2. skip \in [Others -> 1..TableSize - 1]
  <2>1. Maglev!Skips \subseteq 1..TableSize - 1
    <3> SUFFICES ASSUME NEW h \in 0..TableSize PROVE (h % (TableSize - 1)) + 1 \in 1..TableSize - 1
      BY DEF Maglev!Skips
    <3> DEFINE size == TableSize - 1
    <3>1. h \in Int /\ size \in Nat \ {0}
      BY MaglevTypes
    <3> HIDE DEF size
    <3>2. h % size \in 0..size - 1
      BY <3>1, Remainders
    <3>3. (h % size) + 1 \in 1..size
      BY <3>1, <3>2
    <3> QED BY <3>3 DEF size
  <2> QED BY <2>1 DEF Maglev!Init, Others
<1>3. Filled = {} /\ Cardinality({}) = 0
  BY <1>1, FS_EmptySet DEF Filled
<1>4. Walked(next, 0)
  <2>1. tries = 0 * Backends + turn
    BY <1>1, MaglevTypes
  <2>2. ASSUME NEW b \in Others
        PROVE  /\ Looks(0, b) = 0
               /\ next[b] = LookAt(next[b], b, 0)
    <3>1. Looks(0, b) = 0
      BY <1>1, MaglevTypes DEF Looks, Others
    <3>2. next[b] \in 0..TableSize - 1 /\ 0 * skip[b] = 0
      BY <1>1, <1>2, MaglevTypes
    <3>3. next[b] % TableSize = next[b]
      BY <3>2, MaglevTypes, SmallRemainder
    <3> QED BY <3>1, <3>2, <3>3, MaglevTypes DEF LookAt
  <2> QED BY <2>1, <2>2 DEF Walked
<1>5. 0 \in Others
  BY MaglevTypes DEF Others
<1> QED BY <1>1, <1>2, <1>3, <1>4, <1>5 DEF MaglevInv

LEMMA WalkGoesOn ==
  ASSUME MaglevInv, Maglev!Try,
         NEW first \in [Others -> Maglev!Slots], NEW rounds \in Nat, Walked(first, rounds)
  PROVE  \E later \in Nat : Walked(first, later)'
<1>1. /\ turn \in Others /\ turn \in Nat /\ skip[turn] \in Nat /\ first[turn] \in Nat
      /\ Backends \in Nat \ {0} /\ TableSize \in Nat \ {0}
      /\ skip \in [Others -> 1..TableSize - 1] /\ next \in [Others -> Maglev!Slots]
      /\ \A b \in Others : b \in Nat
  <2>1. /\ turn \in Others /\ skip \in [Others -> 1..TableSize - 1]
        /\ next \in [Others -> Maglev!Slots]
    BY Zenon DEF MaglevInv
  <2>2. Backends \in Nat \ {0} /\ TableSize \in Nat \ {0}
    BY MaglevTypes
  <2>3. \A b \in Others : b \in Nat
    BY <2>2 DEF Others
  <2>4. skip[turn] \in Nat
    <3>1. skip[turn] \in 1..TableSize - 1
      BY <2>1, Zenon
    <3> QED BY <2>2, <3>1
  <2>5. first[turn] \in Nat
    <3>1. first[turn] \in 0..TableSize - 1
      <4>1. first[turn] \in Maglev!Slots
        BY <2>1, Zenon
      <4> QED BY <4>1, MaglevTypes, Zenon
    <3> QED BY <2>2, <3>1
  <2> QED BY <2>1, <2>2, <2>3, <2>4, <2>5, Zenon
<1>2. /\ next' = [next EXCEPT ![turn] = (@ + skip[turn]) % TableSize]
      /\ turn' = (turn + 1) % Backends /\ tries' = tries + 1 /\ skip' = skip
  BY DEF Maglev!Try
<1>3. PICK later \in Nat : later = IF turn + 1 = Backends THEN rounds + 1 ELSE rounds
  OBVIOUS
<1>4. turn' = IF turn + 1 = Backends THEN 0 ELSE turn + 1
  <2>1. CASE turn + 1 = Backends
    <3>1. (1 * Backends + 0) % Backends = 0
      BY <1>1, OneRemainder
    <3> QED BY <1>1, <1>2, <2>1, <3>1
  <2>2. CASE turn + 1 # Backends
    <3>1. turn + 1 \in 0..Backends - 1
      BY <1>1, <2>2 DEF Others
    <3> QED BY <1>1, <1>2, <2>2, <3>1, SmallRemainder
  <2> QED BY <2>1, <2>2
<1>5. tries' = later * Backends + turn'
  <2>1. tries = rounds * Backends + turn /\ rounds * Backends \in Int
    BY <1>1 DEF Walked
  <2>2. (rounds + 1) * Backends = rounds * Backends + Backends
    BY <1>1
  <2> QED BY <1>1, <1>2, <1>3, <1>4, <2>1, <2>2
<1>6. ASSUME NEW b \in Others
      PROVE  /\ Looks(later, b)' = (IF b = turn THEN rounds + 1 ELSE Looks(rounds, b))
             /\ Looks(rounds, turn) = rounds
             /\ Looks(rounds, b) \in Nat
  <2>1. b \in 0..Backends - 1
    BY DEF Others
  <2> QED BY <1>1, <1>3, <1>4, <2>1 DEF Looks
<1>7. ASSUME NEW b \in Others, NEW i \in Nat PROVE LookAt(first[b], b, i)' = LookAt(first[b], b, i)
  BY <1>2 DEF LookAt
<1>8. ASSUME NEW b \in Others, NEW i \in Nat PROVE LookAt(first[b], b, i) \in Maglev!Slots
  <2>1. first[b] \in Nat /\ skip[b] \in Nat
    BY <1>1, MaglevTypes
  <2>2. first[b] + i * skip[b] \in Int
    BY <2>1
  <2> QED BY <1>1, <2>2, Remainders, MaglevTypes DEF LookAt
<1>9. next'[turn] = LookAt(first[turn], turn, rounds + 1)
  <2> DEFINE x == first[turn]
             s == skip[turn]
             a == x + rounds * s
  <2>1. next[turn] = a % TableSize /\ next'[turn] = (next[turn] + s) % TableSize
    BY <1>1, <1>2, <1>6 DEF Walked, LookAt
  <2>2. x \in Nat /\ s \in Nat
    BY <1>1
  <2>3. LookAt(x, turn, rounds + 1) = (x + (rounds + 1) * s) % TableSize
    BY DEF LookAt
  <2> HIDE DEF x, s
  <2>4. a \in Int /\ a + s = x + (rounds + 1) * s
    BY <2>2
  <2> HIDE DEF a
  <2>5. ((a % TableSize) + s) % TableSize = (a + s) % TableSize
    <3>1. a \in Int /\ s \in Int /\ TableSize \in Nat \ {0}
      BY <1>1, <2>2, <2>4
    <3> QED BY <3>1, AddedRemainder, Zenon
  <2> QED BY <2>1, <2>3, <2>4, <2>5 DEF x
<1>10. ASSUME NEW b \in Others PROVE next'[b] = LookAt(first[b], b, Looks(later, b))'
  <2>1. CASE b = turn
    <3>1. LookAt(first[b], b, Looks(later, b))' = LookAt(first[b], b, rounds + 1)
      BY <1>2, <1>6, <2>1 DEF LookAt
    <3> QED BY <1>9, <2>1, <3>1
  <2>2. CASE b # turn
    <3>1. next'[b] = next[b]
      BY <1>1, <1>2, <2>2
    <3>2. LookAt(first[b], b, Looks(later, b))' = LookAt(first[b], b, Looks(rounds, b))
      BY <1>2, <1>6, <2>2 DEF LookAt
    <3> QED BY <3>1, <3>2 DEF Walked
  <2> QED BY <2>1, <2>2
<1>11. /\ entry'[next[turn]] # Maglev!Empty
       /\ \A i \in Maglev!Slots : entry[i] # Maglev!Empty => entry'[i] # Maglev!Empty
  BY <1>1 DEF Maglev!Try, MaglevInv, Maglev!Empty
<1>12. ASSUME NEW b \in Others, NEW i \in Nat, i < Looks(later, b)'
       PROVE  entry'[LookAt(first[b], b, i)'] # Maglev!Empty
  <2>1. CASE i < Looks(rounds, b)
    BY <1>7, <1>8, <1>11, <2>1 DEF Walked
  <2>2. CASE ~(i < Looks(rounds, b))
    <3>1. b = turn /\ i = Looks(rounds, b)
      BY <1>6, <1>12, <2>2
    <3>2. next[turn] = LookAt(first[b], b, i)
      BY <3>1 DEF Walked
    <3> QED BY <1>7, <1>11, <3>2
  <2> QED BY <2>1, <2>2
<1>13. Walked(first, later)'
  BY <1>5, <1>10, <1>12 DEF Walked
<1> QED BY <1>3, <1>13

LEMMA MaglevStep == MaglevInv /\ [Maglev!Try]_Maglev!vars => MaglevInv'
<1>1. ASSUME MaglevInv, Maglev!Try PROVE MaglevInv'
  <2>1. /\ turn \in Others /\ next \in [Others -> Maglev!Slots] /\ skip \in [Others -> 1..TableSize - 1]
        /\ entry \in [Maglev!Slots -> {Maglev!Empty} \cup Others]
        /\ next[turn] \in Maglev!Slots /\ TableSize \in Nat \ {0} /\ Backends \in Nat \ {0}
    BY <1>1, MaglevTypes DEF MaglevInv
  <2>2. entry' \in [Maglev!Slots -> {Maglev!Empty} \cup Others] /\ taken' = Cardinality(Filled)'
    <3>1. IsFiniteSet(Filled)
      BY MaglevTypes, FS_Subset DEF Filled
    <3>2. CASE entry[next[turn]] = Maglev!Empty
      <4>1. entry' = [entry EXCEPT ![next[turn]] = turn] /\ taken' = taken + 1
        BY <1>1, <3>2 DEF Maglev!Try
      <4>2. turn # Maglev!Empty
        BY <2>1 DEF Others, Maglev!Empty
      <4>3. Filled' = Filled \cup {next[turn]} /\ next[turn] \notin Filled
        BY <2>1, <3>2, <4>1, <4>2 DEF Filled
      <4>4. Cardinality(Filled') = Cardinality(Filled) + 1
        BY <3>1, <4>3, FS_AddElement
      <4> QED BY <1>1, <2>1, <4>1, <4>4 DEF MaglevInv
    <3>3. CASE entry[next[turn]] # Maglev!Empty
      BY <1>1, <2>1, <3>3 DEF Maglev!Try, MaglevInv, Filled
    <3> QED BY <3>2, <3>3
  <2>3. turn' \in Others /\ tries' \in Nat /\ skip' = skip
    <3>1. (turn + 1) % Backends \in 0..Backends - 1
      <4>1. turn + 1 \in Int
        BY <2>1 DEF Others
      <4> QED BY <2>1, <4>1, Remainders
    <3> QED BY <1>1, <3>1 DEF Maglev!Try, MaglevInv, Others
  <2>4. next' \in [Others -> Maglev!Slots]
    <3>1. next[turn] + skip[turn] \in Int
      BY <2>1, MaglevTypes
    <3>2. (next[turn] + skip[turn]) % TableSize \in Maglev!Slots
      BY <2>1, <3>1, Remainders, MaglevTypes
    <3> QED BY <1>1, <2>1, <3>2 DEF Maglev!Try
  <2>5. \E first \in [Others -> Maglev!Slots], rounds \in Nat : Walked(first, rounds)'
    <3>1. PICK first \in [Others -> Maglev!Slots], rounds \in Nat : Walked(first, rounds)
      BY <1>1 DEF MaglevInv
    <3> QED BY <1>1, <3>1, WalkGoesOn
  <2> QED BY <2>1, <2>2, <2>3, <2>4, <2>5 DEF MaglevInv
<1>2. ASSUME MaglevInv, UNCHANGED Maglev!vars PROVE MaglevInv'
  <2>1. UNCHANGED <<skip, next, entry, turn, taken, tries>>
    BY <1>2 DEF Maglev!vars
  <2>2. PICK first \in [Others -> Maglev!Slots], rounds \in Nat : Walked(first, rounds)
    BY <1>2 DEF MaglevInv
  <2>3. Walked(first, rounds)'
    <3>1. ASSUME NEW b PROVE Looks(rounds, b)' = Looks(rounds, b)
      BY <2>1 DEF Looks
    <3>2. ASSUME NEW b, NEW i PROVE LookAt(first[b], b, i)' = LookAt(first[b], b, i)
      BY <2>1 DEF LookAt
    <3>3. ASSUME NEW b PROVE LookAt(first[b], b, Looks(rounds, b))' = LookAt(first[b], b, Looks(rounds, b))
      BY <2>1, <3>1 DEF LookAt
    <3>4. ASSUME NEW b \in Others
          PROVE  (next[b] = LookAt(first[b], b, Looks(rounds, b)))'
      BY <2>1, <2>2, <3>3 DEF Walked
    <3>5. ASSUME NEW b \in Others, NEW i \in Nat, (i < Looks(rounds, b))'
          PROVE  (entry[LookAt(first[b], b, i)] # Maglev!Empty)'
      <4>1. i < Looks(rounds, b)
        BY <3>1, <3>5
      <4>2. entry[LookAt(first[b], b, i)] # Maglev!Empty
        BY <2>2, <4>1 DEF Walked
      <4> QED BY <2>1, <3>2, <4>2
    <3>6. (tries = rounds * Backends + turn)'
      BY <2>1, <2>2 DEF Walked
    <3> QED BY <3>4, <3>5, <3>6 DEF Walked
  <2> QED BY <1>2, <2>1, <2>3 DEF MaglevInv, Filled
<1> QED BY <1>1, <1>2

(* A backend that has had as many turns as there are slots has seen all.   *)
LEMMA MaglevFills == MaglevInv => Maglev!FillsInTime
<1> SUFFICES ASSUME MaglevInv PROVE Maglev!FillsInTime
  OBVIOUS
<1>1. taken = Maglev!Cardinality({i \in Maglev!Slots : entry[i] # Maglev!Empty})
  BY DEF MaglevInv, Filled, Maglev!Cardinality, Cardinality
<1>2. ASSUME tries >= Backends * TableSize PROVE taken = TableSize
  <2>1. PICK first \in [Others -> Maglev!Slots], rounds \in Nat : Walked(first, rounds)
    BY DEF MaglevInv
  <2>2. /\ 0 \in Others /\ turn \in Nat /\ turn < Backends
        /\ Backends \in Nat \ {0} /\ TableSize \in Nat \ {0}
    BY MaglevTypes DEF MaglevInv, Others
  <2>3. rounds >= TableSize
    <3> SUFFICES ASSUME rounds + 1 <= TableSize PROVE FALSE
      BY <2>2
    <3>1. (rounds + 1) * Backends <= TableSize * Backends
      BY <2>2, Products
    <3>2. (rounds + 1) * Backends = rounds * Backends + Backends /\ rounds * Backends \in Int
      BY <2>2
    <3>3. tries = rounds * Backends + turn
      BY <2>1 DEF Walked
    <3>4. TableSize * Backends = Backends * TableSize /\ Backends * TableSize \in Int
      BY <2>2
    <3> QED BY <1>2, <2>2, <3>1, <3>2, <3>3, <3>4
  <2>4. ASSUME NEW y \in Maglev!Slots PROVE entry[y] # Maglev!Empty
    <3>1. skip[0] \in 1..TableSize - 1 /\ first[0] \in Nat /\ y \in 0..TableSize - 1
      BY <2>2, MaglevTypes DEF MaglevInv
    <3>2. PICK i \in 0..TableSize - 1 : (first[0] + i * skip[0]) % TableSize = y
      <4> DEFINE x == first[0]
                 s == skip[0]
      <4>1. x \in Nat /\ s \in 1..TableSize - 1 /\ y \in 0..TableSize - 1
        BY <3>1
      <4> HIDE DEF x, s
      <4>2. \A z \in 0..TableSize - 1 : \E i \in 0..TableSize - 1 : (x + i * s) % TableSize = z
        <5>1. TableSize \in Nat /\ Maglev!isPrime(TableSize)
          BY MaglevTypes
        <5> QED BY <4>1, <5>1, AllReached, Zenon
      <4> QED BY <4>1, <4>2 DEF x, s
    <3>3. i \in Nat /\ i < Looks(rounds, 0)
      BY <2>2, <2>3 DEF Looks
    <3>4. y = LookAt(first[0], 0, i)
      BY <3>2 DEF LookAt
    <3> QED BY <2>1, <2>2, <3>3, <3>4 DEF Walked
  <2>5. Filled = Maglev!Slots
    BY <2>4 DEF Filled
  <2> QED BY <2>5, MaglevTypes DEF MaglevInv
<1> QED BY <1>1, <1>2 DEF Maglev!FillsInTime

THEOREM TableFills == Maglev!Spec => []Maglev!FillsInTime
BY MaglevInit, MaglevStep, MaglevFills, PTL DEF Maglev!Spec

-----------------------------------------------------------------------------
(* Sums.  Some function solves the equation of the running sum over the    *)
(* subsets of a finite set, and only one does.                             *)

Pick(s) == CHOOSE x \in s : TRUE
Rest1(s) == s \ {Pick(s)}
RunningSum(f, S, h) ==
  h = [s \in SUBSET S |-> IF s = {} THEN 0 ELSE f[Pick(s)] + h[Rest1(s)]]
SumOf(f, S) == (CHOOSE h : RunningSum(f, S, h))[S]

LEMMA TotalIsSum ==
  ASSUME NEW l
  PROVE  Table!Total(l) = SumOf(l, Physical)
BY DEF Table!Total, Table!MapThenSumSet, Table!MapThenFoldSet, SumOf, RunningSum, Pick, Rest1

(* A property of finite sets holds for all of them when it holds for a set *)
(* whenever it does for its smaller subsets.                               *)
LEMMA LeastSet ==
  ASSUME NEW S, IsFiniteSet(S), NEW B, B \subseteq SUBSET S, B # {}
  PROVE  \E s \in B : \A t \in B : Cardinality(s) <= Cardinality(t)
<1> DEFINE N == {Cardinality(s) : s \in B}
<1>1. \A s \in B : Cardinality(s) \in Nat
  BY FS_Subset, FS_CardinalityType
<1>2. PICK m \in N : \A n \in N : m <= n
  <2>1. N \subseteq Nat /\ N # {}
    BY <1>1
  <2> HIDE DEF N
  <2> QED BY <2>1, LeastOfNaturals
<1> QED BY <1>2

LEMMA Smaller ==
  ASSUME NEW S, IsFiniteSet(S)
  PROVE  \A s \in SUBSET S : s # {} =>
           \A x \in s : /\ s \ {x} \in SUBSET S
                        /\ Cardinality(s \ {x}) < Cardinality(s)
                        /\ Cardinality(s) \in Nat /\ Cardinality(s \ {x}) \in Nat
BY FS_Subset, FS_CardinalityType, FS_RemoveElement

LEMMA Picked == \A s : s # {} => Pick(s) \in s /\ Rest1(s) = s \ {Pick(s)}
BY DEF Pick, Rest1

LEMMA OneSolution ==
  ASSUME NEW S, IsFiniteSet(S), NEW R, NEW f, NEW h, NEW g,
         RunningSum(f, S, h), RunningSum(f, R, g)
  PROVE  \A s \in SUBSET S : s \in SUBSET R => h[s] = g[s]
<1> DEFINE B == {s \in SUBSET S : s \in SUBSET R /\ h[s] # g[s]}
<1> SUFFICES ASSUME B # {} PROVE FALSE
  OBVIOUS
<1>1. PICK s \in B : \A t \in B : Cardinality(s) <= Cardinality(t)
  <2>1. B \subseteq SUBSET S
    OBVIOUS
  <2> HIDE DEF B
  <2> QED BY <2>1, LeastSet
<1>2. /\ h[s] = IF s = {} THEN 0 ELSE f[Pick(s)] + h[Rest1(s)]
      /\ g[s] = IF s = {} THEN 0 ELSE f[Pick(s)] + g[Rest1(s)]
  BY <1>1 DEF RunningSum
<1>3. s # {}
  BY <1>1, <1>2
<1>4. /\ Rest1(s) \in SUBSET S /\ Rest1(s) \in SUBSET R
      /\ Cardinality(Rest1(s)) < Cardinality(s)
      /\ Cardinality(s) \in Nat /\ Cardinality(Rest1(s)) \in Nat
  BY <1>1, <1>3, Picked, Smaller
<1>5. Rest1(s) \notin B
  BY <1>1, <1>4
<1>6. h[Rest1(s)] = g[Rest1(s)]
  BY <1>4, <1>5
<1> QED BY <1>1, <1>2, <1>6

LEMMA SolutionBelow ==
  ASSUME NEW S, NEW f, NEW h, RunningSum(f, S, h), NEW T \in SUBSET S
  PROVE  RunningSum(f, T, [s \in SUBSET T |-> h[s]])
<1> DEFINE g == [s \in SUBSET T |-> h[s]]
<1>1. \A s \in SUBSET T : h[s] = IF s = {} THEN 0 ELSE f[Pick(s)] + h[Rest1(s)]
  BY DEF RunningSum
<1>2. \A s \in SUBSET T : Rest1(s) \in SUBSET T
  BY DEF Rest1
<1>3. \A s \in SUBSET T : g[s] = IF s = {} THEN 0 ELSE f[Pick(s)] + g[Rest1(s)]
  BY <1>1, <1>2
<1> HIDE DEF g
<1>4. g = [s \in SUBSET T |-> g[s]]
  BY DEF g
<1> QED BY <1>3, <1>4 DEF RunningSum, g

LEMMA SomeSolution ==
  ASSUME NEW S, IsFiniteSet(S), NEW f
  PROVE  \E h : RunningSum(f, S, h)
<1> DEFINE B == {s \in SUBSET S : ~\E h : RunningSum(f, s, h)}
<1> SUFFICES ASSUME B # {} PROVE FALSE
  BY Zenon
<1>1. PICK s \in B : \A t \in B : Cardinality(s) <= Cardinality(t)
  <2>1. B \subseteq SUBSET S
    OBVIOUS
  <2> HIDE DEF B
  <2> QED BY <2>1, LeastSet
<1>2. \A t \in SUBSET s : t # s => \E h : RunningSum(f, t, h)
  <2> SUFFICES ASSUME NEW t \in SUBSET s, t # s PROVE t \notin B
    OBVIOUS
  <2>1. IsFiniteSet(s) /\ IsFiniteSet(t) /\ Cardinality(t) \in Nat /\ Cardinality(s) \in Nat
    BY FS_Subset, FS_CardinalityType
  <2>2. Cardinality(t) <= Cardinality(s) /\ Cardinality(t) # Cardinality(s)
    BY <2>1, FS_Subset
  <2> HIDE DEF B
  <2> QED BY <1>1, <2>1, <2>2
<1> DEFINE sol(t) == CHOOSE h : RunningSum(f, t, h)
           up(t) == IF t = {} THEN 0 ELSE f[Pick(t)] + sol(Rest1(t))[Rest1(t)]
           g == [t \in SUBSET s |-> up(t)]
<1>3. \A t \in SUBSET s : t # s => RunningSum(f, t, sol(t))
  BY <1>2
<1>4. IsFiniteSet(s)
  BY FS_Subset
<1>5. \A t \in SUBSET s : t # {} => /\ Rest1(t) \in SUBSET t /\ Rest1(t) \in SUBSET s /\ Rest1(t) # s
  BY Picked
<1>6. ASSUME NEW t \in SUBSET s, t # s PROVE g[t] = sol(t)[t]
  <2>1. RunningSum(f, t, sol(t))
    BY <1>3, <1>6
  <2> DEFINE h == sol(t)
             k == sol(Rest1(t))
  <2>2. h[t] = IF t = {} THEN 0 ELSE f[Pick(t)] + h[Rest1(t)]
    <3> HIDE DEF h
    <3> QED BY <2>1 DEF RunningSum, h
  <2>3. CASE t = {}
    BY <2>2, <2>3
  <2>4. CASE t # {}
    <3>1. RunningSum(f, Rest1(t), k)
      BY <1>3, <1>5, <2>4
    <3>2. IsFiniteSet(t) /\ Rest1(t) \in SUBSET t
      BY <1>4, <1>5, <2>4, FS_Subset
    <3>3. h[Rest1(t)] = k[Rest1(t)]
      <4> HIDE DEF h, k
      <4> QED BY <2>1, <3>1, <3>2, OneSolution DEF h
    <3> QED BY <2>2, <2>4, <3>3
  <2> QED BY <2>3, <2>4
<1>7. \A t \in SUBSET s : t # {} => g[Rest1(t)] = sol(Rest1(t))[Rest1(t)]
  <2> HIDE DEF sol, g
  <2> QED BY <1>5, <1>6
<1>8. g = [t \in SUBSET s |-> g[t]] /\ \A t \in SUBSET s : g[t] = up(t)
  <2> HIDE DEF up
  <2> QED OBVIOUS
<1> HIDE DEF g, sol
<1>9. RunningSum(f, s, g)
  BY <1>7, <1>8 DEF RunningSum
<1> QED BY <1>9

(* The sum over a set is that over the rest and one of its elements.       *)
LEMMA SumOfPicked ==
  ASSUME NEW S, IsFiniteSet(S), NEW f
  PROVE  /\ SumOf(f, {}) = 0
         /\ S # {} => SumOf(f, S) = f[Pick(S)] + SumOf(f, Rest1(S))
<1> DEFINE sol(t) == CHOOSE h : RunningSum(f, t, h)
<1>1. \A T \in SUBSET S : RunningSum(f, T, sol(T))
  BY SomeSolution, FS_Subset
<1>2. \A T : SumOf(f, T) = sol(T)[T]
  BY DEF SumOf
<1> HIDE DEF sol
<1>3. sol({})[{}] = 0
  BY <1>1 DEF RunningSum
<1>4. ASSUME S # {} PROVE sol(S)[S] = f[Pick(S)] + sol(Rest1(S))[Rest1(S)]
  <2>1. sol(S)[S] = f[Pick(S)] + sol(S)[Rest1(S)]
    BY <1>1, <1>4 DEF RunningSum
  <2>2. Rest1(S) \in SUBSET S
    BY DEF Rest1
  <2>3. sol(S)[Rest1(S)] = sol(Rest1(S))[Rest1(S)]
    BY <1>1, <2>2, OneSolution
  <2> QED BY <2>1, <2>3
<1> QED BY <1>2, <1>3, <1>4

LEMMA SumSame ==
  ASSUME NEW S, IsFiniteSet(S), NEW f, NEW g
  PROVE  (\A x \in S : f[x] = g[x]) => SumOf(f, S) = SumOf(g, S)
<1> DEFINE B == {s \in SUBSET S : (\A x \in s : f[x] = g[x]) /\ SumOf(f, s) # SumOf(g, s)}
<1> SUFFICES ASSUME B # {} PROVE FALSE
  OBVIOUS
<1>1. PICK s \in B : \A t \in B : Cardinality(s) <= Cardinality(t)
  <2>1. B \subseteq SUBSET S
    OBVIOUS
  <2> HIDE DEF B
  <2> QED BY <2>1, LeastSet
<1>2. IsFiniteSet(s) /\ s \in SUBSET S
  BY <1>1, FS_Subset
<1>3. s # {}
  BY <1>1, <1>2, SumOfPicked
<1>4. /\ SumOf(f, s) = f[Pick(s)] + SumOf(f, Rest1(s))
      /\ SumOf(g, s) = g[Pick(s)] + SumOf(g, Rest1(s))
      /\ Pick(s) \in s /\ Rest1(s) \subseteq s
  BY <1>2, <1>3, SumOfPicked, Picked
<1>5. Rest1(s) \notin B
  BY <1>1, <1>2, <1>3, Picked, Smaller
<1> QED BY <1>1, <1>4, <1>5

LEMMA SumOfZeros ==
  ASSUME NEW S, IsFiniteSet(S), NEW f
  PROVE  (\A x \in S : f[x] = 0) => SumOf(f, S) = 0
<1> DEFINE B == {s \in SUBSET S : SumOf(f, s) # 0}
<1> SUFFICES ASSUME \A x \in S : f[x] = 0, B # {} PROVE FALSE
  OBVIOUS
<1>1. PICK s \in B : \A t \in B : Cardinality(s) <= Cardinality(t)
  <2>1. B \subseteq SUBSET S
    OBVIOUS
  <2> HIDE DEF B
  <2> QED BY <2>1, LeastSet
<1>2. IsFiniteSet(s) /\ s \in SUBSET S
  BY <1>1, FS_Subset
<1>3. s # {}
  BY <1>1, <1>2, SumOfPicked
<1>4. SumOf(f, s) = f[Pick(s)] + SumOf(f, Rest1(s)) /\ Pick(s) \in S
  BY <1>2, <1>3, SumOfPicked, Picked
<1>5. Rest1(s) \notin B /\ Rest1(s) \in SUBSET S
  BY <1>1, <1>2, <1>3, Picked, Smaller
<1>6. SumOf(f, Rest1(s)) = 0 /\ f[Pick(s)] = 0
  BY <1>4, <1>5
<1> QED BY <1>1, <1>4, <1>6

LEMMA SumTyped ==
  ASSUME NEW S, IsFiniteSet(S), NEW f, \A x \in S : f[x] \in Int
  PROVE  SumOf(f, S) \in Int
<1> DEFINE B == {s \in SUBSET S : SumOf(f, s) \notin Int}
<1> SUFFICES ASSUME B # {} PROVE FALSE
  OBVIOUS
<1>1. PICK s \in B : \A t \in B : Cardinality(s) <= Cardinality(t)
  <2>1. B \subseteq SUBSET S
    OBVIOUS
  <2> HIDE DEF B
  <2> QED BY <2>1, LeastSet
<1>2. IsFiniteSet(s) /\ s \in SUBSET S
  BY <1>1, FS_Subset
<1>3. s # {}
  BY <1>1, <1>2, SumOfPicked
<1>4. SumOf(f, s) = f[Pick(s)] + SumOf(f, Rest1(s)) /\ Pick(s) \in S
  BY <1>2, <1>3, SumOfPicked, Picked
<1>5. Rest1(s) \notin B /\ Rest1(s) \in SUBSET S
  BY <1>1, <1>2, <1>3, Picked, Smaller
<1> QED BY <1>1, <1>4, <1>5

LEMMA SumWithout ==
  ASSUME NEW S, IsFiniteSet(S), NEW f, \A x \in S : f[x] \in Int
  PROVE  \A x \in S : SumOf(f, S) = f[x] + SumOf(f, S \ {x})
<1> DEFINE Wrong(s) == \E x \in s : SumOf(f, s) # f[x] + SumOf(f, s \ {x})
           B == {s \in SUBSET S : Wrong(s)}
<1> SUFFICES ASSUME B # {} PROVE FALSE
  OBVIOUS
<1>1. PICK s \in B : \A t \in B : Cardinality(s) <= Cardinality(t)
  <2>1. B \subseteq SUBSET S
    OBVIOUS
  <2> HIDE DEF B
  <2> QED BY <2>1, LeastSet
<1>2. PICK x \in s : SumOf(f, s) # f[x] + SumOf(f, s \ {x})
  BY <1>1
<1> DEFINE y == Pick(s)
<1>3. \A t \in SUBSET S : IsFiniteSet(t) /\ SumOf(f, t) \in Int
  BY FS_Subset, SumTyped
<1>4. y \in s /\ Rest1(s) = s \ {y} /\ SumOf(f, s) = f[y] + SumOf(f, s \ {y})
  BY <1>1, <1>2, <1>3, SumOfPicked, Picked
<1> HIDE DEF y
<1>5. x # y
  BY <1>2, <1>4
<1>6. s \ {x} \in SUBSET S /\ s \ {y} \in SUBSET S /\ s \ {x} \notin B /\ s \ {y} \notin B
  <2>1. \A z \in s : /\ s \ {z} \in SUBSET S
                    /\ Cardinality(s \ {z}) < Cardinality(s)
                    /\ Cardinality(s) \in Nat /\ Cardinality(s \ {z}) \in Nat
    <3>1. s \in SUBSET S /\ s # {}
      BY <1>1, <1>2
    <3> HIDE DEF B
    <3> QED BY <3>1, Smaller
  <2>2. \A z \in s : s \ {z} \notin B
    <3> HIDE DEF B
    <3> QED BY <1>1, <2>1
  <2> QED BY <1>2, <1>4, <2>1, <2>2
<1>7. SumOf(f, s \ {y}) = f[x] + SumOf(f, (s \ {y}) \ {x})
  BY <1>2, <1>5, <1>6
<1>8. SumOf(f, s \ {x}) = f[y] + SumOf(f, (s \ {x}) \ {y})
  BY <1>4, <1>5, <1>6
<1>9. (s \ {y}) \ {x} = (s \ {x}) \ {y} /\ (s \ {x}) \ {y} \in SUBSET S
  BY <1>6
<1>10. f[x] \in Int /\ f[y] \in Int /\ SumOf(f, (s \ {x}) \ {y}) \in Int
  BY <1>1, <1>2, <1>3, <1>4, <1>9
<1> DEFINE c == SumOf(f, (s \ {x}) \ {y})
<1>11. SumOf(f, s) = f[y] + (f[x] + c) /\ SumOf(f, s \ {x}) = f[y] + c
  BY <1>4, <1>7, <1>8, <1>9
<1>12. c \in Int
  BY <1>10
<1>13. SumOf(f, s) # f[x] + (f[y] + c)
  BY <1>2, <1>11
<1> HIDE DEF c, B
<1> QED BY <1>10, <1>11, <1>12, <1>13

LEMMA SumWith ==
  ASSUME NEW S, IsFiniteSet(S), NEW x, x \notin S, NEW f, f[x] \in Int, \A y \in S : f[y] \in Int
  PROVE  /\ SumOf(f, S \cup {x}) = f[x] + SumOf(f, S)
         /\ SumOf(f, S) \in Int
<1>1. IsFiniteSet(S \cup {x}) /\ (S \cup {x}) \ {x} = S
  BY FS_AddElement
<1>2. \A y \in S \cup {x} : f[y] \in Int
  OBVIOUS
<1>3. SumOf(f, S \cup {x}) = f[x] + SumOf(f, (S \cup {x}) \ {x})
  BY <1>1, <1>2, SumWithout
<1> QED BY <1>1, <1>3, SumTyped

(* What lies between two bounds sums up between them.                      *)
LEMMA SumBounds ==
  ASSUME NEW S, IsFiniteSet(S), NEW f, NEW a \in Int, \A x \in S : f[x] \in Int /\ a <= f[x]
  PROVE  /\ SumOf(f, S) \in Int /\ Cardinality(S) \in Nat
         /\ Cardinality(S) * a <= SumOf(f, S)
<1> DEFINE Wrong(s) == ~(Cardinality(s) * a <= SumOf(f, s))
           B == {s \in SUBSET S : Wrong(s)}
<1>1. B = {}
  <2> SUFFICES ASSUME B # {} PROVE FALSE
    OBVIOUS
  <2>1. PICK s \in B : \A t \in B : Cardinality(s) <= Cardinality(t)
    <3>1. B \subseteq SUBSET S
      OBVIOUS
    <3> HIDE DEF B
    <3> QED BY <3>1, LeastSet
  <2>2. \A t \in SUBSET S : IsFiniteSet(t) /\ SumOf(f, t) \in Int /\ Cardinality(t) \in Nat
    BY FS_Subset, FS_CardinalityType, SumTyped
  <2>3. s # {}
    <3>1. Cardinality({}) = 0 /\ SumOf(f, {}) = 0
      BY FS_EmptySet, SumOfPicked
    <3>2. 0 * a <= 0
      OBVIOUS
    <3> QED BY <2>1, <3>1, <3>2
  <2>4. PICK x \in s : TRUE
    BY <2>3
  <2>5. s \ {x} \in SUBSET S /\ s \ {x} \notin B
    BY <2>1, <2>3, Smaller
  <2>6. Cardinality(s \ {x}) = Cardinality(s) - 1
    BY <2>1, <2>2, FS_RemoveElement
  <2>7. SumOf(f, s) = f[x] + SumOf(f, s \ {x})
    <3>1. \A y \in s : f[y] \in Int
      BY <2>1
    <3> QED BY <2>1, <2>2, <3>1, SumWithout
  <2>8. (Cardinality(s) - 1) * a <= SumOf(f, s \ {x})
    BY <2>5, <2>6
  <2>9. Cardinality(s) * a = (Cardinality(s) - 1) * a + a
    BY <2>1, <2>2
  <2> DEFINE c == (Cardinality(s) - 1) * a
             d == Cardinality(s) * a
  <2>10. c \in Int /\ d \in Int /\ SumOf(f, s \ {x}) \in Int /\ f[x] \in Int /\ a <= f[x]
    BY <2>1, <2>2, <2>5
  <2>11. ~(d <= SumOf(f, s))
    BY <2>1
  <2>12. d = c + a /\ c <= SumOf(f, s \ {x})
    BY <2>8, <2>9
  <2> HIDE DEF c, d, B
  <2> QED BY <2>7, <2>10, <2>11, <2>12
<1>2. S \notin B
  BY <1>1
<1> QED BY <1>2, SumTyped, FS_CardinalityType

(* A term of a sum of naturals is at most the sum.                         *)
LEMMA SumParts ==
  ASSUME NEW S, IsFiniteSet(S), NEW f, \A x \in S : f[x] \in Nat
  PROVE  SumOf(f, S) \in Nat /\ \A x \in S : f[x] <= SumOf(f, S)
<1>1. \A T \in SUBSET S : SumOf(f, T) \in Nat
  <2> SUFFICES ASSUME NEW T \in SUBSET S PROVE SumOf(f, T) \in Nat
    OBVIOUS
  <2>1. IsFiniteSet(T) /\ \A x \in T : f[x] \in Int /\ 0 <= f[x]
    BY FS_Subset
  <2>2. SumOf(f, T) \in Int /\ Cardinality(T) \in Nat /\ Cardinality(T) * 0 <= SumOf(f, T)
    <3>1. IsFiniteSet(T) /\ 0 \in Int
      BY <2>1
    <3>2. \A x \in T : f[x] \in Int /\ 0 <= f[x]
      BY <2>1
    <3> QED BY <3>1, <3>2, SumBounds, Zenon
  <2> DEFINE c == Cardinality(T)
             d == SumOf(f, T)
  <2>3. c \in Nat /\ d \in Int /\ c * 0 <= d
    BY <2>2
  <2> HIDE DEF c, d
  <2>4. d \in Nat
    BY <2>3
  <2> QED BY <2>4 DEF d
<1>2. ASSUME NEW x \in S PROVE f[x] <= SumOf(f, S)
  <2>1. \A y \in S : f[y] \in Int
    OBVIOUS
  <2>2. SumOf(f, S) = f[x] + SumOf(f, S \ {x})
    BY <2>1, SumWithout
  <2>3. SumOf(f, S \ {x}) \in Nat
    BY <1>1
  <2> QED BY <2>2, <2>3
<1> QED BY <1>1, <1>2

(* Pairs of A, and those of x with a part B of A both ways.                *)
Cross(A, x, B) == (A \X A) \cup ({x} \X B) \cup (B \X {x})

LEMMA CrossGrows ==
  ASSUME NEW A, NEW x, x \notin A, NEW B \in SUBSET A, NEW b \in B
  PROVE  /\ Cross(A, x, B) = (Cross(A, x, B \ {b}) \cup {<<x, b>>}) \cup {<<b, x>>}
         /\ <<x, b>> \notin Cross(A, x, B \ {b})
         /\ <<b, x>> \notin Cross(A, x, B \ {b}) \cup {<<x, b>>}
BY DEF Cross

(* Next to a largest element the gaps to a part of the others add up to    *)
(* its share of them, both ways.                                           *)
LEMMA GapsToLargest ==
  ASSUME NEW A, IsFiniteSet(A), NEW x, x \notin A, NEW r, r[x] \in Int,
         \A a \in A : r[a] \in Int /\ r[a] <= r[x],
         NEW d, \A a \in A : d[<<x, a>>] = r[x] - r[a] /\ d[<<a, x>>] = r[x] - r[a],
         \A p \in A \X A : d[p] \in Int
  PROVE  SumOf(d, Cross(A, x, A)) = SumOf(d, A \X A) + 2 * (Cardinality(A) * r[x] - SumOf(r, A))
<1> DEFINE Right(B) == SumOf(d, Cross(A, x, B)) =
                         SumOf(d, A \X A) + 2 * (Cardinality(B) * r[x] - SumOf(r, B))
           Wrong == {B \in SUBSET A : ~Right(B)}
<1>1. \A B \in SUBSET A : IsFiniteSet(B) /\ Cardinality(B) \in Nat /\ SumOf(r, B) \in Int
  BY FS_Subset, FS_CardinalityType, SumTyped
<1>2. \A B \in SUBSET A : IsFiniteSet(Cross(A, x, B)) /\ \A p \in Cross(A, x, B) : d[p] \in Int
  <2> SUFFICES ASSUME NEW B \in SUBSET A
               PROVE IsFiniteSet(Cross(A, x, B)) /\ \A p \in Cross(A, x, B) : d[p] \in Int
    OBVIOUS
  <2>1. IsFiniteSet({x})
    BY FS_Singleton
  <2>2. IsFiniteSet(A \X A) /\ IsFiniteSet({x} \X B) /\ IsFiniteSet(B \X {x})
    BY <1>1, <2>1, FS_Product
  <2>3. IsFiniteSet(Cross(A, x, B))
    BY <2>2, FS_Union DEF Cross
  <2>4. \A p \in {x} \X B : d[p] \in Int
    <3>1. ASSUME NEW a \in B PROVE d[<<x, a>>] \in Int
      <4>1. a \in A
        OBVIOUS
      <4>2. d[<<x, a>>] = r[x] - r[a] /\ r[x] \in Int /\ r[a] \in Int
        BY <4>1
      <4> QED BY <4>2
    <3> QED BY <3>1
  <2>5. \A p \in B \X {x} : d[p] \in Int
    <3>1. ASSUME NEW a \in B PROVE d[<<a, x>>] \in Int
      <4>1. a \in A
        OBVIOUS
      <4>2. d[<<a, x>>] = r[x] - r[a] /\ r[x] \in Int /\ r[a] \in Int
        BY <4>1
      <4> QED BY <4>2
    <3> QED BY <3>1
  <2> QED BY <2>3, <2>4, <2>5 DEF Cross
<1>3. SumOf(d, A \X A) \in Int
  <2>1. IsFiniteSet(A \X A)
    BY FS_Product
  <2> QED BY <2>1, SumTyped
<1>4. Wrong = {}
  <2> SUFFICES ASSUME Wrong # {} PROVE FALSE
    OBVIOUS
  <2>1. PICK B \in Wrong : \A t \in Wrong : Cardinality(B) <= Cardinality(t)
    <3>1. Wrong \subseteq SUBSET A
      OBVIOUS
    <3> HIDE DEF Wrong
    <3> QED BY <3>1, LeastSet
  <2>2. B # {}
    <3>1. Cross(A, x, {}) = A \X A
      BY DEF Cross
    <3>2. Cardinality({}) = 0 /\ SumOf(r, {}) = 0
      BY FS_EmptySet, SumOfPicked
    <3>4. Right({})
      <4> DEFINE e == SumOf(d, A \X A)
                 y == r[x]
      <4>1. e \in Int /\ y \in Int
        BY <1>3
      <4>2. Right({}) <=> e = e + 2 * (0 * y - 0)
        BY <3>1, <3>2
      <4> HIDE DEF e, y, Right
      <4>3. 0 * y = 0
        BY <4>1
      <4> QED BY <4>1, <4>2, <4>3
    <3> HIDE DEF Right
    <3> QED BY <2>1, <3>4
  <2>3. PICK b \in B : TRUE
    BY <2>2
  <2> DEFINE C == B \ {b}
  <2>4. C \in SUBSET A /\ C \notin Wrong /\ B \in SUBSET A
    <3>1. B \in SUBSET A /\ B # {}
      BY <2>1, <2>2
    <3>2. C \in SUBSET A /\ Cardinality(C) < Cardinality(B) /\ Cardinality(B) \in Nat /\ Cardinality(C) \in Nat
      BY <3>1, Smaller
    <3> HIDE DEF Wrong, C
    <3> QED BY <2>1, <3>1, <3>2
  <2>5. Right(C)
    <3> HIDE DEF Right, C
    <3> QED BY <2>4
  <2>6. Cardinality(B) = Cardinality(C) + 1
    BY <1>1, <2>4, FS_RemoveElement
  <2>7. SumOf(r, B) = r[b] + SumOf(r, C)
    <3>1. \A y \in B : r[y] \in Int
      BY <2>4
    <3> QED BY <1>1, <2>4, <3>1, SumWithout
  <2>8. /\ Cross(A, x, B) = (Cross(A, x, C) \cup {<<x, b>>}) \cup {<<b, x>>}
        /\ <<x, b>> \notin Cross(A, x, C)
        /\ <<b, x>> \notin Cross(A, x, C) \cup {<<x, b>>}
    BY <2>4, CrossGrows
  <2> DEFINE X == Cross(A, x, C)
             g == r[x] - r[b]
  <2>9. d[<<x, b>>] = g /\ d[<<b, x>>] = g /\ g \in Int
    BY <2>4
  <2>10. IsFiniteSet(X) /\ \A p \in X : d[p] \in Int
    BY <1>2, <2>4
  <2> HIDE DEF X, g
  <2>11. IsFiniteSet(X \cup {<<x, b>>}) /\ SumOf(d, X \cup {<<x, b>>}) = g + SumOf(d, X) /\ SumOf(d, X) \in Int
    <3>1. <<x, b>> \notin X
      BY <2>8 DEF X
    <3>2. IsFiniteSet(X \cup {<<x, b>>})
      BY <2>10, FS_AddElement
    <3>3. d[<<x, b>>] \in Int
      BY <2>9
    <3> QED BY <2>9, <2>10, <3>1, <3>2, <3>3, SumWith
  <2>12. SumOf(d, (X \cup {<<x, b>>}) \cup {<<b, x>>}) = g + SumOf(d, X \cup {<<x, b>>})
    <3>1. <<b, x>> \notin X \cup {<<x, b>>}
      BY <2>8 DEF X
    <3>2. \A p \in X \cup {<<x, b>>} : d[p] \in Int
      BY <2>9, <2>10
    <3>3. d[<<b, x>>] \in Int
      BY <2>9
    <3> QED BY <2>9, <2>11, <3>1, <3>2, <3>3, SumWith
  <2>13. SumOf(d, Cross(A, x, B)) = g + (g + SumOf(d, X))
    <3>1. Cross(A, x, B) = (X \cup {<<x, b>>}) \cup {<<b, x>>}
      BY <2>8 DEF X
    <3> HIDE DEF Wrong
    <3> QED BY <2>11, <2>12, <3>1
  <2> DEFINE c == Cardinality(C)
             t == SumOf(r, C)
             e == SumOf(d, A \X A)
             y == r[x]
             z == r[b]
  <2>14. c \in Nat /\ t \in Int /\ e \in Int /\ y \in Int /\ z \in Int
    BY <1>1, <1>3, <2>4
  <2>15. SumOf(d, X) = e + 2 * (c * y - t)
    BY <2>5 DEF X
  <2>16. SumOf(d, Cross(A, x, B)) # e + 2 * ((c + 1) * y - (z + t))
    BY <2>1, <2>6, <2>7
  <2>17. SumOf(d, Cross(A, x, B)) = (y - z) + ((y - z) + (e + 2 * (c * y - t)))
    BY <2>13, <2>15 DEF g
  <2> HIDE DEF c, t, e, y, z
  <2>18. (c + 1) * y = c * y + y /\ c * y \in Int
    BY <2>14
  <2> QED BY <2>14, <2>16, <2>17, <2>18
<1>5. Right(A)
  <2> HIDE DEF Right
  <2> QED BY <1>4
<1> QED BY <1>5

(* The elements a list of a set names up to a place.                       *)
Firsts(at, k) == {at[i] : i \in 1..k}

LEMMA NextFirst ==
  ASSUME NEW n \in Nat, NEW R, NEW at \in Bijection(1..n, R), NEW k \in 0..n - 1
  PROVE  /\ Firsts(at, k + 1) = Firsts(at, k) \cup {at[k + 1]}
         /\ at[k + 1] \in R /\ at[k + 1] \notin Firsts(at, k)
         /\ Firsts(at, k) \in SUBSET R
         /\ \A a \in Firsts(at, k) : \E i \in 1..k : a = at[i]
<1>1. at \in [1..n -> R] /\ \A i, j \in 1..n : at[i] = at[j] => i = j
  BY DEF Bijection, Injection, IsInjective
<1>2. 1..k + 1 = 1..k \cup {k + 1} /\ k + 1 \in 1..n /\ 1..k \subseteq 1..n /\ k + 1 \notin 1..k
  OBVIOUS
<1> QED BY <1>1, <1>2 DEF Firsts

LEMMA AllFirsts ==
  ASSUME NEW n \in Nat, NEW R, NEW at \in Bijection(1..n, R)
  PROVE  Firsts(at, n) = R /\ Firsts(at, 0) = {}
<1>1. \A y \in R : \E i \in 1..n : at[i] = y
  BY DEF Bijection, Surjection
<1>2. at \in [1..n -> R]
  BY DEF Bijection, Injection
<1>3. 1..0 = {}
  OBVIOUS
<1> QED BY <1>1, <1>2, <1>3 DEF Firsts

LEMMA NumberFirsts ==
  ASSUME NEW n \in Nat, NEW R, NEW at \in Bijection(1..n, R), NEW k \in 0..n
  PROVE  IsFiniteSet(Firsts(at, k)) /\ Cardinality(Firsts(at, k)) = k
<1>1. at \in [1..n -> R] /\ \A i, j \in 1..n : at[i] = at[j] => i = j
  BY DEF Bijection, Injection, IsInjective
<1>2. 1..k \subseteq 1..n /\ k \in Nat
  OBVIOUS
<1> DEFINE f == [i \in 1..k |-> at[i]]
<1>3. f \in Bijection(1..k, Firsts(at, k))
  <2>1. f \in [1..k -> Firsts(at, k)]
    BY DEF Firsts
  <2>2. \A i, j \in 1..k : f[i] = f[j] => i = j
    BY <1>1, <1>2
  <2>3. \A y \in Firsts(at, k) : \E i \in 1..k : f[i] = y
    BY DEF Firsts
  <2> HIDE DEF f
  <2> QED BY <2>1, <2>2, <2>3 DEF Bijection, Injection, Surjection, IsInjective
<1>4. IsFiniteSet(1..k) /\ Cardinality(1..k) = k
  BY <1>2, CountTo
<1>5. ExistsBijection(1..k, Firsts(at, k))
  BY <1>3 DEF ExistsBijection
<1> QED BY <1>4, <1>5, FS_Bijection

(* The values in ascending order, the pairs' gaps, the weighted values.    *)
Ranked(n, R, r, at, v, w, d) ==
  /\ n \in Nat /\ at \in Bijection(1..n, R)
  /\ \A a \in R : r[a] \in Nat
  /\ \A i, j \in 1..n : i <= j => r[at[i]] <= r[at[j]]
  /\ \A i \in 1..n : v[i] = r[at[i]] /\ w[i] = (n + 1 - i) * v[i]
  /\ \A a, b \in R : d[<<a, b>>] = IF r[a] < r[b] THEN r[b] - r[a] ELSE r[a] - r[b]

GapsTo(n, r, at, v, w, d, k) ==
  /\ SumOf(r, Firsts(at, k)) = SumOf(v, 1..k)
  /\ SumOf(d, Firsts(at, k) \X Firsts(at, k)) =
       2 * ((2 * n + 1 - k) * SumOf(v, 1..k) - 2 * SumOf(w, 1..k))

LEMMA RankedTypes ==
  ASSUME NEW n, NEW R, NEW r, NEW at, NEW v, NEW w, NEW d, Ranked(n, R, r, at, v, w, d)
  PROVE  /\ \A i \in 1..n : at[i] \in R /\ v[i] \in Nat /\ w[i] \in Nat
         /\ \A p \in R \X R : d[p] \in Nat
<1>1. ASSUME NEW i \in 1..n PROVE at[i] \in R /\ v[i] \in Nat /\ w[i] \in Nat
  <2>1. at[i] \in R
    BY DEF Ranked, Bijection, Injection
  <2>2. v[i] \in Nat
    BY <2>1 DEF Ranked
  <2>3. n + 1 - i \in Nat /\ w[i] = (n + 1 - i) * v[i]
    BY DEF Ranked
  <2> QED BY <2>1, <2>2, <2>3
<1>2. ASSUME NEW a \in R, NEW b \in R PROVE d[<<a, b>>] \in Nat
  <2>1. r[a] \in Nat /\ r[b] \in Nat /\ d[<<a, b>>] = IF r[a] < r[b] THEN r[b] - r[a] ELSE r[a] - r[b]
    BY DEF Ranked
  <2> QED BY <2>1
<1> QED BY <1>1, <1>2

LEMMA GapsStep ==
  ASSUME NEW n, NEW R, NEW r, NEW at, NEW v, NEW w, NEW d, Ranked(n, R, r, at, v, w, d),
         NEW k \in 0..n - 1, GapsTo(n, r, at, v, w, d, k)
  PROVE  GapsTo(n, r, at, v, w, d, k + 1)
<1> DEFINE A == Firsts(at, k)
           x == at[k + 1]
           z == v[k + 1]
           V == SumOf(v, 1..k)
           W == SumOf(w, 1..k)
           D == SumOf(d, A \X A)
<1>1. n \in Nat /\ at \in Bijection(1..n, R) /\ k \in Nat /\ k \in 0..n /\ k + 1 \in 1..n
  BY DEF Ranked
<1>2. /\ Firsts(at, k + 1) = A \cup {x} /\ x \in R /\ x \notin A /\ A \in SUBSET R
      /\ \A a \in A : \E i \in 1..k : a = at[i]
  BY <1>1, NextFirst
<1>3. IsFiniteSet(A) /\ Cardinality(A) = k
  BY <1>1, NumberFirsts
<1>4. \A i \in 1..k + 1 : i \in 1..n /\ v[i] \in Nat /\ w[i] \in Nat
  BY <1>1, RankedTypes
<1>5. r[x] = z /\ z \in Nat /\ w[k + 1] = (n + 1 - (k + 1)) * z
  BY <1>1, <1>4 DEF Ranked
<1>6. ASSUME NEW a \in A PROVE r[a] \in Nat /\ r[a] <= r[x]
  <2>1. PICK i \in 1..k : a = at[i]
    BY <1>2
  <2>2. i \in 1..n /\ i <= k + 1
    BY <1>1
  <2> QED BY <1>1, <1>2, <2>1, <2>2 DEF Ranked
<1>7. SumOf(r, A \cup {x}) = z + SumOf(r, A) /\ SumOf(r, A) \in Int
  <2>1. r[x] \in Int /\ \A y \in A : r[y] \in Int
    BY <1>5, <1>6
  <2> HIDE DEF A, x
  <2> QED BY <1>2, <1>3, <1>5, <2>1, SumWith
<1>8. SumOf(v, 1..k + 1) = z + V /\ V \in Int /\ SumOf(w, 1..k + 1) = (n - k) * z + W /\ W \in Int
  <2>1. 1..k + 1 = 1..k \cup {k + 1} /\ k + 1 \notin 1..k /\ IsFiniteSet(1..k)
    BY <1>1, CountTo
  <2>2. v[k + 1] \in Int /\ \A i \in 1..k : v[i] \in Int
    BY <1>1, <1>4
  <2>3. w[k + 1] \in Int /\ \A i \in 1..k : w[i] \in Int
    BY <1>1, <1>4
  <2>4. SumOf(v, 1..k \cup {k + 1}) = z + V /\ V \in Int
    BY <2>1, <2>2, SumWith
  <2>5. SumOf(w, 1..k \cup {k + 1}) = w[k + 1] + W /\ W \in Int
    BY <2>1, <2>3, SumWith
  <2>6. n + 1 - (k + 1) = n - k
    BY <1>1
  <2> QED BY <1>5, <2>1, <2>4, <2>5, <2>6
<1>9. \A p \in A \X A : d[p] \in Nat
  BY <1>2, RankedTypes
<1>10. SumOf(d, Cross(A, x, A)) = D + 2 * (k * z - SumOf(r, A))
  <2>1. r[x] \in Int /\ \A a \in A : r[a] \in Int /\ r[a] <= r[x]
    BY <1>5, <1>6
  <2>2. \A a \in A : d[<<x, a>>] = r[x] - r[a] /\ d[<<a, x>>] = r[x] - r[a]
    <3> SUFFICES ASSUME NEW a \in A PROVE d[<<x, a>>] = r[x] - r[a] /\ d[<<a, x>>] = r[x] - r[a]
      OBVIOUS
    <3>1. r[a] \in Nat /\ r[x] \in Nat /\ r[a] <= r[x] /\ a \in R /\ x \in R
      BY <1>2, <1>5, <1>6
    <3>2. /\ d[<<a, x>>] = IF r[a] < r[x] THEN r[x] - r[a] ELSE r[a] - r[x]
          /\ d[<<x, a>>] = IF r[x] < r[a] THEN r[a] - r[x] ELSE r[x] - r[a]
      <4> HIDE DEF A, x
      <4> QED BY <3>1 DEF Ranked
    <3> HIDE DEF A, x
    <3> QED BY <3>1, <3>2
  <2>3. \A p \in A \X A : d[p] \in Int
    BY <1>9
  <2> HIDE DEF A, x, z
  <2>4. SumOf(d, Cross(A, x, A)) = D + 2 * (Cardinality(A) * r[x] - SumOf(r, A))
    BY <1>2, <1>3, <2>1, <2>2, <2>3, GapsToLargest
  <2> QED BY <1>3, <1>5, <2>4
<1>11. SumOf(d, (A \cup {x}) \X (A \cup {x})) = SumOf(d, Cross(A, x, A)) /\ D \in Int
  <2> HIDE DEF x
  <2>1. (A \cup {x}) \X (A \cup {x}) = Cross(A, x, A) \cup {<<x, x>>} /\ <<x, x>> \notin Cross(A, x, A)
    <3> HIDE DEF A
    <3> QED BY <1>2 DEF Cross
  <2>2. IsFiniteSet(A \cup {x})
    BY <1>3, FS_AddElement
  <2>3. IsFiniteSet((A \cup {x}) \X (A \cup {x})) /\ IsFiniteSet(A \X A)
    BY <1>3, <2>2, FS_Product
  <2>4. \A p \in (A \cup {x}) \X (A \cup {x}) : d[p] \in Int
    <3>1. (A \cup {x}) \X (A \cup {x}) \subseteq R \X R
      BY <1>2
    <3> QED BY <3>1, RankedTypes
  <2>5. d[<<x, x>>] = 0
    <3>1. d[<<x, x>>] = IF r[x] < r[x] THEN r[x] - r[x] ELSE r[x] - r[x]
      BY <1>2 DEF Ranked
    <3> QED BY <1>5, <3>1
  <2> DEFINE X == Cross(A, x, A)
  <2>6. IsFiniteSet(X)
    BY <2>1, <2>3, FS_Subset
  <2>7. \A p \in X : d[p] \in Int
    BY <2>1, <2>4
  <2> HIDE DEF X
  <2>8. SumOf(d, X \cup {<<x, x>>}) = d[<<x, x>>] + SumOf(d, X) /\ SumOf(d, X) \in Int
    <3>1. d[<<x, x>>] \in Int /\ <<x, x>> \notin X
      BY <2>1, <2>5 DEF X
    <3> QED BY <2>6, <2>7, <3>1, SumWith
  <2>9. D \in Int
    <3>1. \A p \in A \X A : d[p] \in Int
      BY <1>9
    <3> QED BY <2>3, <3>1, SumTyped
  <2>10. SumOf(d, X \cup {<<x, x>>}) = SumOf(d, X)
    BY <2>5, <2>8
  <2> QED BY <2>1, <2>9, <2>10 DEF X
<1>12. SumOf(r, A) = V /\ D = 2 * ((2 * n + 1 - k) * V - 2 * W)
  BY DEF GapsTo
<1>13. SumOf(r, Firsts(at, k + 1)) = SumOf(v, 1..k + 1)
  <2> HIDE DEF A, x, z
  <2> QED BY <1>2, <1>7, <1>8, <1>12
<1>14. SumOf(d, Firsts(at, k + 1) \X Firsts(at, k + 1)) = D + 2 * (k * z - V)
  <2> HIDE DEF A, x, z, V, D
  <2> QED BY <1>2, <1>10, <1>11, <1>12
<1>15. D + 2 * (k * z - V) = 2 * ((2 * n + 1 - (k + 1)) * (z + V) - 2 * ((n - k) * z + W))
  <2>1. V \in Int /\ W \in Int /\ z \in Int /\ n \in Int /\ k \in Int /\ D \in Int
    BY <1>1, <1>5, <1>8, <1>11
  <2> HIDE DEF V, W, z, D
  <2>2. (2 * n + 1 - (k + 1)) * (z + V) = (2 * n - k) * z + (2 * n - k) * V
    BY <2>1
  <2>3. (2 * n + 1 - k) * V = (2 * n - k) * V + V
    BY <2>1
  <2>4. (2 * n - k) * z = 2 * ((n - k) * z) + k * z
    BY <2>1
  <2> DEFINE e == (2 * n - k) * V
             f == (n - k) * z
             g == k * z
  <2>5. e \in Int /\ f \in Int /\ g \in Int
    BY <2>1
  <2>6. (2 * n + 1 - (k + 1)) * (z + V) = (2 * f + g) + e /\ D = 2 * (e + V - 2 * W)
    <3>1. (2 * n - k) * z = 2 * f + g
      BY <2>4
    <3>2. D = 2 * ((2 * n + 1 - k) * V - 2 * W) /\ (2 * n + 1 - k) * V = e + V
      BY <1>12, <2>3
    <3>3. (2 * n + 1 - (k + 1)) * (z + V) = (2 * n - k) * z + e
      BY <2>2
    <3> HIDE DEF e, f, g
    <3> QED BY <2>1, <2>5, <3>1, <3>2, <3>3
  <2>7. D + 2 * (g - V) = 2 * (((2 * f + g) + e) - 2 * (f + W))
    <3>1. D = 2 * (e + V - 2 * W)
      BY <2>6
    <3> HIDE DEF e, f, g
    <3> QED BY <2>1, <2>5, <3>1
  <2> QED BY <2>6, <2>7
<1> HIDE DEF A, x, z, V, W, D
<1>16. SumOf(v, 1..k + 1) = z + V /\ SumOf(w, 1..k + 1) = (n - k) * z + W
  BY <1>8
<1> QED BY <1>13, <1>14, <1>15, <1>16 DEF GapsTo

LEMMA GapsAddUp ==
  ASSUME NEW n, NEW R, NEW r, NEW at, NEW v, NEW w, NEW d, Ranked(n, R, r, at, v, w, d)
  PROVE  /\ SumOf(r, R) \in Nat /\ SumOf(w, 1..n) \in Nat /\ SumOf(d, R \X R) \in Nat
         /\ SumOf(d, R \X R) = 2 * ((n + 1) * SumOf(r, R) - 2 * SumOf(w, 1..n))
<1> DEFINE Right(k) == GapsTo(n, r, at, v, w, d, k)
           Wrong == {k \in 0..n : ~Right(k)}
<1>1. n \in Nat /\ at \in Bijection(1..n, R)
  BY DEF Ranked
<1>2. Right(0)
  <2>1. Firsts(at, 0) = {} /\ {} \X {} = {} /\ 1..0 = {}
    BY <1>1, AllFirsts
  <2>2. \A f : SumOf(f, {}) = 0
    BY FS_EmptySet, SumOfPicked
  <2>3. 2 * ((2 * n + 1 - 0) * 0 - 2 * 0) = 0
    BY <1>1
  <2> QED BY <2>1, <2>2, <2>3 DEF GapsTo
<1>3. Wrong = {}
  <2> SUFFICES ASSUME Wrong # {} PROVE FALSE
    OBVIOUS
  <2>1. PICK k \in Wrong : \A j \in Wrong : k <= j
    <3>1. Wrong \subseteq Nat
      BY <1>1
    <3> HIDE DEF Wrong
    <3> QED BY <3>1, LeastOfNaturals
  <2>2. k \in 0..n /\ ~Right(k) /\ k # 0
    <3> HIDE DEF Right
    <3> QED BY <1>2, <2>1
  <2>3. k - 1 \in 0..n - 1 /\ k - 1 \in 0..n /\ (k - 1) + 1 = k /\ ~(k <= k - 1)
    BY <1>1, <2>2
  <2>4. Right(k - 1)
    <3> HIDE DEF Right
    <3> QED BY <2>1, <2>3
  <2>5. Right((k - 1) + 1)
    BY <2>3, <2>4, GapsStep
  <2> HIDE DEF Right
  <2> QED BY <2>2, <2>3, <2>5
<1>4. Right(n)
  <2> HIDE DEF Right
  <2>1. n \in 0..n
    BY <1>1
  <2> QED BY <1>3, <2>1
<1>5. /\ Firsts(at, n) = R /\ IsFiniteSet(R) /\ IsFiniteSet(1..n) /\ IsFiniteSet(R \X R)
  <2>1. n \in 0..n
    BY <1>1
  <2> QED BY <1>1, <2>1, AllFirsts, NumberFirsts, CountTo, FS_Product
<1>6. SumOf(r, R) \in Nat
  <2>1. \A a \in R : r[a] \in Nat
    BY DEF Ranked
  <2> QED BY <1>5, <2>1, SumParts
<1>7. SumOf(w, 1..n) \in Nat
  <2>1. \A i \in 1..n : w[i] \in Nat
    BY RankedTypes
  <2> QED BY <1>5, <2>1, SumParts
<1>8. SumOf(d, R \X R) \in Nat
  <2>1. \A p \in R \X R : d[p] \in Nat
    BY RankedTypes
  <2> QED BY <1>5, <2>1, SumParts
<1>9. 2 * n + 1 - n = n + 1
  BY <1>1
<1> QED BY <1>4, <1>5, <1>6, <1>7, <1>8, <1>9 DEF GapsTo

(* No one is above one and a half times the mean without another below it, *)
(* and never everybody.                                                    *)
LEMMA MeanBetween ==
  ASSUME NEW R, IsFiniteSet(R), R # {}, NEW r, \A a \in R : r[a] \in Nat
  PROVE  /\ \E a \in R : ~(2 * r[a] * Cardinality(R) > 3 * SumOf(r, R))
         /\ \A a \in R : 2 * r[a] * Cardinality(R) > 3 * SumOf(r, R) =>
              \E b \in R : r[b] * Cardinality(R) < SumOf(r, R)
<1> DEFINE n == Cardinality(R)
           T == SumOf(r, R)
           N == {r[a] : a \in R}
<1>1. n \in Nat /\ T \in Nat
  BY FS_CardinalityType, SumParts
<1>2. PICK m \in R : \A a \in R : r[m] <= r[a]
  <2>1. N \subseteq Nat /\ N # {}
    OBVIOUS
  <2>2. PICK x \in N : \A y \in N : x <= y
    <3> HIDE DEF N
    <3> QED BY <2>1, LeastOfNaturals
  <2> QED BY <2>2
<1> DEFINE z == r[m]
<1>3. z \in Nat
  OBVIOUS
<1>4. n * z <= T
  <2>1. z \in Int /\ \A a \in R : r[a] \in Int /\ z <= r[a]
    BY <1>2, <1>3
  <2> HIDE DEF z
  <2> QED BY <2>1, SumBounds
<1>5. ~(2 * z * n > 3 * T)
  <2> HIDE DEF n, z, T
  <2>1. 2 * z * n = 2 * (n * z) /\ n * z \in Nat
    BY <1>1, <1>3
  <2> DEFINE e == n * z
  <2>2. 2 * z * n = 2 * e /\ e \in Nat /\ e <= T
    BY <1>4, <2>1
  <2> HIDE DEF e
  <2> QED BY <1>1, <2>2
<1>6. ASSUME NEW a \in R, 2 * r[a] * n > 3 * T PROVE z * n < T
  <2> DEFINE y == r[a]
             S == R \ {a}
  <2>1. y \in Nat /\ IsFiniteSet(S) /\ Cardinality(S) = n - 1 /\ T = y + SumOf(r, S)
    <3>1. \A b \in R : r[b] \in Int
      OBVIOUS
    <3>2. T = r[a] + SumOf(r, S)
      BY <3>1, SumWithout
    <3> QED BY <3>2, FS_RemoveElement
  <2>2. (n - 1) * z <= SumOf(r, S) /\ SumOf(r, S) \in Int
    <3>1. z \in Int /\ \A b \in S : r[b] \in Int /\ z <= r[b]
      BY <1>2, <1>3
    <3> HIDE DEF z, S
    <3>2. Cardinality(S) * z <= SumOf(r, S) /\ SumOf(r, S) \in Int
      BY <2>1, <3>1, SumBounds
    <3> QED BY <2>1, <3>2
  <2>3. 2 * y * n > 3 * T
    BY <1>6
  <2>4. z <= y
    BY <1>2
  <2> DEFINE s == SumOf(r, S)
  <2>5. s \in Int /\ T = y + s /\ (n - 1) * z <= s
    BY <2>1, <2>2
  <2>6. y \in Nat
    BY <2>1
  <2> HIDE DEF n, z, T, y, s
  <2>7. (n - 1) * z = z * n - z /\ 2 * y * n = 2 * (y * n) /\ z * n \in Int /\ y * n \in Int
    BY <1>1, <1>3, <2>6
  <2>8. ASSUME z = y PROVE z * n < T
    <3>1. 2 * y * n = 2 * (z * n)
      BY <2>7, <2>8
    <3> DEFINE e == z * n
    <3>2. e \in Int /\ 2 * e > 3 * T /\ e <= T
      <4>1. e = (n - 1) * z + z
        BY <1>1, <1>3
      <4>2. (n - 1) * z + z <= s + y
        <5>1. (n - 1) * z \in Int
          BY <1>1, <1>3
        <5> QED BY <1>3, <2>4, <2>5, <2>6, <5>1
      <4> QED BY <2>3, <2>5, <2>6, <2>7, <3>1, <4>1, <4>2
    <3> HIDE DEF e
    <3> QED BY <1>1, <3>2
  <2>9. ASSUME z < y PROVE z * n < T
    <3> DEFINE e == z * n
    <3>1. e \in Int /\ (n - 1) * z = e - z
      BY <2>7
    <3> HIDE DEF e
    <3>2. e < T
      BY <1>1, <1>3, <2>5, <2>6, <2>9, <3>1
    <3> QED BY <3>2 DEF e
  <2> QED BY <1>3, <2>4, <2>6, <2>8, <2>9
<1> QED BY <1>5, <1>6

-----------------------------------------------------------------------------
(* The detector.                                                           *)

LEMMA SumSolution ==
  ASSUME NEW S, IsFiniteSet(S), NEW f, NEW h, RunningSum(f, S, h)
  PROVE  h[S] = SumOf(f, S)
<1> DEFINE g == CHOOSE k : RunningSum(f, S, k)
<1>1. RunningSum(f, S, g)
  OBVIOUS
<1>2. SumOf(f, S) = g[S]
  BY DEF SumOf
<1> HIDE DEF g
<1> QED BY <1>1, <1>2, OneSolution

LEMMA PickedOf ==
  \A S : \A s \in SUBSET S : s # {} => Pick(s) \in S
BY DEF Pick

LoadOf == [s \in Detector!Reporting |-> Detector!Rps(s)]

LEMMA TotalLoad ==
  ASSUME IsFiniteSet(Detector!Reporting)
  PROVE  Detector!TotalRPS = SumOf(LoadOf, Detector!Reporting)
<1> DEFINE S == Detector!Reporting
           Eq(h) == h = [s \in SUBSET S |-> IF s = {} THEN 0 ELSE Detector!Rps(Pick(s)) + h[Rest1(s)]]
           g == CHOOSE h : Eq(h)
<1>1. Detector!TotalRPS = g[S]
  BY DEF Detector!TotalRPS, Detector!MapThenSumSet, Detector!MapThenFoldSet, Pick, Rest1
<1>2. \A x \in S : LoadOf[x] = Detector!Rps(x)
  BY DEF LoadOf
<1> HIDE DEF S
<1>3. \A h : Eq(h) <=> RunningSum(LoadOf, S, h)
  BY <1>2, PickedOf DEF RunningSum
<1>4. Eq(g)
  <2>1. \E h : Eq(h)
    BY <1>3, SomeSolution DEF S
  <2> HIDE DEF Eq
  <2> QED BY <2>1
<1>5. RunningSum(LoadOf, S, g)
  BY <1>3, <1>4
<1> HIDE DEF g
<1> QED BY <1>1, <1>5, SumSolution DEF S

(* A set written as a list.                                                *)
LEMMA SetListed ==
  ASSUME NEW S, IsFiniteSet(S)
  PROVE  Detector!SetToSeq(S) \in Bijection(1..Cardinality(S), S)
<1> DEFINE n == Cardinality(S)
           list == Detector!SetToSeq(S)
<1>1. n \in Nat /\ \E f : f \in Bijection(1..n, S)
  BY FS_CardinalityType DEF ExistsBijection
<1>2. \E f \in [1..n -> S] : Detector!IsInjective(f)
  BY <1>1 DEF Bijection, Injection, IsInjective, Detector!IsInjective
<1>3. Detector!Cardinality(S) = n
  BY DEF Detector!Cardinality, Cardinality
<1>4. list \in [1..n -> S] /\ Detector!IsInjective(list)
  BY <1>2, <1>3 DEF Detector!SetToSeq
<1> HIDE DEF list
<1>5. list \in Injection(1..n, S)
  BY <1>4 DEF Injection, IsInjective, Detector!IsInjective
<1>6. list \in Surjection(1..n, S)
  BY <1>1, <1>5, CountTo, FS_Injection
<1>7. list \in Bijection(1..n, S)
  BY <1>5, <1>6 DEF Bijection
<1> QED BY <1>7 DEF list

LEMMA LoadsSorted ==
  ASSUME NEW list \in Seq(Nat)
  PROVE  \E p \in Bijection(1..Len(list), 1..Len(list)) :
           /\ Detector!Sorted(list) = [k \in 1..Len(list) |-> list[p[k]]]
           /\ \A k, l \in 1..Len(list) : k <= l => list[p[k]] <= list[p[l]]
<1>1. Detector!Sorted(list) = Ring!Sorted(list)
  BY DEF Detector!Sorted, Detector!Place, Detector!Cardinality, Ring!Sorted, Ring!Place, Ring!Cardinality
<1> QED BY <1>1, SortingOrder

(* The state analysed: every report is a number.                           *)
LoadsTyped ==
  /\ IsFiniteSet(Detector!Reporting)
  /\ \A s \in Detector!Reporting : Detector!Rps(s) \in Nat

RankedLoads == Detector!Sorted(Detector!Loads)
Weighted == [i \in 1..Detector!Count |-> (Detector!Count + 1 - i) * RankedLoads[i]]
Gap == [p \in Detector!Reporting \X Detector!Reporting |->
          Detector!Abs(Detector!Rps(p[1]) - Detector!Rps(p[2]))]

LEMMA WeightedSum ==
  ASSUME Detector!Count \in Nat
  PROVE  Detector!MapThenSumSet(LAMBDA i : (Detector!Count + 1 - i) * RankedLoads[i], 1..Detector!Count)
           = SumOf(Weighted, 1..Detector!Count)
<1> DEFINE S == 1..Detector!Count
           F(i) == (Detector!Count + 1 - i) * RankedLoads[i]
           Eq(h) == h = [s \in SUBSET S |-> IF s = {} THEN 0 ELSE F(Pick(s)) + h[Rest1(s)]]
           g == CHOOSE h : Eq(h)
<1>1. Detector!MapThenSumSet(LAMBDA i : (Detector!Count + 1 - i) * RankedLoads[i], 1..Detector!Count)
        = g[S]
  BY DEF Detector!MapThenSumSet, Detector!MapThenFoldSet, Pick, Rest1
<1>2. IsFiniteSet(S)
  BY CountTo
<1>3. \A x \in S : Weighted[x] = F(x)
  BY DEF Weighted
<1> HIDE DEF S, F
<1>4. \A h : Eq(h) <=> RunningSum(Weighted, S, h)
  BY <1>3, PickedOf DEF RunningSum
<1>5. Eq(g)
  <2>1. \E h : Eq(h)
    BY <1>2, <1>4, SomeSolution
  <2> HIDE DEF Eq
  <2> QED BY <2>1
<1>6. RunningSum(Weighted, S, g)
  BY <1>4, <1>5
<1> HIDE DEF g
<1> QED BY <1>1, <1>2, <1>6, SumSolution DEF S

LEMMA GapSum ==
  ASSUME IsFiniteSet(Detector!Reporting)
  PROVE  Detector!MapThenSumSet(LAMBDA p : Detector!Abs(Detector!Rps(p[1]) - Detector!Rps(p[2])),
                                Detector!Reporting \X Detector!Reporting)
           = SumOf(Gap, Detector!Reporting \X Detector!Reporting)
<1> DEFINE S == Detector!Reporting \X Detector!Reporting
           F(p) == Detector!Abs(Detector!Rps(p[1]) - Detector!Rps(p[2]))
           Eq(h) == h = [s \in SUBSET S |-> IF s = {} THEN 0 ELSE F(Pick(s)) + h[Rest1(s)]]
           g == CHOOSE h : Eq(h)
<1>1. Detector!MapThenSumSet(LAMBDA p : Detector!Abs(Detector!Rps(p[1]) - Detector!Rps(p[2])),
                             Detector!Reporting \X Detector!Reporting)
        = g[S]
  BY DEF Detector!MapThenSumSet, Detector!MapThenFoldSet, Pick, Rest1
<1>2. IsFiniteSet(S)
  BY FS_Product
<1>3. \A x \in S : Gap[x] = F(x)
  BY DEF Gap
<1> HIDE DEF S, F
<1>4. \A h : Eq(h) <=> RunningSum(Gap, S, h)
  BY <1>3, PickedOf DEF RunningSum
<1>5. Eq(g)
  <2>1. \E h : Eq(h)
    BY <1>2, <1>4, SomeSolution
  <2> HIDE DEF Eq
  <2> QED BY <2>1
<1>6. RunningSum(Gap, S, g)
  BY <1>4, <1>5
<1> HIDE DEF g
<1> QED BY <1>1, <1>2, <1>6, SumSolution DEF S

LEMMA LoadsRanked ==
  ASSUME LoadsTyped
  PROVE  \E at : Ranked(Detector!Count, Detector!Reporting, LoadOf, at, RankedLoads, Weighted, Gap)
<1> DEFINE R == Detector!Reporting
           n == Detector!Count
           list == Detector!SetToSeq(R)
           L == Detector!Loads
<1>1. n \in Nat /\ n = Cardinality(R) /\ IsFiniteSet(R)
  <2>1. Detector!Cardinality(R) = Cardinality(R)
    BY DEF Detector!Cardinality, Cardinality
  <2> QED BY <2>1, FS_CardinalityType DEF LoadsTyped, Detector!Count
<1>2. list \in Bijection(1..n, R)
  <2> HIDE DEF R, n
  <2> QED BY <1>1, SetListed
<1>3. /\ list \in [1..n -> R] /\ (\A i, j \in 1..n : list[i] = list[j] => i = j)
      /\ \A y \in R : \E i \in 1..n : list[i] = y
  <2> HIDE DEF R, n, list
  <2> QED BY <1>2 DEF Bijection, Injection, Surjection, IsInjective
<1>4. L \in Seq(Nat) /\ Len(L) = n /\ \A i \in 1..n : L[i] = LoadOf[list[i]]
  <2>1. L = [i \in 1..n |-> Detector!Rps(list[i])]
    BY DEF Detector!Loads
  <2>2. \A s \in R : Detector!Rps(s) \in Nat /\ LoadOf[s] = Detector!Rps(s)
    BY DEF LoadsTyped, LoadOf
  <2> HIDE DEF L, n, R, list
  <2>3. L \in [1..n -> Nat]
    BY <1>3, <2>1, <2>2
  <2>4. L \in Seq(Nat) /\ Len(L) = n
    BY <1>1, <2>3
  <2> QED BY <1>3, <2>1, <2>2, <2>4
<1>5. PICK p \in Bijection(1..n, 1..n) :
        /\ RankedLoads = [k \in 1..n |-> L[p[k]]]
        /\ \A k, l \in 1..n : k <= l => L[p[k]] <= L[p[l]]
  <2> HIDE DEF L, n
  <2> QED BY <1>4, LoadsSorted DEF RankedLoads, L
<1>6. /\ \A i \in 1..n : p[i] \in 1..n
      /\ \A i, j \in 1..n : p[i] = p[j] => i = j
      /\ \A w \in 1..n : \E v \in 1..n : p[v] = w
  <2> HIDE DEF n
  <2> QED BY DEF Bijection, Injection, Surjection, IsInjective
<1> DEFINE at == [i \in 1..n |-> list[p[i]]]
<1>7. at \in Bijection(1..n, R)
  <2> HIDE DEF n, R, list
  <2>1. at \in [1..n -> R]
    BY <1>3, <1>6
  <2>2. \A i, j \in 1..n : at[i] = at[j] => i = j
    BY <1>3, <1>6
  <2>3. \A y \in R : \E i \in 1..n : at[i] = y
    BY <1>3, <1>6
  <2> HIDE DEF at
  <2> QED BY <2>1, <2>2, <2>3 DEF Bijection, Injection, Surjection, IsInjective
<1>8. \A a \in R : LoadOf[a] \in Nat /\ LoadOf[a] = Detector!Rps(a)
  BY DEF LoadsTyped, LoadOf
<1>9. \A i \in 1..n : RankedLoads[i] = LoadOf[at[i]] /\ Weighted[i] = (n + 1 - i) * RankedLoads[i]
  <2>1. \A i \in 1..n : Weighted[i] = (n + 1 - i) * RankedLoads[i]
    BY DEF Weighted
  <2> HIDE DEF n, R, list, L
  <2> QED BY <1>4, <1>5, <1>6, <2>1
<1>10. \A i, j \in 1..n : i <= j => LoadOf[at[i]] <= LoadOf[at[j]]
  <2> HIDE DEF n, R, list, L
  <2> QED BY <1>4, <1>5, <1>6
<1>11. \A a, b \in R : Gap[<<a, b>>] = IF LoadOf[a] < LoadOf[b] THEN LoadOf[b] - LoadOf[a]
                                       ELSE LoadOf[a] - LoadOf[b]
  <2> SUFFICES ASSUME NEW a \in R, NEW b \in R
               PROVE  Gap[<<a, b>>] = IF LoadOf[a] < LoadOf[b] THEN LoadOf[b] - LoadOf[a]
                                      ELSE LoadOf[a] - LoadOf[b]
    OBVIOUS
  <2>1. Gap[<<a, b>>] = Detector!Abs(Detector!Rps(a) - Detector!Rps(b))
    BY DEF Gap
  <2>2. Detector!Abs(Detector!Rps(a) - Detector!Rps(b)) = Detector!Abs(LoadOf[a] - LoadOf[b])
    BY <1>8
  <2>3. LoadOf[a] \in Nat /\ LoadOf[b] \in Nat
    BY <1>8
  <2> QED BY <2>1, <2>2, <2>3 DEF Detector!Abs
<1> HIDE DEF n, R, at
<1>12. Ranked(n, R, LoadOf, at, RankedLoads, Weighted, Gap)
  BY <1>1, <1>7, <1>8, <1>9, <1>10, <1>11 DEF Ranked
<1> QED BY <1>12 DEF n, R

(* The coefficient is half the gaps' sum; hot and cold are told apart.     *)
LEMMA AnalysisRight == LoadsTyped => Detector!DistributionRight /\ Detector!TotalRPS \in Nat
<1> SUFFICES ASSUME LoadsTyped PROVE Detector!DistributionRight /\ Detector!TotalRPS \in Nat
  OBVIOUS
<1> DEFINE R == Detector!Reporting
           n == Detector!Count
           T == Detector!TotalRPS
           W == SumOf(Weighted, 1..n)
           D == SumOf(Gap, R \X R)
<1>1. n \in Nat /\ n = Cardinality(R) /\ IsFiniteSet(R) /\ T = SumOf(LoadOf, R)
  <2>1. Detector!Cardinality(R) = Cardinality(R)
    BY DEF Detector!Cardinality, Cardinality
  <2> QED BY <2>1, FS_CardinalityType, TotalLoad DEF LoadsTyped, Detector!Count
<1>2. T \in Nat /\ W \in Nat /\ D \in Nat /\ D = 2 * ((n + 1) * T - 2 * W)
  <2>1. PICK at : Ranked(n, R, LoadOf, at, RankedLoads, Weighted, Gap)
    BY LoadsRanked
  <2> HIDE DEF n, R, T
  <2> QED BY <1>1, <2>1, GapsAddUp
<1>3. Detector!calculateGiniCoefficient = IF T = 0 THEN 0 ELSE Detector!Abs(2 * W - (n + 1) * T)
  BY <1>1, WeightedSum DEF Detector!calculateGiniCoefficient, RankedLoads
<1>4. 2 * Detector!calculateGiniCoefficient = D
  <2> DEFINE e == (n + 1) * T
  <2>1. e \in Nat /\ (T = 0 => e = 0)
    BY <1>1, <1>2
  <2>2. D = 2 * (e - 2 * W)
    BY <1>2
  <2>3. Detector!calculateGiniCoefficient = IF T = 0 THEN 0 ELSE Detector!Abs(2 * W - e)
    BY <1>3
  <2>4. T \in Nat /\ W \in Nat /\ D \in Nat
    BY <1>2
  <2> HIDE DEF e, T, W, D
  <2> QED BY <2>1, <2>2, <2>3, <2>4 DEF Detector!Abs
<1>5. 2 * Detector!calculateGiniCoefficient =
        Detector!MapThenSumSet(LAMBDA p : Detector!Abs(Detector!Rps(p[1]) - Detector!Rps(p[2])), R \X R)
  BY <1>1, <1>4, GapSum
<1>6. \A s \in R : LoadOf[s] = Detector!Rps(s) /\ LoadOf[s] \in Nat
  BY DEF LoadsTyped, LoadOf
<1>7. Detector!HotShards \cap Detector!ColdShards = {}
  <2> SUFFICES ASSUME NEW s \in Detector!HotShards, s \in Detector!ColdShards PROVE FALSE
    OBVIOUS
  <2> DEFINE x == 2 * Detector!Rps(s) * n
  <2>1. s \in R /\ x > 3 * T /\ x < T
    BY DEF Detector!HotShards, Detector!ColdShards, Detector!AboveHot, Detector!BelowCold
  <2>2. x \in Int
    <3>1. Detector!Rps(s) \in Nat
      BY <1>6, <2>1
    <3> HIDE DEF n
    <3> QED BY <1>1, <3>1
  <2> HIDE DEF x, T
  <2> QED BY <1>2, <2>1, <2>2
<1>8. ASSUME R # {}
      PROVE  /\ \E a \in R : ~(2 * LoadOf[a] * n > 3 * T)
             /\ \A a \in R : 2 * LoadOf[a] * n > 3 * T => \E b \in R : LoadOf[b] * n < T
  <2>1. \A a \in R : LoadOf[a] \in Nat
    BY <1>6
  <2> HIDE DEF R, n, T
  <2> QED BY <1>1, <1>8, <2>1, MeanBetween
<1>9. \A s : s \in Detector!HotShards <=> s \in R /\ 2 * LoadOf[s] * n > 3 * T
  BY <1>6 DEF Detector!HotShards, Detector!AboveHot
<1>10. R # {} => Detector!HotShards # R
  <2> HIDE DEF R, n, T
  <2> QED BY <1>8, <1>9
<1>11. Detector!HotShards # {} => \E s \in R : Detector!Rps(s) * n < T
  <2> HIDE DEF R, n, T
  <2> QED BY <1>6, <1>8, <1>9
<1> QED BY <1>2, <1>5, <1>7, <1>10, <1>11 DEF Detector!DistributionRight

(* The reports are lists of samples, and a handler waits only for shards   *)
(* that have reported.                                                     *)
DetectorInv ==
  /\ history \in [Observed -> Seq(Samples)]
  /\ \A h \in Handlers : seen[h].hot \subseteq Detector!Reporting
  /\ Detector!TypeOK

LEMMA LatestOf ==
  ASSUME NEW S, NEW list \in Seq(S), list # <<>>, NEW n \in Nat \ {0}
  PROVE  /\ Detector!Latest(list, n) \in Seq(S) /\ Detector!Latest(list, n) # <<>>
         /\ Len(Detector!Latest(list, n)) <= n
<1> DEFINE l == Len(list)
           a == (IF l > n THEN l - n ELSE 0) + 1
           cut == SubSeq(list, a, l)
<1>1. l \in Nat /\ l # 0 /\ DOMAIN list = 1..l /\ \A i \in 1..l : list[i] \in S
  OBVIOUS
<1>2. a \in 1..l /\ l - a + 1 \in 1..n
  BY <1>1
<1>3. Detector!Latest(list, n) = cut
  BY DEF Detector!Latest
<1>4. cut = [i \in 1..l - a + 1 |-> list[i + a - 1]]
  <2> HIDE DEF a, l
  <2> QED BY <1>1, <1>2
<1>5. \A i \in 1..l - a + 1 : i + a - 1 \in 1..l
  <2> HIDE DEF a, l
  <2> QED BY <1>1, <1>2
<1> HIDE DEF a, l, cut
<1>6. cut \in [1..l - a + 1 -> S] /\ l - a + 1 \in Nat
  BY <1>1, <1>2, <1>4, <1>5
<1>7. cut \in Seq(S) /\ Len(cut) = l - a + 1
  BY <1>6
<1>8. cut # <<>>
  BY <1>2, <1>7
<1> QED BY <1>2, <1>3, <1>7, <1>8

LEMMA DetectorConstants ==
  /\ IsFiniteSet(Observed) /\ Samples \subseteq [rps : Nat, salted : BOOLEAN, many : BOOLEAN]
  /\ HistorySize \in Nat \ {0} /\ Cooldown \in Nat \ {0} /\ Unit \in Nat \ {0} /\ MaxReports \in Nat \ {0}
<1>1. Detector!IsFiniteSet(Observed) => IsFiniteSet(Observed)
  BY DEF Detector!IsFiniteSet, IsFiniteSet
<1> QED BY <1>1, RebalancerAssumption DEF Detector!DetectorAssumption

LEMMA ReportsTyped ==
  ASSUME history \in [Observed -> Seq(Samples)]
  PROVE  /\ LoadsTyped /\ Detector!Reporting \subseteq Observed
         /\ \A s \in Detector!Reporting : Detector!Report(s) \in Samples
<1>1. ASSUME NEW s \in Detector!Reporting PROVE Detector!Report(s) \in Samples
  <2>1. history[s] \in Seq(Samples) /\ history[s] # <<>>
    BY DEF Detector!Reporting
  <2>2. Len(history[s]) \in 1..Len(history[s])
    BY <2>1
  <2>3. history[s][Len(history[s])] \in Samples
    BY <2>1, <2>2
  <2> QED BY <2>3 DEF Detector!Report
<1>2. \A s \in Detector!Reporting : Detector!Rps(s) \in Nat
  BY <1>1, DetectorConstants DEF Detector!Rps
<1>3. Detector!Reporting \subseteq Observed /\ IsFiniteSet(Detector!Reporting)
  BY DetectorConstants, FS_Subset DEF Detector!Reporting
<1> QED BY <1>1, <1>2, <1>3 DEF LoadsTyped

LEMMA DetectorInit == Detector!Init => DetectorInv
<1> SUFFICES ASSUME Detector!Init PROVE DetectorInv
  OBVIOUS
<1> USE DetectorConstants DEF Detector!Init, Detector!NothingSeen, Detector!NoAlert
<1>1. history \in [Observed -> Seq(Samples)] /\ \A s \in Observed : history[s] = <<>>
  OBVIOUS
<1>2. \A h \in Handlers : seen[h].hot = {}
  OBVIOUS
<1>3. \A s \in Observed : Len(history[s]) <= HistorySize /\ \A i \in DOMAIN history[s] : history[s][i] \in Samples
  BY <1>1
<1>4. seen \in [Handlers -> [total : Nat, count : Nat, hot : SUBSET Observed]]
  OBVIOUS
<1> QED BY <1>1, <1>2, <1>3, <1>4 DEF DetectorInv, Detector!TypeOK

LEMMA DetectorUpdate ==
  ASSUME DetectorInv, NEW s \in Observed, NEW sample \in Samples, Detector!UpdateMetrics(s, sample)
  PROVE  DetectorInv'
<1> DEFINE list == Detector!Latest(Append(history[s], sample), HistorySize)
           mean == Detector!Updated(history[s], average[s], sample.rps)
           held == Detector!IsSustained(list, mean)
<1>1. /\ reports < MaxReports /\ reports' = reports + 1
      /\ history' = [history EXCEPT ![s] = list] /\ average' = [average EXCEPT ![s] = mean]
      /\ sustained' = [sustained EXCEPT ![s] = IF Len(list) < PatternFrom THEN @ ELSE held]
      /\ seen' = seen /\ alert' = alert /\ since' = since
  BY DEF Detector!UpdateMetrics
<1>2. history \in [Observed -> Seq(Samples)] /\ Detector!TypeOK
  BY DEF DetectorInv
<1>3. list \in Seq(Samples) /\ list # <<>> /\ Len(list) <= HistorySize
  <2>1. Append(history[s], sample) \in Seq(Samples) /\ Append(history[s], sample) # <<>>
    BY <1>2
  <2> QED BY <2>1, DetectorConstants, LatestOf
<1>4. mean \in Nat
  <2>1. sample.rps \in Nat /\ average[s] \in Nat /\ Unit \in Nat
    BY <1>2, DetectorConstants DEF Detector!TypeOK
  <2>2. sample.rps * Unit \in Nat
    BY <2>1
  <2>3. 4 * average[s] + sample.rps * Unit \in Nat
    BY <2>1, <2>2
  <2>4. (4 * average[s] + sample.rps * Unit) \div 5 \in Nat
    BY <2>3, Division
  <2> QED BY <2>2, <2>4 DEF Detector!Updated
<1>5. held \in BOOLEAN
  BY DEF Detector!IsSustained
<1> HIDE DEF list, mean, held
<1>6. history' \in [Observed -> Seq(Samples)] /\ \A t \in Observed : history'[t] = IF t = s THEN list ELSE history[t]
  BY <1>1, <1>2, <1>3
<1>7. \A t \in Observed : Len(history'[t]) <= HistorySize /\ \A i \in DOMAIN history'[t] : history'[t][i] \in Samples
  BY <1>2, <1>3, <1>6 DEF Detector!TypeOK
<1>8. average' \in [Observed -> Nat]
  BY <1>1, <1>2, <1>4 DEF Detector!TypeOK
<1>9. sustained' \in [Observed -> BOOLEAN]
  BY <1>1, <1>2, <1>5 DEF Detector!TypeOK
<1>10. reports' \in 0..MaxReports
  BY <1>1, <1>2, DetectorConstants DEF Detector!TypeOK
<1>11. \A t \in Observed : history[t] # <<>> => history'[t] # <<>>
  BY <1>3, <1>6
<1>12. \A h \in Handlers : seen'[h].hot \subseteq Detector!Reporting'
  BY <1>1, <1>11 DEF DetectorInv, Detector!Reporting
<1>13. Detector!TypeOK'
  BY <1>1, <1>2, <1>7, <1>8, <1>9, <1>10 DEF Detector!TypeOK
<1> QED BY <1>6, <1>12, <1>13 DEF DetectorInv

LEMMA DetectorStep == DetectorInv /\ [Detector!Next]_Detector!vars => DetectorInv'
<1> SUFFICES ASSUME DetectorInv, [Detector!Next]_Detector!vars PROVE DetectorInv'
  OBVIOUS
<1> USE DEF Detector!detector
<1>1. /\ history \in [Observed -> Seq(Samples)] /\ Detector!TypeOK
      /\ \A h \in Handlers : seen[h].hot \subseteq Detector!Reporting
  BY DEF DetectorInv
<1>2. /\ LoadsTyped /\ Detector!Reporting \subseteq Observed
      /\ \A s \in Detector!Reporting : Detector!Rps(s) \in Nat
  BY <1>1, ReportsTyped DEF LoadsTyped
<1>3. Detector!TotalRPS \in Nat /\ Detector!Count \in Nat
  <2>1. Detector!Count = Cardinality(Detector!Reporting)
    BY DEF Detector!Count, Detector!Cardinality, Cardinality
  <2> QED BY <1>2, <2>1, AnalysisRight, FS_CardinalityType DEF LoadsTyped
(* Handlers read only.                                                     *)
<1>4. ASSUME history' = history, average' = average, sustained' = sustained, reports' = reports,
             NEW h \in Handlers, NEW e \in [total : Nat, count : Nat, hot : SUBSET Observed],
             e.hot \subseteq Detector!Reporting, seen' = [seen EXCEPT ![h] = e],
             alert' \in [rps : Nat, total : Nat, count : Nat], since' = since
      PROVE  DetectorInv'
  <2>1. Detector!Reporting' = Detector!Reporting
    BY <1>4 DEF Detector!Reporting
  <2>2. /\ seen' \in [Handlers -> [total : Nat, count : Nat, hot : SUBSET Observed]]
        /\ \A g \in Handlers : seen'[g].hot \subseteq Detector!Reporting
    BY <1>1, <1>4 DEF Detector!TypeOK
  <2>3. Detector!TypeOK'
    BY <1>1, <1>4, <2>2 DEF Detector!TypeOK
  <2> QED BY <1>1, <1>4, <2>1, <2>2, <2>3 DEF DetectorInv
<1>5. \A h \in Handlers : seen[h] \in [total : Nat, count : Nat, hot : SUBSET Observed]
  BY <1>1 DEF Detector!TypeOK
<1>6. ASSUME NEW h \in Handlers, Detector!Analyze(h) PROVE DetectorInv'
  <2>1. Detector!HotShards \subseteq Detector!Reporting
    BY DEF Detector!HotShards
  <2>2. /\ Detector!Distribution \in [total : Nat, count : Nat, hot : SUBSET Observed]
        /\ Detector!Distribution.hot \subseteq Detector!Reporting
    BY <1>2, <1>3, <2>1 DEF Detector!Distribution
  <2> QED BY <1>1, <1>4, <1>6, <2>2 DEF Detector!Analyze, Detector!TypeOK
<1>7. ASSUME NEW h \in Handlers, Detector!SendAlert(h) PROVE DetectorInv'
  <2>1. PICK s \in seen[h].hot :
          /\ alert' = [rps |-> Detector!Rps(s), total |-> seen[h].total, count |-> seen[h].count]
          /\ seen' = [seen EXCEPT ![h].hot = @ \ {s}]
          /\ UNCHANGED <<Detector!detector, since, reports>>
    BY <1>7 DEF Detector!SendAlert
  <2> DEFINE e == [seen[h] EXCEPT !.hot = seen[h].hot \ {s}]
  <2>2. /\ seen' = [seen EXCEPT ![h] = e] /\ e \in [total : Nat, count : Nat, hot : SUBSET Observed]
        /\ e.hot \subseteq seen[h].hot
    BY <1>5, <2>1
  <2>3. Detector!Rps(s) \in Nat
    BY <1>1, <1>2
  <2>4. alert' \in [rps : Nat, total : Nat, count : Nat]
    BY <1>5, <2>1, <2>3
  <2> HIDE DEF e
  <2> QED BY <1>1, <1>4, <2>1, <2>2, <2>4
<1>8. ASSUME NEW h \in Handlers, Detector!Abandon(h) PROVE DetectorInv'
  <2> DEFINE e == [seen[h] EXCEPT !.hot = {}]
  <2>1. /\ seen' = [seen EXCEPT ![h] = e] /\ e \in [total : Nat, count : Nat, hot : SUBSET Observed]
        /\ e.hot \subseteq Detector!Reporting
    BY <1>5, <1>8 DEF Detector!Abandon
  <2> HIDE DEF e
  <2> QED BY <1>1, <1>4, <1>8, <2>1 DEF Detector!Abandon, Detector!TypeOK
<1>9. ASSUME Detector!rebalanceWorker PROVE DetectorInv'
  <2>1. since' \in 0..Cooldown
    BY <1>1, <1>9, DetectorConstants DEF Detector!rebalanceWorker, Detector!TypeOK
  <2>2. /\ history' = history /\ average' = average /\ sustained' = sustained
        /\ seen' = seen /\ alert' = alert /\ reports' = reports
    BY <1>9 DEF Detector!rebalanceWorker
  <2>3. Detector!Reporting' = Detector!Reporting
    BY <2>2 DEF Detector!Reporting
  <2>4. Detector!TypeOK'
    BY <1>1, <2>1, <2>2 DEF Detector!TypeOK
  <2> QED BY <1>1, <2>2, <2>3, <2>4 DEF DetectorInv
<1>10. CASE UNCHANGED Detector!vars
  BY <1>10 DEF DetectorInv, Detector!TypeOK, Detector!Reporting, Detector!vars
<1>11. CASE Detector!Next
  BY <1>6, <1>7, <1>8, <1>9, <1>11, DetectorUpdate DEF Detector!Next
<1> QED BY <1>10, <1>11

(* Every distribution the detector reports has the coefficient it should,  *)
(* tells hot from cold, and calls no shard hot without another below the   *)
(* mean (AnalyzeDistribution, calculateGiniCoefficient).                   *)
THEOREM DistributionsRight == Detector!Spec => []Detector!DistributionRight
<1>1. DetectorInv => Detector!DistributionRight
  BY ReportsTyped, AnalysisRight DEF DetectorInv
<1> QED BY <1>1, DetectorInit, DetectorStep, PTL DEF Detector!Spec

-----------------------------------------------------------------------------
(* The virtual shards.                                                     *)

(* A step repeated n times can be written as a recursive function.         *)
Repeats(n, base, step, f) == f[0] = base /\ \A i \in 1..n : f[i] = step[<<f[i - 1], i>>]

LEMMA Repetition ==
  ASSUME NEW n \in Nat, NEW S, NEW base \in S, NEW step,
         \A i \in 1..n : \A x \in S : step[<<x, i>>] \in S
  PROVE  \E f \in [0..n -> S] : Repeats(n, base, step, f)
<1> DEFINE Has(k) == \E f \in [0..k -> S] : Repeats(k, base, step, f)
           Lacks == {k \in 0..n : ~Has(k)}
<1>1. Has(0)
  <2> DEFINE f == [i \in 0..0 |-> base]
  <2>1. f \in [0..0 -> S] /\ f[0] = base /\ 1..0 = {}
    OBVIOUS
  <2> HIDE DEF f
  <2> QED BY <2>1 DEF Repeats
<1>2. Lacks = {}
  <2> SUFFICES ASSUME Lacks # {} PROVE FALSE
    OBVIOUS
  <2>1. PICK k \in Lacks : \A j \in Lacks : k <= j
    <3>1. Lacks \subseteq Nat
      OBVIOUS
    <3> HIDE DEF Lacks
    <3> QED BY <3>1, LeastOfNaturals
  <2>2. k \in 0..n /\ ~Has(k) /\ k # 0
    <3> HIDE DEF Has
    <3> QED BY <1>1, <2>1
  <2>3. k - 1 \in 0..n /\ ~(k <= k - 1) /\ k \in 1..n /\ k \in Nat /\ k - 1 \in Nat
    BY <2>2
  <2>4. Has(k - 1)
    <3> HIDE DEF Has
    <3> QED BY <2>1, <2>3
  <2>5. PICK f \in [0..k - 1 -> S] : Repeats(k - 1, base, step, f)
    BY <2>4
  <2> DEFINE last == step[<<f[k - 1], k>>]
             g == [i \in 0..k |-> IF i = k THEN last ELSE f[i]]
  <2>6. last \in S
    <3>1. f[k - 1] \in S
      BY <2>3, <2>5
    <3> QED BY <2>3, <3>1
  <2>7. /\ g \in [0..k -> S] /\ g[0] = f[0] /\ g[k] = last
        /\ \A i \in 0..k - 1 : g[i] = f[i]
    <3> HIDE DEF last
    <3> QED BY <2>3, <2>5, <2>6
  <2>8. \A i \in 1..k : g[i] = step[<<g[i - 1], i>>]
    <3> SUFFICES ASSUME NEW i \in 1..k PROVE g[i] = step[<<g[i - 1], i>>]
      OBVIOUS
    <3> HIDE DEF g
    <3>1. CASE i = k
      <4>1. g[k - 1] = f[k - 1] /\ g[k] = step[<<f[k - 1], k>>]
        BY <2>3, <2>7
      <4> QED BY <3>1, <4>1
    <3>2. CASE i # k
      <4>1. i \in 1..k - 1 /\ i \in 0..k - 1 /\ i - 1 \in 0..k - 1
        BY <2>3, <3>2
      <4>2. f[i] = step[<<f[i - 1], i>>]
        BY <2>5, <4>1 DEF Repeats
      <4> QED BY <2>7, <4>1, <4>2
    <3> QED BY <3>1, <3>2
  <2>9. Repeats(k, base, step, g)
    <3> HIDE DEF g
    <3> QED BY <2>5, <2>7, <2>8 DEF Repeats
  <2>10. Has(k)
    <3> HIDE DEF g
    <3> QED BY <2>7, <2>9
  <2> HIDE DEF Has
  <2> QED BY <2>2, <2>10
<1> HIDE DEF Has
<1>3. n \in 0..n
  OBVIOUS
<1>4. Has(n)
  BY <1>2, <1>3
<1> QED BY <1>4 DEF Has

LEMMA TableConstants ==
  /\ IsFiniteSet(Physical) /\ Physical # {} /\ Amounts \subseteq Nat
  /\ VirtualCount \in Nat \ {0} /\ Cardinality(Physical) \in Nat \ {0}
  /\ \A i \in 1..VirtualCount - 1 : Remainder[i] \in Int /\ Remainder[i] \in -i..i
<1>1. Table!IsFiniteSet(Physical) => IsFiniteSet(Physical)
  BY DEF Table!IsFiniteSet, IsFiniteSet
<1>2. IsFiniteSet(Physical) /\ Physical # {}
  BY <1>1, RebalancerAssumption DEF Table!VirtualAssumption
<1>3. Cardinality(Physical) \in Nat \ {0}
  BY <1>2, FS_CardinalityType, FS_EmptySet
<1> QED BY <1>2, <1>3, RebalancerAssumption DEF Table!VirtualAssumption

LEMMA OrdersAre ==
  /\ Table!Orders = Bijection(1..Cardinality(Physical), Physical)
  /\ \A o \in Table!Orders :
       /\ o \in [1..Cardinality(Physical) -> Physical] /\ Len(o) = Cardinality(Physical)
       /\ \A i, j \in 1..Cardinality(Physical) : o[i] = o[j] => i = j
       /\ \A p \in Physical : \E i \in 1..Cardinality(Physical) : o[i] = p
<1> DEFINE N == Cardinality(Physical)
<1>1. Table!Orders = Bijection(1..N, Physical)
  <2>1. Table!Cardinality(Physical) = N
    BY DEF Table!Cardinality, Cardinality
  <2> HIDE DEF N
  <2> QED BY <2>1 DEF Table!Orders, Table!Bijection, Table!Injection, Table!Surjection, Table!IsInjective,
                     Bijection, Injection, Surjection, IsInjective
<1>2. N \in Nat
  BY TableConstants
<1> HIDE DEF N
<1>3. ASSUME NEW o \in Bijection(1..N, Physical)
      PROVE  /\ o \in [1..N -> Physical] /\ Len(o) = N
             /\ \A i, j \in 1..N : o[i] = o[j] => i = j
             /\ \A p \in Physical : \E i \in 1..N : o[i] = p
  <2>1. /\ o \in [1..N -> Physical] /\ \A i, j \in 1..N : o[i] = o[j] => i = j
        /\ \A p \in Physical : \E i \in 1..N : o[i] = p
    BY DEF Bijection, Injection, Surjection, IsInjective
  <2>2. Len(o) = N
    BY <1>2, <2>1
  <2> QED BY <2>1, <2>2
<1> QED BY <1>1, <1>3 DEF N

(* The share of a shard is at least one, and no less for a smaller load.   *)
LEMMA TotalTyped ==
  ASSUME NEW l \in [Physical -> Nat]
  PROVE  Table!Total(l) = SumOf(l, Physical) /\ Table!Total(l) \in Nat
<1>1. \A p \in Physical : l[p] \in Nat
  OBVIOUS
<1> QED BY <1>1, TotalIsSum, TableConstants, SumParts

LEMMA QuotientGrows ==
  ASSUME NEW a \in Nat, NEW b \in Nat, NEW c \in Nat \ {0}, a <= b
  PROVE  a \div c <= b \div c
<1> DEFINE x == a \div c
           y == b \div c
<1>1. x \in Nat /\ y \in Nat /\ a = x * c + (a % c) /\ b = y * c + (b % c)
      /\ a % c \in 0..c - 1 /\ b % c \in 0..c - 1
  <2>1. x \in Nat /\ a % c \in 0..c - 1
    BY Division
  <2>2. y \in Nat /\ b % c \in 0..c - 1
    BY Division
  <2>3. a \in Int /\ b \in Int
    OBVIOUS
  <2>4. a = x * c + (a % c)
    BY <2>3, Remainders
  <2>5. b = y * c + (b % c)
    BY <2>3, Remainders
  <2> QED BY <2>1, <2>2, <2>4, <2>5
<1> SUFFICES ASSUME ~(x <= y) PROVE FALSE
  OBVIOUS
<1> DEFINE r == a % c
           s == b % c
<1> HIDE DEF x, y, r, s
<1>2. x \in Nat /\ y \in Nat /\ a = x * c + r /\ b = y * c + s /\ r \in 0..c - 1 /\ s \in 0..c - 1
  BY <1>1 DEF r, s
<1>3. y + 1 <= x /\ y + 1 \in Int /\ x \in Int
  BY <1>2
<1>4. (y + 1) * c <= x * c /\ x * c \in Int
  <2> DEFINE z == y + 1
  <2>1. z \in Int /\ x \in Int /\ z <= x /\ c \in Nat
    BY <1>3
  <2> HIDE DEF z
  <2>2. z * c <= x * c /\ x * c \in Int
    BY <2>1, Products
  <2> QED BY <2>2 DEF z
<1>5. (y + 1) * c = y * c + c /\ y * c \in Int
  BY <1>2
<1> DEFINE u == x * c
           v == y * c
<1>6. u \in Int /\ v \in Int /\ v + c <= u /\ a = u + r /\ b = v + s
  BY <1>2, <1>4, <1>5
<1> HIDE DEF u, v
<1> QED BY <1>2, <1>6

LEMMA SharesTyped ==
  ASSUME NEW l \in [Physical -> Nat], Table!Total(l) # 0
  PROVE  /\ \A p \in Physical : Table!Share(l, p) \in Nat \ {0}
         /\ \A p, q \in Physical : l[p] <= l[q] => Table!Share(l, q) <= Table!Share(l, p)
<1> DEFINE T == Table!Total(l)
           N == Table!Cardinality(Physical)
           c == 10 * T * N
           part(p) == Table!Larger(10 * (T - l[p]), T)
           a(p) == VirtualCount * part(p)
<1>1. T \in Nat \ {0} /\ N \in Nat \ {0} /\ VirtualCount \in Nat
  <2>1. N = Cardinality(Physical)
    BY DEF Table!Cardinality, Cardinality
  <2> QED BY <2>1, TotalTyped, TableConstants
<1>2. c \in Nat \ {0}
  <2> HIDE DEF T, N
  <2>1. T * N \in Nat \ {0}
    BY <1>1
  <2>2. 10 * (T * N) = 10 * T * N
    BY <1>1
  <2> QED BY <2>1, <2>2
<1>3. \A p \in Physical : part(p) \in Nat /\ \A q \in Physical : l[p] <= l[q] => part(q) <= part(p)
  <2> HIDE DEF T
  <2> QED BY <1>1 DEF Table!Larger
<1>4. \A p \in Physical : a(p) \in Nat
  <2> HIDE DEF part
  <2> QED BY <1>1, <1>3
<1>5. ASSUME NEW p \in Physical, NEW q \in Physical, l[p] <= l[q] PROVE a(q) <= a(p)
  <2>1. part(q) <= part(p) /\ part(q) \in Int /\ part(p) \in Int
    <3> HIDE DEF part
    <3> QED BY <1>3, <1>5
  <2> HIDE DEF part
  <2>2. part(q) * VirtualCount <= part(p) * VirtualCount
    BY <1>1, <2>1, Products
  <2>3. \A x \in Int : x * VirtualCount = VirtualCount * x
    BY <1>1
  <2> QED BY <2>1, <2>2, <2>3
<1>6. \A p \in Physical : Table!Share(l, p) = Table!Larger(1, a(p) \div c)
  BY DEF Table!Share
<1> HIDE DEF a, c
<1>7. \A p \in Physical : a(p) \div c \in Nat
  BY <1>2, <1>4, Division
<1>8. \A p, q \in Physical : l[p] <= l[q] => a(q) \div c <= a(p) \div c
  <2> SUFFICES ASSUME NEW p \in Physical, NEW q \in Physical, l[p] <= l[q] PROVE a(q) \div c <= a(p) \div c
    OBVIOUS
  <2> QED BY <1>2, <1>4, <1>5, QuotientGrows
<1> DEFINE d(p) == a(p) \div c
<1>9. \A p \in Physical : d(p) \in Nat /\ Table!Share(l, p) = Table!Larger(1, d(p))
  BY <1>6, <1>7
<1>10. \A p, q \in Physical : l[p] <= l[q] => d(q) <= d(p)
  BY <1>8
<1> HIDE DEF d
<1> QED BY <1>9, <1>10 DEF Table!Larger

(* What is left goes from all to less and less.                            *)
LEMMA LeftRight ==
  ASSUME NEW l \in [Physical -> Nat], Table!Total(l) # 0, NEW order \in Table!Orders
  PROVE  LET n == Cardinality(Physical)
             left == Table!Left(order, l)
         IN /\ left[0] = VirtualCount
            /\ \A i \in 1..n : left[i] = left[i - 1] - Table!Smaller(Table!Share(l, order[i]), left[i - 1])
            /\ \A i \in 0..n : left[i] \in 0..VirtualCount
            /\ \A i, j \in 0..n : i <= j => left[j] <= left[i]
<1> DEFINE n == Cardinality(Physical)
           left == Table!Left(order, l)
           S == 0..VirtualCount
           share(i) == Table!Share(l, order[i])
           Eq(f) == f = [i \in 0..Len(order) |-> IF i = 0 THEN VirtualCount
                                     ELSE f[i - 1] - Table!Smaller(Table!Share(l, order[i]), f[i - 1])]
<1>1. n \in Nat /\ VirtualCount \in S /\ VirtualCount \in Nat /\ Len(order) = n
  BY TableConstants, OrdersAre
<1>2. \A i \in 1..n : share(i) \in Nat
  <2>1. \A i \in 1..n : order[i] \in Physical
    BY OrdersAre
  <2> QED BY <2>1, SharesTyped
<1>3. left = CHOOSE f : Eq(f)
  BY DEF Table!Left
<1> DEFINE step == [x \in S \X (1..n) |-> x[1] - Table!Smaller(share(x[2]), x[1])]
<1>4. \A i \in 1..n : \A x \in S : step[<<x, i>>] = x - Table!Smaller(share(i), x) /\ step[<<x, i>>] \in S
  <2> HIDE DEF n, share
  <2>1. \A i \in 1..n : \A x \in S : step[<<x, i>>] = x - Table!Smaller(share(i), x)
    OBVIOUS
  <2>2. \A i \in 1..n : \A x \in S : x - Table!Smaller(share(i), x) \in S
    BY <1>1, <1>2 DEF Table!Smaller
  <2> QED BY <2>1, <2>2
<1>5. \E f : Eq(f)
  <2>1. PICK f \in [0..n -> S] : Repeats(n, VirtualCount, step, f)
    <3> HIDE DEF n, S, step
    <3> QED BY <1>1, <1>4, Repetition
  <2>2. f[0] = VirtualCount /\ \A i \in 1..n : f[i] = step[<<f[i - 1], i>>]
    BY <2>1 DEF Repeats
  <2>3. \A i \in 1..n : f[i] = f[i - 1] - Table!Smaller(share(i), f[i - 1])
    <3> SUFFICES ASSUME NEW i \in 1..n PROVE f[i] = f[i - 1] - Table!Smaller(share(i), f[i - 1])
      OBVIOUS
    <3>1. f[i - 1] \in S
      <4>1. i - 1 \in 0..n
        BY <1>1
      <4> QED BY <2>1, <4>1
    <3> HIDE DEF step, share, n, S
    <3> QED BY <1>4, <2>2, <3>1
  <2>4. f = [i \in 0..n |-> IF i = 0 THEN VirtualCount
                            ELSE f[i - 1] - Table!Smaller(share(i), f[i - 1])]
    <3>1. f = [i \in 0..n |-> f[i]]
      BY <2>1
    <3>2. \A i \in 0..n : f[i] = IF i = 0 THEN VirtualCount ELSE f[i - 1] - Table!Smaller(share(i), f[i - 1])
      <4> HIDE DEF share, n, S
      <4> QED BY <1>1, <2>2, <2>3
    <3> HIDE DEF share, n
    <3> QED BY <3>1, <3>2
  <2>5. Eq(f)
    <3> HIDE DEF n
    <3> QED BY <1>1, <2>4
  <2> QED BY <2>5
<1>6. Eq(left)
  <2> HIDE DEF left, Eq
  <2> QED BY <1>3, <1>5
<1>7. left = [i \in 0..n |-> IF i = 0 THEN VirtualCount ELSE left[i - 1] - Table!Smaller(share(i), left[i - 1])]
  <2> HIDE DEF n, left
  <2> QED BY <1>1, <1>6
<1> HIDE DEF left, n, share
<1>8. left[0] = VirtualCount /\ \A i \in 1..n : left[i] = left[i - 1] - Table!Smaller(share(i), left[i - 1])
  <2>1. 0 \in 0..n /\ \A i \in 1..n : i \in 0..n /\ i # 0
    BY <1>1
  <2>2. \A i \in 0..n : left[i] = IF i = 0 THEN VirtualCount ELSE left[i - 1] - Table!Smaller(share(i), left[i - 1])
    BY <1>7
  <2> QED BY <2>1, <2>2
<1> DEFINE Right(k) == left[k] \in S /\ \A i \in 0..k : left[k] <= left[i]
           Wrong == {k \in 0..n : ~Right(k)}
<1>9. Wrong = {}
  <2> SUFFICES ASSUME Wrong # {} PROVE FALSE
    OBVIOUS
  <2>1. PICK k \in Wrong : \A j \in Wrong : k <= j
    <3>1. Wrong \subseteq Nat
      BY <1>1
    <3> HIDE DEF Wrong
    <3> QED BY <3>1, LeastOfNaturals
  <2>2. Right(0)
    BY <1>1, <1>8
  <2>3. k \in 0..n /\ ~Right(k) /\ k # 0
    <3> HIDE DEF Right
    <3> QED BY <2>1, <2>2
  <2>4. k - 1 \in 0..n /\ ~(k <= k - 1) /\ k \in 1..n /\ k \in Nat
    BY <1>1, <2>3
  <2>5. Right(k - 1)
    <3> HIDE DEF Right
    <3> QED BY <2>1, <2>4
  <2>6. left[k] = left[k - 1] - Table!Smaller(share(k), left[k - 1]) /\ share(k) \in Nat
    BY <1>2, <1>8, <2>4
  <2>7. left[k] \in S /\ left[k] <= left[k - 1]
    BY <1>1, <2>5, <2>6 DEF Table!Smaller
  <2>8. ASSUME NEW i \in 0..k PROVE left[k] <= left[i]
    <3>1. CASE i = k
      BY <2>7, <3>1
    <3>2. CASE i # k
      <4>1. i \in 0..k - 1
        BY <2>4, <3>2
      <4>2. left[k - 1] <= left[i] /\ left[k - 1] \in S
        BY <2>5, <4>1
      <4>3. left[i] \in S
        <5>1. i \in 0..n /\ ~(k <= i)
          BY <1>1, <2>3, <2>4, <4>1
        <5>2. Right(i)
          <6> HIDE DEF Right
          <6> QED BY <2>1, <5>1
        <5> QED BY <5>2
      <4> QED BY <1>1, <2>7, <4>2, <4>3
    <3> QED BY <3>1, <3>2
  <2> QED BY <2>3, <2>7, <2>8
<1>10. \A k \in 0..n : Right(k)
  <2> HIDE DEF Right
  <2> QED BY <1>9
<1>11. \A i, j \in 0..n : i <= j => left[j] <= left[i]
  BY <1>1, <1>10
<1> QED BY <1>8, <1>10, <1>11 DEF left, n, share

LEMMA PositionRight ==
  ASSUME NEW order \in Table!Orders, NEW p \in Physical
  PROVE  /\ Table!Position(order, p) \in 1..Cardinality(Physical)
         /\ order[Table!Position(order, p)] = p
         /\ \A i \in 1..Cardinality(Physical) : order[i] = p => Table!Position(order, p) = i
BY OrdersAre DEF Table!Position

(* The targets.                                                            *)
Served(order, l, t) ==
  \A i \in 1..Cardinality(Physical) :
    /\ t[order[i]] = Table!Left(order, l)[i - 1] - Table!Left(order, l)[i]
                       + Table!Rest(order, l) \div Cardinality(Physical)
                       + (IF i <= Table!Rest(order, l) % Cardinality(Physical) THEN 1 ELSE 0)

LEMMA TargetsServed ==
  ASSUME NEW l \in [Physical -> Nat], Table!Total(l) # 0, NEW order \in Table!Orders
  PROVE  Served(order, l, Table!Targets(order, l))
<1> DEFINE n == Cardinality(Physical)
           t == Table!Targets(order, l)
<1>1. Len(order) = n /\ \A i \in 1..n : order[i] \in Physical
  BY OrdersAre
<1>2. ASSUME NEW i \in 1..n
      PROVE  t[order[i]] = Table!Left(order, l)[i - 1] - Table!Left(order, l)[i]
                             + Table!Rest(order, l) \div n
                             + (IF i <= Table!Rest(order, l) % n THEN 1 ELSE 0)
  <2>1. order[i] \in Physical /\ Table!Position(order, order[i]) = i
    BY <1>1, PositionRight
  <2>2. t[order[i]] = Table!Given(order, l, i) + Table!Rest(order, l) \div n
                        + (IF i <= Table!Rest(order, l) % n THEN 1 ELSE 0)
    BY <1>1, <2>1 DEF Table!Targets
  <2> QED BY <2>2 DEF Table!Given
<1> QED BY <1>2 DEF Served

(* The first k of an order have what has been given out, and their part of *)
(* the rest.                                                               *)
LEMMA ServedSum ==
  ASSUME NEW l \in [Physical -> Nat], Table!Total(l) # 0, NEW order \in Table!Orders,
         NEW t, Served(order, l, t)
  PROVE  /\ \A p \in Physical : t[p] \in Nat
         /\ SumOf(t, Physical) = VirtualCount
         /\ \A i, j \in 1..Cardinality(Physical) :
              i <= j /\ l[order[i]] <= l[order[j]] => t[order[j]] <= t[order[i]]
<1> DEFINE n == Cardinality(Physical)
           left == Table!Left(order, l)
           rest == Table!Rest(order, l)
           q == rest \div n
           r == rest % n
           x(i) == IF i <= r THEN 1 ELSE 0
           upto(k) == IF k <= r THEN k ELSE r
           V == VirtualCount
<1>1. n \in Nat \ {0} /\ V \in Nat
  BY TableConstants
<1>2. /\ left[0] = V
      /\ \A i \in 1..n : left[i] = left[i - 1] - Table!Smaller(Table!Share(l, order[i]), left[i - 1])
      /\ \A i \in 0..n : left[i] \in 0..V
      /\ \A i, j \in 0..n : i <= j => left[j] <= left[i]
  BY LeftRight
<1>3. rest = left[n] /\ rest \in Nat
  <2>1. Len(order) = n /\ n \in 0..n
    BY <1>1, OrdersAre
  <2>2. rest = left[n]
    BY <2>1 DEF Table!Rest
  <2> HIDE DEF rest, left, n
  <2> QED BY <1>2, <2>1, <2>2
<1>4. q \in Nat /\ r \in 0..n - 1 /\ rest = q * n + r
  <2> HIDE DEF rest, n
  <2>1. q \in Nat /\ r \in 0..n - 1
    BY <1>1, <1>3, Division
  <2>2. rest \in Int
    BY <1>3
  <2> QED BY <1>1, <2>1, <2>2, Remainders
<1>5. \A i \in 1..n : t[order[i]] = left[i - 1] - left[i] + q + x(i)
  BY DEF Served
<1>6. \A i \in 1..n : order[i] \in Physical
  BY OrdersAre
<1>7. order \in Bijection(1..n, Physical) /\ \A p \in Physical : \E i \in 1..n : order[i] = p
  BY OrdersAre
<1> HIDE DEF left, rest, q, r, n, V
<1>8. \A i \in 1..n : i - 1 \in 0..n /\ i \in 0..n /\ left[i] <= left[i - 1] /\ left[i - 1] \in Nat /\ left[i] \in Nat
  <2>1. \A i \in 1..n : i - 1 \in 0..n /\ i \in 0..n /\ i - 1 <= i
    BY <1>1
  <2> QED BY <1>1, <1>2, <2>1
<1>9. \A i \in 1..n : t[order[i]] \in Nat
  <2> SUFFICES ASSUME NEW i \in 1..n PROVE t[order[i]] \in Nat
    OBVIOUS
  <2>1. x(i) \in Nat
    OBVIOUS
  <2> HIDE DEF x
  <2> QED BY <1>4, <1>5, <1>8, <2>1
<1>10. \A p \in Physical : t[p] \in Nat
  BY <1>7, <1>9
<1> DEFINE Right(k) == SumOf(t, Firsts(order, k)) = V - left[k] + k * q + upto(k)
           Wrong == {k \in 0..n : ~Right(k)}
<1>11. Right(0)
  <2>1. Firsts(order, 0) = {} /\ SumOf(t, {}) = 0
    BY <1>1, <1>7, AllFirsts, FS_EmptySet, SumOfPicked
  <2>2. upto(0) = 0 /\ 0 * q = 0
    BY <1>4
  <2>3. V - left[0] = 0
    BY <1>1, <1>2
  <2> HIDE DEF upto
  <2>4. SumOf(t, Firsts(order, 0)) = 0
    BY <2>1
  <2> DEFINE a == V - left[0]
             b == 0 * q
             c == upto(0)
  <2>5. a = 0 /\ b = 0 /\ c = 0
    BY <2>2, <2>3
  <2> HIDE DEF a, b, c
  <2>6. a + b + c = 0
    BY <2>5
  <2> QED BY <2>4, <2>6 DEF a, b, c
<1>12. ASSUME NEW k \in 0..n - 1, Right(k) PROVE Right(k + 1)
  <2> DEFINE F == Firsts(order, k)
             y == order[k + 1]
  <2>1. /\ Firsts(order, k + 1) = F \cup {y} /\ y \in Physical /\ y \notin F
        /\ F \in SUBSET Physical
    BY <1>1, <1>7, NextFirst
  <2>2. IsFiniteSet(F)
    BY <2>1, TableConstants, FS_Subset
  <2>3. SumOf(t, F \cup {y}) = t[y] + SumOf(t, F) /\ SumOf(t, F) \in Int
    <3>1. t[y] \in Int /\ \A z \in F : t[z] \in Int
      BY <1>10, <2>1
    <3> HIDE DEF F, y
    <3> QED BY <2>1, <2>2, <3>1, SumWith
  <2>4. k \in Nat /\ k + 1 \in 1..n /\ (k + 1) - 1 = k
    BY <1>1
  <2>5. t[y] = left[k] - left[k + 1] + q + x(k + 1)
    BY <1>5, <2>4
  <2>6. upto(k + 1) = upto(k) + x(k + 1) /\ upto(k) \in Nat /\ x(k + 1) \in Nat
    BY <1>1, <1>4, <2>4
  <2>7. (k + 1) * q = k * q + q /\ k * q \in Int
    BY <1>4, <2>4
  <2>8. left[k] \in Nat /\ left[k + 1] \in Nat
    BY <1>8, <2>4
  <2> DEFINE a == k * q
             s == SumOf(t, F)
             b == left[k]
             c == left[k + 1]
             u == upto(k)
             v == x(k + 1)
  <2>9. s = V - b + a + u /\ s \in Int
    BY <1>12, <2>3
  <2>10. SumOf(t, Firsts(order, k + 1)) = (b - c + q + v) + s
    <3> HIDE DEF F, x
    <3> QED BY <2>1, <2>3, <2>5
  <2>11. a \in Int /\ b \in Int /\ c \in Int /\ u \in Int /\ v \in Int /\ q \in Int /\ V \in Int
    BY <1>1, <1>4, <2>6, <2>7, <2>8
  <2>12. Right(k + 1) <=> SumOf(t, Firsts(order, k + 1)) = V - c + (a + q) + (u + v)
    <3> HIDE DEF x
    <3> QED BY <2>6, <2>7
  <2> HIDE DEF a, s, b, c, u, v, Right
  <2>13. (b - c + q + v) + s = V - c + (a + q) + (u + v)
    BY <2>9, <2>11
  <2> QED BY <2>10, <2>12, <2>13
<1>13. Wrong = {}
  <2> SUFFICES ASSUME Wrong # {} PROVE FALSE
    OBVIOUS
  <2>1. PICK k \in Wrong : \A j \in Wrong : k <= j
    <3>1. Wrong \subseteq Nat
      BY <1>1
    <3> HIDE DEF Wrong
    <3> QED BY <3>1, LeastOfNaturals
  <2> HIDE DEF Right
  <2>2. k \in 0..n /\ ~Right(k) /\ k # 0
    BY <1>11, <2>1
  <2>3. k - 1 \in 0..n /\ k - 1 \in 0..n - 1 /\ ~(k <= k - 1) /\ (k - 1) + 1 = k
    BY <1>1, <2>2
  <2>4. Right(k - 1)
    BY <2>1, <2>3
  <2>5. Right((k - 1) + 1)
    BY <1>12, <2>3, <2>4
  <2> QED BY <2>2, <2>3, <2>5
<1>14. Right(n)
  <2>1. n \in 0..n
    BY <1>1
  <2> HIDE DEF Right
  <2> QED BY <1>13, <2>1
<1>15. SumOf(t, Physical) = V
  <2>1. Firsts(order, n) = Physical
    BY <1>1, <1>7, AllFirsts
  <2>2. upto(n) = r
    BY <1>1, <1>4
  <2>3. n * q = q * n /\ n * q \in Int
    BY <1>1, <1>4
  <2> HIDE DEF upto
  <2>4. SumOf(t, Physical) = V - left[n] + n * q + r
    BY <1>14, <2>1, <2>2
  <2> DEFINE e == n * q
  <2>5. e \in Int /\ rest = e + r /\ SumOf(t, Physical) = V - rest + e + r
    BY <1>3, <1>4, <2>3, <2>4
  <2> HIDE DEF e
  <2> QED BY <1>1, <1>3, <1>4, <2>5
<1>16. ASSUME NEW i \in 1..n, NEW j \in 1..n, i <= j, l[order[i]] <= l[order[j]]
       PROVE  t[order[j]] <= t[order[i]]
  <2>1. order[i] \in Physical /\ order[j] \in Physical
    BY <1>6
  <2> DEFINE a == Table!Share(l, order[i])
             b == Table!Share(l, order[j])
             u == left[i - 1]
             v == left[j - 1]
  <2>2. a \in Nat /\ b \in Nat /\ b <= a
    BY <1>16, <2>1, SharesTyped
  <2>3. u \in Nat /\ v \in Nat /\ v <= u
    <3>1. i - 1 \in 0..n /\ j - 1 \in 0..n /\ i - 1 <= j - 1
      BY <1>1, <1>16
    <3> QED BY <1>2, <1>8, <3>1
  <2>4. left[i] = u - Table!Smaller(a, u) /\ left[j] = v - Table!Smaller(b, v)
    BY <1>2
  <2>5. x(j) <= x(i) /\ x(i) \in Nat /\ x(j) \in Nat
    BY <1>1, <1>4, <1>16
  <2>6. t[order[i]] = u - left[i] + q + x(i) /\ t[order[j]] = v - left[j] + q + x(j)
    BY <1>5
  <2> DEFINE c == x(i)
             d == x(j)
  <2>7. t[order[i]] = u - left[i] + q + c /\ t[order[j]] = v - left[j] + q + d /\ d <= c /\ c \in Nat /\ d \in Nat
    BY <2>5, <2>6
  <2> HIDE DEF a, b, u, v, c, d
  <2>8. Table!Smaller(b, v) <= Table!Smaller(a, u) /\ Table!Smaller(b, v) \in Nat /\ Table!Smaller(a, u) \in Nat
    BY <2>2, <2>3 DEF Table!Smaller
  <2> DEFINE g == Table!Smaller(a, u)
             h == Table!Smaller(b, v)
  <2>9. /\ t[order[i]] = u - (u - g) + q + c /\ t[order[j]] = v - (v - h) + q + d
        /\ h <= g /\ h \in Nat /\ g \in Nat
    BY <2>4, <2>7, <2>8
  <2> HIDE DEF g, h
  <2>10. u - (u - g) + q + c = g + q + c /\ v - (v - h) + q + d = h + q + d
    BY <1>4, <2>3, <2>7, <2>9
  <2>11. h + q + d <= g + q + c
    BY <1>4, <2>7, <2>9
  <2> QED BY <2>9, <2>10, <2>11
<1> QED BY <1>10, <1>15, <1>16 DEF V, n

(* How many slots of a table a shard holds.                                *)
Slice(g, A, p) == {v \in A : g[v] = p}
Holdings(g, A) == [p \in Physical |-> Cardinality(Slice(g, A, p))]

LEMMA HoldsAre ==
  \A g, p : Table!Holds(g, p) = Cardinality(Slice(g, 1..VirtualCount, p))
BY DEF Table!Holds, Table!VirtualIDs, Table!Cardinality, Cardinality, Slice

LEMMA SliceTyped ==
  ASSUME NEW g, NEW A, IsFiniteSet(A), NEW p
  PROVE  IsFiniteSet(Slice(g, A, p)) /\ Cardinality(Slice(g, A, p)) \in Nat
<1>1. Slice(g, A, p) \subseteq A
  BY DEF Slice
<1> QED BY <1>1, FS_Subset, FS_CardinalityType

(* Every slot is somebody's.                                               *)
LEMMA HoldingsAddUp ==
  ASSUME NEW A, IsFiniteSet(A), NEW g, \A v \in A : g[v] \in Physical
  PROVE  SumOf(Holdings(g, A), Physical) = Cardinality(A)
<1> DEFINE Right(B) == SumOf(Holdings(g, B), Physical) = Cardinality(B)
           Wrong == {B \in SUBSET A : ~Right(B)}
<1>1. \A B \in SUBSET A : IsFiniteSet(B) /\ Cardinality(B) \in Nat
  BY FS_Subset, FS_CardinalityType
<1>2. \A B \in SUBSET A : \A p \in Physical : Holdings(g, B)[p] \in Nat
  <2> SUFFICES ASSUME NEW B \in SUBSET A, NEW p \in Physical PROVE Holdings(g, B)[p] \in Nat
    OBVIOUS
  <2>1. Cardinality(Slice(g, B, p)) \in Nat
    BY <1>1, SliceTyped
  <2> QED BY <2>1 DEF Holdings
<1>3. Wrong = {}
  <2> SUFFICES ASSUME Wrong # {} PROVE FALSE
    OBVIOUS
  <2>1. PICK B \in Wrong : \A t \in Wrong : Cardinality(B) <= Cardinality(t)
    <3>1. Wrong \subseteq SUBSET A
      OBVIOUS
    <3> HIDE DEF Wrong
    <3> QED BY <3>1, LeastSet
  <2>2. Right({})
    <3>1. \A p \in Physical : Holdings(g, {})[p] = 0
      <4>1. \A p \in Physical : Slice(g, {}, p) = {}
        BY DEF Slice
      <4> QED BY <4>1, FS_EmptySet DEF Holdings
    <3>2. SumOf(Holdings(g, {}), Physical) = 0
      BY <3>1, TableConstants, SumOfZeros
    <3> QED BY <3>2, FS_EmptySet
  <2>3. B \in SUBSET A /\ ~Right(B)
    BY <2>1
  <2>4. B # {}
    <3> HIDE DEF Right
    <3> QED BY <2>2, <2>3
  <2>5. PICK b \in B : TRUE
    BY <2>4
  <2> DEFINE C == B \ {b}
             x == g[b]
  <2>6. C \in SUBSET A /\ Cardinality(C) = Cardinality(B) - 1 /\ Cardinality(B) \in Nat /\ Cardinality(C) \in Nat
    BY <1>1, <2>3, <2>5, FS_RemoveElement
  <2>7. Right(C)
    <3> HIDE DEF Right, C
    <3> QED BY <2>1, <2>6
  <2>8. x \in Physical
    BY <2>3, <2>5
  <2>9. Holdings(g, B)[x] = Holdings(g, C)[x] + 1
    <3>1. Slice(g, B, x) = Slice(g, C, x) \cup {b} /\ b \notin Slice(g, C, x)
      BY <2>5 DEF Slice
    <3>2. IsFiniteSet(Slice(g, C, x))
      <4> HIDE DEF C, x
      <4> QED BY <1>1, <2>6, SliceTyped
    <3>3. Cardinality(Slice(g, B, x)) = Cardinality(Slice(g, C, x)) + 1
      <4> HIDE DEF C, x
      <4> QED BY <3>1, <3>2, FS_AddElement
    <3> HIDE DEF C, x
    <3> QED BY <2>8, <3>3 DEF Holdings
  <2>10. \A p \in Physical \ {x} : Holdings(g, B)[p] = Holdings(g, C)[p]
    <3>1. \A p \in Physical \ {x} : Slice(g, B, p) = Slice(g, C, p)
      BY DEF Slice
    <3> HIDE DEF C, x
    <3> QED BY <3>1 DEF Holdings
  <2> DEFINE f == Holdings(g, B)
             h == Holdings(g, C)
             P == Physical \ {x}
  <2>11. /\ \A p \in Physical : f[p] \in Int /\ h[p] \in Int
         /\ \A p \in P : f[p] = h[p]
         /\ f[x] = h[x] + 1
    <3>1. \A p \in Physical : f[p] \in Nat /\ h[p] \in Nat
      BY <1>2, <2>3, <2>6
    <3> HIDE DEF f, h
    <3>2. (\A p \in P : f[p] = h[p]) /\ f[x] = h[x] + 1
      BY <2>9, <2>10 DEF f, h
    <3> QED BY <3>1, <3>2
  <2>12. SumOf(f, Physical) # Cardinality(B) /\ SumOf(h, Physical) = Cardinality(C)
    BY <2>3, <2>7
  <2> HIDE DEF f, h, x, C, Right
  <2>13. SumOf(f, Physical) = f[x] + SumOf(f, P)
    <3>1. \A p \in Physical : f[p] \in Int
      BY <2>11
    <3> QED BY <2>8, <3>1, TableConstants, SumWithout
  <2>14. SumOf(h, Physical) = h[x] + SumOf(h, P)
    <3>1. \A p \in Physical : h[p] \in Int
      BY <2>11
    <3> QED BY <2>8, <3>1, TableConstants, SumWithout
  <2>15. SumOf(f, P) = SumOf(h, P) /\ SumOf(h, P) \in Int
    <3>1. IsFiniteSet(P)
      BY TableConstants, FS_Subset
    <3>2. \A p \in P : h[p] \in Int /\ f[p] = h[p]
      BY <2>11
    <3> HIDE DEF P
    <3> QED BY <3>1, <3>2, SumSame, SumTyped
  <2>16. h[x] \in Int
    BY <2>8, <2>11
  <2> QED BY <2>6, <2>11, <2>12, <2>13, <2>14, <2>15, <2>16
<1> HIDE DEF Right
<1>4. A \in SUBSET A
  OBVIOUS
<1>5. Right(A)
  BY <1>3, <1>4
<1> QED BY <1>5 DEF Right

(* A run of slots for one shard at the end of a table.                     *)
Slots(x) == 1..Len(x)

LEMMA RunAppended ==
  ASSUME NEW x \in Seq(Physical), NEW c \in Nat, NEW s \in Physical
  PROVE  LET z == x \o [j \in 1..c |-> s]
         IN /\ z \in Seq(Physical) /\ Len(z) = Len(x) + c
            /\ Cardinality(Slice(z, Slots(z), s)) = Cardinality(Slice(x, Slots(x), s)) + c
            /\ \A p \in Physical \ {s} :
                 Cardinality(Slice(z, Slots(z), p)) = Cardinality(Slice(x, Slots(x), p))
<1> DEFINE y == [j \in 1..c |-> s]
           z == x \o y
           m == Len(x)
           new == m + 1..m + c
<1>1. y \in Seq(Physical) /\ Len(y) = c /\ \A j \in 1..c : y[j] = s
  OBVIOUS
<1> HIDE DEF y
<1>2. m \in Nat /\ z \in Seq(Physical) /\ Len(z) = m + c
  BY <1>1
<1>3. \A i \in 1..m + c : z[i] = IF i <= m THEN x[i] ELSE s
  <2> SUFFICES ASSUME NEW i \in 1..m + c PROVE z[i] = IF i <= m THEN x[i] ELSE s
    OBVIOUS
  <2>1. z[i] = IF i <= m THEN x[i] ELSE y[i - m]
    BY <1>1, <1>2
  <2>2. i > m => i - m \in 1..c
    BY <1>2
  <2> HIDE DEF z, m
  <2> QED BY <1>1, <1>2, <2>1, <2>2
<1>4. 1..m + c = 1..m \cup new /\ (1..m) \cap new = {} /\ \A i \in new : ~(i <= m)
  <2> HIDE DEF m
  <2> QED BY <1>2
<1>5. \A i \in 1..m : i <= m
  OBVIOUS
<1>6. IsFiniteSet(1..m) /\ IsFiniteSet(new) /\ Cardinality(new) = c
  <2>1. m + 1 \in Int /\ m + c \in Int
    BY <1>2
  <2>2. IsFiniteSet(new) /\ Cardinality(new) = IF m + 1 > m + c THEN 0 ELSE (m + c) - (m + 1) + 1
    <3> HIDE DEF m
    <3> QED BY <2>1, FS_Interval
  <2>3. (IF m + 1 > m + c THEN 0 ELSE (m + c) - (m + 1) + 1) = c
    <3> HIDE DEF m
    <3> QED BY <1>2
  <2> QED BY <1>2, <2>2, <2>3, CountTo
<1> HIDE DEF z, m, new
<1>7. Slice(z, 1..m + c, s) = Slice(x, 1..m, s) \cup new
  BY <1>3, <1>4, <1>5 DEF Slice
<1>8. \A p \in Physical \ {s} : Slice(z, 1..m + c, p) = Slice(x, 1..m, p)
  BY <1>3, <1>4, <1>5 DEF Slice
<1>9. Cardinality(Slice(x, 1..m, s) \cup new) = Cardinality(Slice(x, 1..m, s)) + c
  <2>1. IsFiniteSet(Slice(x, 1..m, s)) /\ Cardinality(Slice(x, 1..m, s)) \in Nat
    BY <1>6, SliceTyped
  <2>2. Slice(x, 1..m, s) \cap new = {}
    BY <1>4 DEF Slice
  <2>3. Cardinality({}) = 0
    BY FS_EmptySet
  <2>4. Cardinality(Slice(x, 1..m, s) \cup new) =
          Cardinality(Slice(x, 1..m, s)) + Cardinality(new) - Cardinality(Slice(x, 1..m, s) \cap new)
    BY <1>6, <2>1, FS_Union
  <2> DEFINE a == Cardinality(Slice(x, 1..m, s))
             b == Cardinality(Slice(x, 1..m, s) \cap new)
  <2>5. b = 0 /\ a \in Nat /\ Cardinality(Slice(x, 1..m, s) \cup new) = a + c - b
    BY <1>6, <2>1, <2>2, <2>3, <2>4
  <2> HIDE DEF a, b
  <2>6. Cardinality(Slice(x, 1..m, s) \cup new) = a + c
    BY <2>5
  <2> QED BY <2>6 DEF a
<1>10. z \in Seq(Physical) /\ Len(z) = m + c /\ m = Len(x)
  BY <1>2 DEF m
<1> QED BY <1>7, <1>8, <1>9, <1>10 DEF z, y, Slots

(* The table laid out so far.                                              *)
LaidTo(x, order, count, k) ==
  /\ x \in Seq(Physical) /\ Len(x) = SumOf(count, Firsts(order, k))
  /\ \A p \in Physical :
       Cardinality(Slice(x, Slots(x), p)) = IF p \in Firsts(order, k) THEN count[p] ELSE 0

LEMMA LaidStep ==
  ASSUME NEW order \in Table!Orders, NEW count, \A p \in Physical : count[p] \in Nat,
         NEW k \in 0..Cardinality(Physical) - 1, NEW x, LaidTo(x, order, count, k)
  PROVE  LaidTo(x \o [j \in 1..count[order[k + 1]] |-> order[k + 1]], order, count, k + 1)
<1> DEFINE n == Cardinality(Physical)
           s == order[k + 1]
           c == count[s]
           z == x \o [j \in 1..c |-> s]
           F == Firsts(order, k)
<1>1. n \in Nat /\ order \in Bijection(1..n, Physical)
  BY TableConstants, OrdersAre
<1>2. Firsts(order, k + 1) = F \cup {s} /\ s \in Physical /\ s \notin F /\ F \in SUBSET Physical
  BY <1>1, NextFirst
<1>3. c \in Nat /\ x \in Seq(Physical)
  BY <1>2 DEF LaidTo
<1> HIDE DEF s
<1>4. /\ z \in Seq(Physical) /\ Len(z) = Len(x) + c
      /\ Cardinality(Slice(z, Slots(z), s)) = Cardinality(Slice(x, Slots(x), s)) + c
      /\ \A p \in Physical \ {s} :
           Cardinality(Slice(z, Slots(z), p)) = Cardinality(Slice(x, Slots(x), p))
  <2> HIDE DEF c
  <2> QED BY <1>2, <1>3, RunAppended
<1>5. SumOf(count, F \cup {s}) = c + SumOf(count, F) /\ SumOf(count, F) \in Int
  <2>1. IsFiniteSet(F)
    BY <1>2, TableConstants, FS_Subset
  <2>2. count[s] \in Int /\ \A p \in F : count[p] \in Int
    BY <1>2
  <2> HIDE DEF F
  <2> QED BY <1>2, <2>1, <2>2, SumWith
<1>6. Len(x) = SumOf(count, F)
  BY DEF LaidTo
<1>7. \A p \in Physical : Cardinality(Slice(x, Slots(x), p)) = IF p \in F THEN count[p] ELSE 0
  BY DEF LaidTo
<1> HIDE DEF F, z
<1>8. Len(z) = SumOf(count, F \cup {s})
  <2> HIDE DEF c
  <2> QED BY <1>3, <1>4, <1>5, <1>6
<1>9. ASSUME NEW p \in Physical
      PROVE  Cardinality(Slice(z, Slots(z), p)) = IF p \in F \cup {s} THEN count[p] ELSE 0
  <2>1. CASE p = s
    <3>1. Cardinality(Slice(x, Slots(x), s)) = 0
      BY <1>2, <1>7
    <3>2. 0 + c = c
      BY <1>3
    <3> QED BY <1>4, <2>1, <3>1, <3>2
  <2>2. CASE p # s
    BY <1>4, <1>7, <2>2
  <2> QED BY <2>1, <2>2
<1> QED BY <1>2, <1>4, <1>8, <1>9 DEF LaidTo, z, s

LEMMA LaidRight ==
  ASSUME NEW order \in Table!Orders, NEW count, \A p \in Physical : count[p] \in Nat
  PROVE  LET x == Table!Laid(order, count)
         IN /\ x \in Seq(Physical) /\ Len(x) = SumOf(count, Physical)
            /\ \A p \in Physical : Cardinality(Slice(x, Slots(x), p)) = count[p]
<1> DEFINE n == Cardinality(Physical)
           seqs == [i \in 1..n |-> [j \in 1..count[order[i]] |-> order[i]]]
           Eq(f) == f = [i \in 1..n |-> IF i = 1 THEN seqs[i] ELSE f[i - 1] \o seqs[i]]
           g == CHOOSE f : Eq(f)
<1>1. n \in Nat \ {0} /\ Len(order) = n /\ order \in Bijection(1..n, Physical)
  BY TableConstants, OrdersAre
<1>2. Len(seqs) = n
  <2> HIDE DEF n
  <2> QED BY <1>1
<1>3. Table!Laid(order, count) = g[n]
  <2>1. Table!Laid(order, count) = Table!FlattenSeq([i \in 1..Len(order) |-> [j \in 1..count[order[i]] |-> order[i]]])
    BY DEF Table!Laid
  <2>2. Table!Laid(order, count) = Table!FlattenSeq(seqs)
    <3> HIDE DEF n
    <3> QED BY <1>1, <2>1
  <2> HIDE DEF n, seqs
  <2>3. Table!FlattenSeq(seqs) =
          (CHOOSE f : f = [i \in 1..Len(seqs) |-> IF i = 1 THEN seqs[i] ELSE f[i - 1] \o seqs[i]])[Len(seqs)]
    BY <1>1, <1>2 DEF Table!FlattenSeq
  <2> QED BY <1>2, <2>2, <2>3
<1>4. \A i \in 1..n : order[i] \in Physical /\ seqs[i] \in Seq(Physical)
  <2> SUFFICES ASSUME NEW i \in 1..n PROVE order[i] \in Physical /\ seqs[i] \in Seq(Physical)
    OBVIOUS
  <2>1. order[i] \in Physical
    BY OrdersAre
  <2>2. count[order[i]] \in Nat
    BY <2>1
  <2>3. seqs[i] = [j \in 1..count[order[i]] |-> order[i]]
    OBVIOUS
  <2>4. seqs[i] \in [1..count[order[i]] -> Physical]
    BY <2>1, <2>3
  <2> QED BY <2>1, <2>2, <2>4
<1>5. \E f : Eq(f)
  <2> DEFINE step == [u \in Seq(Physical) \X (1..n) |-> u[1] \o seqs[u[2]]]
  <2>1. \A i \in 1..n : \A u \in Seq(Physical) : step[<<u, i>>] = u \o seqs[i] /\ step[<<u, i>>] \in Seq(Physical)
    <3> SUFFICES ASSUME NEW i \in 1..n, NEW u \in Seq(Physical)
                 PROVE  step[<<u, i>>] = u \o seqs[i] /\ step[<<u, i>>] \in Seq(Physical)
      OBVIOUS
    <3> HIDE DEF seqs, n
    <3>1. step[<<u, i>>] = u \o seqs[i]
      OBVIOUS
    <3>2. seqs[i] \in Seq(Physical)
      BY <1>4
    <3> HIDE DEF step
    <3> QED BY <3>1, <3>2
  <2>2. PICK f \in [0..n -> Seq(Physical)] : Repeats(n, <<>>, step, f)
    <3>1. <<>> \in Seq(Physical)
      OBVIOUS
    <3> HIDE DEF n, step
    <3> QED BY <1>1, <2>1, <3>1, Repetition
  <2> DEFINE h == [i \in 1..n |-> f[i]]
  <2>3. \A i \in 1..n : f[i] = f[i - 1] \o seqs[i] /\ f[i - 1] \in Seq(Physical)
    <3> SUFFICES ASSUME NEW i \in 1..n PROVE f[i] = f[i - 1] \o seqs[i] /\ f[i - 1] \in Seq(Physical)
      OBVIOUS
    <3>1. i - 1 \in 0..n
      BY <1>1
    <3>2. f[i - 1] \in Seq(Physical)
      BY <2>2, <3>1
    <3>3. f[i] = step[<<f[i - 1], i>>]
      BY <2>2 DEF Repeats
    <3> HIDE DEF n, step, seqs
    <3> QED BY <2>1, <3>2, <3>3
  <2>4. f[0] = <<>>
    BY <2>2 DEF Repeats
  <2>5. \A i \in 1..n : h[i] = IF i = 1 THEN seqs[i] ELSE h[i - 1] \o seqs[i]
    <3> SUFFICES ASSUME NEW i \in 1..n PROVE h[i] = IF i = 1 THEN seqs[i] ELSE h[i - 1] \o seqs[i]
      OBVIOUS
    <3> HIDE DEF seqs
    <3>1. CASE i = 1
      <4>1. i - 1 = 0
        BY <3>1
      <4>2. f[i] = f[0] \o seqs[i]
        BY <2>3, <4>1
      <4>3. <<>> \o seqs[i] = seqs[i]
        BY <1>4
      <4> QED BY <2>4, <3>1, <4>2, <4>3
    <3>2. CASE i # 1
      <4>1. i - 1 \in 1..n
        BY <1>1, <3>2
      <4> QED BY <2>3, <3>2, <4>1
    <3> QED BY <3>1, <3>2
  <2>6. h = [i \in 1..n |-> h[i]]
    OBVIOUS
  <2> HIDE DEF h, n, seqs
  <2>7. Eq(h)
    BY <2>5, <2>6
  <2> QED BY <2>7
<1>6. Eq(g)
  <2> HIDE DEF Eq
  <2> QED BY <1>5
<1>7. \A i \in 1..n : g[i] = IF i = 1 THEN seqs[i] ELSE g[i - 1] \o seqs[i]
  <2> HIDE DEF g, n, seqs
  <2> QED BY <1>6
<1> HIDE DEF g
<1> DEFINE Right(k) == LaidTo(g[k], order, count, k)
           Wrong == {k \in 1..n : ~Right(k)}
<1>8. Right(1)
  <2>1. LaidTo(<<>>, order, count, 0)
    <3>1. Firsts(order, 0) = {} /\ SumOf(count, {}) = 0
      BY <1>1, AllFirsts, FS_EmptySet, SumOfPicked
    <3>2. \A p : Slice(<<>>, Slots(<<>>), p) = {}
      <4>1. Slots(<<>>) = {}
        BY DEF Slots
      <4> QED BY <4>1 DEF Slice
    <3>3. <<>> \in Seq(Physical) /\ Len(<<>>) = 0
      OBVIOUS
    <3> QED BY <3>1, <3>2, <3>3, FS_EmptySet DEF LaidTo
  <2>2. 0 \in 0..n - 1 /\ 1 \in 1..n
    BY <1>1
  <2>3. LaidTo(<<>> \o [j \in 1..count[order[0 + 1]] |-> order[0 + 1]], order, count, 0 + 1)
    BY <2>1, <2>2, LaidStep
  <2>4. LaidTo(<<>> \o seqs[1], order, count, 1)
    <3>1. seqs[1] = [j \in 1..count[order[1]] |-> order[1]] /\ 0 + 1 = 1
      BY <2>2
    <3> HIDE DEF seqs
    <3> QED BY <2>3, <3>1
  <2>5. <<>> \o seqs[1] = seqs[1] /\ g[1] = seqs[1]
    BY <1>4, <1>7, <2>2
  <2> HIDE DEF seqs
  <2> QED BY <2>4, <2>5
<1>9. ASSUME NEW k \in 1..n - 1, Right(k) PROVE Right(k + 1)
  <2>1. k \in 0..n - 1 /\ k + 1 \in 1..n /\ k + 1 # 1 /\ (k + 1) - 1 = k
    BY <1>1
  <2>2. LaidTo(g[k] \o [j \in 1..count[order[k + 1]] |-> order[k + 1]], order, count, k + 1)
    BY <1>9, <2>1, LaidStep
  <2>3. seqs[k + 1] = [j \in 1..count[order[k + 1]] |-> order[k + 1]]
    BY <2>1
  <2>4. g[k + 1] = g[k] \o seqs[k + 1]
    <3> HIDE DEF seqs, n
    <3> QED BY <1>7, <2>1
  <2> HIDE DEF seqs, n
  <2> QED BY <2>2, <2>3, <2>4
<1>10. Wrong = {}
  <2> SUFFICES ASSUME Wrong # {} PROVE FALSE
    OBVIOUS
  <2>1. PICK k \in Wrong : \A j \in Wrong : k <= j
    <3>1. Wrong \subseteq Nat
      BY <1>1
    <3> HIDE DEF Wrong
    <3> QED BY <3>1, LeastOfNaturals
  <2> HIDE DEF Right
  <2>2. k \in 1..n /\ ~Right(k) /\ k # 1
    BY <1>8, <2>1
  <2>3. k - 1 \in 1..n /\ k - 1 \in 1..n - 1 /\ ~(k <= k - 1) /\ (k - 1) + 1 = k
    BY <1>1, <2>2
  <2>4. Right(k - 1)
    BY <2>1, <2>3
  <2>5. Right((k - 1) + 1)
    BY <1>9, <2>3, <2>4
  <2> QED BY <2>2, <2>3, <2>5
<1>11. Right(n)
  <2>1. n \in 1..n
    BY <1>1
  <2> HIDE DEF Right
  <2> QED BY <1>10, <2>1
<1>12. Firsts(order, n) = Physical
  BY <1>1, AllFirsts
<1> QED BY <1>3, <1>11, <1>12 DEF LaidTo

(* The shuffle changes places only.                                        *)
SameSlices(x, y) ==
  \A p \in Physical : Cardinality(Slice(x, 1..VirtualCount, p)) = Cardinality(Slice(y, 1..VirtualCount, p))

LEMMA SwapKeeps ==
  ASSUME NEW x \in [1..VirtualCount -> Physical], NEW i \in 1..VirtualCount - 1, ~Table!NegativeIndex
  PROVE  Table!Swapped(x, i) \in [1..VirtualCount -> Physical] /\ SameSlices(Table!Swapped(x, i), x)
<1> DEFINE I == 1..VirtualCount
           a == i + 1
           b == Remainder[i] + 1
           y == Table!Swapped(x, i)
           turn1(v) == IF v = a THEN b ELSE IF v = b THEN a ELSE v
<1>1. VirtualCount \in Nat /\ IsFiniteSet(I)
  BY TableConstants, CountTo
<1>2. a \in I /\ b \in I
  <2>1. Remainder[i] \in Int /\ Remainder[i] \in -i..i /\ ~(Remainder[i] < 0)
    BY TableConstants DEF Table!NegativeIndex
  <2>2. i \in Nat /\ i <= VirtualCount - 1
    BY <1>1
  <2> DEFINE r == Remainder[i]
  <2>3. r \in Int /\ r <= i /\ 0 <= r
    BY <2>1, <2>2
  <2> HIDE DEF r
  <2>4. r + 1 \in I /\ i + 1 \in I
    BY <1>1, <2>2, <2>3
  <2> QED BY <2>4 DEF r
<1>3. y = [x EXCEPT ![a] = x[b], ![b] = x[a]]
  BY DEF Table!Swapped
<1> HIDE DEF a, b, y, I
<1>4. y \in [I -> Physical] /\ \A v \in I : y[v] = x[turn1(v)]
  <2>1. x \in [I -> Physical]
    BY DEF I
  <2> QED BY <1>2, <1>3, <2>1
<1>5. \A v \in I : turn1(v) \in I /\ turn1(turn1(v)) = v
  BY <1>2
<1> HIDE DEF turn1
<1>6. ASSUME NEW p \in Physical PROVE Cardinality(Slice(y, I, p)) = Cardinality(Slice(x, I, p))
  <2> DEFINE f == [v \in Slice(y, I, p) |-> turn1(v)]
  <2>1. f \in [Slice(y, I, p) -> Slice(x, I, p)]
    BY <1>4, <1>5 DEF Slice
  <2>2. \A u, v \in Slice(y, I, p) : f[u] = f[v] => u = v
    BY <1>5 DEF Slice
  <2>3. \A v \in Slice(x, I, p) : turn1(v) \in Slice(y, I, p) /\ f[turn1(v)] = v
    BY <1>4, <1>5 DEF Slice
  <2> HIDE DEF f
  <2>4. f \in Bijection(Slice(y, I, p), Slice(x, I, p))
    BY <2>1, <2>2, <2>3 DEF Bijection, Injection, Surjection, IsInjective
  <2>5. IsFiniteSet(Slice(y, I, p))
    BY <1>1, SliceTyped
  <2> QED BY <2>4, <2>5, FS_Bijection DEF ExistsBijection
<1> QED BY <1>4, <1>6 DEF SameSlices, I, y

LEMMA ShuffleKeeps ==
  ASSUME NEW x \in [1..VirtualCount -> Physical], ~Table!NegativeIndex
  PROVE  /\ Table!shuffleMapping(x) \in [1..VirtualCount -> Physical]
         /\ SameSlices(Table!shuffleMapping(x), x)
<1> DEFINE n == VirtualCount - 1
           S == [1..VirtualCount -> Physical]
           step == [u \in S \X (1..n) |-> Table!Swapped(u[1], VirtualCount - u[2])]
           Eq(f) == f = [k \in 0..n |-> IF k = 0 THEN x ELSE Table!Swapped(f[k - 1], VirtualCount - k)]
           g == CHOOSE f : Eq(f)
<1>1. n \in Nat /\ \A k \in 1..n : VirtualCount - k \in 1..VirtualCount - 1
  BY TableConstants
<1>2. Table!shuffleMapping(x) = g[n]
  BY DEF Table!shuffleMapping
<1>3. \A u \in S : \A k \in 1..n : /\ Table!Swapped(u, VirtualCount - k) \in S
                                   /\ SameSlices(Table!Swapped(u, VirtualCount - k), u)
  <2> HIDE DEF n
  <2> QED BY <1>1, SwapKeeps
<1> HIDE DEF S, n
<1>4. \A k \in 1..n : \A u \in S : step[<<u, k>>] = Table!Swapped(u, VirtualCount - k) /\ step[<<u, k>>] \in S
  BY <1>3
<1>5. \E f : Eq(f)
  <2>1. PICK f \in [0..n -> S] : Repeats(n, x, step, f)
    <3>1. x \in S
      BY DEF S
    <3> HIDE DEF step
    <3> QED BY <1>1, <1>4, <3>1, Repetition
  <2>2. \A k \in 1..n : f[k] = Table!Swapped(f[k - 1], VirtualCount - k)
    <3> SUFFICES ASSUME NEW k \in 1..n PROVE f[k] = Table!Swapped(f[k - 1], VirtualCount - k)
      OBVIOUS
    <3>1. k - 1 \in 0..n
      BY <1>1
    <3>2. f[k - 1] \in S /\ f[k] = step[<<f[k - 1], k>>]
      BY <2>1, <3>1 DEF Repeats
    <3> HIDE DEF step
    <3> QED BY <1>4, <3>2
  <2>3. f[0] = x /\ f = [k \in 0..n |-> f[k]]
    BY <2>1 DEF Repeats
  <2>4. \A k \in 0..n : f[k] = IF k = 0 THEN x ELSE Table!Swapped(f[k - 1], VirtualCount - k)
    <3>1. \A k \in 0..n : k # 0 => k \in 1..n
      BY <1>1
    <3> QED BY <2>2, <2>3, <3>1
  <2>5. Eq(f)
    BY <2>3, <2>4
  <2> QED BY <2>5
<1>6. Eq(g)
  <2> HIDE DEF Eq
  <2> QED BY <1>5
<1>7. \A k \in 0..n : g[k] = IF k = 0 THEN x ELSE Table!Swapped(g[k - 1], VirtualCount - k)
  <2> HIDE DEF g
  <2> QED BY <1>6
<1> HIDE DEF g
<1> DEFINE Right(k) == g[k] \in S /\ SameSlices(g[k], x)
           Wrong == {k \in 0..n : ~Right(k)}
<1>8. Right(0)
  <2>1. g[0] = x
    BY <1>1, <1>7
  <2> QED BY <2>1 DEF S, SameSlices
<1>9. Wrong = {}
  <2> SUFFICES ASSUME Wrong # {} PROVE FALSE
    OBVIOUS
  <2>1. PICK k \in Wrong : \A j \in Wrong : k <= j
    <3>1. Wrong \subseteq Nat
      BY <1>1
    <3> HIDE DEF Wrong
    <3> QED BY <3>1, LeastOfNaturals
  <2>2. k \in 0..n /\ ~Right(k) /\ k # 0
    <3> HIDE DEF Right
    <3> QED BY <1>8, <2>1
  <2>3. k - 1 \in 0..n /\ k \in 1..n /\ ~(k <= k - 1)
    BY <1>1, <2>2
  <2>4. Right(k - 1)
    <3> HIDE DEF Right
    <3> QED BY <2>1, <2>3
  <2>5. g[k] = Table!Swapped(g[k - 1], VirtualCount - k)
    BY <1>7, <2>2
  <2>6. g[k] \in S /\ SameSlices(g[k], g[k - 1])
    BY <1>3, <2>3, <2>4, <2>5
  <2>7. SameSlices(g[k], x)
    BY <2>4, <2>6 DEF SameSlices
  <2> QED BY <2>2, <2>6, <2>7
<1>10. Right(n)
  <2>1. n \in 0..n
    BY <1>1
  <2> HIDE DEF Right
  <2> QED BY <1>9, <2>1
<1> QED BY <1>2, <1>10 DEF S

-----------------------------------------------------------------------------
(* The table's invariant is what a run checks of it.                       *)
TableInv == Table!TypeOK /\ Table!SharesFollowLoad

LEMMA TableIDs == Table!VirtualIDs = 1..VirtualCount
BY DEF Table!VirtualIDs

(* A plan that leaves a table as it is.                                    *)
LEMMA CountedTargets ==
  ASSUME NEW g \in [1..VirtualCount -> Physical], NEW t,
         t = [p \in Physical |-> Table!Cardinality({v \in Table!VirtualIDs : g[v] = p})]
  PROVE  /\ t \in [Physical -> 0..VirtualCount] /\ Table!Total(t) = VirtualCount
         /\ \A p \in Physical : Table!Holds(g, p) = t[p]
<1> DEFINE A == 1..VirtualCount
           h == Holdings(g, A)
<1>1. VirtualCount \in Nat /\ IsFiniteSet(A) /\ Cardinality(A) = VirtualCount
  BY TableConstants, CountTo
<1>2. t = h /\ \A p \in Physical : h[p] = Cardinality(Slice(g, A, p))
  <2>1. \A p : Table!Cardinality({v \in Table!VirtualIDs : g[v] = p}) = Cardinality(Slice(g, A, p))
    BY TableIDs DEF Table!Cardinality, Cardinality, Slice
  <2> HIDE DEF A
  <2> QED BY <2>1 DEF Holdings
<1>3. SumOf(h, Physical) = VirtualCount
  <2>1. \A v \in A : g[v] \in Physical
    OBVIOUS
  <2> HIDE DEF A
  <2> QED BY <1>1, <2>1, HoldingsAddUp
<1>4. \A p \in Physical : h[p] \in Nat
  <2> HIDE DEF A, h
  <2> QED BY <1>1, <1>2, SliceTyped
<1>5. \A p \in Physical : h[p] <= VirtualCount
  <2> HIDE DEF h, A
  <2> QED BY <1>3, <1>4, TableConstants, SumParts
<1>6. t \in [Physical -> 0..VirtualCount]
  <2>1. h = [p \in Physical |-> h[p]]
    BY DEF Holdings
  <2> HIDE DEF h, A
  <2>2. \A p \in Physical : h[p] \in 0..VirtualCount
    BY <1>1, <1>4, <1>5
  <2> QED BY <1>2, <2>1, <2>2
<1>7. \A p \in Physical : Table!Holds(g, p) = t[p]
  BY <1>2, HoldsAre
<1>8. Table!Total(t) = VirtualCount
  BY <1>2, <1>3, TotalIsSum
<1> QED BY <1>6, <1>7, <1>8

LEMMA TableInit == Table!Init => TableInv
<1> SUFFICES ASSUME Table!Init PROVE TableInv
  OBVIOUS
<1> DEFINE N == Cardinality(Physical)
           list == Table!Order
<1>1. list \in [1..N -> Physical] /\ Len(list) = N /\ N \in Nat \ {0}
  <2>1. Table!Order = Detector!SetToSeq(Physical)
    BY DEF Table!Order, Table!SetToSeq, Detector!SetToSeq, Table!IsInjective, Detector!IsInjective,
           Table!Cardinality, Detector!Cardinality
  <2>2. Detector!SetToSeq(Physical) \in Bijection(1..N, Physical)
    BY TableConstants, SetListed
  <2>3. list \in [1..N -> Physical]
    BY <2>1, <2>2 DEF Bijection, Injection
  <2>4. N \in Nat \ {0}
    BY TableConstants
  <2> HIDE DEF N, list
  <2> QED BY <2>3, <2>4
<1> DEFINE g == Table!RoundRobin
<1>2. g \in [1..VirtualCount -> Physical]
  <2> HIDE DEF N, list
  <2>1. \A v \in 1..VirtualCount : ((v - 1) % N) + 1 \in 1..N
    BY <1>1, TableConstants
  <2>2. g = [v \in 1..VirtualCount |-> list[((v - 1) % N) + 1]]
    BY <1>1, TableIDs DEF Table!RoundRobin, list
  <2> QED BY <1>1, <2>1, <2>2
<1>3. /\ virtualToPhysical = g /\ plan = g /\ load = [p \in Physical |-> 0] /\ panicked = FALSE
      /\ target = [p \in Physical |-> Table!Cardinality({v \in Table!VirtualIDs : g[v] = p})]
  BY DEF Table!Init
<1> HIDE DEF g
<1>4. /\ target \in [Physical -> 0..VirtualCount] /\ Table!Total(target) = VirtualCount
      /\ \A p \in Physical : Table!Holds(g, p) = target[p]
  BY <1>2, <1>3, CountedTargets
<1>5. Table!TypeOK
  BY <1>2, <1>3, <1>4, TableIDs DEF Table!TypeOK
<1>6. \A p, q \in Physical : ~(load[p] < load[q])
  BY <1>3
<1> QED BY <1>3, <1>4, <1>5, <1>6 DEF TableInv, Table!SharesFollowLoad

LEMMA OrderAscends ==
  ASSUME NEW l \in [Physical -> Nat], NEW order \in Table!LeastLoadedFirst(l)
  PROVE  /\ order \in Table!Orders
         /\ \A i, j \in 1..Cardinality(Physical) : l[order[i]] < l[order[j]] => i <= j
<1> DEFINE N == Cardinality(Physical)
           Right(j) == \A i \in 1..j : l[order[i]] <= l[order[j]]
           Wrong == {j \in 1..N : ~Right(j)}
<1>1. order \in Table!Orders /\ \A i \in 1..Len(order) - 1 : l[order[i]] <= l[order[i + 1]]
  BY DEF Table!LeastLoadedFirst
<1>2. N \in Nat /\ Len(order) = N /\ \A i \in 1..N : order[i] \in Physical /\ l[order[i]] \in Nat
  BY <1>1, TableConstants, OrdersAre
<1> HIDE DEF N
<1>3. Wrong = {}
  <2> SUFFICES ASSUME Wrong # {} PROVE FALSE
    OBVIOUS
  <2>1. PICK k \in Wrong : \A j \in Wrong : k <= j
    <3>1. Wrong \subseteq Nat
      BY <1>2
    <3> HIDE DEF Wrong
    <3> QED BY <3>1, LeastOfNaturals
  <2>2. k \in 1..N /\ ~Right(k)
    BY <2>1
  <2>3. PICK i \in 1..k : ~(l[order[i]] <= l[order[k]])
    BY <2>2
  <2>4. i # k /\ k # 1
    BY <1>2, <2>2, <2>3
  <2>5. k - 1 \in 1..N /\ ~(k <= k - 1) /\ i \in 1..k - 1 /\ i \in 1..N
    BY <1>2, <2>2, <2>3, <2>4
  <2>6. Right(k - 1)
    <3> HIDE DEF Right
    <3> QED BY <2>1, <2>5
  <2>7. l[order[k - 1]] <= l[order[k]]
    <3>1. k - 1 \in 1..Len(order) - 1 /\ (k - 1) + 1 = k
      BY <1>2, <2>2, <2>5
    <3> QED BY <1>1, <3>1
  <2>8. l[order[i]] <= l[order[k - 1]]
    BY <2>5, <2>6
  <2> QED BY <1>2, <2>2, <2>3, <2>5, <2>7, <2>8
<1>4. \A i, j \in 1..N : l[order[i]] < l[order[j]] => i <= j
  <2> SUFFICES ASSUME NEW i \in 1..N, NEW j \in 1..N, l[order[i]] < l[order[j]], ~(i <= j) PROVE FALSE
    OBVIOUS
  <2>1. j \in 1..i
    BY <1>2
  <2>2. Right(i)
    <3> HIDE DEF Right
    <3> QED BY <1>3
  <2> QED BY <1>2, <2>1, <2>2
<1> QED BY <1>1, <1>4 DEF N

LEMMA TargetsRight ==
  ASSUME NEW l \in [Physical -> Nat], Table!Total(l) # 0, NEW order \in Table!LeastLoadedFirst(l),
         NEW t, t = Table!Targets(order, l)
  PROVE  /\ t \in [Physical -> 0..VirtualCount] /\ Table!Total(t) = VirtualCount
         /\ \A p, q \in Physical : l[p] < l[q] => t[p] >= t[q]
<1> DEFINE N == Cardinality(Physical)
<1>1. order \in Table!Orders /\ \A i, j \in 1..N : l[order[i]] < l[order[j]] => i <= j
  BY OrderAscends
<1>2. /\ \A p \in Physical : t[p] \in Nat
      /\ SumOf(t, Physical) = VirtualCount
      /\ \A i, j \in 1..N : i <= j /\ l[order[i]] <= l[order[j]] => t[order[j]] <= t[order[i]]
  <2>1. Served(order, l, t)
    BY <1>1, TargetsServed
  <2> QED BY <1>1, <2>1, ServedSum
<1>3. \A p \in Physical : t[p] <= VirtualCount
  BY <1>2, TableConstants, SumParts
<1>4. t \in [Physical -> 0..VirtualCount]
  <2>1. t = [p \in Physical |-> t[p]]
    BY DEF Table!Targets
  <2>2. \A p \in Physical : t[p] \in 0..VirtualCount
    BY <1>2, <1>3, TableConstants
  <2> QED BY <2>1, <2>2
<1>5. ASSUME NEW p \in Physical, NEW q \in Physical, l[p] < l[q] PROVE t[p] >= t[q]
  <2>1. PICK i \in 1..N : order[i] = p
    BY <1>1, OrdersAre
  <2>2. PICK j \in 1..N : order[j] = q
    BY <1>1, OrdersAre
  <2>3. i <= j /\ l[order[i]] <= l[order[j]]
    <3>1. l[p] \in Nat /\ l[q] \in Nat
      OBVIOUS
    <3> HIDE DEF N
    <3> QED BY <1>1, <1>5, <2>1, <2>2, <3>1
  <2>4. t[order[j]] <= t[order[i]]
    <3> HIDE DEF N
    <3> QED BY <1>2, <2>3
  <2>5. t[p] \in Nat /\ t[q] \in Nat /\ t[q] <= t[p]
    BY <1>2, <2>1, <2>2, <2>4
  <2> QED BY <2>5
<1>6. Table!Total(t) = VirtualCount
  BY <1>2, TotalIsSum
<1> QED BY <1>4, <1>5, <1>6

LEMMA PlanRight ==
  ASSUME ~Table!NegativeIndex, NEW laid \in Table!Orders, NEW t \in [Physical -> 0..VirtualCount],
         Table!Total(t) = VirtualCount, NEW g, g = Table!shuffleMapping(Table!Laid(laid, t))
  PROVE  g \in [1..VirtualCount -> Physical] /\ \A p \in Physical : Table!Holds(g, p) = t[p]
<1> DEFINE x == Table!Laid(laid, t)
<1>1. \A p \in Physical : t[p] \in Nat
  BY TableConstants
<1>2. SumOf(t, Physical) = VirtualCount
  BY TotalIsSum
<1>3. /\ x \in Seq(Physical) /\ Len(x) = VirtualCount
      /\ \A p \in Physical : Cardinality(Slice(x, Slots(x), p)) = t[p]
  BY <1>1, <1>2, LaidRight
<1> HIDE DEF x
<1>4. x \in [1..VirtualCount -> Physical] /\ Slots(x) = 1..VirtualCount
  BY <1>3 DEF Slots
<1>5. g \in [1..VirtualCount -> Physical] /\ SameSlices(g, x)
  BY <1>4, ShuffleKeeps DEF x
<1> QED BY <1>3, <1>4, <1>5, HoldsAre DEF SameSlices

LEMMA TableStep == TableInv /\ [Table!Next]_Table!vars => TableInv'
<1> SUFFICES ASSUME TableInv, [Table!Next]_Table!vars PROVE TableInv'
  OBVIOUS
<1>1. /\ virtualToPhysical \in [1..VirtualCount -> Physical] /\ plan \in [1..VirtualCount -> Physical]
      /\ load \in [Physical -> Nat] /\ target \in [Physical -> 0..VirtualCount] /\ panicked \in BOOLEAN
      /\ Table!SharesFollowLoad
  BY TableIDs DEF TableInv, Table!TypeOK
<1>2. CASE UNCHANGED Table!vars
  <2>1. /\ virtualToPhysical' = virtualToPhysical
        /\ load' = load /\ target' = target /\ plan' = plan /\ panicked' = panicked
    BY <1>2 DEF Table!vars
  <2>2. Table!TypeOK'
    BY <1>1, <2>1, TableIDs DEF Table!TypeOK
  <2>3. Table!SharesFollowLoad'
    BY <1>1, <2>1 DEF Table!SharesFollowLoad
  <2> QED BY <2>2, <2>3 DEF TableInv
<1>3. CASE Table!UpdateVirtualMapping
  <2>1. /\ virtualToPhysical' = plan
        /\ load' = load /\ target' = target /\ plan' = plan /\ panicked' = panicked
    BY <1>3 DEF Table!UpdateVirtualMapping
  <2>2. Table!TypeOK'
    BY <1>1, <2>1, TableIDs DEF Table!TypeOK
  <2>3. Table!SharesFollowLoad'
    BY <1>1, <2>1 DEF Table!SharesFollowLoad
  <2> QED BY <2>2, <2>3 DEF TableInv
<1>4. CASE Table!RebalanceVirtualShards /\ ~panicked
  <2>1. PICK l \in [Physical -> Amounts] :
          /\ load' = l
          /\ IF Table!Total(l) = 0
             THEN /\ plan' = virtualToPhysical
                  /\ target' = [p \in Physical |->
                                  Table!Cardinality({v \in Table!VirtualIDs : virtualToPhysical[v] = p})]
                  /\ UNCHANGED panicked
             ELSE \E order \in Table!LeastLoadedFirst(l), laid \in Table!Orders :
                    /\ target' = Table!Targets(order, l)
                    /\ IF Table!NegativeIndex
                       THEN panicked' = TRUE /\ UNCHANGED plan
                       ELSE plan' = Table!shuffleMapping(Table!Laid(laid, target')) /\ UNCHANGED panicked
          /\ UNCHANGED virtualToPhysical
    BY <1>4 DEF Table!RebalanceVirtualShards
  <2>2. l \in [Physical -> Nat]
    BY TableConstants
  <2>3. ASSUME target' \in [Physical -> 0..VirtualCount], Table!Total(target') = VirtualCount,
               plan' \in [1..VirtualCount -> Physical], panicked' \in BOOLEAN,
               Table!Total(l) > 0 => \A p, q \in Physical : l[p] < l[q] => target'[p] >= target'[q],
               ~panicked' => \A p \in Physical : Table!Holds(plan', p) = target'[p]
        PROVE  TableInv'
    <3>1. Table!TypeOK'
      BY <1>1, <2>1, <2>2, <2>3, TableIDs DEF Table!TypeOK
    <3>2. Table!SharesFollowLoad'
      BY <2>1, <2>3 DEF Table!SharesFollowLoad
    <3> QED BY <3>1, <3>2 DEF TableInv
  <2>4. CASE Table!Total(l) = 0
    <3>1. /\ plan' = virtualToPhysical /\ panicked' = panicked
          /\ target' = [p \in Physical |->
                          Table!Cardinality({v \in Table!VirtualIDs : virtualToPhysical[v] = p})]
      BY <2>1, <2>4
    <3>2. /\ target' \in [Physical -> 0..VirtualCount] /\ Table!Total(target') = VirtualCount
          /\ \A p \in Physical : Table!Holds(virtualToPhysical, p) = target'[p]
      BY <1>1, <3>1, CountedTargets
    <3>3. ~(Table!Total(l) > 0)
      BY <2>4
    <3>4. \A p \in Physical : Table!Holds(plan', p) = target'[p]
      BY <3>1, <3>2
    <3>5. plan' \in [1..VirtualCount -> Physical] /\ panicked' \in BOOLEAN
      BY <1>1, <3>1
    <3> QED BY <2>3, <3>2, <3>3, <3>4, <3>5
  <2>5. CASE Table!Total(l) # 0
    <3>1. PICK order \in Table!LeastLoadedFirst(l), laid \in Table!Orders :
            /\ target' = Table!Targets(order, l)
            /\ IF Table!NegativeIndex
               THEN panicked' = TRUE /\ UNCHANGED plan
               ELSE plan' = Table!shuffleMapping(Table!Laid(laid, target')) /\ UNCHANGED panicked
      BY <2>1, <2>5
    <3>2. /\ target' \in [Physical -> 0..VirtualCount] /\ Table!Total(target') = VirtualCount
          /\ \A p, q \in Physical : l[p] < l[q] => target'[p] >= target'[q]
      BY <2>2, <2>5, <3>1, TargetsRight
    <3>3. CASE Table!NegativeIndex
      <4>1. panicked' = TRUE /\ plan' = plan
        BY <3>1, <3>3
      <4> QED BY <1>1, <2>3, <3>2, <4>1
    <3>4. CASE ~Table!NegativeIndex
      <4>1. plan' = Table!shuffleMapping(Table!Laid(laid, target')) /\ panicked' = panicked
        BY <3>1, <3>4
      <4>2. plan' \in [1..VirtualCount -> Physical] /\ \A p \in Physical : Table!Holds(plan', p) = target'[p]
        BY <3>2, <3>4, <4>1, PlanRight
      <4> QED BY <1>1, <2>3, <3>2, <4>1, <4>2
    <3> QED BY <3>3, <3>4
  <2> QED BY <2>4, <2>5
<1> QED BY <1>2, <1>3, <1>4 DEF Table!Next

(* A plan of the virtual shards gives each of them away, the idle shards   *)
(* having no fewer, and the shuffle keeps what each has                    *)
(* (RebalanceVirtualShards, shuffleMapping).                               *)
THEOREM PlansRight == Table!Spec => []Table!SharesFollowLoad
BY TableInit, TableStep, PTL DEF TableInv, Table!Spec

-----------------------------------------------------------------------------
(* The rebalancer.  Its coordinator may be seen as running all the time,   *)
(* since at rest it does what a behaviour may always do: nothing.          *)

LEMMA CoordinatorRuns ==
  /\ RebalancerInit => Init
  /\ [RebalancerNext]_rebalancerVars => [Next]_vars
BY DEF RebalancerInit, RebalancerNext, rebalancerVars, coordinator, vars

LEMMA RingRuns ==
  /\ RebalancerInit /\ subject = "ring" => Ring!Init
  /\ [RebalancerNext]_rebalancerVars /\ subject = "ring" =>
       [Ring!Next]_Ring!vars /\ (subject = "ring")'
BY DEF RebalancerInit, RebalancerNext, rebalancerVars, ring, Ring!vars

LEMMA RingRests ==
  [RebalancerNext]_rebalancerVars /\ ~(subject = "ring") =>
    UNCHANGED Ring!vars /\ ~(subject = "ring")'
BY DEF RebalancerNext, rebalancerVars, ring, Ring!vars

LEMMA MaglevRuns ==
  /\ RebalancerInit /\ subject = "maglev" => Maglev!Init
  /\ [RebalancerNext]_rebalancerVars /\ subject = "maglev" =>
       [Maglev!Try]_Maglev!vars /\ (subject = "maglev")'
  /\ [RebalancerNext]_rebalancerVars /\ ~(subject = "maglev") => ~(subject = "maglev")'
BY DEF RebalancerInit, RebalancerNext, rebalancerVars, maglev, Maglev!vars

LEMMA DetectorRuns ==
  /\ RebalancerInit => Detector!Init
  /\ [RebalancerNext]_rebalancerVars => [Detector!Next]_Detector!vars
BY DEF RebalancerInit, RebalancerNext, rebalancerVars, detector, Detector!detector, Detector!vars

LEMMA TableRuns ==
  /\ RebalancerInit => Table!Init
  /\ [RebalancerNext]_rebalancerVars => [Table!Next]_Table!vars
BY DEF RebalancerInit, RebalancerNext, rebalancerVars, virtual, Table!vars

(* A ring or a table that a behaviour is about keeps its invariant.        *)
LEMMA TablesKeep ==
  RebalancerSpec => [](/\ subject = "ring" => RingInv
                       /\ subject = "maglev" => MaglevInv)
<1>1. RebalancerInit /\ subject = "ring" => RingInv
  BY RingRuns, RingInit
<1>2. RingInv /\ [RebalancerNext]_rebalancerVars /\ subject = "ring" =>
        RingInv' /\ (subject = "ring")'
  BY RingRuns, RingStep
<1>3. RebalancerInit /\ subject = "maglev" => MaglevInv
  BY MaglevRuns, MaglevInit
<1>4. MaglevInv /\ [RebalancerNext]_rebalancerVars /\ subject = "maglev" =>
        MaglevInv' /\ (subject = "maglev")'
  BY MaglevRuns, MaglevStep
<1> QED
  BY <1>1, <1>2, <1>3, <1>4, RingRests, MaglevRuns, PTL DEF RebalancerSpec

(* The coordinator's epochs are valid in any rebalancer                    *)
(* (validateEpoch, transitionToEpoch).                                     *)
THEOREM RebalancerEpochs == RebalancerSpec => []EpochValid
BY CoordinatorRuns, EpochsValid, PTL DEF RebalancerSpec, Spec

(* The coordinator's transitions are atomic in any rebalancer              *)
(* (prepareNewEpoch, transitionToEpoch).                                   *)
THEOREM RebalancerTransitions == RebalancerSpec => AtomicTransitions
BY CoordinatorRuns, TransitionsAtomic, PTL DEF RebalancerSpec, Spec

(* Its operators lose no virtual shard in any rebalancer                   *)
(* (PlanShardSplit, ExecuteShardSplit, ExecuteShardMerge).                 *)
THEOREM RebalancerKeeps == RebalancerSpec => KeepsAssigned
BY CoordinatorRuns, AssignmentsKept, PTL DEF RebalancerSpec, Spec

(* The ring and the Maglev table serve every key and fill every slot, for  *)
(* any hashes and any prime size (hasher.go:340, :408).                    *)
THEOREM RebalancerServes == RebalancerSpec => []TablesServe
<1>1. (subject = "ring" => RingInv) /\ (subject = "maglev" => MaglevInv) => TablesServe
  BY Ownership, MaglevFills DEF TablesServe
<1> QED BY <1>1, TablesKeep, PTL

(* A change of the ring moves little, in any rebalancer (hasher.go:299,    *)
(* :317).                                                                  *)
THEOREM RebalancerMovesLittle == RebalancerSpec => MinimalMove
<1>1. RebalancerInit /\ subject = "ring" => RingInv
  BY RingRuns, RingInit
<1>2. RingInv /\ [RebalancerNext]_rebalancerVars /\ subject = "ring" =>
        RingInv' /\ (subject = "ring")' /\ [Ring!MovesLittle]_Ring!vars
  BY RingRuns, RingStep, RingMovesLittle
<1> QED
  BY <1>1, <1>2, RingRests, PTL DEF RebalancerSpec, MinimalMove, Ring!MinimalMove

(* Reports of the load are right and plans of the virtual shards follow    *)
(* it, in any rebalancer (detector.go:107, hasher.go:178).                 *)
THEOREM RebalancerShares == RebalancerSpec => []SharesRight
<1>1. RebalancerSpec => Detector!Spec
  BY DetectorRuns, PTL DEF RebalancerSpec, Detector!Spec
<1>2. RebalancerSpec => Table!Spec
  BY TableRuns, PTL DEF RebalancerSpec, Table!Spec
<1> QED BY <1>1, <1>2, DistributionsRight, PlansRight, PTL DEF SharesRight

LEMMA RingTyped == RingInv => Ring!TypeOK
<1> SUFFICES ASSUME RingInv PROVE Ring!TypeOK
  OBVIOUS
<1>1. ASSUME NEW i \in DOMAIN sortedKeys PROVE sortedKeys[i] \in Ring!Hashes
  <2>1. sortedKeys[i] \in Elements(sortedKeys)
    BY DEF RingInv, Elements
  <2> QED BY <2>1 DEF RingInv
<1> QED BY <1>1 DEF RingInv, Ring!TypeOK

LEMMA MaglevTyped == MaglevInv => Maglev!TypeOK
<1> SUFFICES ASSUME MaglevInv PROVE Maglev!TypeOK
  OBVIOUS
<1>1. Filled \subseteq Maglev!Slots
  BY DEF Filled
<1>2. Cardinality(Filled) \in 0..TableSize
  <2>1. IsFiniteSet(Filled) /\ Cardinality(Filled) <= TableSize
    BY <1>1, MaglevTypes, FS_Subset
  <2>2. Cardinality(Filled) \in Nat
    BY <2>1, FS_CardinalityType
  <2> QED BY <2>1, <2>2, MaglevTypes
<1>3. 1..TableSize - 1 \subseteq Maglev!Slots
  BY MaglevTypes
<1> QED BY <1>2, <1>3 DEF MaglevInv, Others, Maglev!TypeOK

(* The coordinator, the detector and the three tables of the hasher keep   *)
(* their types (coordinator.go, detector.go, hasher.go).                   *)
THEOREM RebalancerTyped == RebalancerSpec => []AllTypes
<1>1. RebalancerSpec => []TypeOK
  BY CoordinatorRuns, TypeCorrect, PTL DEF RebalancerSpec, Spec
<1>2. RebalancerSpec => []DetectorInv
  BY DetectorRuns, DetectorInit, DetectorStep, PTL DEF RebalancerSpec
<1>3. RebalancerSpec => []TableInv
  BY TableRuns, TableInit, TableStep, PTL DEF RebalancerSpec
<1>4. DetectorInv => Detector!TypeOK
  BY DEF DetectorInv
<1>5. TableInv => Table!TypeOK
  BY DEF TableInv
<1> QED
  BY <1>1, <1>2, <1>3, <1>4, <1>5, TablesKeep, RingTyped, MaglevTyped, PTL DEF AllTypes
=============================================================================

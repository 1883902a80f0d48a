-------------------------- MODULE ShardCoordinator --------------------------
(***************************************************************************)
(* The rebalancer's shard coordinator: an epoch says which physical shard  *)
(* has which virtual shards and, as a second map, where each virtual shard *)
(* is.  A split or a merge is planned, then executed: a new epoch is       *)
(* copied from the current one, edited, validated and installed.           *)
(*                                                                         *)
(* Operators are goroutines calling the exported methods.  Planning reads  *)
(* under the lock what executing uses later; executing takes the lock to   *)
(* copy the epoch and again, later, to install the new one; the merge      *)
(* reads the current epoch in between without it.  Each of these is a step.*)
(* Salts, and the records kept for the statistics, are left out.           *)
(***************************************************************************)
EXTENDS Integers, Sequences, FiniteSets, FiniteSetsExt

CONSTANTS
  Operators,
  Virtual,        (* virtual shards                                        *)
  InitialShards,  (* shard -> its virtual shards at the start (100 of 10)  *)
  SplitCounts,    (* what calculateOptimalSplitCount may return (2, 3, 4)  *)
  MaxShard,       (* bound: largest shard identifier                       *)
  MaxEpoch        (* bound: largest epoch number                           *)

ShardIds == 0..MaxShard

Members(list) == {list[i] : i \in DOMAIN list}

(* Every virtual shard starts in exactly one place.                        *)
ASSUME CoordinatorAssumption ==
  /\ MaxShard \in Nat /\ MaxEpoch \in Nat
  /\ SplitCounts \subseteq Nat \ {0, 1}
  /\ InitialShards \in [DOMAIN InitialShards -> Seq(Virtual)]
  /\ DOMAIN InitialShards \subseteq ShardIds
  /\ \A v \in Virtual : \E s \in DOMAIN InitialShards : v \in Members(InitialShards[s])
  /\ \A s, t \in DOMAIN InitialShards :
       \A i \in DOMAIN InitialShards[s], j \in DOMAIN InitialShards[t] :
         InitialShards[s][i] = InitialShards[t][j] => s = t /\ i = j

VARIABLES
  currentEpoch,  (* [number, live, shards, where]                          *)
  epochCounter,
  assignments,   (* [live, shards], the coordinator's own copy             *)
  operator,      (* operator -> [pc, plan, next]                           *)
  outdated       (* history: see Outdated                                  *)

vars == <<currentEpoch, epochCounter, assignments, operator, outdated>>

(* Operators whose plan was made, and those whose epoch was copied, before *)
(* the last installation by another operator.                              *)
Outdated == [plan : SUBSET Operators, copy : SUBSET Operators]

(* live: the identifiers in the Assignments map; shards: their virtual     *)
(* shards, <<>> for the others; where: VirtualToPhysical.                  *)
Lists == [ShardIds -> Seq(Virtual)]
Epochs == [number : Nat, live : SUBSET ShardIds, shards : Lists, where : [Virtual -> ShardIds]]
NoPlan == [kind |-> "none", sources |-> <<>>, list |-> <<>>, count |-> 0, first |-> 0]

At(o, label) == operator[o].pc = label
Becomes(o, pc, plan, next) ==
  operator' = [operator EXCEPT ![o] = [pc |-> pc, plan |-> plan, next |-> next]]
Unplanned(e) == [pc |-> "idle", plan |-> NoPlan, next |-> e]

(* No virtual shard twice, neither in one shard nor in two.                *)
AssignedOnce(e) ==
  \A s, t \in e.live : \A i \in DOMAIN e.shards[s], j \in DOMAIN e.shards[t] :
    e.shards[s][i] = e.shards[t][j] => s = t /\ i = j
TargetsExist(e) == \A v \in Virtual : e.where[v] \in e.live

ValidatedTargets(e) == TargetsExist(e)   \* mutant: duplicates are not looked for
validateEpoch(e) == AssignedOnce(e) /\ TargetsExist(e)

FirstEpoch ==
  [number |-> 1,
   live |-> DOMAIN InitialShards,
   shards |-> [s \in ShardIds |-> IF s \in DOMAIN InitialShards THEN InitialShards[s] ELSE <<>>],
   where |-> [v \in Virtual |->
                CHOOSE s \in DOMAIN InitialShards : v \in Members(InitialShards[s])]]

(* The start-up code fills the epoch, not the coordinator's assignments.   *)
Init ==
  /\ currentEpoch = FirstEpoch
  /\ epochCounter = 1
  /\ assignments = [live |-> {}, shards |-> [s \in ShardIds |-> <<>>]]
  /\ operator = [o \in Operators |-> Unplanned(FirstEpoch)]
  /\ outdated = [plan |-> {}, copy |-> {}]

-----------------------------------------------------------------------------
(* Plans.                                                                  *)

Planned(o, pc, plan) ==
  /\ At(o, "idle")
  /\ Becomes(o, pc, plan, operator[o].next)
  /\ UNCHANGED <<currentEpoch, epochCounter, assignments, outdated>>

PlanShardSplit(o, s, n) ==
  /\ s \in assignments.live
  /\ Planned(o, "number", [NoPlan EXCEPT !.kind = "split", !.sources = <<s>>,
                                         !.list = assignments.shards[s], !.count = n])

CountedShardID(live) == Cardinality(live)   \* mutant: counts the identifiers
NextShardID(live) == 1 + (IF live = {} THEN 0 ELSE Max(live))

(* getNextShardID: one more than the largest identifier, n in a row.       *)
GetNextShardID(o) ==
  /\ At(o, "number")
  /\ LET first == NextShardID(assignments.live)
     IN /\ first + operator[o].plan.count - 1 <= MaxShard
        /\ Becomes(o, "planned", [operator[o].plan EXCEPT !.first = first], operator[o].next)
  /\ UNCHANGED <<currentEpoch, epochCounter, assignments, outdated>>

PlanShardMerge(o, s, t) ==
  /\ {s, t} \subseteq assignments.live
  /\ Planned(o, "planned", [NoPlan EXCEPT !.kind = "merge", !.sources = <<s, t>>])

(* A caller writes the plan itself, from what GetCurrentEpoch shows.       *)
WriteMergePlan(o, s, t) ==
  /\ {s, t} \subseteq currentEpoch.live
  /\ Planned(o, "planned", [NoPlan EXCEPT !.kind = "merge", !.sources = <<s, t>>])

-----------------------------------------------------------------------------
(* ExecuteShardSplit and ExecuteShardMerge.                                *)

prepareNewEpoch(o) ==
  /\ At(o, "planned")
  /\ epochCounter < MaxEpoch
  /\ Becomes(o, "edit", operator[o].plan, [currentEpoch EXCEPT !.number = epochCounter + 1])
  /\ UNCHANGED <<currentEpoch, epochCounter, assignments, outdated>>

(* The i-th of the n pieces of a list, the first ones longer by one.       *)
Piece(list, n, i) ==
  LET size == Len(list) \div n
      extra == Len(list) % n
      start(k) == k * size + (IF k < extra THEN k ELSE extra)
  IN SubSeq(list, start(i) + 1, start(i + 1))

SplitEpoch(e, plan) ==
  LET new == plan.first..plan.first + plan.count - 1
      piece(s) == Piece(plan.list, plan.count, s - plan.first)
      target(v) == {s \in new : v \in Members(piece(s))}
  IN [e EXCEPT !.live = (@ \cup new) \ {plan.sources[1]},
               !.shards = [s \in ShardIds |-> IF s \in new THEN piece(s)
                                              ELSE IF s = plan.sources[1] THEN <<>> ELSE @[s]],
               !.where = [v \in Virtual |-> IF target(v) = {} THEN @[v]
                                            ELSE CHOOSE s \in target(v) : TRUE]]

EditSplit(o) ==
  /\ At(o, "edit") /\ operator[o].plan.kind = "split"
  /\ Becomes(o, "validate", operator[o].plan, SplitEpoch(operator[o].next, operator[o].plan))
  /\ UNCHANGED <<currentEpoch, epochCounter, assignments, outdated>>

MergedEpoch(e, list, s, t) ==
  [e EXCEPT !.live = (@ \cup {s}) \ {t},
            !.shards = [@ EXCEPT ![t] = <<>>, ![s] = list],
            !.where = [v \in Virtual |-> IF v \in Members(list) THEN s ELSE @[v]]]

(* The virtual shards come from the epoch that is current now.             *)
EditMerge(o) ==
  /\ At(o, "edit") /\ operator[o].plan.kind = "merge"
  /\ LET s == operator[o].plan.sources[1]
         t == operator[o].plan.sources[2]
         list == currentEpoch.shards[s] \o currentEpoch.shards[t]
     IN Becomes(o, "validate", operator[o].plan, MergedEpoch(operator[o].next, list, s, t))
  /\ UNCHANGED <<currentEpoch, epochCounter, assignments, outdated>>

(* validateEpoch, then the callback, which may refuse as well.             *)
Reject(o) ==
  /\ At(o, "validate")
  /\ Becomes(o, "idle", NoPlan, FirstEpoch)
  /\ outdated' = [plan |-> outdated.plan \ {o}, copy |-> outdated.copy \ {o}]
  /\ UNCHANGED <<currentEpoch, epochCounter, assignments>>

Accept(o) ==
  /\ At(o, "validate") /\ validateEpoch(operator[o].next)
  /\ Becomes(o, "install", operator[o].plan, operator[o].next)
  /\ UNCHANGED <<currentEpoch, epochCounter, assignments, outdated>>

OutdatesOthers(o) ==
  outdated' = [plan |-> {d \in Operators \ {o} : ~At(d, "idle")},
               copy |-> {d \in Operators \ {o} : operator[d].pc \in {"edit", "validate", "install"}}]

StaleAssignments(o) ==   \* mutant: the coordinator's copy is not refreshed
  /\ At(o, "install")
  /\ currentEpoch' = operator[o].next
  /\ epochCounter' = operator[o].next.number
  /\ assignments' = [live |-> currentEpoch.live, shards |-> currentEpoch.shards]
  /\ Becomes(o, "idle", NoPlan, FirstEpoch)
  /\ OutdatesOthers(o)

ForgottenCounter(o) ==   \* mutant: epochCounter is left behind
  /\ At(o, "install")
  /\ currentEpoch' = operator[o].next
  /\ assignments' = [live |-> operator[o].next.live, shards |-> operator[o].next.shards]
  /\ Becomes(o, "idle", NoPlan, FirstEpoch)
  /\ OutdatesOthers(o)
  /\ UNCHANGED epochCounter

(* transitionToEpoch, under the lock.                                      *)
Install(o) ==
  /\ At(o, "install")
  /\ currentEpoch' = operator[o].next
  /\ epochCounter' = operator[o].next.number
  /\ assignments' = [live |-> operator[o].next.live, shards |-> operator[o].next.shards]
  /\ Becomes(o, "idle", NoPlan, FirstEpoch)
  /\ OutdatesOthers(o)

-----------------------------------------------------------------------------
Plan(o) ==
  \/ \E s \in ShardIds, n \in SplitCounts : PlanShardSplit(o, s, n)
  \/ GetNextShardID(o)
  \/ \E s, t \in ShardIds : s # t /\ (PlanShardMerge(o, s, t) \/ WriteMergePlan(o, s, t))

Execute(o) ==
  \/ prepareNewEpoch(o) \/ EditSplit(o) \/ EditMerge(o)
  \/ Reject(o) \/ Accept(o) \/ Install(o)

Next == \E o \in Operators : Plan(o) \/ Execute(o)

Spec == Init /\ [][Next]_vars

-----------------------------------------------------------------------------
Plans == [kind : {"none", "split", "merge"}, sources : Seq(ShardIds), list : Seq(Virtual),
          count : Nat, first : Nat]

(* Type correctness; the counter is the current epoch's number, and the    *)
(* coordinator's copy is empty or that of the current epoch.               *)
TypeOK ==
  /\ currentEpoch \in Epochs
  /\ epochCounter = currentEpoch.number
  /\ \/ assignments.live = {}
     \/ assignments = [live |-> currentEpoch.live, shards |-> currentEpoch.shards]
  /\ operator \in [Operators -> [pc : {"idle", "number", "planned", "edit", "validate", "install"},
                                 plan : Plans, next : Epochs]]

(* Whatever the operators race, no virtual shard is in two places of the   *)
(* current epoch and no virtual shard is mapped to a shard that does not   *)
(* exist (validateEpoch: the epoch it checked is the one installed).       *)
EpochValid == AssignedOnce(currentEpoch) /\ TargetsExist(currentEpoch)

(* "Check all virtual shards are assigned": every virtual shard belongs to *)
(* the shard VirtualToPhysical names for it.                               *)
AllAssigned ==
  \A v \in Virtual : v \in Members(currentEpoch.shards[currentEpoch.where[v]])

(* A transition loses no virtual shard, unless its plan is outdated: then  *)
(* the new shards' numbers or the list it splits may be (PlanShardSplit,   *)
(* getNextShardID, ExecuteShardSplit, ExecuteShardMerge).                  *)
Installs(o) == At(o, "install") /\ operator'[o].pc = "idle"
UpToDate(o) == o \notin outdated.plan \cup outdated.copy
KeepsAssigned ==
  [][AllAssigned /\ (\A o \in Operators : Installs(o) => UpToDate(o)) => AllAssigned']_vars

(* "Atomic epoch transition": a new epoch has the next number, and changes *)
(* the place of those virtual shards only that its plan moves, unless it   *)
(* is a copy of an epoch that is no longer the current one.                *)
Moved(o) ==
  Members(operator[o].plan.list) \cup
    UNION {Members(currentEpoch.shards[operator[o].plan.sources[i]]) :
             i \in DOMAIN operator[o].plan.sources}
BuildsOnCurrent(o) ==
  /\ currentEpoch'.number = currentEpoch.number + 1
  /\ \A v \in Virtual \ Moved(o) : currentEpoch'.where[v] = currentEpoch.where[v]
AtomicTransitions ==
  [][\A o \in Operators : Installs(o) /\ o \notin outdated.copy => BuildsOnCurrent(o)]_vars
=============================================================================

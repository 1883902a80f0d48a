------------------------------ MODULE Rebalancer ------------------------------
(***************************************************************************)
(* The rebalancer's parts side by side: its coordinator, its detector and  *)
(* the three tables of its hasher.  They share no state.  So a behaviour   *)
(* is one of the component it starts with, its subject, while the others   *)
(* rest, in an initial state or with nothing in them.                      *)
(***************************************************************************)
EXTENDS ShardCoordinator

CONSTANTS
  Observed, Handlers, Samples,                        (* detector: shards  *)
  HistorySize, PatternFrom, Window, Needed, Cooldown, Unit, MaxReports,
  RingShards, MaxHash, VirtualNodes,                  (* ring: shards      *)
  Physical, Amounts, VirtualCount, Remainder,         (* virtual shards    *)
  Backends, TableSize                                 (* Maglev table      *)

VARIABLES
  subject,
  history, average, sustained, seen, alert, since, reports,
  points, members, nodes, sortedKeys,
  virtualToPhysical, load, target, plan, panicked,
  skip, next, entry, turn, taken, tries

coordinator == <<currentEpoch, epochCounter, assignments, operator, outdated>>
detector == <<history, average, sustained, seen, alert, since, reports>>
ring == <<points, members, nodes, sortedKeys>>
virtual == <<virtualToPhysical, load, target, plan, panicked>>
maglev == <<skip, next, entry, turn, taken, tries>>

Detector == INSTANCE LoadDetector WITH Shards <- Observed
Ring == INSTANCE HashRing WITH Shards <- RingShards
Table == INSTANCE VirtualShards WITH Loads <- Amounts
Maglev == INSTANCE MaglevTable

ASSUME RebalancerAssumption ==
  /\ Detector!DetectorAssumption /\ Ring!RingAssumption
  /\ Table!VirtualAssumption /\ Maglev!MaglevAssumption

rebalancerVars == <<subject, coordinator, detector, ring, virtual, maglev>>

RebalancerInit ==
  /\ subject \in {"coordinator", "detector", "ring", "virtual", "maglev"}
  /\ Init /\ Detector!Init /\ Table!Init
  /\ IF subject = "ring" THEN Ring!Init
     ELSE points = <<>> /\ members = {} /\ nodes = <<>> /\ sortedKeys = <<>>
  /\ IF subject = "maglev" THEN Maglev!Init
     ELSE skip = <<>> /\ next = <<>> /\ entry = <<>> /\ turn = 0 /\ taken = 0 /\ tries = 0

RebalancerNext ==
  /\ UNCHANGED subject
  /\ \/ subject = "coordinator" /\ Next /\ UNCHANGED <<detector, ring, virtual, maglev>>
     \/ subject = "detector" /\ Detector!Next /\ UNCHANGED <<coordinator, ring, virtual, maglev>>
     \/ subject = "ring" /\ Ring!Next /\ UNCHANGED <<coordinator, detector, virtual, maglev>>
     \/ subject = "virtual" /\ Table!Next /\ UNCHANGED <<coordinator, detector, ring, maglev>>
     \/ subject = "maglev" /\ Maglev!Try /\ UNCHANGED <<coordinator, detector, ring, virtual>>

RebalancerSpec == RebalancerInit /\ [][RebalancerNext]_rebalancerVars

-----------------------------------------------------------------------------
(* Every component keeps its types.                                        *)
AllTypes ==
  /\ TypeOK
  /\ Detector!TypeOK
  /\ subject = "ring" => Ring!TypeOK
  /\ Table!TypeOK
  /\ subject = "maglev" => Maglev!TypeOK

(* The detector's report of the load adds up and is in order, and every    *)
(* virtual shard has a physical one, the idle ones having more of them     *)
(* (detector.go:107, hasher.go:178).                                       *)
SharesRight == Detector!DistributionRight /\ Table!SharesFollowLoad

(* The ring and the Maglev table have an owner that is there for every key *)
(* and for every slot (hasher.go:340, :408).                               *)
TablesServe ==
  /\ subject = "ring" => Ring!OwnersAreMembers
  /\ subject = "maglev" => Maglev!FillsInTime

(* A change of the ring moves only keys of the shard that comes or goes    *)
(* (hasher.go:299, :317).                                                  *)
MinimalMove == Ring!MinimalMove
=============================================================================

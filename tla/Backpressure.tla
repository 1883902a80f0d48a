----------------------------- MODULE Backpressure -----------------------------
(***************************************************************************)
(* The autoscaler's backpressure coordinator: how far every service is     *)
(* scaled makes a level, the levels of a window make the current one, and  *)
(* a change of it is reported by a goroutine of its own.  With it the      *)
(* gateway integration, which asks for the current level up to three times *)
(* while it decides on one request (nothing constructs it).                *)
(*                                                                         *)
(* The scaling loop updates a service's state, the evaluation loop reads   *)
(* all of them under the read lock and later sets the level under the lock;*)
(* nothing else does, so the two are one step.  Rejecting a percentage of  *)
(* the requests is a free choice.                                          *)
(***************************************************************************)
EXTENDS Integers, Sequences, FiniteSets, FiniteSetsExt

CONSTANTS
  Services, Gateway,  (* the gateway weighs double                         *)
  MaxInstances,       (* of every service                                  *)
  WindowSize,         (* evaluations in the smoothing window (6)           *)
  Requests,
  MaxChanges          (* bound: changes of the level                       *)

BackpressureAssumption ==
  /\ IsFiniteSet(Services) /\ MaxInstances \in Nat \ {0}
  /\ WindowSize \in Nat \ {0} /\ MaxChanges \in Nat

VARIABLES
  instances,     (* service -> instances last reported                     *)
  known,         (* services that have been reported                       *)
  levelHistory,  (* levels of the last evaluations                         *)
  currentLevel,
  changes,
  callbacks,     (* changes whose goroutine has not run: [number, level]   *)
  reported,      (* level the last callback to run has reported            *)
  request        (* request -> [step, priority, level it began with]       *)

vars == <<instances, known, levelHistory, currentLevel, changes, callbacks, reported, request>>

None == 0
Low == 1
Medium == 2
High == 3
Critical == 4
Levels == None..Critical
Idle == [step |-> "idle", priority |-> 0, level |-> None]

Init ==
  /\ instances = [s \in Services |-> 0] /\ known = {}
  /\ levelHistory = <<>> /\ currentLevel = None
  /\ changes = 0 /\ callbacks = {} /\ reported = None
  /\ request = [r \in Requests |-> Idle]

-----------------------------------------------------------------------------
UpdateServiceState(s) ==
  /\ \E n \in 0..MaxInstances : instances' = [instances EXCEPT ![s] = n]
  /\ known' = known \cup {s}
  /\ UNCHANGED <<levelHistory, currentLevel, changes, callbacks, reported, request>>

Weight(s) == IF s = Gateway THEN 2 ELSE 1

(* The weighted mean of the services' scale, in percent of the maximum,    *)
Reaches(percent) ==
  LET weights == MapThenSumSet(Weight, known)
      scaled == MapThenSumSet(LAMBDA s : Weight(s) * instances[s], known)
  IN 100 * scaled >= percent * weights * MaxInstances

(* ... against 95, 85, 75 and 60.                                          *)
calculateLevel ==
  IF known = {} THEN None
  ELSE IF Reaches(95) THEN Critical
  ELSE IF Reaches(85) THEN High
  ELSE IF Reaches(75) THEN Medium
  ELSE IF Reaches(60) THEN Low ELSE None

Occurs(level, list) == Cardinality({i \in DOMAIN list : list[i] = level})

Newest(list) == {list[Len(list)]}   \* mutant: no smoothing
(* The most common level; of several, any: they come out of a Go map.      *)
getSmoothedLevel(list) ==
  {x \in Levels : \A y \in Levels : Occurs(x, list) >= Occurs(y, list)}

Latest(list) == SubSeq(list, (IF Len(list) > WindowSize THEN Len(list) - WindowSize ELSE 0) + 1, Len(list))

Evaluate ==
  /\ levelHistory' = Latest(Append(levelHistory, calculateLevel))
  /\ \E level \in getSmoothedLevel(levelHistory') :
       IF level = currentLevel
       THEN UNCHANGED <<currentLevel, changes, callbacks>>
       ELSE /\ changes < MaxChanges
            /\ currentLevel' = level /\ changes' = changes + 1
            /\ callbacks' = callbacks \cup {[number |-> changes', level |-> level]}
  /\ UNCHANGED <<instances, known, reported, request>>

onLevelChange(c) ==
  /\ reported' = c.level /\ callbacks' = callbacks \ {c}
  /\ UNCHANGED <<instances, known, levelHistory, currentLevel, changes, request>>

-----------------------------------------------------------------------------
(* HandleIncomingRequest; 3 is the priority of critical requests.          *)

Becomes(r, step, level) ==
  /\ request' = [request EXCEPT ![r].step = step, ![r].level = level]
  /\ UNCHANGED <<instances, known, levelHistory, currentLevel, changes, callbacks, reported>>

Receive(r) ==
  /\ request[r].step = "idle"
  /\ \E p \in {1, 3} :
       request' = [request EXCEPT ![r] = [step |-> IF currentLevel >= High THEN "breaker" ELSE "drop",
                                          priority |-> p, level |-> currentLevel]]
  /\ UNCHANGED <<instances, known, levelHistory, currentLevel, changes, callbacks, reported>>

(* The strategy has a circuit breaker; is the level still as high?         *)
CheckBreaker(r) ==
  /\ request[r].step = "breaker"
  /\ Becomes(r, IF currentLevel >= High /\ request[r].priority < 3 THEN "rejected" ELSE "drop",
             request[r].level)

ShouldDropRequest(r) ==
  /\ request[r].step = "drop"
  /\ \/ Becomes(r, "handled", request[r].level)
     \/ /\ currentLevel >= Medium /\ request[r].priority < 3
        /\ Becomes(r, "rejected", currentLevel)

Answer(r) ==
  /\ request[r].step \in {"handled", "rejected"}
  /\ request' = [request EXCEPT ![r] = Idle]
  /\ UNCHANGED <<instances, known, levelHistory, currentLevel, changes, callbacks, reported>>

Next ==
  \/ \E s \in Services : UpdateServiceState(s)
  \/ Evaluate
  \/ \E c \in callbacks : onLevelChange(c)
  \/ \E r \in Requests : Receive(r) \/ CheckBreaker(r) \/ ShouldDropRequest(r) \/ Answer(r)

Spec == Init /\ [][Next]_vars

-----------------------------------------------------------------------------
TypeOK ==
  /\ instances \in [Services -> 0..MaxInstances] /\ known \subseteq Services
  /\ Len(levelHistory) <= WindowSize /\ \A i \in DOMAIN levelHistory : levelHistory[i] \in Levels
  /\ currentLevel \in Levels /\ reported \in Levels /\ changes \in 0..MaxChanges
  /\ callbacks \subseteq [number : 1..MaxChanges, level : Levels]
  /\ request \in [Requests -> [step : {"idle", "breaker", "drop", "handled", "rejected"},
                               priority : {0, 1, 3}, level : Levels]]

(* The level is one that was measured in the window, one measured in more  *)
(* than half of it wins, and no other is more common: a single peak or dip *)
(* never sets it (coordinator.go:211, :280).                               *)
LevelSmoothed ==
  levelHistory # <<>> =>
    /\ Occurs(currentLevel, levelHistory) > 0
    /\ \A x \in Levels : 2 * Occurs(x, levelHistory) > Len(levelHistory) => currentLevel = x

(* Refuted: when all changes have been reported the last report is the     *)
(* current level.  Each has a goroutine (coordinator.go:226).              *)
ReportsInOrder == callbacks = {} => reported = currentLevel

(* Refuted: the gateway at its maximum makes a level.  The others' mean    *)
(* counts for as much as it (coordinator.go:249).                          *)
GatewayNoticed ==
  instances[Gateway] = MaxInstances /\ Gateway \in known => calculateLevel # None
=============================================================================

------------------------------ MODULE Autoscaling ------------------------------
(***************************************************************************)
(* The autoscaler's parts side by side: the management of one service's    *)
(* instances, the rounds of the scaling loop for all services with their   *)
(* cascade rules, the backpressure coordinator.  They share no state.  So  *)
(* a behaviour is one of the component it starts with, its subject, while  *)
(* the others rest in their initial state, a policy at rest outside of any *)
(* round.                                                                  *)
(***************************************************************************)
EXTENDS Autoscaler

CONSTANTS
  Subjects,
  Services, Least, Most,            (* policy: services, numbers of instances *)
  Rules, MaxDead, MaxLive,
  Reporting, Gateway, FullScale,    (* backpressure: services that report  *)
  WindowSize, Requests, MaxChanges

VARIABLES
  subject,
  live, dead, resting, delayed, pc, planned, cascades,
  instances, known, levelHistory, currentLevel, changes, callbacks, reported, request

policy == <<live, dead, resting, delayed, pc, planned, cascades>>
backpressure == <<instances, known, levelHistory, currentLevel, changes, callbacks, reported, request>>

Policy == INSTANCE ScalingPolicy WITH
  MinInstances <- Least, MaxInstances <- Most, cooling <- resting
Pressure == INSTANCE Backpressure WITH
  Services <- Reporting, MaxInstances <- FullScale

ASSUME AutoscalingAssumption ==
  /\ Subjects \subseteq {"scaler", "policy", "backpressure"}
  /\ Policy!ScalingPolicyAssumption /\ Pressure!BackpressureAssumption

autoscalingVars == <<subject, vars, policy, backpressure>>

AutoscalingInit ==
  /\ subject \in Subjects
  /\ Init /\ Pressure!Init
  /\ IF subject = "policy" THEN Policy!Init
     ELSE /\ live = Least /\ dead = Least /\ resting = {} /\ delayed = {} /\ pc = "rest"
          /\ planned = {} /\ cascades = {}

AutoscalingNext ==
  /\ UNCHANGED subject
  /\ \/ subject = "scaler" /\ Next /\ UNCHANGED <<policy, backpressure>>
     \/ subject = "policy" /\ Policy!Next /\ UNCHANGED <<vars, backpressure>>
     \/ subject = "backpressure" /\ Pressure!Next /\ UNCHANGED <<vars, policy>>

AutoscalingSpec == AutoscalingInit /\ [][AutoscalingNext]_autoscalingVars

(* A component at rest has no fair action enabled.                         *)
FairAutoscalingSpec == AutoscalingSpec /\ Fairness /\ Policy!Fairness

-----------------------------------------------------------------------------
(* Every component keeps its types.                                        *)
AllTypes ==
  /\ TypeOK /\ Pressure!TypeOK
  /\ subject = "policy" => Policy!TypeOK

(* A decision to scale out never stops an instance nor exceeds the         *)
(* maximum, none goes below the minimum (engine.go:137, autoscaler.go:330).*)
OutNeverStops == Policy!OutNeverStops

(* The level is the most common of its window (coordinator.go:280).        *)
LevelSmoothed == Pressure!LevelSmoothed

(* With nothing else to change the chain of rules is followed to its end   *)
(* (cascade.go:105).                                                       *)
CascadesSettle == Policy!CascadesSettle
=============================================================================

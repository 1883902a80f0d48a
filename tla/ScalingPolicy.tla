----------------------------- MODULE ScalingPolicy -----------------------------
(***************************************************************************)
(* The rounds of the autoscaler's scaling loop, for all services: the      *)
(* engine decides for each, the cascade rules add decisions that follow    *)
(* from the size of another service, and all are applied in turn.  What    *)
(* starting and stopping one instance consists of is in Autoscaler; here   *)
(* only their numbers count.                                               *)
(*                                                                         *)
(* Readings of the metrics are free.  Cooldowns and delays end at any time.*)
(***************************************************************************)
EXTENDS Integers, Sequences, FiniteSets

CONSTANTS
  Services,
  MinInstances, MaxInstances,   (* service -> number                       *)
  OutStep, InStep,              (* increments, the same for all            *)
  Rules,                        (* sequence, by priority: [trigger,        *)
                                (*   threshold, target, percent, min, max] *)
  MaxDead,                      (* bound: more dead records are not told apart *)
  MaxLive                       (* bound: starting more than these fails   *)

ScalingPolicyAssumption ==
  /\ IsFiniteSet(Services) /\ OutStep \in Nat \ {0} /\ InStep \in Nat \ {0} /\ MaxDead \in Nat /\ MaxLive \in Nat
  /\ MinInstances \in [Services -> 0..MaxLive] /\ MaxInstances \in [Services -> Nat \ {0}]
  /\ \A s \in Services : MinInstances[s] <= MaxInstances[s]
  /\ \A i \in DOMAIN Rules : Rules[i].trigger # Rules[i].target
       /\ {Rules[i].trigger, Rules[i].target} \subseteq Services
       /\ {Rules[i].threshold, Rules[i].percent, Rules[i].min, Rules[i].max} \subseteq Nat
       /\ MinInstances[Rules[i].target] <= Rules[i].min /\ Rules[i].min <= Rules[i].max
       /\ Rules[i].max <= MaxInstances[Rules[i].target]

VARIABLES
  live,      (* service -> records that are starting or running            *)
  dead,      (* service -> records that are not: stopped, failed, stale    *)
  cooling,   (* services in cooldown                                       *)
  delayed,   (* rules whose delay has not passed since they were executed  *)
  pc,        (* of the round: "idle", "cascade", "apply"                   *)
  planned,   (* decisions of the engine: [service, action, target]         *)
  cascades   (* decisions of the rules: [rule, target]                     *)

vars == <<live, dead, cooling, delayed, pc, planned, cascades>>

Smaller(m, n) == IF m < n THEN m ELSE n
Larger(m, n)  == IF m > n THEN m ELSE n
Order == DOMAIN Rules

(* GetServiceState counts every record there is.                           *)
Counted(s) == live[s] + dead[s]

(* Start has brought every service to its minimum.                         *)
Init ==
  /\ live = MinInstances /\ dead = [s \in Services |-> 0]
  /\ cooling = {} /\ delayed = {} /\ pc = "idle" /\ planned = {} /\ cascades = {}

-----------------------------------------------------------------------------
OutOfLive(s) ==   \* mutant: counts what is live
  [service |-> s, action |-> "out", target |-> Smaller(live[s] + OutStep, MaxInstances[s])]

ScaleOut(s) ==
  [service |-> s, action |-> "out", target |-> Smaller(Counted(s) + OutStep, MaxInstances[s])]

ScaleIn(s) ==
  [service |-> s, action |-> "in", target |-> Larger(Counted(s) - InStep, MinInstances[s])]

(* EvaluateService: the decisions that some reading leads to.  Healthy     *)
(* instances are live, and scaling in keeps 20% above the minimum.         *)
Choices(s) ==
  {{}} \cup
  (IF s \notin cooling /\ Counted(s) < MaxInstances[s] THEN {{ScaleOut(s)}} ELSE {}) \cup
  (IF /\ s \notin cooling /\ Counted(s) > MinInstances[s] /\ live[s] > MinInstances[s]
      /\ 5 * Counted(s) > 6 * MinInstances[s]
   THEN {{ScaleIn(s)}} ELSE {})

EvaluateAll ==
  /\ pc = "idle" /\ pc' = "cascade"
  /\ \E choice \in [Services -> UNION {Choices(s) : s \in Services}] :
       /\ \A s \in Services : choice[s] \in Choices(s)
       /\ planned' = UNION {choice[s] : s \in Services}
  /\ UNCHANGED <<live, dead, cooling, delayed, cascades>>

calculateTargetInstances(rule, n) ==
  Smaller(rule.max, Larger(rule.min, (n * rule.percent) \div 100))

Due ==
  {i \in Order : LET rule == Rules[i]
                 IN /\ live[rule.trigger] >= rule.threshold
                    /\ i \notin delayed
                    /\ calculateTargetInstances(rule, live[rule.trigger]) # live[rule.target]}

EvaluateCascades ==
  /\ pc = "cascade" /\ pc' = "apply"
  /\ cascades' = {[rule |-> i, target |-> calculateTargetInstances(Rules[i], live[Rules[i].trigger])] :
                    i \in Due}
  /\ delayed' = delayed \cup Due
  /\ UNCHANGED <<live, dead, cooling, planned>>

(* evaluateScaling's last loop and ScaleService: as many are started or    *)
(* stopped as it takes from what is live by now, or fewer if one fails;    *)
(* then there is no cooldown.                                              *)
ScaleService(s, target) ==
  \E n \in {k \in 0..MaxLive : (live[s] <= k /\ k <= target) \/ (target <= k /\ k <= live[s])} :
    /\ live' = [live EXCEPT ![s] = n]
    /\ dead' = [dead EXCEPT ![s] = Smaller(MaxDead, @ + Larger(live[s] - n, 0))]
    /\ cooling' = IF n = target /\ target # live[s] THEN cooling \cup {s} ELSE cooling

ApplyDecision(d) ==
  /\ pc = "apply"
  /\ ScaleService(d.service, d.target)
  /\ planned' = planned \ {d}
  /\ UNCHANGED <<delayed, pc, cascades>>

(* The engine's decisions come first, those of the rules in their order.   *)
ApplyCascade(c) ==
  /\ pc = "apply" /\ planned = {} /\ \A other \in cascades : c.rule <= other.rule
  /\ ScaleService(Rules[c.rule].target, c.target)
  /\ cascades' = cascades \ {c}
  /\ UNCHANGED <<delayed, pc, planned>>

RoundEnds ==
  /\ pc = "apply" /\ planned = {} /\ cascades = {} /\ pc' = "idle"
  /\ UNCHANGED <<live, dead, cooling, delayed, planned, cascades>>

-----------------------------------------------------------------------------
CooldownEnds(s) ==
  /\ s \in cooling /\ cooling' = cooling \ {s}
  /\ UNCHANGED <<live, dead, delayed, pc, planned, cascades>>

DelayKept(i) ==   \* mutant: a rule is not executed a second time
  i \in delayed /\ i \notin delayed /\ UNCHANGED vars

DelayEnds(i) ==
  /\ i \in delayed /\ delayed' = delayed \ {i}
  /\ UNCHANGED <<live, dead, cooling, pc, planned, cascades>>

(* A process dies, or the registry's cleanup finds its record stale.       *)
Fade(s) ==
  /\ live[s] > 0
  /\ live' = [live EXCEPT ![s] = @ - 1]
  /\ dead' = [dead EXCEPT ![s] = Smaller(MaxDead, @ + 1)]
  /\ UNCHANGED <<cooling, delayed, pc, planned, cascades>>

(* The start-up timer of an instance that was stopped or has died.         *)
Revive(s) ==
  /\ dead[s] > 0 /\ live[s] < MaxLive
  /\ live' = [live EXCEPT ![s] = @ + 1]
  /\ dead' = [dead EXCEPT ![s] = @ - 1]
  /\ UNCHANGED <<cooling, delayed, pc, planned, cascades>>

Next ==
  \/ EvaluateAll \/ EvaluateCascades \/ RoundEnds
  \/ \E d \in planned : ApplyDecision(d)
  \/ \E c \in cascades : ApplyCascade(c)
  \/ \E s \in Services : CooldownEnds(s) \/ Fade(s) \/ Revive(s)
  \/ \E i \in Order : DelayEnds(i)

Spec == Init /\ [][Next]_vars

(* The ticker brings the next round, each comes to its end, delays pass.   *)
Fairness ==
  /\ WF_vars(EvaluateAll) /\ WF_vars(EvaluateCascades) /\ WF_vars(RoundEnds)
  /\ WF_vars(\E d \in planned : ApplyDecision(d))
  /\ WF_vars(\E c \in cascades : ApplyCascade(c))
  /\ \A i \in Order : WF_vars(DelayEnds(i))

FairSpec == Spec /\ Fairness

-----------------------------------------------------------------------------
Decisions == [service : Services, action : {"out", "in"}, target : Nat]

TypeOK ==
  /\ live \in [Services -> 0..MaxLive] /\ dead \in [Services -> 0..MaxDead]
  /\ cooling \subseteq Services /\ delayed \subseteq Order
  /\ pc \in {"idle", "cascade", "apply"} /\ (pc = "idle" => planned = {} /\ cascades = {})
  /\ \A d \in planned : d \in Decisions
  /\ \A c \in cascades : c.rule \in Order /\ c.target \in Nat

(* A decision to scale out is computed from every record there is, and     *)
(* applied later to what is live by then, after instances have died or     *)
(* have come back: it never stops one and never goes beyond the maximum;   *)
(* and no decision takes a service below its minimum                       *)
(* (EvaluateService, evaluateScaling, ScaleService).                       *)
OutKeeps ==
  \A s \in Services :
    /\ \A d \in planned \ planned' : d.service = s /\ d.action = "out" =>
         live'[s] >= live[s] /\ (live'[s] = live[s] \/ live'[s] <= MaxInstances[s])
    /\ live'[s] < live[s] /\ (planned' # planned \/ cascades' # cascades) /\ pc = "apply" =>
         live'[s] >= MinInstances[s]
OutNeverStops == [][OutKeeps]_vars

(* Nothing changes but what a rule decides, and that entirely.             *)
Calm ==
  /\ \A c \in cascades \ cascades' : live'[Rules[c.rule].target] = c.target
  /\ \A s \in Services : live'[s] # live[s] =>
       \E c \in cascades \ cascades' : Rules[c.rule].target = s

Followed ==
  \A i \in Order :
    live[Rules[i].trigger] >= Rules[i].threshold =>
      live[Rules[i].target] = calculateTargetInstances(Rules[i], live[Rules[i].trigger])

(* Once the engine has nothing to change, nothing dies or comes back and   *)
(* nothing fails, the services follow their rules, the whole chain of      *)
(* them: a delay only postpones a rule (EvaluateCascades, isInCooldown).   *)
CascadesSettle ==
  <>[](planned = {}) /\ <>[][Calm]_vars => <>[]Followed

(* Refuted: a decision to scale in starts nothing.  Its target is one less *)
(* than the records there are, the dead included (engine.go:160).          *)
ScaleInStops ==
  [][\A d \in planned \ planned' : d.action = "in" => live'[d.service] <= live[d.service]]_vars

(* Refuted, for the same reason: no service outgrows its maximum.          *)
MaxHeld == \A s \in Services : live[s] <= MaxInstances[s]

(* Refuted: a service in cooldown is left alone.  The rules do not ask.    *)
CooldownHeld ==
  [][\A s \in cooling \cap cooling' : live'[s] # live[s] =>
       planned' = planned /\ cascades' = cascades]_vars

(* Refuted: a service that has grown is followed by more of the next: a    *)
(* half of three gateways is one ingester, however many its load wants     *)
(* (autoscaler.go:82).                                                     *)
CascadesGrow ==
  [][\A c \in cascades \ cascades' : live'[Rules[c.rule].target] >= live[Rules[c.rule].target]]_vars
=============================================================================

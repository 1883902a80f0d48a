-------------------------- MODULE AutoscalingProofs --------------------------
(***************************************************************************)
(* Proofs about the autoscaler's parts, for any limits of the services,    *)
(* any number of ports, of instances ever started, of crashes, any cascade *)
(* rules and any smoothing window: first about the specification of each   *)
(* part, then about Autoscaling, which runs one of them.                   *)
(*                                                                         *)
(* Autoscaler.  NoOrphans is not inductive: a monitor removes an instance  *)
(* some time after it saw the process dead, without looking again.         *)
(* LockedAreDead says that such a process stays dead.  NoPanic needs to    *)
(* know who has closed the channel of an instance that is still in the     *)
(* table, which is ClosedOnceIn: only who is inside StopInstance.          *)
(***************************************************************************)
EXTENDS Autoscaling, Sequences, FiniteSetTheorems, TLAPS

(* Numbers of instances.                                                   *)
LEMMA CountRange ==
  ASSUME NEW S \in SUBSET Ids
  PROVE  Cardinality(S) \in 0..MaxStarts
<1>1. IsFiniteSet(Ids) /\ Cardinality(Ids) = MaxStarts
  <2>1. MaxStarts \in Nat
    BY AutoscalerAssumption DEF AutoscalerAssumption
  <2>2. IsFiniteSet(1..MaxStarts)
        /\ Cardinality(1..MaxStarts) = IF 1 > MaxStarts THEN 0 ELSE MaxStarts - 1 + 1
    BY <2>1, FS_Interval
  <2>3. (IF 1 > MaxStarts THEN 0 ELSE MaxStarts - 1 + 1) = MaxStarts
    BY <2>1, SMT
  <2> QED BY <2>2, <2>3 DEF Ids
<1>2. IsFiniteSet(S) /\ Cardinality(S) <= Cardinality(Ids)
  BY <1>1, FS_Subset
<1>3. Cardinality(S) \in Nat
  BY <1>2, FS_CardinalityType
<1> QED BY <1>1, <1>2, <1>3, AutoscalerAssumption, SMT DEF AutoscalerAssumption

(* What the engine decides and what is left to do are numbers of instances.*)
LEMMA TargetRange ==
  /\ MinInstances \in Targets /\ MaxInstances \in Targets
  /\ \A n \in 0..MaxStarts :
       /\ Smaller(n + OutStep, MaxInstances) \in Targets
       /\ Larger(n - InStep, MinInstances) \in Targets
       /\ \A t \in Targets : n < t => t - n \in Targets /\ t - n # 0
BY AutoscalerAssumption, SMT DEF AutoscalerAssumption, Targets, Smaller, Larger

(* The registry's records keep their type whatever is reported.            *)
LEMMA StatusType ==
  ASSUME status \in [Ids -> Statuses], NEW S, NEW s \in Statuses, UpdateStatus(S, s)
  PROVE  status' \in [Ids -> Statuses]
BY DEF UpdateStatus

(* A decision, an allocation of work to the scaler.                        *)
LEMMA ScalerType ==
  /\ Resting \in ScalerState
  /\ \A p \in {"idle", "apply", "start", "stop"}, action \in {"none", "out", "in"},
        t, n \in Targets, S \in SUBSET Ids :
       [pc |-> p, action |-> action, target |-> t, todo |-> n, victims |-> S] \in ScalerState
<1>1. 0 \in Targets
  BY AutoscalerAssumption, SMT DEF AutoscalerAssumption, Targets, Larger
<1> QED BY <1>1 DEF Resting, ScalerState

-----------------------------------------------------------------------------
Typed ==
  /\ TypeOK
  /\ scaler.pc = "start" => scaler.todo # 0
  /\ mu.by = "scaler" => scaler.pc = "stop"

USE DEF controllerVars

(* The scaler's steps that only decide.                                    *)
LEMMA DecisionType ==
  ASSUME Typed, EvaluateService \/ ApplyDecisions
  PROVE  scaler' \in ScalerState /\ (scaler'.pc = "start" => scaler'.todo # 0)
<1>1. /\ Cardinality(Registered) \in 0..MaxStarts /\ Cardinality(Live) \in 0..MaxStarts
      /\ scaler \in ScalerState
  BY CountRange DEF Registered, Live, Typed, TypeOK
<1>2. /\ scaler.pc \in {"idle", "apply", "start", "stop"} /\ scaler.action \in {"none", "out", "in"}
      /\ scaler.target \in Targets /\ scaler.todo \in Targets /\ scaler.victims \in SUBSET Ids
      /\ scaler = [pc |-> scaler.pc, action |-> scaler.action, target |-> scaler.target,
                   todo |-> scaler.todo, victims |-> scaler.victims]
  BY <1>1 DEF ScalerState
<1>3. CASE EvaluateService
  <2>1. \E action \in {"out", "in"}, t \in Targets :
          scaler' = [pc |-> "apply", action |-> action, target |-> t, todo |-> 0, victims |-> {}]
    BY <1>1, <1>3, TargetRange DEF EvaluateService, ScaleOut, ScaleIn, Resting
  <2>2. 0 \in Targets
    BY ScalerType DEF Resting, ScalerState
  <2> QED BY <2>1, <2>2, ScalerType
<1>4. CASE ApplyDecisions
  <2> DEFINE n == Cardinality(Live)
  <2>1. CASE scaler' = Resting
    BY <2>1, ScalerType DEF Resting
  <2>2. CASE n < scaler.target /\ scaler' = [scaler EXCEPT !.pc = "start", !.todo = scaler.target - n]
    <3>1. scaler.target - n \in Targets /\ scaler.target - n # 0
      BY <1>1, <1>2, <2>2, TargetRange
    <3>2. scaler' = [pc |-> "start", action |-> scaler.action, target |-> scaler.target,
                     todo |-> scaler.target - n, victims |-> scaler.victims]
      BY <1>2, <2>2
    <3> QED BY <1>2, <3>1, <3>2, ScalerType
  <2>3. ASSUME NEW S \in SUBSET Live, scaler' = [scaler EXCEPT !.pc = "stop", !.victims = S]
        PROVE  scaler' \in ScalerState /\ scaler'.pc # "start"
    <3>1. scaler' = [pc |-> "stop", action |-> scaler.action, target |-> scaler.target,
                     todo |-> scaler.todo, victims |-> S]
      BY <1>2, <2>3
    <3>2. S \in SUBSET Ids
      BY DEF Live
    <3> QED BY <1>2, <3>1, <3>2, ScalerType
  <2> QED BY <1>4, <2>1, <2>2, <2>3 DEF ApplyDecisions
<1> QED BY <1>3, <1>4

(* The scaler's steps that end a piece of work.                            *)
LEMMA ProgressType ==
  ASSUME Typed
  PROVE  /\ \A i \in Ids : StartInstance(i) =>
              scaler' \in ScalerState /\ (scaler'.pc = "start" => scaler'.todo # 0)
              /\ cooling' \in BOOLEAN
         /\ ScalerStopped => scaler' \in ScalerState /\ scaler'.pc # "start" /\ cooling' \in BOOLEAN
<1>1. /\ scaler.pc \in {"idle", "apply", "start", "stop"} /\ scaler.action \in {"none", "out", "in"}
      /\ scaler.target \in Targets /\ scaler.todo \in Targets /\ scaler.victims \in SUBSET Ids
      /\ scaler = [pc |-> scaler.pc, action |-> scaler.action, target |-> scaler.target,
                   todo |-> scaler.todo, victims |-> scaler.victims]
  BY DEF ScalerState, Typed, TypeOK
<1>2. Scaled => scaler' \in ScalerState /\ scaler'.pc # "start" /\ cooling' \in BOOLEAN
  BY ScalerType DEF Scaled, Resting
<1>3. ASSUME NEW i \in Ids, StartInstance(i)
      PROVE  scaler' \in ScalerState /\ (scaler'.pc = "start" => scaler'.todo # 0)
             /\ cooling' \in BOOLEAN
  <2>1. CASE scaler.todo = 1
    BY <1>2, <1>3, <2>1 DEF StartInstance
  <2>2. CASE scaler.todo # 1
    <3>1. scaler.todo - 1 \in Targets /\ scaler.todo - 1 # 0
      <4>1. scaler.todo # 0 /\ scaler.todo \in Targets
        BY <1>1, <1>3 DEF StartInstance, Typed
      <4>2. Larger(MaxInstances, MaxStarts) \in Nat
        BY AutoscalerAssumption, SMT DEF AutoscalerAssumption, Larger
      <4> QED BY <2>2, <4>1, <4>2, SMT DEF Targets
    <3>2. scaler' = [pc |-> scaler.pc, action |-> scaler.action, target |-> scaler.target,
                     todo |-> scaler.todo - 1, victims |-> scaler.victims]
          /\ cooling' = cooling
      BY <1>1, <1>3, <2>2 DEF StartInstance
    <3> QED BY <1>1, <3>1, <3>2, ScalerType DEF Typed, TypeOK
  <2> QED BY <2>1, <2>2
<1>4. ASSUME ScalerStopped
      PROVE  scaler' \in ScalerState /\ scaler'.pc # "start" /\ cooling' \in BOOLEAN
  <2>1. CASE scaler.victims = {mu.victim}
    BY <1>2, <1>4, <2>1 DEF ScalerStopped
  <2>2. CASE scaler.victims # {mu.victim}
    <3>1. scaler' = [pc |-> scaler.pc, action |-> scaler.action, target |-> scaler.target,
                     todo |-> scaler.todo, victims |-> scaler.victims \ {mu.victim}]
          /\ cooling' = cooling
      BY <1>1, <1>4, <2>2 DEF ScalerStopped
    <3>2. scaler.victims \ {mu.victim} \in SUBSET Ids /\ scaler.pc # "start"
      BY <1>1, <1>4 DEF ScalerStopped, Typed
    <3> QED BY <1>1, <3>1, <3>2, ScalerType DEF Typed, TypeOK
  <2> QED BY <2>1, <2>2
<1> QED BY <1>3, <1>4

(* Locking and unlocking by StopInstance.                                  *)
LEMMA LockType ==
  /\ Unlocked \in [by : {"nobody", "scaler", "main"}, victim : Ids \cup {0}]
  /\ Unlocked.by = "nobody"
  /\ \A who \in {"scaler", "main"}, i \in Ids :
       [by |-> who, victim |-> i] \in [by : {"nobody", "scaler", "main"}, victim : Ids \cup {0}]
BY DEF Unlocked

LEMMA TypedStep == Typed /\ [Next]_vars => Typed'
<1> SUFFICES ASSUME Typed, [Next]_vars PROVE Typed'
  OBVIOUS
<1> USE DEF Typed, TypeOK
<1>1. CASE EvaluateService \/ ApplyDecisions
  <2>1. scaler' \in ScalerState /\ (scaler'.pc = "start" => scaler'.todo # 0)
    BY <1>1, DecisionType
  <2>2. mu.by # "scaler"
    BY <1>1 DEF EvaluateService, ApplyDecisions
  <2>3. UNCHANGED <<registryVars, controllerVars, process, mu, system, rest, cooling, crashes>>
    BY <1>1 DEF EvaluateService, ApplyDecisions
  <2> QED BY <2>1, <2>2, <2>3 DEF registryVars
<1>2. ASSUME NEW i \in Ids, StartInstance(i) PROVE Typed'
  <2>1. /\ scaler' \in ScalerState /\ (scaler'.pc = "start" => scaler'.todo # 0)
        /\ cooling' \in BOOLEAN /\ mu.by # "scaler"
    BY <1>2, ProgressType DEF StartInstance
  <2>2. PICK p \in Ports : allocated' = allocated \cup {p} /\ port' = [port EXCEPT ![i] = p]
    BY <1>2 DEF StartInstance
  <2>3. p # NoPort
    BY AutoscalerAssumption, SMT DEF AutoscalerAssumption, Ports, NoPort
  <2>4. /\ status' = [status EXCEPT ![i] = "starting"] /\ process' = [process EXCEPT ![i] = "alive"]
        /\ managed' = managed \cup {i} /\ monitor' = [monitor EXCEPT ![i] = "watch"]
        /\ timers' = timers \cup {i} /\ mu = Unlocked
        /\ UNCHANGED <<stopped, mu, system, rest, crashes>>
    BY <1>2 DEF StartInstance
  <2>5. status' \in [Ids -> Statuses] /\ process' \in [Ids -> Processes]
        /\ monitor' \in [Ids -> {"none", "watch", "lock", "done"}]
    BY <2>4 DEF Statuses, Processes
  <2>6. \A j \in managed' : port'[j] # NoPort /\ process'[j] # "none"
    BY <2>2, <2>3, <2>4
  <2> QED BY <2>1, <2>2, <2>4, <2>5, <2>6
<1>3. CASE StartFails
  BY <1>3, ScalerType DEF StartFails, registryVars, Resting
<1>4. ASSUME NEW i \in Ids, ScalerStops(i) PROVE Typed'
  <2>1. status' \in [Ids -> Statuses]
    BY <1>4, StatusType DEF ScalerStops, SignalStop, Statuses
  <2>2. mu' \in [by : {"nobody", "scaler", "main"}, victim : Ids \cup {0}] /\ mu'.victim = i
    BY <1>4, LockType DEF ScalerStops
  <2> QED BY <1>4, <2>1, <2>2 DEF ScalerStops, SignalStop
<1>5. ASSUME ProcessStopped(mu.victim), mu' = Unlocked,
             scaler' \in ScalerState /\ (scaler'.pc = "start" => scaler'.todo # 0),
             cooling' \in BOOLEAN, system' = system, rest' \subseteq rest
      PROVE  Typed'
  <2>1. status' \in [Ids -> Statuses]
    BY <1>5, StatusType DEF ProcessStopped, Statuses
  <2>2. process' \in [Ids -> Processes]
    BY <1>5 DEF ProcessStopped, Processes
  <2>3. /\ managed' = managed \ {mu.victim} /\ allocated' \subseteq allocated
        /\ \A j \in Ids : process'[j] = "none" => process[j] = "none"
    BY <1>5 DEF ProcessStopped, Release
  <2> QED BY <1>5, <2>1, <2>2, <2>3, LockType DEF ProcessStopped
<1>6. CASE ScalerStopped
  <2>1. scaler' \in ScalerState /\ scaler'.pc # "start" /\ cooling' \in BOOLEAN
    BY <1>6, ProgressType
  <2> QED BY <1>5, <1>6, <2>1 DEF ScalerStopped
<1>7. CASE ScalerGivesUp
  <2>1. UNCHANGED <<registryVars, controllerVars, process, crashes, system, rest, cooling>>
    BY <1>7 DEF ScalerGivesUp, KillFails
  <2>2. mu' = Unlocked /\ scaler' = Resting
    BY <1>7 DEF ScalerGivesUp
  <2>3. scaler'.pc # "start"
    BY <2>2 DEF Resting
  <2> QED BY <2>1, <2>2, <2>3, LockType, ScalerType DEF registryVars
<1>8. CASE Shutdown
  BY <1>8 DEF Shutdown, registryVars
<1>9. CASE Drained
  BY <1>9 DEF Drained, registryVars
<1>10. ASSUME NEW i \in Ids, MainStops(i) PROVE Typed'
  <2>1. status' \in [Ids -> Statuses]
    BY <1>10, StatusType DEF MainStops, SignalStop, Statuses
  <2>2. mu' \in [by : {"nobody", "scaler", "main"}, victim : Ids \cup {0}] /\ mu'.victim = i
        /\ mu'.by = "main"
    BY <1>10, LockType DEF MainStops
  <2> QED BY <1>10, <2>1, <2>2 DEF MainStops, SignalStop
<1>11. CASE MainStopped
  <2>1. mu' = Unlocked /\ UNCHANGED <<scaler, system, cooling>> /\ rest' \subseteq rest
    BY <1>11 DEF MainStopped
  <2>2. CASE ProcessStopped(mu.victim)
    BY <1>5, <2>1, <2>2
  <2>3. CASE KillFails(mu.victim)
    BY <2>1, <2>3, LockType DEF KillFails, registryVars
  <2> QED BY <1>11, <2>2, <2>3 DEF MainStopped
<1>12. ASSUME NEW i \in Ids, MainSkips(i) PROVE Typed'
  BY <1>12 DEF MainSkips, registryVars
<1>13. CASE Close
  <2>1. status' \in [Ids -> Statuses]
    BY <1>13, StatusType DEF Close, Statuses
  <2>2. process' \in [Ids -> Processes]
    BY <1>13 DEF Close, Processes
  <2> QED BY <1>13, <2>1, <2>2 DEF Close
<1>14. CASE Panic
  BY <1>14 DEF Panic, registryVars
<1>15. ASSUME NEW i \in Ids, Serve(i) \/ Crash(i) \/ Reap(i) PROVE Typed'
  <2>1. /\ process' \in [Ids -> Processes] /\ (\A j \in Ids : process'[j] = "none" => process[j] = "none")
        /\ UNCHANGED <<registryVars, controllerVars, mu, scaler, system, rest, cooling>>
    BY <1>15 DEF Serve, Crash, Reap, Processes
  <2>2. crashes' \in 0..MaxCrashes
    <3>1. crashes < MaxCrashes => crashes + 1 \in 0..MaxCrashes
      BY AutoscalerAssumption, SMT DEF AutoscalerAssumption
    <3> QED BY <1>15, <3>1 DEF Serve, Crash, Reap
  <2> QED BY <2>1, <2>2 DEF registryVars
<1>16. ASSUME NEW i \in Ids, ReportRunning(i) PROVE Typed'
  <2>1. status' \in [Ids -> Statuses]
    BY <1>16, StatusType DEF ReportRunning, Statuses
  <2> QED BY <1>16, <2>1 DEF ReportRunning
<1>17. ASSUME NEW i \in Ids, MonitorTick(i) PROVE Typed'
  BY <1>17 DEF MonitorTick, registryVars
<1>18. ASSUME NEW i \in Ids, MonitorRemoves(i) PROVE Typed'
  <2>1. status' \in [Ids -> Statuses]
    BY <1>18, StatusType DEF MonitorRemoves, Statuses
  <2> QED BY <1>18, <2>1 DEF MonitorRemoves, Release
<1>19. CASE Cleanup
  <2>1. status' \in [Ids -> Statuses]
    BY <1>19, StatusType DEF Cleanup, Statuses
  <2>2. allocated' \subseteq allocated /\ managed' \subseteq managed /\ mu = Unlocked
    BY <1>19 DEF Cleanup
  <2> QED BY <1>19, <2>1, <2>2 DEF Cleanup
<1>20. CASE RegistryCleanup
  <2>1. status' \in [Ids -> Statuses]
    BY <1>20 DEF RegistryCleanup, Statuses
  <2> QED BY <1>20, <2>1 DEF RegistryCleanup
<1>21. CASE CooldownEnds
  BY <1>21 DEF CooldownEnds, registryVars
<1>22. CASE UNCHANGED vars
  BY <1>22 DEF vars, registryVars
<1> QED BY <1>1, <1>2, <1>3, <1>4, <1>6, <1>7, <1>8, <1>9, <1>10, <1>11, <1>12, <1>13, <1>14,
           <1>15, <1>16, <1>17, <1>18, <1>19, <1>20, <1>21, <1>22
        DEF Next, ScalingLoop, Main, Environment, Background

LEMMA InitTyped == Init => Typed
<1> SUFFICES ASSUME Init PROVE Typed
  OBVIOUS
<1>1. scaler \in ScalerState /\ (scaler.pc = "start" => scaler.todo # 0)
  <2>1. CASE MinInstances = 0
    BY <2>1, ScalerType DEF Init, Resting
  <2>2. CASE MinInstances # 0
    <3>1. scaler = [pc |-> "start", action |-> "none", target |-> 0, todo |-> MinInstances,
                    victims |-> {}]
      BY <2>2 DEF Init, Resting
    <3>2. 0 \in Targets /\ MinInstances \in Targets
      BY TargetRange, ScalerType DEF Resting, ScalerState
    <3> QED BY <2>2, <3>1, <3>2, ScalerType
  <2> QED BY <2>1, <2>2
<1>2. crashes \in 0..MaxCrashes
  BY AutoscalerAssumption, SMT DEF AutoscalerAssumption, Init
<1>3. /\ status \in [Ids -> Statuses] /\ process \in [Ids -> Processes]
      /\ monitor \in [Ids -> {"none", "watch", "lock", "done"}] /\ port \in [Ids -> Ports \cup {NoPort}]
  BY DEF Init, Statuses, Processes
<1> QED BY <1>1, <1>2, <1>3, LockType DEF Init, Typed, TypeOK

(* Type correctness: every managed instance has a port and a process, and  *)
(* whoever is inside StopInstance stops a managed instance.                *)
THEOREM TypeCorrect == Spec => []TypeOK
<1>1. Typed => TypeOK
  BY DEF Typed
<1> QED BY <1>1, InitTyped, TypedStep, PTL DEF Spec

-----------------------------------------------------------------------------
(* A process that exists is managed; one whose monitor waits to remove it  *)
(* is dead, and stays dead.                                                *)
ProcessesManaged == \A i \in Ids : Exists(i) => i \in managed
LockedAreDead == \A i \in Ids : monitor[i] = "lock" => process[i] = "dead"

(* As long as no process has died by itself, the channel of an instance    *)
(* in the table is closed only while StopInstance is stopping it.          *)
ClosedOnceIn ==
  /\ stopped \subseteq Started
  /\ crashes = 0 => /\ \A i \in Ids : process[i] # "gone"
                    /\ \A i \in managed \cap stopped : mu # Unlocked /\ mu.victim = i

Tracked == NoPortLeak /\ ProcessesManaged /\ LockedAreDead /\ ClosedOnceIn

(* The ports that are left when the instances S go.                        *)
LEMMA PortsAfter ==
  ASSUME NoPortLeak, NEW S
  PROVE  allocated \ {port[i] : i \in S} \subseteq {port[i] : i \in managed \ S}
BY DEF NoPortLeak

(* A step that leaves the controller's table, the processes and the        *)
(* monitors alone, or takes a lock that was free.                          *)
LEMMA QuietStep ==
  ASSUME Typed, Tracked, UNCHANGED <<managed, port, allocated, monitor, stopped, process, crashes>>,
         mu' = mu \/ mu = Unlocked
  PROVE  Tracked'
BY DEF Tracked, NoPortLeak, ProcessesManaged, LockedAreDead, ClosedOnceIn, Exists, Started

(* The lock is taken for the instance whose channel is closed.             *)
LEMMA SignalStep ==
  ASSUME Typed, Tracked, NEW i \in Ids, SignalStop(i), mu = Unlocked,
         NEW who \in {"scaler", "main"}, mu' = [by |-> who, victim |-> i]
  PROVE  Tracked'
<1>1. /\ UNCHANGED <<managed, port, allocated, monitor, process, crashes>>
      /\ i \in managed /\ stopped' = stopped \cup {i}
  BY DEF SignalStop, controllerVars
<1>2. mu' # Unlocked /\ mu'.victim = i
  BY DEF Unlocked
<1>3. ClosedOnceIn'
  BY <1>1, <1>2 DEF Tracked, ClosedOnceIn, Typed, TypeOK, Started
<1> QED BY <1>1, <1>3 DEF Tracked, NoPortLeak, ProcessesManaged, LockedAreDead, Exists

(* The victim is dead, its port is back and it is forgotten.               *)
LEMMA StoppedStep ==
  ASSUME Typed, Tracked, ProcessStopped(mu.victim), mu # Unlocked, mu' = Unlocked
  PROVE  Tracked'
<1> DEFINE i == mu.victim
<1>1. /\ process' = [process EXCEPT ![i] = "dead"] /\ allocated' = allocated \ {port[i]}
      /\ managed' = managed \ {i} /\ UNCHANGED <<port, monitor, stopped, crashes>>
      /\ i \in managed /\ i \in Ids
  BY DEF ProcessStopped, Release, Typed, TypeOK
<1>2. NoPortLeak'
  BY <1>1, PortsAfter DEF Tracked, NoPortLeak
<1>3. process \in [Ids -> Processes] /\ \A j \in Ids : process'[j] = IF j = i THEN "dead" ELSE process[j]
  BY <1>1 DEF Typed, TypeOK
<1>4. ProcessesManaged' /\ LockedAreDead'
  BY <1>1, <1>3 DEF Tracked, ProcessesManaged, LockedAreDead, Exists
<1>5. ClosedOnceIn'
  BY <1>1, <1>3 DEF Tracked, ClosedOnceIn, Started
<1> QED BY <1>2, <1>4, <1>5 DEF Tracked

LEMMA TrackedStep == Typed /\ Typed' /\ Tracked /\ [Next]_vars => Tracked'
<1> SUFFICES ASSUME Typed, Typed', Tracked, [Next]_vars PROVE Tracked'
  OBVIOUS
<1>1. ASSUME NEW i \in Ids, StartInstance(i) PROVE Tracked'
  <2>1. PICK p \in Ports : allocated' = allocated \cup {p} /\ port' = [port EXCEPT ![i] = p]
    BY <1>1 DEF StartInstance
  <2>2. /\ process[i] = "none" /\ process' = [process EXCEPT ![i] = "alive"]
        /\ managed' = managed \cup {i} /\ monitor' = [monitor EXCEPT ![i] = "watch"]
        /\ mu = Unlocked /\ UNCHANGED <<stopped, mu, crashes>>
    BY <1>1 DEF StartInstance
  <2>3. i \notin managed /\ i \notin stopped
    BY <2>2 DEF Tracked, ClosedOnceIn, Started, Typed, TypeOK
  <2>4. NoPortLeak'
    BY <2>1, <2>2, <2>3 DEF Tracked, NoPortLeak, Typed, TypeOK
  <2>5. \A j \in Ids : /\ process'[j] = IF j = i THEN "alive" ELSE process[j]
                       /\ monitor'[j] = IF j = i THEN "watch" ELSE monitor[j]
    BY <2>2 DEF Typed, TypeOK
  <2>6. ProcessesManaged' /\ LockedAreDead'
    BY <2>2, <2>5 DEF Tracked, ProcessesManaged, LockedAreDead, Exists
  <2>7. ClosedOnceIn'
    BY <2>2, <2>3, <2>5 DEF Tracked, ClosedOnceIn, Started
  <2> QED BY <2>4, <2>6, <2>7 DEF Tracked
<1>2. ASSUME NEW i \in Ids, ScalerStops(i) \/ MainStops(i) PROVE Tracked'
  BY <1>2, SignalStep DEF ScalerStops, MainStops
<1>3. CASE ScalerStopped \/ (MainStopped /\ ProcessStopped(mu.victim))
  BY <1>3, StoppedStep DEF ScalerStopped, MainStopped, Unlocked
<1>4. ASSUME KillFails(mu.victim), mu # Unlocked, mu' = Unlocked PROVE Tracked'
  <2>1. mu.victim \in Ids /\ process[mu.victim] = "gone"
    BY <1>4 DEF KillFails, Typed, TypeOK
  <2>2. crashes # 0
    BY <2>1 DEF Tracked, ClosedOnceIn
  <2> QED BY <1>4, <2>2
          DEF KillFails, controllerVars, Tracked, NoPortLeak, ProcessesManaged, LockedAreDead,
              ClosedOnceIn, Exists, Started
<1>5. CASE ScalerGivesUp
  <2>1. CASE mu = Unlocked /\ UNCHANGED <<registryVars, controllerVars, process, crashes>>
    BY <2>1, QuietStep DEF controllerVars
  <2>2. CASE mu.by = "scaler" /\ KillFails(mu.victim)
    BY <1>4, <1>5, <2>2 DEF ScalerGivesUp, Unlocked
  <2> QED BY <1>5, <2>1, <2>2 DEF ScalerGivesUp
<1>6. CASE MainStopped /\ KillFails(mu.victim)
  BY <1>4, <1>6 DEF MainStopped, Unlocked
<1>7. CASE Close
  <2>1. /\ stopped' = stopped \cup managed /\ managed' = {}
        /\ allocated' = allocated \ {port[i] : i \in managed}
        /\ process' = [i \in Ids |-> IF i \in managed /\ Exists(i) THEN "dead" ELSE process[i]]
        /\ UNCHANGED <<monitor, port, crashes>>
    BY <1>7 DEF Close, Killed
  <2>2. NoPortLeak'
    BY <2>1 DEF Tracked, NoPortLeak
  <2>3. ProcessesManaged' /\ LockedAreDead'
    BY <2>1 DEF Tracked, ProcessesManaged, LockedAreDead, Exists
  <2>4. ClosedOnceIn'
    BY <2>1 DEF Tracked, ClosedOnceIn, Started, Typed, TypeOK
  <2> QED BY <2>2, <2>3, <2>4 DEF Tracked
<1>8. ASSUME NEW i \in Ids, Serve(i) \/ Crash(i) \/ Reap(i) PROVE Tracked'
  <2>1. UNCHANGED <<controllerVars, mu>>
    BY <1>8 DEF Serve, Crash, Reap
  <2>2. CASE Serve(i)
    <3>1. \A j \in Ids : process'[j] = IF j = i THEN "serving" ELSE process[j]
      BY <2>2 DEF Serve, Typed, TypeOK
    <3>2. process[i] = "alive" /\ crashes' = crashes
      BY <2>2 DEF Serve
    <3> QED BY <2>1, <3>1, <3>2 DEF controllerVars, Tracked, NoPortLeak, ProcessesManaged,
              LockedAreDead, ClosedOnceIn, Exists, Started
  <2>3. CASE Crash(i)
    <3>1. \A j \in Ids : process'[j] = IF j = i THEN "gone" ELSE process[j]
      BY <2>3 DEF Crash, Typed, TypeOK
    <3>2. Exists(i) /\ crashes' # 0
      <4>1. crashes \in Nat /\ crashes' = crashes + 1
        BY <2>3 DEF Crash, Typed, TypeOK
      <4> QED BY <2>3, <4>1, SMT DEF Crash
    <3> QED BY <2>1, <3>1, <3>2 DEF controllerVars, Tracked, NoPortLeak, ProcessesManaged,
              LockedAreDead, ClosedOnceIn, Exists, Started
  <2>4. CASE Reap(i)
    <3>1. \A j \in Ids : process'[j] = IF j = i THEN "dead" ELSE process[j]
      BY <2>4 DEF Reap, Typed, TypeOK
    <3>2. process[i] = "gone" /\ crashes' = crashes
      BY <2>4 DEF Reap
    <3> QED BY <2>1, <3>1, <3>2 DEF controllerVars, Tracked, NoPortLeak, ProcessesManaged,
              LockedAreDead, ClosedOnceIn, Exists, Started
  <2> QED BY <1>8, <2>2, <2>3, <2>4
<1>9. ASSUME NEW i \in Ids, MonitorTick(i) PROVE Tracked'
  <2>1. UNCHANGED <<managed, port, allocated, stopped, process, mu, crashes>>
    BY <1>9 DEF MonitorTick
  <2>2. \A j \in Ids : monitor'[j] = "lock" => monitor[j] = "lock" \/ process[j] = "dead"
    BY <1>9 DEF MonitorTick, Typed, TypeOK
  <2>3. LockedAreDead'
    BY <2>1, <2>2 DEF Tracked, LockedAreDead
  <2>4. NoPortLeak' /\ ProcessesManaged' /\ ClosedOnceIn'
    BY <2>1 DEF Tracked, NoPortLeak, ProcessesManaged, ClosedOnceIn, Exists, Started
  <2> QED BY <2>3, <2>4 DEF Tracked
<1>10. ASSUME NEW S \in SUBSET Ids, \A i \in S : process[i] = "dead", mu = Unlocked,
              managed' = managed \ S, allocated' = allocated \ {port[i] : i \in S},
              \A i \in Ids : monitor'[i] = "lock" => monitor[i] = "lock",
              UNCHANGED <<port, stopped, process, mu, crashes>>
       PROVE  Tracked'
  <2>1. NoPortLeak'
    BY <1>10, PortsAfter DEF Tracked, NoPortLeak
  <2>2. ProcessesManaged' /\ LockedAreDead' /\ ClosedOnceIn'
    BY <1>10 DEF Tracked, ProcessesManaged, LockedAreDead, ClosedOnceIn, Exists, Started
  <2> QED BY <2>1, <2>2 DEF Tracked
<1>11. ASSUME NEW i \in Ids, MonitorRemoves(i) PROVE Tracked'
  <2>1. process[i] = "dead" /\ \A j \in Ids : monitor'[j] = "lock" => monitor[j] = "lock"
    BY <1>11 DEF MonitorRemoves, Tracked, LockedAreDead, Typed, TypeOK
  <2>2. allocated' = allocated \ {port[j] : j \in {i}} /\ {i} \in SUBSET Ids
    BY <1>11 DEF MonitorRemoves, Release
  <2> QED BY <1>10, <1>11, <2>1, <2>2 DEF MonitorRemoves
<1>12. CASE Cleanup
  <2> DEFINE S == {i \in managed : Removable(i)}
  <2>1. S \in SUBSET Ids /\ \A i \in S : process[i] = "dead"
    BY DEF Removable, Typed, TypeOK
  <2>2. /\ allocated' = allocated \ {port[i] : i \in S} /\ managed' = managed \ S
        /\ mu = Unlocked /\ UNCHANGED <<port, monitor, stopped, process, mu, crashes>>
    BY <1>12 DEF Cleanup
  <2> HIDE DEF S
  <2> QED BY <1>10, <2>1, <2>2
<1>13. CASE \/ EvaluateService \/ ApplyDecisions \/ StartFails \/ Shutdown \/ Drained \/ Panic
            \/ RegistryCleanup \/ CooldownEnds \/ UNCHANGED vars
  <2>1. UNCHANGED <<managed, port, allocated, monitor, stopped, process, crashes, mu>>
    BY <1>13 DEF EvaluateService, ApplyDecisions, StartFails, Shutdown, Drained, Panic,
                 RegistryCleanup, CooldownEnds, vars, controllerVars
  <2> QED BY <2>1, QuietStep
<1>14. ASSUME NEW i \in Ids, MainSkips(i) \/ ReportRunning(i) PROVE Tracked'
  <2>1. UNCHANGED <<managed, port, allocated, monitor, stopped, process, crashes, mu>>
    BY <1>14 DEF MainSkips, ReportRunning, controllerVars
  <2> QED BY <2>1, QuietStep
<1>15. CASE MainStopped
  BY <1>3, <1>6, <1>15 DEF MainStopped
<1> QED BY <1>1, <1>2, <1>3, <1>5, <1>7, <1>8, <1>9, <1>11, <1>12, <1>13, <1>14, <1>15
        DEF Next, ScalingLoop, Main, Environment, Background

LEMMA TrackedAlways == Spec => [](Typed /\ Tracked)
<1>1. Init => Tracked
  BY DEF Init, Tracked, NoPortLeak, ProcessesManaged, LockedAreDead, ClosedOnceIn, Exists
<1> QED BY <1>1, InitTyped, TypedStep, TrackedStep, PTL DEF Spec

(* Whoever removes an instance - StopInstance, its monitor, a cleanup or   *)
(* the shutdown - its port comes back, and a process is never left running *)
(* without the controller knowing it.                                      *)
THEOREM NothingLeaksEver == Spec => []NothingLeaks
<1>1. Tracked => NothingLeaks
  BY DEF Tracked, NothingLeaks, NoOrphans, ProcessesManaged
<1> QED BY <1>1, TrackedAlways, PTL

(* Unless a process dies by itself, no StopChan is closed twice, whatever  *)
(* StopInstance, the cleanups and the shutdown do next to each other.      *)
THEOREM NoDoubleClose == Spec => []NoPanic
<1>1. Tracked => NoPanic
  BY DEF Tracked, ClosedOnceIn, NoPanic, ClosesAgain
<1> QED BY <1>1, TrackedAlways, PTL

-----------------------------------------------------------------------------
(* The rounds of the scaling loop.                                         *)

(* What is planned for a service is one decision.  One to scale in is not  *)
(* below the minimum.  One to scale out is above all records there are,    *)
(* since between its making and its application they only become fewer: a  *)
(* revived instance was counted among the dead.                            *)
Sound(d) ==
  /\ d.action = "in" => Least[d.service] <= d.target
  /\ d.action = "out" => d.target <= Most[d.service] /\ live[d.service] + dead[d.service] < d.target

DecisionsSound ==
  /\ \A d, e \in planned : d.service = e.service => d = e
  /\ \A d \in planned : Sound(d)
  /\ \A c \in cascades : Least[Rules[c.rule].target] <= c.target

PolicyInv == Policy!TypeOK /\ DecisionsSound

LEMMA PolicyStarts == ASSUME Policy!Init PROVE PolicyInv
BY AutoscalingAssumption
   DEF AutoscalingAssumption, Policy!ScalingPolicyAssumption, Policy!Init, PolicyInv, Policy!TypeOK, DecisionsSound

LEMMA ChoiceSound ==
  ASSUME Policy!TypeOK, NEW s \in Services, NEW D \in Policy!Choices(s)
  PROVE  \A d \in D : D = {d} /\ d \in Policy!Decisions /\ d.service = s /\ Sound(d)
<1> USE AutoscalingAssumption
    DEF AutoscalingAssumption, Policy!ScalingPolicyAssumption, Policy!TypeOK, Policy!Decisions,
        Policy!Counted, Policy!Smaller, Policy!Larger, Sound
<1>1. /\ live[s] \in Nat /\ dead[s] \in Nat /\ OutStep \in Nat \ {0} /\ InStep \in Nat \ {0}
      /\ Least[s] \in Nat /\ Most[s] \in Nat \ {0} /\ Least[s] <= Most[s]
  OBVIOUS
<1>2. CASE D = {}
  BY <1>2
<1>3. CASE D = {Policy!ScaleOut(s)} /\ Policy!Counted(s) < Most[s]
  <2>1. Policy!ScaleOut(s) \in Policy!Decisions
    BY <1>1 DEF Policy!ScaleOut
  <2>2. Sound(Policy!ScaleOut(s))
    BY <1>1, <1>3 DEF Policy!ScaleOut
  <2> QED BY <1>3, <2>1, <2>2 DEF Policy!ScaleOut
<1>4. CASE D = {Policy!ScaleIn(s)}
  <2>1. Policy!ScaleIn(s) \in Policy!Decisions
    BY <1>1 DEF Policy!ScaleIn
  <2>2. Sound(Policy!ScaleIn(s))
    BY <1>1 DEF Policy!ScaleIn
  <2> QED BY <1>4, <2>1, <2>2 DEF Policy!ScaleIn
<1> QED BY <1>2, <1>3, <1>4 DEF Policy!Choices

LEMMA EvaluateSound ==
  ASSUME PolicyInv, Policy!EvaluateAll
  PROVE  PolicyInv'
<1>1. PICK choice \in [Services -> UNION {Policy!Choices(s) : s \in Services}] :
        /\ \A s \in Services : choice[s] \in Policy!Choices(s)
        /\ planned' = UNION {choice[s] : s \in Services}
  BY DEF Policy!EvaluateAll
<1>2. /\ pc = "idle" /\ pc' = "cascade" /\ planned = {} /\ cascades = {}
      /\ UNCHANGED <<live, dead, resting, delayed, cascades>>
  BY DEF Policy!EvaluateAll, PolicyInv, Policy!TypeOK
<1>3. ASSUME NEW d \in planned'
      PROVE  /\ d \in Policy!Decisions /\ Sound(d)
             /\ \A s \in Services : d \in choice[s] => choice[s] = {d} /\ d.service = s
  BY <1>1, ChoiceSound DEF PolicyInv
<1>4. \A d \in planned' : Sound(d)'
  BY <1>2, <1>3 DEF Sound
<1>5. \A d, e \in planned' : d.service = e.service => d = e
  BY <1>1, <1>3
<1>6. Policy!TypeOK'
  BY <1>2, <1>3 DEF PolicyInv, Policy!TypeOK
<1> QED BY <1>2, <1>4, <1>5, <1>6 DEF PolicyInv, DecisionsSound

LEMMA RuleTarget ==
  ASSUME Policy!TypeOK, NEW i \in Policy!Order,
         NEW t, t = Policy!calculateTargetInstances(Rules[i], live[Rules[i].trigger])
  PROVE  t \in Nat /\ Least[Rules[i].target] <= t
<1> DEFINE n == live[Rules[i].trigger]
<1>1. /\ Rules[i].trigger \in Services /\ Rules[i].target \in Services
      /\ Rules[i].percent \in Nat /\ Rules[i].min \in Nat /\ Rules[i].max \in Nat
      /\ Least[Rules[i].target] \in Nat
      /\ Least[Rules[i].target] <= Rules[i].min /\ Rules[i].min <= Rules[i].max
  BY AutoscalingAssumption DEF AutoscalingAssumption, Policy!ScalingPolicyAssumption, Policy!Order
<1>2. n \in Nat
  BY <1>1, AutoscalingAssumption DEF AutoscalingAssumption, Policy!ScalingPolicyAssumption, Policy!TypeOK
<1>3. n * Rules[i].percent \in Nat
  BY <1>1, <1>2
<1> DEFINE q == (n * Rules[i].percent) \div 100
<1>4. q \in Nat
  BY <1>3
<1>5. t = Policy!Smaller(Rules[i].max, Policy!Larger(Rules[i].min, q))
  BY DEF Policy!calculateTargetInstances
<1> HIDE DEF q
<1> QED BY <1>1, <1>4, <1>5 DEF Policy!Smaller, Policy!Larger

LEMMA CascadesSound ==
  ASSUME PolicyInv, Policy!EvaluateCascades
  PROVE  PolicyInv'
<1>1. cascades' = {[rule |-> i,
                    target |-> Policy!calculateTargetInstances(Rules[i], live[Rules[i].trigger])] :
                     i \in Policy!Due}
  BY DEF Policy!EvaluateCascades
<1>2. /\ pc' = "apply" /\ delayed' = delayed \cup Policy!Due
      /\ UNCHANGED <<live, dead, resting, planned>>
  BY DEF Policy!EvaluateCascades
<1>3. Policy!Due \subseteq Policy!Order
  BY DEF Policy!Due
<1>4. \A c \in cascades' : c.rule \in Policy!Order /\ c.target \in Nat
                           /\ Least[Rules[c.rule].target] <= c.target
  BY <1>1, <1>3, RuleTarget DEF PolicyInv
<1> QED BY <1>2, <1>3, <1>4 DEF PolicyInv, Policy!TypeOK, DecisionsSound, Sound

(* The number of instances of a service comes closer to its target.        *)
LEMMA ScaleCloser ==
  ASSUME Policy!TypeOK, NEW s \in Services, NEW target \in Nat, Policy!ScaleService(s, target)
  PROVE  /\ live' \in [Services -> 0..MaxLive] /\ dead' \in [Services -> 0..MaxDead]
         /\ resting' \subseteq Services
         /\ \A other \in Services \ {s} : live'[other] = live[other] /\ dead'[other] = dead[other]
         /\ \/ live[s] <= live'[s] /\ live'[s] <= target
            \/ target <= live'[s] /\ live'[s] <= live[s]
<1> USE AutoscalingAssumption
    DEF AutoscalingAssumption, Policy!ScalingPolicyAssumption, Policy!TypeOK
<1>1. PICK n \in 0..MaxLive :
        /\ (live[s] <= n /\ n <= target) \/ (target <= n /\ n <= live[s])
        /\ live' = [live EXCEPT ![s] = n]
        /\ dead' = [dead EXCEPT ![s] = Policy!Smaller(MaxDead, @ + Policy!Larger(live[s] - n, 0))]
        /\ resting' = IF n = target /\ target # live[s] THEN resting \cup {s} ELSE resting
  BY DEF Policy!ScaleService
<1>2. Policy!Smaller(MaxDead, dead[s] + Policy!Larger(live[s] - n, 0)) \in 0..MaxDead
  BY DEF Policy!Smaller, Policy!Larger
<1> QED BY <1>1, <1>2

(* Decisions about services that do not change, or of which records are    *)
(* lost, stay sound.                                                       *)
LEMMA StillSound ==
  ASSUME Policy!TypeOK, NEW d \in Policy!Decisions, Sound(d),
         live'[d.service] \in Nat, dead'[d.service] \in Nat,
         live'[d.service] + dead'[d.service] <= live[d.service] + dead[d.service]
  PROVE  Sound(d)'
<1>1. live[d.service] \in Nat /\ dead[d.service] \in Nat /\ d.target \in Nat
  BY AutoscalingAssumption
     DEF AutoscalingAssumption, Policy!ScalingPolicyAssumption, Policy!TypeOK, Policy!Decisions
<1> QED BY <1>1 DEF Sound

LEMMA ApplySound ==
  ASSUME PolicyInv, NEW d \in planned, Policy!ApplyDecision(d)
  PROVE  PolicyInv' /\ Policy!OutKeeps
<1> USE AutoscalingAssumption DEF AutoscalingAssumption, Policy!ScalingPolicyAssumption
<1> DEFINE s == d.service
<1>1. /\ pc = "apply" /\ Policy!ScaleService(s, d.target)
      /\ planned' = planned \ {d} /\ UNCHANGED <<delayed, pc, cascades>>
  BY DEF Policy!ApplyDecision
<1>2. d \in Policy!Decisions /\ s \in Services /\ d.target \in Nat /\ d.action \in {"in", "out"} /\ Sound(d)
  BY DEF PolicyInv, DecisionsSound, Policy!TypeOK, Policy!Decisions
<1>3. /\ live' \in [Services -> 0..MaxLive] /\ dead' \in [Services -> 0..MaxDead]
      /\ resting' \subseteq Services
      /\ \A other \in Services \ {s} : live'[other] = live[other] /\ dead'[other] = dead[other]
      /\ \/ live[s] <= live'[s] /\ live'[s] <= d.target
         \/ d.target <= live'[s] /\ live'[s] <= live[s]
  BY <1>1, <1>2, ScaleCloser DEF PolicyInv
<1>4. Policy!TypeOK'
  BY <1>1, <1>3 DEF PolicyInv, Policy!TypeOK
<1>5. DecisionsSound'
  <2>1. ASSUME NEW e \in planned, e # d PROVE Sound(e)'
    <3>1. e \in Policy!Decisions /\ e.service \in Services \ {s} /\ Sound(e)
      BY <2>1 DEF PolicyInv, DecisionsSound, Policy!TypeOK, Policy!Decisions
    <3>2. live'[e.service] = live[e.service] /\ dead'[e.service] = dead[e.service]
      BY <1>3, <3>1
    <3> QED BY <3>1, <3>2 DEF Sound
  <2> QED BY <1>1, <2>1 DEF PolicyInv, DecisionsSound
<1>6. /\ live[s] \in Nat /\ live'[s] \in Nat /\ dead[s] \in Nat /\ Least[s] \in Nat /\ Most[s] \in Nat
  BY <1>2, <1>3 DEF PolicyInv, Policy!TypeOK
<1>7. d.action = "out" => live'[s] >= live[s] /\ live'[s] <= Most[s]
  BY <1>2, <1>3, <1>6 DEF Sound
<1>8. live'[s] < live[s] => live'[s] >= Least[s]
  BY <1>2, <1>3, <1>6, <1>7 DEF Sound
<1>9. \A t \in Services : live[t] \in Nat /\ live'[t] \in Nat
  BY <1>3 DEF PolicyInv, Policy!TypeOK
<1>10. \A e \in planned \ planned' : e = d
  BY <1>1
<1>11. \A t \in Services : t # s => ~(live'[t] < live[t])
  BY <1>3, <1>9
<1>12. Policy!OutKeeps
  BY <1>7, <1>8, <1>10, <1>11 DEF Policy!OutKeeps
<1> QED BY <1>4, <1>5, <1>12 DEF PolicyInv

LEMMA ApplyCascadeSound ==
  ASSUME PolicyInv, NEW c \in cascades, Policy!ApplyCascade(c)
  PROVE  PolicyInv' /\ Policy!OutKeeps
<1> USE AutoscalingAssumption DEF AutoscalingAssumption, Policy!ScalingPolicyAssumption
<1> DEFINE s == Rules[c.rule].target
<1>1. /\ pc = "apply" /\ planned = {} /\ Policy!ScaleService(s, c.target)
      /\ cascades' = cascades \ {c} /\ UNCHANGED <<delayed, pc, planned>>
  BY DEF Policy!ApplyCascade
<1>2. s \in Services /\ c.target \in Nat /\ Least[s] <= c.target
  BY DEF PolicyInv, DecisionsSound, Policy!TypeOK, Policy!Order
<1>3. /\ live' \in [Services -> 0..MaxLive] /\ dead' \in [Services -> 0..MaxDead]
      /\ resting' \subseteq Services
      /\ \A other \in Services \ {s} : live'[other] = live[other] /\ dead'[other] = dead[other]
      /\ \/ live[s] <= live'[s] /\ live'[s] <= c.target
         \/ c.target <= live'[s] /\ live'[s] <= live[s]
  BY <1>1, <1>2, ScaleCloser DEF PolicyInv
<1>4. Policy!TypeOK'
  BY <1>1, <1>3 DEF PolicyInv, Policy!TypeOK
<1>5. DecisionsSound'
  BY <1>1 DEF PolicyInv, DecisionsSound
<1>6. \A t \in Services : live[t] \in Nat /\ live'[t] \in Nat /\ Least[t] \in Nat
  BY <1>3 DEF PolicyInv, Policy!TypeOK
<1>7. live'[s] < live[s] => live'[s] >= Least[s]
  BY <1>2, <1>3, <1>6
<1>8. \A t \in Services : t # s => ~(live'[t] < live[t])
  BY <1>3, <1>6
<1>9. Policy!OutKeeps
  BY <1>1, <1>7, <1>8 DEF Policy!OutKeeps
<1> QED BY <1>4, <1>5, <1>9 DEF PolicyInv

LEMMA PolicySteps ==
  ASSUME PolicyInv, [Policy!Next]_(Policy!vars)
  PROVE  PolicyInv' /\ Policy!OutKeeps
<1> USE AutoscalingAssumption DEF AutoscalingAssumption, Policy!ScalingPolicyAssumption
<1>1. ASSUME NEW d \in planned, Policy!ApplyDecision(d) PROVE PolicyInv' /\ Policy!OutKeeps
  BY <1>1, ApplySound
<1>2. ASSUME NEW c \in cascades, Policy!ApplyCascade(c) PROVE PolicyInv' /\ Policy!OutKeeps
  BY <1>2, ApplyCascadeSound
<1>3. CASE Policy!EvaluateAll
  <2>1. pc = "idle" /\ planned = {}
    BY <1>3 DEF Policy!EvaluateAll, PolicyInv, Policy!TypeOK
  <2>2. Policy!OutKeeps
    BY <2>1 DEF Policy!OutKeeps
  <2> QED BY <1>3, <2>2, EvaluateSound
<1>4. CASE Policy!EvaluateCascades
  <2>1. pc = "cascade" /\ planned' = planned
    BY <1>4 DEF Policy!EvaluateCascades
  <2>2. Policy!OutKeeps
    BY <2>1 DEF Policy!OutKeeps
  <2> QED BY <1>4, <2>2, CascadesSound
<1>5. ASSUME UNCHANGED <<planned, cascades>> PROVE Policy!OutKeeps
  BY <1>5 DEF Policy!OutKeeps
<1>6. ASSUME UNCHANGED <<live, dead, planned, cascades>>, Policy!TypeOK'
      PROVE  PolicyInv' /\ Policy!OutKeeps
  BY <1>5, <1>6 DEF PolicyInv, DecisionsSound, Sound
<1>7. CASE Policy!RoundEnds
  BY <1>6, <1>7 DEF Policy!RoundEnds, PolicyInv, Policy!TypeOK
<1>8. ASSUME NEW s \in Services, Policy!CooldownEnds(s) PROVE PolicyInv' /\ Policy!OutKeeps
  BY <1>6, <1>8 DEF Policy!CooldownEnds, PolicyInv, Policy!TypeOK
<1>9. ASSUME NEW i \in Policy!Order, Policy!DelayEnds(i) PROVE PolicyInv' /\ Policy!OutKeeps
  BY <1>6, <1>9 DEF Policy!DelayEnds, PolicyInv, Policy!TypeOK
<1>10. ASSUME UNCHANGED Policy!vars PROVE PolicyInv' /\ Policy!OutKeeps
  BY <1>6, <1>10 DEF Policy!vars, PolicyInv, Policy!TypeOK
<1>11. ASSUME NEW s \in Services, Policy!Fade(s) \/ Policy!Revive(s)
       PROVE  PolicyInv' /\ Policy!OutKeeps
  <2>1. /\ live' \in [Services -> 0..MaxLive] /\ dead' \in [Services -> 0..MaxDead]
        /\ \A t \in Services : live'[t] + dead'[t] <= live[t] + dead[t]
    BY <1>11 DEF Policy!Fade, Policy!Revive, Policy!Smaller, PolicyInv, Policy!TypeOK
  <2>2. UNCHANGED <<resting, delayed, pc, planned, cascades>>
    BY <1>11 DEF Policy!Fade, Policy!Revive
  <2>3. ASSUME NEW d \in planned PROVE Sound(d)'
    <3>1. d \in Policy!Decisions /\ d.service \in Services /\ Sound(d)
      BY DEF PolicyInv, DecisionsSound, Policy!TypeOK, Policy!Decisions
    <3> QED BY <2>1, <3>1, StillSound DEF PolicyInv
  <2> QED BY <1>5, <2>1, <2>2, <2>3 DEF PolicyInv, Policy!TypeOK, DecisionsSound
<1> QED
  BY <1>1, <1>2, <1>3, <1>4, <1>7, <1>8, <1>9, <1>10, <1>11 DEF Policy!Next

(* For any services, limits and rules, a decision to scale out stops no    *)
(* instance and goes no further than the maximum, though instances die and *)
(* revive before it is applied; no decision goes below the minimum         *)
(* (EvaluateService, evaluateScaling, ScaleService).                       *)
THEOREM ScalingOutAdds == Policy!Spec => Policy!OutNeverStops
<1>1. Policy!Init => PolicyInv
  BY PolicyStarts
<1>2. PolicyInv /\ [Policy!Next]_(Policy!vars) => PolicyInv' /\ Policy!OutKeeps
  BY PolicySteps
<1> QED BY <1>1, <1>2, PTL DEF Policy!Spec, Policy!OutNeverStops

-----------------------------------------------------------------------------
(* The backpressure coordinator.                                           *)

Levelled ==
  /\ levelHistory \in Seq(Pressure!Levels)
  /\ levelHistory # <<>> => currentLevel \in Pressure!getSmoothedLevel(levelHistory)

PressureInv == Pressure!TypeOK /\ Levelled

LEMMA Window ==
  ASSUME NEW S, NEW list \in Seq(S), NEW x \in S
  PROVE  /\ Pressure!Latest(Append(list, x)) \in Seq(S)
         /\ Pressure!Latest(Append(list, x)) # <<>>
         /\ Len(Pressure!Latest(Append(list, x))) <= WindowSize
<1>1. WindowSize \in Nat \ {0}
  BY AutoscalingAssumption DEF AutoscalingAssumption, Pressure!BackpressureAssumption
<1> DEFINE l == Append(list, x)
           k == IF Len(l) > WindowSize THEN Len(l) - WindowSize ELSE 0
<1>2. l \in Seq(S) /\ Len(l) = Len(list) + 1 /\ Len(l) \in Nat
  OBVIOUS
<1>3. k \in Nat /\ k < Len(l) /\ Len(l) - k <= WindowSize
  BY <1>1, <1>2
<1>4. Pressure!Latest(l) = SubSeq(l, k + 1, Len(l))
  BY DEF Pressure!Latest
<1> HIDE DEF l, k
<1>5. /\ SubSeq(l, k + 1, Len(l)) \in Seq(S)
      /\ Len(SubSeq(l, k + 1, Len(l))) = Len(l) - k
  BY <1>2, <1>3
<1>6. Len(l) - k > 0
  BY <1>2, <1>3
<1>7. Len(Pressure!Latest(l)) # 0
  BY <1>2, <1>3, <1>4, <1>5, <1>6
<1>8. Pressure!Latest(l) # <<>>
  BY <1>7
<1>9. Len(Pressure!Latest(l)) <= WindowSize
  BY <1>3, <1>4, <1>5
<1> QED BY <1>4, <1>5, <1>8, <1>9 DEF l

LEMMA LevelRange == Pressure!calculateLevel \in Pressure!Levels
BY DEF Pressure!calculateLevel, Pressure!Levels, Pressure!None, Pressure!Low, Pressure!Medium,
       Pressure!High, Pressure!Critical

LEMMA EvaluateLevelled ==
  ASSUME PressureInv, Pressure!Evaluate
  PROVE  PressureInv'
<1>1. PICK level \in Pressure!getSmoothedLevel(levelHistory') :
        IF level = currentLevel
        THEN UNCHANGED <<currentLevel, changes, callbacks>>
        ELSE /\ changes < MaxChanges
             /\ currentLevel' = level /\ changes' = changes + 1
             /\ callbacks' = callbacks \cup {[number |-> changes', level |-> level]}
  BY DEF Pressure!Evaluate
<1>2. /\ levelHistory' = Pressure!Latest(Append(levelHistory, Pressure!calculateLevel))
      /\ UNCHANGED <<instances, known, reported, request>>
  BY DEF Pressure!Evaluate
<1>3. levelHistory' \in Seq(Pressure!Levels) /\ Len(levelHistory') <= WindowSize
  BY <1>2, Window, LevelRange DEF PressureInv, Levelled
<1>4. level \in Pressure!Levels
  BY DEF Pressure!getSmoothedLevel
<1>5. currentLevel' = level
  BY <1>1
<1>6. \A i \in DOMAIN levelHistory' : levelHistory'[i] \in Pressure!Levels
  BY <1>3
<1>7. /\ changes' \in 0..MaxChanges
      /\ callbacks' \subseteq [number : 1..MaxChanges, level : Pressure!Levels]
  BY <1>1, <1>4, AutoscalingAssumption
     DEF PressureInv, Pressure!TypeOK, AutoscalingAssumption, Pressure!BackpressureAssumption
<1>8. /\ currentLevel' \in Pressure!getSmoothedLevel(levelHistory')
      /\ currentLevel' \in Pressure!Levels
  BY <1>4, <1>5
<1>9. Levelled'
  BY <1>3, <1>8 DEF Levelled, Pressure!getSmoothedLevel, Pressure!Occurs
<1>10. Pressure!TypeOK'
  BY <1>2, <1>3, <1>6, <1>7, <1>8 DEF PressureInv, Pressure!TypeOK
<1> QED BY <1>9, <1>10 DEF PressureInv

LEMMA PressureStarts == ASSUME Pressure!Init PROVE PressureInv
BY AutoscalingAssumption
   DEF AutoscalingAssumption, Pressure!BackpressureAssumption, Pressure!Init, Pressure!Idle,
       Pressure!Levels, Pressure!None, Pressure!Critical, PressureInv, Levelled, Pressure!TypeOK

LEMMA PressureSteps ==
  ASSUME PressureInv, [Pressure!Next]_(Pressure!vars)
  PROVE  PressureInv'
<1>1. ASSUME UNCHANGED <<levelHistory, currentLevel>> PROVE Levelled'
  BY <1>1 DEF PressureInv, Levelled, Pressure!getSmoothedLevel, Pressure!Occurs
<1>2. ASSUME NEW s \in Reporting, Pressure!UpdateServiceState(s) PROVE PressureInv'
  BY <1>1, <1>2 DEF Pressure!UpdateServiceState, PressureInv, Pressure!TypeOK
<1>3. CASE Pressure!Evaluate
  BY <1>3, EvaluateLevelled
<1>4. ASSUME NEW c \in callbacks, Pressure!onLevelChange(c) PROVE PressureInv'
  BY <1>1, <1>4 DEF Pressure!onLevelChange, PressureInv, Pressure!TypeOK
<1>5. ASSUME NEW r \in Requests,
        request' \in [Requests -> [step : {"idle", "breaker", "drop", "handled", "rejected"},
                                   priority : {0, 1, 3}, level : Pressure!Levels]],
        UNCHANGED <<instances, known, levelHistory, currentLevel, changes, callbacks, reported>>
      PROVE PressureInv'
  BY <1>1, <1>5 DEF PressureInv, Pressure!TypeOK
<1>6. ASSUME NEW r \in Requests, Pressure!Receive(r) PROVE PressureInv'
  BY <1>5, <1>6 DEF Pressure!Receive, PressureInv, Pressure!TypeOK
<1>7. ASSUME NEW r \in Requests, Pressure!CheckBreaker(r) PROVE PressureInv'
  BY <1>5, <1>7 DEF Pressure!CheckBreaker, Pressure!Becomes, PressureInv, Pressure!TypeOK
<1>8. ASSUME NEW r \in Requests, Pressure!ShouldDropRequest(r) PROVE PressureInv'
  <2>1. PICK s \in {"handled", "rejected"}, l \in Pressure!Levels : Pressure!Becomes(r, s, l)
    <3>1. request[r].level \in Pressure!Levels /\ currentLevel \in Pressure!Levels
      BY DEF PressureInv, Pressure!TypeOK
    <3> QED BY <1>8, <3>1, Zenon DEF Pressure!ShouldDropRequest
  <2>2. request \in [Requests -> [step : {"idle", "breaker", "drop", "handled", "rejected"},
                                  priority : {0, 1, 3}, level : Pressure!Levels]]
    BY DEF PressureInv, Pressure!TypeOK
  <2>3. request' = [request EXCEPT ![r].step = s, ![r].level = l]
    BY <2>1 DEF Pressure!Becomes
  <2>4. request' \in [Requests -> [step : {"idle", "breaker", "drop", "handled", "rejected"},
                                   priority : {0, 1, 3}, level : Pressure!Levels]]
    BY <2>2, <2>3
  <2> QED BY <1>5, <2>1, <2>4 DEF Pressure!Becomes
<1>9. ASSUME NEW r \in Requests, Pressure!Answer(r) PROVE PressureInv'
  <2>1. Pressure!Idle \in [step : {"idle", "breaker", "drop", "handled", "rejected"},
                           priority : {0, 1, 3}, level : Pressure!Levels]
    BY DEF Pressure!Idle, Pressure!Levels, Pressure!None, Pressure!Critical
  <2> QED BY <1>5, <1>9, <2>1 DEF Pressure!Answer, PressureInv, Pressure!TypeOK
<1>10. CASE UNCHANGED Pressure!vars
  BY <1>1, <1>10 DEF Pressure!vars, PressureInv, Pressure!TypeOK
<1> QED BY <1>2, <1>3, <1>4, <1>6, <1>7, <1>8, <1>9, <1>10 DEF Pressure!Next

LEMMA SmoothedLevel ==
  ASSUME PressureInv
  PROVE  Pressure!LevelSmoothed
<1> SUFFICES ASSUME levelHistory # <<>>
    PROVE  /\ Pressure!Occurs(currentLevel, levelHistory) > 0
           /\ \A x \in Pressure!Levels :
                2 * Pressure!Occurs(x, levelHistory) > Len(levelHistory) => currentLevel = x
  BY DEF Pressure!LevelSmoothed
<1> DEFINE n == Len(levelHistory)
           At(x) == {i \in 1..n : levelHistory[i] = x}
<1>1. levelHistory \in Seq(Pressure!Levels) /\ n \in Nat \ {0} /\ DOMAIN levelHistory = 1..n
  BY DEF PressureInv, Levelled
<1>2. \A y \in Pressure!Levels :
        Pressure!Occurs(currentLevel, levelHistory) >= Pressure!Occurs(y, levelHistory)
  BY DEF PressureInv, Levelled, Pressure!getSmoothedLevel
<1>3. \A x : Pressure!Occurs(x, levelHistory) = Cardinality(At(x))
  BY <1>1 DEF Pressure!Occurs, Pressure!Cardinality, Cardinality
<1>4. IsFiniteSet(1..n) /\ Cardinality(1..n) = n
  BY <1>1, FS_Interval
<1>5. \A x : IsFiniteSet(At(x)) /\ Cardinality(At(x)) \in Nat
  BY <1>4, FS_Subset, FS_CardinalityType
<1> HIDE DEF At
<1>6. Cardinality(At(currentLevel)) > 0
  <2>1. levelHistory[1] \in Pressure!Levels /\ 1 \in At(levelHistory[1])
    BY <1>1 DEF At
  <2>2. Cardinality(At(levelHistory[1])) # 0
    BY <1>5, <2>1, FS_EmptySet
  <2> QED BY <1>2, <1>3, <1>5, <2>1, <2>2
<1>7. ASSUME NEW x \in Pressure!Levels, 2 * Cardinality(At(x)) > n, currentLevel # x PROVE FALSE
  <2>1. At(x) \cap At(currentLevel) = {} /\ At(x) \cup At(currentLevel) \subseteq 1..n
    BY <1>7 DEF At
  <2>2. Cardinality(At(x) \cup At(currentLevel)) =
          Cardinality(At(x)) + Cardinality(At(currentLevel))
    <3>1. Cardinality(At(x) \cap At(currentLevel)) = 0
      BY <2>1, FS_EmptySet
    <3>2. Cardinality(At(x) \cup At(currentLevel)) =
            Cardinality(At(x)) + Cardinality(At(currentLevel)) - Cardinality(At(x) \cap At(currentLevel))
      BY <1>5, FS_Union
    <3> QED BY <1>5, <3>1, <3>2
  <2>3. Cardinality(At(x) \cup At(currentLevel)) <= n
    BY <1>4, <2>1, FS_Subset
  <2>4. Cardinality(At(currentLevel)) >= Cardinality(At(x))
    BY <1>2, <1>3, <1>7
  <2> QED BY <1>1, <1>5, <1>7, <2>2, <2>3, <2>4
<1> QED BY <1>3, <1>6, <1>7

(* The level of the coordinator is the most common one of the evaluations  *)
(* in its window, so that a peak that takes up half of it or less does not *)
(* set it, for any window and any services (coordinator.go:211, :280).     *)
THEOREM LevelAlwaysSmoothed == Pressure!Spec => []Pressure!LevelSmoothed
<1>1. Pressure!Init => PressureInv
  BY PressureStarts
<1>2. PressureInv /\ [Pressure!Next]_(Pressure!vars) => PressureInv'
  BY PressureSteps
<1>3. PressureInv => Pressure!LevelSmoothed
  BY SmoothedLevel
<1> QED BY <1>1, <1>2, <1>3, PTL DEF Pressure!Spec

-----------------------------------------------------------------------------
(* Autoscaling.  Two of the components may be seen as running all the time,*)
(* since one at rest does what a behaviour may always do: nothing.         *)

LEMMA ScalerRuns ==
  /\ AutoscalingInit => Init
  /\ [AutoscalingNext]_autoscalingVars => [Next]_vars
BY DEF AutoscalingInit, AutoscalingNext, autoscalingVars

LEMMA PressureRuns ==
  /\ AutoscalingInit => Pressure!Init
  /\ [AutoscalingNext]_autoscalingVars => [Pressure!Next]_(Pressure!vars)
BY DEF AutoscalingInit, AutoscalingNext, autoscalingVars, backpressure, Pressure!vars

LEMMA PolicyRuns ==
  /\ AutoscalingInit /\ subject = "policy" => Policy!Init
  /\ [AutoscalingNext]_autoscalingVars /\ subject = "policy" =>
       [Policy!Next]_(Policy!vars) /\ (subject = "policy")'
BY DEF AutoscalingInit, AutoscalingNext, autoscalingVars, policy, Policy!vars

LEMMA PolicyRests ==
  [AutoscalingNext]_autoscalingVars /\ ~(subject = "policy") =>
    UNCHANGED (Policy!vars) /\ ~(subject = "policy")'
BY DEF AutoscalingNext, autoscalingVars, policy, Policy!vars

(* Every part keeps its types, for any constants.                          *)
THEOREM AutoscalingTyped == AutoscalingSpec => []AllTypes
<1>1. Init => Typed
  BY InitTyped
<1>2. Typed /\ [Next]_vars => Typed'
  BY TypedStep
<1>3. AutoscalingInit /\ subject = "policy" => PolicyInv
  BY PolicyRuns, PolicyStarts
<1>4. PolicyInv /\ [AutoscalingNext]_autoscalingVars /\ subject = "policy" =>
        PolicyInv' /\ (subject = "policy")'
  BY PolicyRuns, PolicySteps
<1>5. Typed /\ PressureInv /\ (subject = "policy" => PolicyInv) => AllTypes
  BY DEF AllTypes, Typed, PressureInv, PolicyInv
<1> QED
  BY <1>1, <1>2, <1>3, <1>4, <1>5, ScalerRuns, PressureRuns, PressureStarts, PressureSteps,
     PolicyRests, PTL DEF AutoscalingSpec

(* Ports and processes are not lost, in any autoscaler (controller.go:178, *)
(* :269, :360).                                                            *)
THEOREM AutoscalingLeaksNothing == AutoscalingSpec => []NothingLeaks
BY ScalerRuns, NothingLeaksEver, PTL DEF AutoscalingSpec, Spec

(* A decision to scale out stops nothing, in any autoscaler                *)
(* (engine.go:137, autoscaler.go:330).                                     *)
THEOREM AutoscalingNeverStops == AutoscalingSpec => OutNeverStops
<1>1. PolicyInv /\ [AutoscalingNext]_autoscalingVars /\ subject = "policy" =>
        PolicyInv' /\ (subject = "policy")' /\ Policy!OutKeeps
  BY PolicyRuns, PolicySteps
<1>2. AutoscalingInit /\ subject = "policy" => PolicyInv
  BY PolicyRuns, PolicyStarts
<1> QED
  BY <1>1, <1>2, PolicyRests, PTL DEF AutoscalingSpec, OutNeverStops, Policy!OutNeverStops

(* The level follows the majority of its window, in any autoscaler         *)
(* (coordinator.go:211, :280).                                             *)
THEOREM AutoscalingSmooths == AutoscalingSpec => []LevelSmoothed
<1>1. LevelSmoothed <=> Pressure!LevelSmoothed
  BY DEF LevelSmoothed
<1> QED
  BY <1>1, PressureRuns, LevelAlwaysSmoothed, PTL DEF AutoscalingSpec, Pressure!Spec

=============================================================================

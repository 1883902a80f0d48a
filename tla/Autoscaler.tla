----------------------------- MODULE Autoscaler -----------------------------
(***************************************************************************)
(* The autoscaler's management of the instances of one service: the        *)
(* scaling loop that decides and starts or stops processes, the monitor    *)
(* goroutine of every instance, the start-up timer, the two cleanup loops  *)
(* (the controller's and the registry's) and the shutdown by main.         *)
(*                                                                         *)
(* The controller's mutex covers every operation of the controller.  All   *)
(* are one step but StopInstance, which keeps the mutex while it waits for *)
(* the process; mu is who is inside StopInstance.  The configuration files *)
(* never enable cascading (LoadConfig does not read the option), so the    *)
(* decisions of a round are those of the scaling engine.                   *)
(***************************************************************************)
EXTENDS Integers, FiniteSets

CONSTANTS
  MinInstances, MaxInstances,   (* limits of the service                   *)
  OutStep, InStep,              (* ScaleOut.Increment, ScaleIn.Increment   *)
  MaxPort,                      (* the allocator's ports are 1..MaxPort    *)
  MaxStarts,                    (* bound: processes started altogether     *)
  MaxCrashes                    (* bound: processes that die by themselves *)

ASSUME AutoscalerAssumption ==
  /\ MinInstances \in Nat /\ MaxInstances \in Nat \ {0} /\ MinInstances <= MaxInstances
  /\ OutStep \in Nat \ {0} /\ InStep \in Nat \ {0}
  /\ MaxPort \in Nat /\ MaxStarts \in Nat /\ MaxCrashes \in Nat

VARIABLES
  status,    (* registry: instance -> status, "absent" if not registered   *)
  managed,   (* controller: the instances in c.instances                   *)
  port,      (* instance -> its port, NoPort before it is started          *)
  allocated, (* port allocator: the ports taken                            *)
  process,   (* instance -> its process, see Processes                     *)
  monitor,   (* instance -> its monitor goroutine: "watch", "lock", "done" *)
  stopped,   (* instances whose StopChan is closed                         *)
  timers,    (* instances whose 2s start-up timer has not fired            *)
  mu,        (* inside StopInstance: by "nobody", "scaler" or "main"; whom *)
  scaler,    (* the goroutine that scales, see Resting                     *)
  system,    (* "running", "draining", "stopping", "exited" or "aborted"   *)
  rest,      (* instances main has still to stop                           *)
  cooling,   (* the service is in cooldown                                 *)
  crashes    (* counter of the bound                                       *)

registryVars   == status
controllerVars == <<managed, port, allocated, monitor, stopped, timers>>
vars == <<registryVars, controllerVars, process, mu, scaler, system, rest, cooling, crashes>>

Ids     == 1..MaxStarts
Ports   == 1..MaxPort
NoPort  == 0
Statuses == {"absent", "starting", "running", "unhealthy", "stopping", "stopped", "failed"}

(* "alive" and "serving" processes exist, a serving one listens on its     *)
(* port; a "gone" one has exited but its running flag is still set.        *)
Processes == {"none", "alive", "serving", "gone", "dead"}
Exists(i) == process[i] \in {"alive", "serving"}

Smaller(m, n) == IF m < n THEN m ELSE n
Larger(m, n)  == IF m > n THEN m ELSE n

Started    == {i \in Ids : process[i] # "none"}
Registered == {i \in Ids : status[i] # "absent"}
Healthy    == {i \in Ids : status[i] = "running"}
Live == {i \in Ids : status[i] \in {"running", "starting"}}

(* The scaler has todo instances to start, or victims to stop.             *)
Resting  == [pc |-> "idle", action |-> "none", target |-> 0, todo |-> 0, victims |-> {}]
Unlocked == [by |-> "nobody", victim |-> 0]
Up       == system \notin {"exited", "aborted"}   \* main has not returned

UpdateStatus(S, s) ==
  status' = [i \in Ids |-> IF i \in S \cap Registered THEN s ELSE status[i]]

-----------------------------------------------------------------------------
(* Start: the minimum number of instances, then the loops.                 *)
Init ==
  /\ status = [i \in Ids |-> "absent"]
  /\ managed = {} /\ port = [i \in Ids |-> NoPort] /\ allocated = {}
  /\ process = [i \in Ids |-> "none"] /\ monitor = [i \in Ids |-> "none"]
  /\ stopped = {} /\ timers = {} /\ mu = Unlocked
  /\ scaler = IF MinInstances = 0 THEN Resting
                ELSE [Resting EXCEPT !.pc = "start", !.todo = MinInstances]
  /\ system = "running" /\ rest = {}
  /\ cooling = FALSE /\ crashes = 0

-----------------------------------------------------------------------------
(* The scaling engine.  Any reading of the metrics is possible; a metric   *)
(* without a reading counts as low.  CurrentInstances is everything that   *)
(* was ever registered.                                                    *)

ScaleOut ==
  /\ Cardinality(Registered) < MaxInstances
  /\ scaler' = [Resting EXCEPT !.pc = "apply", !.action = "out",
                  !.target = Smaller(Cardinality(Registered) + OutStep, MaxInstances)]

(* Not within 20% of the minimum.                                          *)
ScaleIn ==
  /\ Cardinality(Registered) > MinInstances /\ Cardinality(Healthy) > MinInstances
  /\ 5 * Cardinality(Registered) > 6 * MinInstances
  /\ scaler' = [Resting EXCEPT !.pc = "apply", !.action = "in",
                  !.target = Larger(Cardinality(Registered) - InStep, MinInstances)]

EvaluateService ==
  /\ system = "running" /\ scaler.pc = "idle" /\ ~cooling
  /\ ScaleOut \/ ScaleIn
  /\ UNCHANGED <<registryVars, controllerVars, process, mu, system, rest, cooling, crashes>>

(* The decision is applied to the instances that run or start by now.  The *)
(* snapshot comes from a map, so any of them may be at its end.            *)
ApplyDecisions ==
  /\ Up /\ scaler.pc = "apply"
  /\ LET n == Cardinality(Live)
     IN \/ n = scaler.target /\ scaler' = Resting
        \/ n < scaler.target /\ scaler' = [scaler EXCEPT !.pc = "start", !.todo = scaler.target - n]
        \/ /\ n > scaler.target
           /\ \E S \in SUBSET Live :
                /\ Cardinality(S) = n - scaler.target
                /\ scaler' = [scaler EXCEPT !.pc = "stop", !.victims = S]
  /\ UNCHANGED <<registryVars, controllerVars, process, mu, system, rest, cooling, crashes>>

(* ApplyDecision starts the cooldown, which start-up does not need.        *)
Scaled ==
  /\ scaler' = Resting
  /\ cooling' = (cooling \/ scaler.action # "none")

CooldownEnds ==
  /\ Up /\ cooling /\ cooling' = FALSE
  /\ UNCHANGED <<registryVars, controllerVars, process, mu, scaler, system, rest, crashes>>

-----------------------------------------------------------------------------
(* Starting: a port, a record in the registry, a process, its goroutines.  *)

Free(p) == p \notin allocated /\ \A i \in Ids : ~(process[i] = "serving" /\ port[i] = p)
Allocate(p) == p \in Ports /\ Free(p) /\ \A q \in 1..p - 1 : ~Free(q)

StartInstance(i) ==
  /\ Up /\ scaler.pc = "start" /\ mu = Unlocked
  /\ process[i] = "none" /\ \A j \in 1..i - 1 : process[j] # "none"
  /\ \E p \in Ports :
       /\ Allocate(p)
       /\ allocated' = allocated \cup {p}
       /\ port' = [port EXCEPT ![i] = p]
  /\ status' = [status EXCEPT ![i] = "starting"]
  /\ process' = [process EXCEPT ![i] = "alive"]
  /\ managed' = managed \cup {i}
  /\ monitor' = [monitor EXCEPT ![i] = "watch"]
  /\ timers' = timers \cup {i}
  /\ IF scaler.todo = 1 THEN Scaled
       ELSE scaler' = [scaler EXCEPT !.todo = @ - 1] /\ UNCHANGED cooling
  /\ UNCHANGED <<stopped, mu, system, rest, crashes>>

(* No port, or the command does not start: nothing is left behind, and     *)
(* main gives up if it was the start-up.                                   *)
StartFails ==
  /\ Up /\ scaler.pc = "start" /\ mu = Unlocked
  /\ scaler' = Resting
  /\ system' = IF scaler.action = "none" THEN "aborted" ELSE system
  /\ UNCHANGED <<registryVars, controllerVars, process, mu, rest, cooling, crashes>>

(* The start-up timer does not look at what became of the instance.        *)
ReportRunning(i) ==
  /\ Up /\ i \in timers
  /\ timers' = timers \ {i}
  /\ UpdateStatus({i}, "running")
  /\ UNCHANGED <<managed, port, allocated, monitor, stopped, process, mu, scaler,
                 system, rest, cooling, crashes>>

-----------------------------------------------------------------------------
(* StopInstance, by the scaling goroutine or by main.                      *)

SignalStopUnchecked(i) ==   \* mutant: the instance is not looked up
  /\ i \notin stopped
  /\ UpdateStatus({i}, "stopping")
  /\ stopped' = stopped \cup {i}
  /\ UNCHANGED <<managed, port, allocated, monitor, timers, process, crashes>>

SignalStop(i) ==
  /\ i \in managed /\ i \notin stopped
  /\ UpdateStatus({i}, "stopping")
  /\ stopped' = stopped \cup {i}
  /\ UNCHANGED <<managed, port, allocated, monitor, timers, process, crashes>>

ReleaseLeaked(i) == allocated   \* mutant: the port is not given back
Release(i) == allocated \ {port[i]}

StoppedUnkilled(i) ==   \* mutant: a process that ignores the signal stays
  /\ allocated' = Release(i)
  /\ managed' = managed \ {i}
  /\ UpdateStatus({i}, "stopped")
  /\ UNCHANGED <<port, monitor, stopped, timers, crashes>>
  /\ process' \in {process, [process EXCEPT ![i] = "dead"]}

StoppedRemembered(i) ==   \* mutant: the instance is not deleted from the table
  /\ process' = [process EXCEPT ![i] = "dead"]
  /\ allocated' = Release(i)
  /\ UpdateStatus({i}, "stopped")
  /\ UNCHANGED <<managed, port, monitor, stopped, timers, crashes>>

(* The process ends, in time or killed, and the instance is forgotten.     *)
ProcessStopped(i) ==
  /\ process' = [process EXCEPT ![i] = "dead"]
  /\ allocated' = Release(i)
  /\ managed' = managed \ {i}
  /\ UpdateStatus({i}, "stopped")
  /\ UNCHANGED <<port, monitor, stopped, timers, crashes>>

(* The process exited by itself: neither signal nor kill reach it.         *)
KillFails(i) ==
  /\ process[i] = "gone"
  /\ UNCHANGED <<registryVars, controllerVars, process, crashes>>

ScalerStops(i) ==
  /\ Up /\ scaler.pc = "stop" /\ i \in scaler.victims /\ mu = Unlocked
  /\ SignalStop(i)
  /\ mu' = [by |-> "scaler", victim |-> i]
  /\ UNCHANGED <<scaler, system, rest, cooling>>

ScalerStopped ==
  /\ Up /\ mu.by = "scaler" /\ mu' = Unlocked
  /\ ProcessStopped(mu.victim)
  /\ IF scaler.victims = {mu.victim} THEN Scaled
       ELSE scaler' = [scaler EXCEPT !.victims = @ \ {mu.victim}] /\ UNCHANGED cooling
  /\ UNCHANGED <<system, rest>>

(* The victim is unknown by now, or cannot be killed: ScaleService fails.  *)
ScalerGivesUp ==
  /\ Up /\ scaler.pc = "stop"
  /\ \/ /\ mu = Unlocked /\ scaler.victims \ managed # {}
        /\ UNCHANGED <<registryVars, controllerVars, process, crashes>>
     \/ mu.by = "scaler" /\ KillFails(mu.victim)
  /\ mu' = Unlocked /\ scaler' = Resting
  /\ UNCHANGED <<system, rest, cooling>>

-----------------------------------------------------------------------------
(* What happens to a process.                                              *)

Serve(i) ==
  /\ Up /\ process[i] = "alive"
  /\ \A j \in Ids : ~(process[j] = "serving" /\ port[j] = port[i])
  /\ process' = [process EXCEPT ![i] = "serving"]
  /\ UNCHANGED <<registryVars, controllerVars, mu, scaler, system, rest, cooling, crashes>>

Crash(i) ==
  /\ Up /\ crashes < MaxCrashes /\ Exists(i)
  /\ process' = [process EXCEPT ![i] = "gone"]
  /\ crashes' = crashes + 1
  /\ UNCHANGED <<registryVars, controllerVars, mu, scaler, system, rest, cooling>>

(* The goroutine that waits for the process notes that it ended.           *)
Reap(i) ==
  /\ Up /\ process[i] = "gone"
  /\ process' = [process EXCEPT ![i] = "dead"]
  /\ UNCHANGED <<registryVars, controllerVars, mu, scaler, system, rest, cooling, crashes>>

-----------------------------------------------------------------------------
(* The monitor of an instance asks whether the process runs, then waits    *)
(* for the mutex, then removes the instance.                               *)

MonitorTick(i) ==
  /\ Up /\ monitor[i] = "watch"
  /\ \/ i \in stopped /\ monitor' = [monitor EXCEPT ![i] = "done"]
     \/ process[i] = "dead" /\ monitor' = [monitor EXCEPT ![i] = "lock"]
  /\ UNCHANGED <<registryVars, managed, port, allocated, stopped, timers, process, mu,
                 scaler, system, rest, cooling, crashes>>

MonitorRemoves(i) ==
  /\ Up /\ monitor[i] = "lock" /\ mu = Unlocked
  /\ monitor' = [monitor EXCEPT ![i] = "done"]
  /\ UpdateStatus({i}, "failed")
  /\ allocated' = Release(i)
  /\ managed' = managed \ {i}
  /\ UNCHANGED <<port, stopped, timers, process, mu, scaler, system, rest, cooling, crashes>>

(* The controller's cleanup of every instance whose process died; a call   *)
(* begun before the shutdown may end after it.                             *)
RemovableUnlessStopped(i) ==   \* mutant: leaves the others to StopInstance
  process[i] = "dead" /\ i \notin stopped
Removable(i) == process[i] = "dead"

Cleanup ==
  /\ Up /\ mu = Unlocked
  /\ LET S == {i \in managed : Removable(i)}
     IN /\ S # {}
        /\ allocated' = allocated \ {port[i] : i \in S}
        /\ managed' = managed \ S
        /\ UpdateStatus(S, "failed")
  /\ UNCHANGED <<port, monitor, stopped, timers, process, mu, scaler, system, rest, cooling, crashes>>

(* The registry's cleanup marks what was not updated for three times the   *)
(* TTL.  Nothing updates a record but a change of status: one that is      *)
(* still starting never was, one whose timer runs was a moment ago.        *)
RegistryCleanup ==
  /\ Up
  /\ \E S \in (SUBSET Registered) \ {{}} :
       /\ {i \in Ids : status[i] = "starting"} \subseteq S
       /\ \A i \in S \cap timers : status[i] \in {"starting", "unhealthy"}
       /\ status' = [i \in Ids |-> IF i \in S THEN "unhealthy" ELSE status[i]]
  /\ UNCHANGED <<controllerVars, process, mu, scaler, system, rest, cooling, crashes>>

-----------------------------------------------------------------------------
(* AutoScaler.Stop: end the loop, stop what ListInstances lists, close.    *)

Shutdown ==
  /\ system = "running"
  /\ scaler.action # "none" \/ scaler.pc = "idle"
  /\ system' = "draining"
  /\ UNCHANGED <<registryVars, controllerVars, process, mu, scaler, rest, cooling, crashes>>

(* The loop has ended, or it has not within 30 seconds and main returns.   *)
Drained ==
  /\ system = "draining"
  /\ \/ scaler.pc = "idle" /\ system' = "stopping" /\ rest' = managed
     \/ scaler.pc # "idle" /\ system' = "aborted" /\ UNCHANGED rest
  /\ UNCHANGED <<registryVars, controllerVars, process, mu, scaler, cooling, crashes>>

MainStops(i) ==
  /\ system = "stopping" /\ i \in rest /\ mu = Unlocked
  /\ SignalStop(i)
  /\ mu' = [by |-> "main", victim |-> i]
  /\ UNCHANGED <<scaler, system, rest, cooling>>

MainStopped ==
  /\ Up /\ mu.by = "main" /\ mu' = Unlocked
  /\ ProcessStopped(mu.victim) \/ KillFails(mu.victim)
  /\ rest' = rest \ {mu.victim}
  /\ UNCHANGED <<scaler, system, cooling>>

(* Somebody else has removed the instance: an error, logged.               *)
MainSkips(i) ==
  /\ system = "stopping" /\ i \in rest \ managed /\ mu = Unlocked
  /\ rest' = rest \ {i}
  /\ UNCHANGED <<registryVars, controllerVars, process, mu, scaler, system, cooling, crashes>>

(* Closing a channel a second time ends the program on the spot.           *)
ClosesAgain ==
  \/ scaler.pc = "stop" /\ scaler.victims \cap managed \cap stopped # {}
  \/ system = "stopping" /\ rest \cap managed \cap stopped # {}
  \/ system = "stopping" /\ rest = {} /\ managed \cap stopped # {}

Panic ==
  /\ Up /\ mu = Unlocked /\ ClosesAgain
  /\ system' = "aborted"
  /\ UNCHANGED <<registryVars, controllerVars, process, mu, scaler, rest, cooling, crashes>>

Killed == {i \in managed : Exists(i)}
Close ==
  /\ system = "stopping" /\ rest = {} /\ mu = Unlocked /\ managed \cap stopped = {}
  /\ stopped' = stopped \cup managed
  /\ process' = [i \in Ids |-> IF i \in Killed THEN "dead" ELSE process[i]]
  /\ allocated' = allocated \ {port[i] : i \in managed}
  /\ UpdateStatus(managed, "stopped")
  /\ managed' = {}
  /\ system' = "exited"
  /\ UNCHANGED <<port, monitor, timers, mu, scaler, rest, cooling, crashes>>

-----------------------------------------------------------------------------
ScalingLoop ==
  \/ EvaluateService \/ ApplyDecisions
  \/ \E i \in Ids : StartInstance(i) \/ ScalerStops(i)
  \/ StartFails \/ ScalerStopped \/ ScalerGivesUp

Main ==
  \/ Shutdown \/ Drained \/ MainStopped \/ Close
  \/ \E i \in Ids : MainStops(i) \/ MainSkips(i)

Environment == \E i \in Ids : Serve(i) \/ Crash(i) \/ Reap(i)

Background ==
  \/ \E i \in Ids : ReportRunning(i) \/ MonitorTick(i) \/ MonitorRemoves(i)
  \/ Cleanup \/ RegistryCleanup \/ CooldownEnds

Next == ScalingLoop \/ Main \/ Panic \/ Environment \/ Background

Spec == Init /\ [][Next]_vars

(* The goroutines run, a mutex is handed over fairly, StopInstance ends    *)
(* because a process is killed when its time is over.  Load, crashes and   *)
(* the end of the program are not to be counted on.                        *)
Fairness ==
  /\ WF_vars(ScalerStopped) /\ WF_vars(MainStopped)
  /\ \A i \in Ids : WF_vars(MonitorTick(i)) /\ SF_vars(MonitorRemoves(i))
  /\ SF_vars(Cleanup)

FairSpec == Spec /\ Fairness

-----------------------------------------------------------------------------
(* Decisions count the records of dead instances too.                     *)
Targets == 0..Larger(MaxInstances, MaxStarts)
ScalerState == [pc : {"idle", "apply", "start", "stop"}, action : {"none", "out", "in"},
                target : Targets, todo : Targets, victims : SUBSET Ids]

(* Type correctness; a managed instance has a port and a process, and      *)
(* whoever is inside StopInstance stops a managed instance.                *)
TypeOK ==
  /\ status \in [Ids -> Statuses]
  /\ managed \subseteq Ids /\ port \in [Ids -> Ports \cup {NoPort}]
  /\ allocated \subseteq Ports
  /\ process \in [Ids -> Processes]
  /\ monitor \in [Ids -> {"none", "watch", "lock", "done"}]
  /\ stopped \subseteq Ids /\ timers \subseteq Ids
  /\ mu \in [by : {"nobody", "scaler", "main"}, victim : Ids \cup {0}]
  /\ mu # Unlocked => mu.victim \in managed
  /\ scaler \in ScalerState
  /\ system \in {"running", "draining", "stopping", "exited", "aborted"}
  /\ rest \subseteq Ids /\ cooling \in BOOLEAN /\ crashes \in 0..MaxCrashes
  /\ \A i \in managed : port[i] # NoPort /\ process[i] # "none"

(* No port is lost: whatever stops, dies or is cleaned up by whom, a port  *)
(* that is marked as taken belongs to an instance the controller manages   *)
(* (StartInstance, StopInstance, monitorInstance, Cleanup, Close).         *)
NoPortLeak == allocated \subseteq {port[i] : i \in managed}

(* No process is forgotten: an instance leaves the controller only when    *)
(* its process is gone, and when main returns from a complete shutdown     *)
(* none is left (StopInstance, monitorInstance, Cleanup, Close).           *)
NoOrphans == system # "aborted" => \A i \in Ids : Exists(i) => i \in managed

(* Whoever removes an instance, its port comes back and its process does   *)
(* not stay behind unmanaged (controller.go:349, :363).                    *)
NothingLeaks == NoPortLeak /\ NoOrphans

(* A dead process is noticed: its instance does not stay in the            *)
(* controller's table, although StopInstance may have silenced its monitor *)
(* and failed (monitorInstance, Cleanup).                                  *)
DeadForgotten == \A i \in Ids : process[i] = "dead" ~> (i \notin managed \/ ~Up)

(* The configuration bounds the processes.  ScalingPolicy has the numbers  *)
(* for many rounds.                                                        *)
MaxRespected == Cardinality({i \in Ids : Exists(i)}) <= MaxInstances

(* "at max instances": when the engine refuses to scale out because the    *)
(* service has its maximum, the service has it.                            *)
AtMaxIsReal ==
  system = "running" /\ Cardinality(Registered) >= MaxInstances =>
    Cardinality(managed) >= MaxInstances

(* IsTerminal: an instance that was stopped or has failed does not run     *)
(* again.                                                                  *)
TerminalIsFinal ==
  [][\A i \in Ids : status[i] \in {"stopped", "failed"} => status'[i] # "running"]_vars

(* Allocate "allocates a free port": two processes under management do not *)
(* have the same one.                                                      *)
PortsDistinct ==
  \A i, j \in managed : i # j /\ Exists(i) /\ Exists(j) => port[i] # port[j]

(* No channel is closed twice, which would end the program, as long as no  *)
(* process has died by itself: whoever closes one deletes the instance     *)
(* (StopInstance, Close).                                                  *)
NoPanic == crashes = 0 => ~(Up /\ mu = Unlocked /\ ClosesAgain)

(* "Log error but continue" makes no exception: a stop that failed does    *)
(* not end the program later.                                              *)
ClosedOnce == ~(Up /\ mu = Unlocked /\ ClosesAgain)

(* "Stop the newest instances first (LIFO)".                               *)
StopsNewest ==
  [][\A i \in Ids : mu = Unlocked /\ mu' = [by |-> "scaler", victim |-> i] =>
       \A j \in Live : j <= i]_vars
=============================================================================

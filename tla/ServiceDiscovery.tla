--------------------------- MODULE ServiceDiscovery ---------------------------
(***************************************************************************)
(* The gateway's service discovery for one service: the local table with   *)
(* its watchers, the registry client that polls and synchronises it, and   *)
(* the router that picks a healthy instance for every attempt.  Nothing in *)
(* the gateway constructs them yet.                                        *)
(*                                                                         *)
(* Operations of the table are under its mutex, one step each.  The two    *)
(* goroutines of a watch are modelled step by step.  What the tables sent  *)
(* to a watcher contain is left out.                                       *)
(***************************************************************************)
EXTENDS Integers

CONSTANTS Instances, Watchers, Requests,
  ChannelSize,     (* of a watcher's channel (10)                          *)
  FailureLimit,    (* of the router's circuit (5)                          *)
  None

ServiceDiscoveryAssumption ==
  ChannelSize \in Nat \ {0} /\ FailureLimit \in Nat \ {0} /\ None \notin Instances

VARIABLES
  registry,   (* external: instance -> "absent", "running" or "other"      *)
  polling,    (* the client: [at, answer, before, todo]                    *)
  known,      (* the table: instance -> "absent", "healthy" or "unhealthy" *)
  closed,     (* the discovery is closed                                   *)
  watchers,   (* watchers in the table                                     *)
  channel,    (* watcher -> how many tables are in its channel             *)
  shut,       (* watchers whose channel is closed                          *)
  sender,     (* watcher -> goroutine of the first state: "none", "send",  *)
              (*   "close" or "done"                                       *)
  cleaner,    (* watcher -> goroutine of the cancellation: "none",         *)
              (*   "wait", "close" or "done"                               *)
  cancelled,  (* watchers whose context is cancelled                       *)
  panicked,
  failures,   (* instance -> failures counted, up to the limit             *)
  request     (* request -> [at, instance]                                 *)

client == <<registry, polling>>
watching == <<watchers, channel, shut, sender, cleaner, cancelled, panicked>>
routing == <<failures, request>>
vars == <<client, known, closed, watching, routing>>

Resting == [at |-> "idle", answer |-> {}, before |-> {}, todo |-> {}]

Init ==
  /\ registry = [i \in Instances |-> "absent"] /\ polling = Resting
  /\ known = [i \in Instances |-> "absent"] /\ closed = FALSE
  /\ watchers = {} /\ channel = [w \in Watchers |-> 0] /\ shut = {}
  /\ sender = [w \in Watchers |-> "none"] /\ cleaner = [w \in Watchers |-> "none"]
  /\ cancelled = {} /\ panicked = FALSE
  /\ failures = [i \in Instances |-> 0]
  /\ request = [r \in Requests |-> [at |-> "idle", instance |-> None]]

-----------------------------------------------------------------------------
(* The table.  A change is sent to every watcher whose channel has room.   *)

Notify ==
  /\ channel' = [w \in Watchers |->
       IF w \in watchers /\ channel[w] < ChannelSize THEN channel[w] + 1 ELSE channel[w]]
  /\ panicked' = (panicked \/ watchers \cap shut # {})
  /\ UNCHANGED <<watchers, shut, sender, cleaner, cancelled>>

SetInstance(i, state) ==
  IF closed THEN UNCHANGED <<known, watching>>
  ELSE /\ known' = [known EXCEPT ![i] = state]
       /\ Notify

-----------------------------------------------------------------------------
(* The registry client.                                                    *)

Change(i) ==
  /\ \E s \in {"absent", "running", "other"} \ {registry[i]} : registry' = [registry EXCEPT ![i] = s]
  /\ UNCHANGED <<polling, known, closed, watching, routing>>

(* fetchServiceInstances and the start of syncInstances.  A call that      *)
(* fails leaves everything until the next tick.                            *)
Poll ==
  /\ polling.at = "idle"
  /\ LET before == {i \in Instances : ~closed /\ known[i] # "absent"}
         answer == {i \in Instances : registry[i] # "absent"}
     IN polling' = [at |-> "sync", answer |-> {<<i, registry[i]>> : i \in answer}, before |-> before,
                    todo |-> answer \cup before]
  /\ UNCHANGED <<registry, known, closed, watching, routing>>

Answered(i) == \E s \in {"running", "other"} : <<i, s>> \in polling.answer
Health(i) == IF <<i, "running">> \in polling.answer THEN "healthy" ELSE "unhealthy"

OnlyAnswered == {i \in polling.todo : Answered(i)}   \* mutant: nothing is deregistered
Syncable == polling.todo

(* UpdateHealth, RegisterInstance or DeregisterInstance.                   *)
SyncInstance(i) ==
  /\ polling.at = "sync" /\ i \in Syncable
  /\ polling' = [polling EXCEPT !.todo = @ \ {i}]
  /\ IF ~Answered(i) THEN SetInstance(i, "absent")
     ELSE IF i \in polling.before /\ known[i] = Health(i) THEN UNCHANGED <<known, watching>>
     ELSE SetInstance(i, Health(i))
  /\ UNCHANGED <<registry, closed, routing>>

SyncEnds ==
  /\ polling.at = "sync" /\ Syncable = {}
  /\ polling' = Resting
  /\ UNCHANGED <<registry, known, closed, watching, routing>>

(* Stop waits for the poll, then closes the discovery and every channel.   *)
Stop ==
  /\ polling.at = "idle" /\ polling' = [Resting EXCEPT !.at = "stopped"]
  /\ closed' = TRUE
  /\ shut' = shut \cup watchers /\ panicked' = (panicked \/ watchers \cap shut # {})
  /\ UNCHANGED <<registry, known, watchers, channel, sender, cleaner, cancelled, routing>>

-----------------------------------------------------------------------------
(* Watchers.                                                               *)

Watch(w) ==
  /\ ~closed /\ sender[w] = "none"
  /\ watchers' = watchers \cup {w}
  /\ sender' = [sender EXCEPT ![w] = "send"] /\ cleaner' = [cleaner EXCEPT ![w] = "wait"]
  /\ UNCHANGED <<client, known, closed, channel, shut, cancelled, panicked, routing>>

Cancel(w) ==
  /\ sender[w] # "none" /\ w \notin cancelled /\ cancelled' = cancelled \cup {w}
  /\ UNCHANGED <<client, known, closed, watchers, channel, shut, sender, cleaner, panicked, routing>>

Receive(w) ==
  /\ channel[w] > 0 /\ channel' = [channel EXCEPT ![w] = @ - 1]
  /\ UNCHANGED <<client, known, closed, watchers, shut, sender, cleaner, cancelled, panicked, routing>>

SendFirst(w) ==
  /\ sender[w] = "send"
  /\ IF w \in shut THEN panicked' = TRUE /\ UNCHANGED channel
     ELSE /\ channel[w] < ChannelSize
          /\ channel' = [channel EXCEPT ![w] = @ + 1] /\ UNCHANGED panicked
  /\ sender' = [sender EXCEPT ![w] = "done"]
  /\ UNCHANGED <<client, known, closed, watchers, shut, cleaner, cancelled, routing>>

CloseChannel(w) == shut' = shut \cup {w} /\ panicked' = (panicked \/ w \in shut)

KeepWatcher(w) == watchers   \* mutant: closed first, then removed
RemoveWatcher(w) == watchers \ {w}

SenderRemoves(w) ==
  /\ sender[w] = "send" /\ w \in cancelled
  /\ watchers' = RemoveWatcher(w) /\ sender' = [sender EXCEPT ![w] = "close"]
  /\ UNCHANGED <<client, known, closed, channel, shut, cleaner, cancelled, panicked, routing>>

SenderCloses(w) ==
  /\ sender[w] = "close" /\ CloseChannel(w) /\ sender' = [sender EXCEPT ![w] = "done"]
  /\ UNCHANGED <<client, known, closed, watchers, channel, cleaner, cancelled, routing>>

CleanerRemoves(w) ==
  /\ cleaner[w] = "wait" /\ w \in cancelled
  /\ watchers' = RemoveWatcher(w) /\ cleaner' = [cleaner EXCEPT ![w] = "close"]
  /\ UNCHANGED <<client, known, closed, channel, shut, sender, cancelled, panicked, routing>>

CleanerCloses(w) ==
  /\ cleaner[w] = "close" /\ CloseChannel(w) /\ cleaner' = [cleaner EXCEPT ![w] = "done"]
  /\ UNCHANGED <<client, known, closed, watchers, channel, sender, cancelled, routing>>

-----------------------------------------------------------------------------
(* The router.  RouteWithRetry attempts again, like the next request.      *)

At(r, at, i) == request' = [request EXCEPT ![r] = [at |-> at, instance |-> i]]

(* Which instance the counter selects depends on the order of a map.       *)
GetHealthyInstance(r) ==
  /\ request[r].at = "idle" /\ ~closed
  /\ \E i \in Instances : known[i] = "healthy" /\ At(r, "check", i)
  /\ UNCHANGED <<client, known, closed, watching, failures>>

CheckCircuit(r) ==
  /\ request[r].at = "check"
  /\ IF failures[request[r].instance] >= FailureLimit THEN At(r, "idle", None)
     ELSE At(r, "forward", request[r].instance)
  /\ UNCHANGED <<client, known, closed, watching, failures>>

Forward(r) ==
  /\ request[r].at = "forward" /\ At(r, "idle", None)
  /\ \E n \in {0, failures[request[r].instance] + 1} :
       failures' = [failures EXCEPT ![request[r].instance] = IF n > FailureLimit THEN FailureLimit ELSE n]
  /\ UNCHANGED <<client, known, closed, watching>>

(* A panic ends the process.                                               *)
Next ==
  /\ ~panicked
  /\ \/ \E i \in Instances : Change(i) \/ SyncInstance(i)
     \/ Poll \/ SyncEnds \/ Stop
     \/ \E w \in Watchers : \/ Watch(w) \/ Cancel(w) \/ Receive(w) \/ SendFirst(w)
                            \/ SenderRemoves(w) \/ SenderCloses(w) \/ CleanerRemoves(w) \/ CleanerCloses(w)
     \/ \E r \in Requests : GetHealthyInstance(r) \/ CheckCircuit(r) \/ Forward(r)

Spec == Init /\ [][Next]_vars

-----------------------------------------------------------------------------
States == {"absent", "healthy", "unhealthy"}
TableTyped ==
  /\ registry \in [Instances -> {"absent", "running", "other"}]
  /\ polling \in [at : {"idle", "sync", "stopped"},
                  answer : SUBSET (Instances \X {"absent", "running", "other"}),
                  before : SUBSET Instances, todo : SUBSET Instances]
  /\ known \in [Instances -> States] /\ closed \in BOOLEAN
WatchersTyped ==
  /\ watchers \subseteq Watchers /\ shut \subseteq Watchers /\ cancelled \subseteq Watchers
  /\ channel \in [Watchers -> 0..ChannelSize]
  /\ sender \in [Watchers -> {"none", "send", "close", "done"}]
  /\ cleaner \in [Watchers -> {"none", "wait", "close", "done"}]
  /\ panicked \in BOOLEAN
RoutesTyped ==
  /\ failures \in [Instances -> 0..FailureLimit]
  /\ request \in [Requests -> [at : {"idle", "check", "forward"}, instance : Instances \cup {None}]]
  /\ \A r \in Requests : request[r].at # "idle" => request[r].instance \in Instances
TypeOK == TableTyped /\ WatchersTyped /\ RoutesTyped

(* A change is never sent to a closed channel: whichever of a watch's      *)
(* goroutines ends it removes the watcher before it closes the channel,    *)
(* and after Close there are no more changes (discovery.go:232, :240).     *)
NotifiesOpen == ~closed => watchers \cap shut = {}

(* When the client has come to the end of a poll the table is what the     *)
(* registry answered, instances it knew, updated or forgot included        *)
(* (registry_client.go:145).                                               *)
Synchronised ==
  polling.at = "sync" /\ Syncable = {} /\ ~closed =>
    \A i \in Instances : known[i] = IF Answered(i) THEN Health(i) ELSE "absent"

(* The table follows the registry, and notifies open channels only.        *)
DiscoveryFollows == Synchronised /\ NotifiesOpen

(* Refuted: no channel is closed twice or sent to when closed.  Both       *)
(* goroutines of a watch may close it, and so does Close (discovery.go:233,*)
(* :241, :297).                                                            *)
NoPanic == ~panicked

(* Refuted, with all attempts fair: a circuit that is open closes again.   *)
(* Only a success resets it, and it lets no attempt pass (router.go:57).   *)
CircuitCloses == \A i \in Instances : failures[i] = FailureLimit ~> failures[i] < FailureLimit
=============================================================================

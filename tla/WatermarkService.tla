-------------------------- MODULE WatermarkService --------------------------
(***************************************************************************)
(* The goroutines of the watermark service around its store: the rounds of *)
(* the aggregator, its cleanup, the handlers of the HTTP and gRPC servers, *)
(* the clients of the update stream, and the read-write lock they share.   *)
(*                                                                         *)
(* WatermarkStore says what an operation does to the data; here every      *)
(* writing operation is one change of a version.  The lock is Go's: a      *)
(* writer first announces itself, which stops new readers, then waits for  *)
(* those that hold the lock.                                               *)
(***************************************************************************)
EXTENDS Integers, FiniteSets

CONSTANTS
  Endpoints,   (* services asked for their watermarks, a goroutine each    *)
  Callers,     (* handlers of requests                                     *)
  Cleaner,     (* the goroutine of cleanupLoop                             *)
  Clients,     (* subscribers of StreamWatermarks                          *)
  ClientIDs,   (* values of the clock that names them                      *)
  ChannelCap,  (* updates a client's channel holds (100)                   *)
  Versions,    (* bound: versions of the store, counted modulo this        *)
  Nobody

Threads == Endpoints \cup Callers \cup {Cleaner}

ServiceAssumption ==
  /\ Endpoints \cap Callers = {} /\ Cleaner \notin Endpoints \cup Callers
  /\ Nobody \notin Threads \cup Clients /\ ClientIDs # {}
  /\ ChannelCap \in Nat \ {0} /\ Versions \in Nat \ {0, 1}

VARIABLES
  phase,          (* of the aggregator: "running", "stopping", "stopped"   *)
  collecting,     (* collectLoop is inside collectAll                      *)
  pc,             (* what each goroutine does next                         *)
  announced,      (* the writer that waits for the readers to leave        *)
  holds,          (* goroutine -> read locks it holds                      *)
  version,        (* of the store                                          *)
  seen,           (* caller -> version it read under the outer lock        *)
  stream,         (* client -> state of its channel                        *)
  streamClients,  (* identifier -> the client registered under it          *)
  id,             (* client -> its identifier                              *)
  queue           (* client -> updates in its channel                      *)

aggregator == <<phase, collecting>>
lock == <<announced, holds, version, seen>>
streaming == <<stream, streamClients, id, queue>>
vars == <<aggregator, pc, lock, streaming>>

Writing == {"update", "report", "cleanup"}
Reading == {"read", "ready", "nested"}

Init ==
  /\ phase = "running" /\ collecting = FALSE
  /\ pc = [t \in Threads |-> "idle"]
  /\ announced = Nobody /\ holds = [t \in Threads |-> 0]
  /\ version = 0 /\ seen = [c \in Callers |-> 0]
  /\ stream = [c \in Clients |-> "closed"]
  /\ streamClients = [i \in ClientIDs |-> Nobody]
  /\ id = [c \in Clients |-> CHOOSE i \in ClientIDs : TRUE]
  /\ queue = [c \in Clients |-> 0]

-----------------------------------------------------------------------------
(* The aggregator.                                                         *)

(* A round asks every endpoint at a time.  An endpoint still busy with the *)
(* round before is left to it (bound).                                     *)
CollectAll ==
  /\ phase = "running" /\ ~collecting
  /\ collecting' = TRUE
  /\ pc' = [t \in Threads |-> IF t \in Endpoints /\ pc[t] = "idle" THEN "fetching" ELSE pc[t]]
  /\ UNCHANGED <<phase, lock, streaming>>

(* An answer that can be read becomes an update, any other outcome nothing.*)
CollectFromEndpoint(e) ==
  /\ pc[e] = "fetching"
  /\ \E next \in {"update", "idle"} : pc' = [pc EXCEPT ![e] = next]
  /\ UNCHANGED <<aggregator, lock, streaming>>

(* All have answered, or ten seconds are over.                             *)
CollectEnds ==
  /\ collecting
  /\ collecting' = FALSE
  /\ UNCHANGED <<phase, pc, lock, streaming>>

CleanupTick ==
  /\ phase = "running" /\ pc[Cleaner] = "idle"
  /\ pc' = [pc EXCEPT ![Cleaner] = "cleanup"]
  /\ UNCHANGED <<aggregator, lock, streaming>>

Stop ==
  /\ phase = "running"
  /\ phase' = "stopping"
  /\ UNCHANGED <<collecting, pc, lock, streaming>>

(* Stop returns when both loops have: neither in the middle of its work.   *)
LoopsEnd ==
  /\ phase = "stopping" /\ ~collecting /\ pc[Cleaner] = "idle"
  /\ phase' = "stopped"
  /\ UNCHANGED <<collecting, pc, lock, streaming>>

-----------------------------------------------------------------------------
(* Requests: a posted update or objective, a report that is also streamed, *)
(* a reading of the store, a readiness check.                              *)

Request(c) ==
  /\ pc[c] = "idle"
  /\ \E next \in {"update", "report", "read", "ready"} : pc' = [pc EXCEPT ![c] = next]
  /\ UNCHANGED <<aggregator, lock, streaming>>

Announce(t) ==
  /\ pc[t] \in Writing /\ announced = Nobody
  /\ announced' = t
  /\ UNCHANGED <<aggregator, pc, holds, version, seen, streaming>>

NobodyReads == \A t \in Threads : holds[t] = 0

Write(t) ==
  /\ announced = t /\ NobodyReads
  /\ announced' = Nobody
  /\ version' = (version + 1) % Versions
  /\ pc' = [pc EXCEPT ![t] = IF @ = "report" THEN "broadcast" ELSE "idle"]
  /\ UNCHANGED <<aggregator, holds, seen, streaming>>

Read(c) ==
  /\ pc[c] = "read" /\ announced = Nobody
  /\ pc' = [pc EXCEPT ![c] = "idle"]
  /\ UNCHANGED <<aggregator, lock, streaming>>

HeldNone == 0   \* mutant: the outer lock is given back before the inner is taken
HeldOuter == 1

(* GetHealthStatus reads services and tables under the lock ...            *)
ReadHealth(c) ==
  /\ pc[c] = "ready" /\ announced = Nobody
  /\ holds' = [holds EXCEPT ![c] = HeldOuter]
  /\ seen' = [seen EXCEPT ![c] = version]
  /\ pc' = [pc EXCEPT ![c] = "nested"]
  /\ UNCHANGED <<aggregator, announced, version, streaming>>

KeptOuter(n) == n   \* mutant: the outer lock is not given back
Unlocked(n) == 0

(* ... and calls GetSystemWatermark, which takes it again.                 *)
ReadSystem(c) ==
  /\ pc[c] = "nested" /\ announced = Nobody
  /\ holds' = [holds EXCEPT ![c] = Unlocked(@)]
  /\ pc' = [pc EXCEPT ![c] = "idle"]
  /\ UNCHANGED <<aggregator, announced, version, seen, streaming>>

-----------------------------------------------------------------------------
(* The stream.                                                             *)

Registered == {streamClients[i] : i \in ClientIDs} \ {Nobody}

Subscribe(c) ==
  /\ stream[c] = "closed"
  /\ \E i \in ClientIDs :
       /\ id' = [id EXCEPT ![c] = i]
       /\ streamClients' = [streamClients EXCEPT ![i] = c]
  /\ stream' = [stream EXCEPT ![c] = "open"]
  /\ queue' = [queue EXCEPT ![c] = 0]
  /\ UNCHANGED <<aggregator, pc, lock>>

(* A full channel is skipped.                                              *)
BroadcastUpdate(t) ==
  /\ pc[t] = "broadcast"
  /\ queue' = [c \in Clients |->
                 IF c \in Registered /\ queue[c] < ChannelCap THEN queue[c] + 1 ELSE queue[c]]
  /\ pc' = [pc EXCEPT ![t] = "idle"]
  /\ UNCHANGED <<aggregator, lock, stream, streamClients, id>>

SendUpdate(c) ==
  /\ stream[c] = "open" /\ queue[c] > 0
  /\ queue' = [queue EXCEPT ![c] = @ - 1]
  /\ UNCHANGED <<aggregator, pc, lock, stream, streamClients, id>>

Forgotten(c) == streamClients   \* mutant: the entry stays
Deleted(c) == [streamClients EXCEPT ![id[c]] = Nobody]

(* The client has gone: its entry is deleted under the lock of the map,    *)
(* whoever's it is, then the channel is closed without the lock.           *)
Unregister(c) ==
  /\ stream[c] = "open"
  /\ streamClients' = Deleted(c)
  /\ stream' = [stream EXCEPT ![c] = "left"]
  /\ UNCHANGED <<aggregator, pc, lock, id, queue>>

CloseChannel(c) ==
  /\ stream[c] = "left"
  /\ stream' = [stream EXCEPT ![c] = "closed"]
  /\ UNCHANGED <<aggregator, pc, lock, streamClients, id, queue>>

Next ==
  \/ CollectAll \/ CollectEnds \/ CleanupTick \/ Stop \/ LoopsEnd
  \/ \E e \in Endpoints : CollectFromEndpoint(e)
  \/ \E t \in Threads : Announce(t) \/ Write(t) \/ BroadcastUpdate(t)
  \/ \E c \in Callers : Request(c) \/ Read(c) \/ ReadHealth(c) \/ ReadSystem(c)
  \/ \E c \in Clients : Subscribe(c) \/ SendUpdate(c) \/ Unregister(c) \/ CloseChannel(c)

(* Goroutines run; Go's mutex lets every writer and every reader in at     *)
(* last; requests come, clients leave and Stop is called or not.           *)
Fairness ==
  /\ WF_vars(CollectEnds) /\ WF_vars(LoopsEnd)
  /\ \A t \in Threads : SF_vars(Announce(t)) /\ WF_vars(Write(t))
  /\ \A c \in Callers : SF_vars(Read(c)) /\ SF_vars(ReadHealth(c)) /\ SF_vars(ReadSystem(c))

Spec == Init /\ [][Next]_vars
FairSpec == Spec /\ Fairness

-----------------------------------------------------------------------------
(* Properties.                                                             *)

TypeOK ==
  /\ phase \in {"running", "stopping", "stopped"} /\ collecting \in BOOLEAN
  /\ pc \in [Threads -> Writing \cup Reading \cup {"idle", "fetching", "broadcast"}]
  /\ announced \in Threads \cup {Nobody} /\ holds \in [Threads -> 0..1]
  /\ version \in 0..(Versions - 1) /\ seen \in [Callers -> 0..(Versions - 1)]
  /\ stream \in [Clients -> {"open", "left", "closed"}]
  /\ streamClients \in [ClientIDs -> Clients \cup {Nobody}]
  /\ id \in [Clients -> ClientIDs] /\ queue \in [Clients -> 0..ChannelCap]

Waiting == {t \in Threads : pc[t] \in Writing \cup Reading}
CanProceed(t) ==
  IF pc[t] \in Writing THEN announced = Nobody \/ (announced = t /\ NobodyReads)
  ELSE announced = Nobody
Stuck == Waiting # {} /\ \A t \in Waiting : ~CanProceed(t)

(* Whoever waits for the store's lock gets it, unless a readiness check is *)
(* between its two read locks (store.go:376, :406) while a writer waits:   *)
(* then nobody ever does.                                                  *)
BlockedOnlyByNesting == Stuck => \E c \in Callers : pc[c] = "nested"

(* The two halves of a readiness check are about one version of the store: *)
(* which is what the outer lock is for.                                    *)
HealthFromOneVersion == \A c \in Callers : pc[c] = "nested" => seen[c] = version

(* A broadcast never sends into a closed channel, which would end the      *)
(* process (server.go:141, :288), in any order of subscribing, leaving and *)
(* reporting, also of clients that came at the same nanosecond.            *)
NoSendOnClosed == \A c \in Registered : stream[c] = "open"

(* The three together.                                                     *)
LocksRight == BlockedOnlyByNesting /\ HealthFromOneVersion /\ NoSendOnClosed

(* Refuted: a readiness check is answered (handler.go:141).                *)
ReadyAnswered == \A c \in Callers : (pc[c] = "ready") ~> (pc[c] = "idle")

(* Refuted: every subscriber is sent the updates.  Two that came at one    *)
(* moment share an entry (server.go:132).                                  *)
OpenAreRegistered == \A c \in Clients : stream[c] = "open" => c \in Registered
=============================================================================

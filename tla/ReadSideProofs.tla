----------------------------- MODULE ReadSideProofs -----------------------------
(***************************************************************************)
(* Theorems about the control plane, the query API and the watermark       *)
(* service, for any sets of requests, clients and names: first about the   *)
(* specification of each part, then about ReadSide, which runs one of them.*)
(***************************************************************************)
EXTENDS ReadSide, HotTierRingProofs, Integers, FiniteSetTheorems, WellFoundedInduction, TLAPS

-----------------------------------------------------------------------------
(* Control plane.                                                          *)

(* A row is its request's, which has gone on from its INSERT; a name has   *)
(* one row; and a table has a namespace, already when it is inserted.      *)
RowsRight ==
  /\ \A x \in Plane!Targets : \A r \in rows[x] :
       /\ target[r] = x /\ step[r] \notin {"new", "lookup", "insert"}
       /\ \A q \in rows[x] : q = r
       /\ rows[Plane!Namespace(x.ns)] # {}
  /\ \A r \in Requests :
       step[r] = "insert" /\ target[r].table # NoTable => rows[Plane!Namespace(target[r].ns)] # {}

(* A handler writes 201 only with its row, and when its answer is on its   *)
(* way its entry has been tried.                                           *)
AnswersTold ==
  /\ \A r \in Requests : status[r] = 201 => r \in rows[target[r]]
  /\ \A r \in Requests : step[r] = "audit" => status[r] # 0
  /\ \A r \in audits : r \in rows[target[r]]
  /\ \A r \in Requests : step[r] \in {"flush", "answered"} /\ status[r] = 201 => r \in audits \cup unlogged

PlaneInv == Plane!TypeOK /\ RowsRight /\ AnswersTold

LEMMA NamespaceOfTarget ==
  ASSUME NEW x \in Plane!Targets
  PROVE  /\ Plane!Namespace(x.ns) \in Plane!Targets
         /\ x.table = NoTable => x = Plane!Namespace(x.ns)
         /\ Plane!Namespace(x.ns).ns = x.ns
BY DEF Plane!Targets, Plane!Namespace

LEMMA PlaneStart ==
  ASSUME Plane!Init
  PROVE  PlaneInv
<1> USE DEF Plane!Init
<1>1. Plane!TypeOK
  BY DEF Plane!TypeOK
<1>2. RowsRight
  BY DEF RowsRight
<1>3. AnswersTold
  BY DEF AnswersTold
<1> QED BY <1>1, <1>2, <1>3 DEF PlaneInv

LEMMA PlaneTyped ==
  ASSUME Plane!TypeOK, [Plane!Next]_(Plane!vars)
  PROVE  Plane!TypeOK'
<1> USE DEF Plane!TypeOK, Plane!Goto, Plane!Write
<1>1. ASSUME NEW r \in Requests, Plane!Receive(r) \/ Plane!LookUpNamespace(r) PROVE Plane!TypeOK'
  BY <1>1 DEF Plane!Receive, Plane!LookUpNamespace
<1>2. ASSUME NEW r \in Requests, Plane!Insert(r) PROVE Plane!TypeOK'
  BY <1>2 DEF Plane!Insert
<1>3. ASSUME NEW r \in Requests, Plane!Audit(r) \/ Plane!Respond(r) PROVE Plane!TypeOK'
  BY <1>3 DEF Plane!Audit, Plane!Respond
<1>4. ASSUME Plane!Crash PROVE Plane!TypeOK'
  BY <1>4 DEF Plane!Crash
<1>5. CASE UNCHANGED Plane!vars
  BY <1>5 DEF Plane!vars
<1> QED BY <1>1, <1>2, <1>3, <1>4, <1>5 DEF Plane!Next

LEMMA PlaneRows ==
  ASSUME PlaneInv, [Plane!Next]_(Plane!vars)
  PROVE  RowsRight'
<1> USE DEF PlaneInv, Plane!TypeOK, Plane!Goto, Plane!Write
<1>1. ASSUME NEW r \in Requests, Plane!Receive(r) \/ Plane!LookUpNamespace(r) PROVE RowsRight'
  <2>1. /\ step[r] \in {"new", "lookup"} /\ UNCHANGED <<target, rows>>
        /\ \E s \in {"lookup", "insert", "audit"} :
             /\ step' = [step EXCEPT ![r] = s]
             /\ s = "insert" /\ target[r].table # NoTable => rows[Plane!Namespace(target[r].ns)] # {}
    BY <1>1 DEF Plane!Receive, Plane!LookUpNamespace
  <2>2. \A q \in Requests : q # r => step'[q] = step[q]
    BY <2>1
  <2>3. ASSUME NEW x \in Plane!Targets, NEW q \in rows[x]
        PROVE  step'[q] \notin {"new", "lookup", "insert"}
    <3>1. step[q] \notin {"new", "lookup", "insert"} /\ q \in Requests
      BY DEF RowsRight
    <3>2. q # r
      BY <2>1, <3>1
    <3> QED BY <2>2, <3>1, <3>2
  <2>4. ASSUME NEW q \in Requests, step'[q] = "insert", target[q].table # NoTable
        PROVE  rows[Plane!Namespace(target[q].ns)] # {}
    <3>1. CASE q = r
      BY <2>1, <2>4, <3>1
    <3>2. CASE q # r
      BY <2>2, <2>4, <3>2 DEF RowsRight
    <3> QED BY <3>1, <3>2
  <2> QED BY <2>1, <2>3, <2>4, Zenon DEF RowsRight
<1>2. ASSUME NEW r \in Requests, Plane!Insert(r) PROVE RowsRight'
  <2> DEFINE x == target[r]
  <2>1. step[r] = "insert" /\ step' = [step EXCEPT ![r] = "audit"] /\ UNCHANGED target
    BY <1>2 DEF Plane!Insert
  <2>2. \/ UNCHANGED rows
        \/ rows[x] = {} /\ rows' = [rows EXCEPT ![x] = {r}]
    BY <1>2 DEF Plane!Insert, Plane!Free
  <2>3. CASE UNCHANGED rows
    BY <2>1, <2>3 DEF RowsRight
  <2>4. CASE rows[x] = {} /\ rows' = [rows EXCEPT ![x] = {r}]
    <3>1. x \in Plane!Targets /\ Plane!Namespace(x.ns) \in Plane!Targets
      BY NamespaceOfTarget
    <3>2. rows'[Plane!Namespace(x.ns)] # {}
      BY <2>1, <2>4, <3>1, NamespaceOfTarget DEF RowsRight
    <3>3. \A y \in Plane!Targets : rows[Plane!Namespace(y.ns)] # {} => rows'[Plane!Namespace(y.ns)] # {}
      BY <2>4, NamespaceOfTarget
    <3> QED BY <2>1, <2>4, <3>1, <3>2, <3>3 DEF RowsRight
  <2> QED BY <2>2, <2>3, <2>4
<1>3. ASSUME NEW r \in Requests, Plane!Audit(r) \/ Plane!Respond(r) PROVE RowsRight'
  BY <1>3 DEF Plane!Audit, Plane!Respond, Plane!AuditFirst, RowsRight
<1>4. ASSUME Plane!Crash PROVE RowsRight'
  BY <1>4 DEF Plane!Crash, RowsRight
<1>5. CASE UNCHANGED Plane!vars
  BY <1>5 DEF Plane!vars, RowsRight
<1> QED BY <1>1, <1>2, <1>3, <1>4, <1>5 DEF Plane!Next

LEMMA PlaneAnswers ==
  ASSUME PlaneInv, [Plane!Next]_(Plane!vars)
  PROVE  AnswersTold'
<1> USE DEF PlaneInv, Plane!TypeOK, Plane!Goto, Plane!Write
<1>1. ASSUME NEW r \in Requests, Plane!Receive(r) \/ Plane!LookUpNamespace(r) PROVE AnswersTold'
  BY <1>1 DEF Plane!Receive, Plane!LookUpNamespace, AnswersTold
<1>2. ASSUME NEW r \in Requests, Plane!Insert(r) PROVE AnswersTold'
  <2>1. /\ step[r] = "insert" /\ step' = [step EXCEPT ![r] = "audit"]
        /\ UNCHANGED <<target, audits, unlogged>>
    BY <1>2 DEF Plane!Insert
  <2>2. \A x \in Plane!Targets : rows[x] \subseteq rows'[x]
    BY <1>2 DEF Plane!Insert
  <2>3. \E code \in {201, 500} :
          status' = [status EXCEPT ![r] = code] /\ (code = 201 => r \in rows'[target[r]])
    BY <1>2 DEF Plane!Insert
  <2> QED BY <2>1, <2>2, <2>3 DEF AnswersTold
<1>3. ASSUME NEW r \in Requests, Plane!Audit(r) PROVE AnswersTold'
  <2>1. /\ step[r] = "audit" /\ step' = [step EXCEPT ![r] = "flush"]
        /\ UNCHANGED <<target, status, rows>>
    BY <1>3 DEF Plane!Audit
  <2>2. /\ audits' \subseteq audits \cup {q \in {r} : status[r] = 201}
        /\ audits \subseteq audits' /\ unlogged \subseteq unlogged'
        /\ status[r] = 201 => r \in audits' \cup unlogged'
    BY <1>3 DEF Plane!Audit, Plane!Audited, AnswersTold
  <2> QED BY <2>1, <2>2 DEF AnswersTold
<1>4. ASSUME NEW r \in Requests, Plane!Respond(r) PROVE AnswersTold'
  BY <1>4 DEF Plane!Respond, Plane!AuditFirst, AnswersTold
<1>5. ASSUME Plane!Crash PROVE AnswersTold'
  BY <1>5 DEF Plane!Crash, AnswersTold
<1>6. CASE UNCHANGED Plane!vars
  BY <1>6 DEF Plane!vars, AnswersTold
<1> QED BY <1>1, <1>2, <1>3, <1>4, <1>5, <1>6 DEF Plane!Next

(* For any requests and names, through every crash and every lost          *)
(* connection: of all requests for a name one is told that it created it,  *)
(* and the audit trail has every acknowledged write but those whose own    *)
(* entry failed, and only writes that happened (main.go:229, audit.go:98). *)
THEOREM WritesAlwaysRecorded == Plane!Spec => [](Plane!WritesRecorded)
<1>1. Plane!Init => PlaneInv
  BY PlaneStart
<1>2. PlaneInv /\ [Plane!Next]_(Plane!vars) => PlaneInv'
  BY PlaneTyped, PlaneRows, PlaneAnswers DEF PlaneInv
<1>3. PlaneInv => Plane!WritesRecorded
  BY DEF PlaneInv, Plane!TypeOK, RowsRight, AnswersTold, Plane!WritesRecorded, Plane!CreatedOnce,
    Plane!AuditComplete, Plane!Acknowledged
<1> QED
  BY <1>1, <1>2, <1>3, PTL DEF Plane!Spec

-----------------------------------------------------------------------------
(* Watermark service.                                                      *)

(* The writer announced is at its writing; who holds the read lock is      *)
(* between the two locks of a readiness check, and has seen the version    *)
(* there is, since nothing is written while it holds the lock.             *)
LocksHeld ==
  /\ pc \in [Server!Threads -> Server!Writing \cup Server!Reading \cup {"idle", "fetching", "broadcast"}]
  /\ holds \in [Server!Threads -> 0..1] /\ seen \in [Callers -> Int]
  /\ announced # Absent => announced \in Server!Threads /\ pc[announced] \in Server!Writing
  /\ \A t \in Server!Threads : holds[t] = 1 <=> pc[t] = "nested"
  /\ \A t \in Server!Threads : pc[t] = "nested" => t \in Callers /\ seen[t] = version
  /\ version \in Int

(* An entry of the map is that of an open client, under its identifier.    *)
EntriesOpen ==
  /\ stream \in [Clients -> {"open", "left", "closed"}]
  /\ streamClients \in [ClientIDs -> Clients \cup {Absent}] /\ id \in [Clients -> ClientIDs]
  /\ \A i \in ClientIDs : streamClients[i] # Absent =>
       stream[streamClients[i]] = "open" /\ id[streamClients[i]] = i

LEMMA LocksStart ==
  ASSUME Server!ServiceAssumption, Server!Init
  PROVE  LocksHeld /\ EntriesOpen
<1>1. LocksHeld
  BY DEF Server!Init, LocksHeld, Server!Writing, Server!Reading
<1>2. (CHOOSE i \in ClientIDs : TRUE) \in ClientIDs
  BY DEF Server!ServiceAssumption
<1>3. EntriesOpen
  BY <1>2 DEF Server!Init, EntriesOpen
<1> QED BY <1>1, <1>3

LEMMA LocksNext ==
  ASSUME Server!ServiceAssumption, LocksHeld, [Server!Next]_(Server!vars)
  PROVE  LocksHeld'
<1> USE DEF Server!Writing, Server!Reading
<1>1. ASSUME UNCHANGED <<pc, announced, holds, version, seen>> PROVE LocksHeld'
  BY <1>1 DEF LocksHeld
<1>2. ASSUME Server!CollectEnds \/ Server!Stop \/ Server!LoopsEnd \/ UNCHANGED Server!vars
      PROVE UNCHANGED <<pc, announced, holds, version, seen>>
  BY <1>2 DEF Server!CollectEnds, Server!Stop, Server!LoopsEnd, Server!vars, Server!lock
<1>3. ASSUME NEW c \in Clients,
             Server!Subscribe(c) \/ Server!SendUpdate(c) \/ Server!Unregister(c) \/ Server!CloseChannel(c)
      PROVE UNCHANGED <<pc, announced, holds, version, seen>>
  BY <1>3 DEF Server!Subscribe, Server!SendUpdate, Server!Unregister, Server!CloseChannel, Server!lock
<1>4. ASSUME Server!CollectAll PROVE LocksHeld'
  <2>1. UNCHANGED <<announced, holds, version, seen>>
    BY <1>4 DEF Server!CollectAll, Server!lock
  <2>2. pc' = [t \in Server!Threads |-> IF t \in Endpoints /\ pc[t] = "idle" THEN "fetching" ELSE pc[t]]
    BY <1>4 DEF Server!CollectAll
  <2> QED BY <2>1, <2>2 DEF LocksHeld
(* A goroutine that neither waits for the lock nor holds it goes on.       *)
<1>5. ASSUME NEW t \in Server!Threads, pc[t] \notin Server!Writing \cup {"nested"},
             NEW s \in Server!Writing \cup {"read", "ready", "idle", "fetching", "broadcast"},
             pc' = [pc EXCEPT ![t] = s], UNCHANGED <<announced, holds, version, seen>>
      PROVE LocksHeld'
  BY <1>5 DEF LocksHeld
<1>6. ASSUME NEW e \in Endpoints, Server!CollectFromEndpoint(e) PROVE LocksHeld'
  BY <1>5, <1>6 DEF Server!CollectFromEndpoint, Server!Threads, Server!lock
<1>7. ASSUME Server!CleanupTick PROVE LocksHeld'
  BY <1>5, <1>7 DEF Server!CleanupTick, Server!Threads, Server!lock
<1>8. ASSUME NEW c \in Callers, Server!Request(c) \/ Server!Read(c) PROVE LocksHeld'
  BY <1>5, <1>8 DEF Server!Request, Server!Read, Server!Threads, Server!lock
<1>9. ASSUME NEW t \in Server!Threads, Server!BroadcastUpdate(t) PROVE LocksHeld'
  BY <1>5, <1>9 DEF Server!BroadcastUpdate, Server!lock
<1>10. ASSUME NEW t \in Server!Threads, Server!Announce(t) PROVE LocksHeld'
  BY <1>10 DEF Server!Announce, LocksHeld
<1>11. ASSUME NEW t \in Server!Threads, Server!Write(t) PROVE LocksHeld'
  <2>1. \A u \in Server!Threads : holds[u] = 0 /\ pc[u] # "nested"
    BY <1>11 DEF Server!Write, Server!NobodyReads, LocksHeld
  <2>2. version' \in Int
    BY <1>11 DEF Server!Write, Server!ServiceAssumption, LocksHeld
  <2>3. pc' = [pc EXCEPT ![t] = IF @ = "report" THEN "broadcast" ELSE "idle"]
        /\ announced' = Absent /\ UNCHANGED <<holds, seen>>
    BY <1>11 DEF Server!Write
  <2> QED BY <2>1, <2>2, <2>3 DEF LocksHeld
<1>12. ASSUME NEW c \in Callers, Server!ReadHealth(c) PROVE LocksHeld'
  BY <1>12 DEF Server!ReadHealth, Server!HeldOuter, Server!Threads, LocksHeld
<1>13. ASSUME NEW c \in Callers, Server!ReadSystem(c) PROVE LocksHeld'
  BY <1>13 DEF Server!ReadSystem, Server!Unlocked, Server!Threads, LocksHeld
<1> QED
  BY <1>1, <1>2, <1>3, <1>4, <1>6, <1>7, <1>8, <1>9, <1>10, <1>11, <1>12, <1>13 DEF Server!Next

LEMMA EntriesNext ==
  ASSUME Server!ServiceAssumption, EntriesOpen, [Server!Next]_(Server!vars)
  PROVE  EntriesOpen'
<1>1. ASSUME UNCHANGED <<stream, streamClients, id>> PROVE EntriesOpen'
  BY <1>1 DEF EntriesOpen
<1>2. ASSUME \/ Server!CollectAll \/ Server!CollectEnds \/ Server!CleanupTick
             \/ Server!Stop \/ Server!LoopsEnd \/ UNCHANGED Server!vars
      PROVE UNCHANGED <<stream, streamClients, id>>
  BY <1>2 DEF Server!CollectAll, Server!CollectEnds, Server!CleanupTick, Server!Stop, Server!LoopsEnd,
    Server!vars, Server!streaming
<1>3. ASSUME NEW e \in Endpoints, Server!CollectFromEndpoint(e)
      PROVE UNCHANGED <<stream, streamClients, id>>
  BY <1>3 DEF Server!CollectFromEndpoint, Server!streaming
<1>4. ASSUME NEW t \in Server!Threads, Server!Announce(t) \/ Server!Write(t) \/ Server!BroadcastUpdate(t)
      PROVE UNCHANGED <<stream, streamClients, id>>
  BY <1>4 DEF Server!Announce, Server!Write, Server!BroadcastUpdate, Server!streaming
<1>5. ASSUME NEW c \in Callers,
             Server!Request(c) \/ Server!Read(c) \/ Server!ReadHealth(c) \/ Server!ReadSystem(c)
      PROVE UNCHANGED <<stream, streamClients, id>>
  BY <1>5 DEF Server!Request, Server!Read, Server!ReadHealth, Server!ReadSystem, Server!streaming
<1>6. ASSUME NEW c \in Clients, Server!SendUpdate(c) PROVE UNCHANGED <<stream, streamClients, id>>
  BY <1>6 DEF Server!SendUpdate
<1>7. ASSUME NEW c \in Clients, Server!Subscribe(c) PROVE EntriesOpen'
  <2>1. PICK i \in ClientIDs :
          id' = [id EXCEPT ![c] = i] /\ streamClients' = [streamClients EXCEPT ![i] = c]
    BY <1>7 DEF Server!Subscribe
  <2>2. stream[c] = "closed" /\ stream' = [stream EXCEPT ![c] = "open"]
    BY <1>7 DEF Server!Subscribe
  <2> QED BY <2>1, <2>2 DEF EntriesOpen
<1>8. ASSUME NEW c \in Clients, Server!Unregister(c) PROVE EntriesOpen'
  <2>1. /\ streamClients' = [streamClients EXCEPT ![id[c]] = Absent]
        /\ stream' = [stream EXCEPT ![c] = "left"] /\ UNCHANGED id
    BY <1>8 DEF Server!Unregister, Server!Deleted
  <2> QED BY <2>1 DEF EntriesOpen
<1>9. ASSUME NEW c \in Clients, Server!CloseChannel(c) PROVE EntriesOpen'
  BY <1>9 DEF Server!CloseChannel, EntriesOpen
<1> QED
  BY <1>1, <1>2, <1>3, <1>4, <1>5, <1>6, <1>7, <1>8, <1>9 DEF Server!Next

(* For any handlers, endpoints and clients: whenever everyone who wants    *)
(* the store's lock is stuck, a readiness check is between its two locks;  *)
(* the check is about one version of the store; and no update is sent into *)
(* a closed channel (store.go:376, :406, server.go:288).                   *)
THEOREM LocksAlwaysRight ==
  ASSUME Server!ServiceAssumption
  PROVE  Server!Spec => [](Server!LocksRight)
<1> DEFINE Inv == LocksHeld /\ EntriesOpen
<1>1. Server!Init => Inv
  BY LocksStart
<1>2. Inv /\ [Server!Next]_(Server!vars) => Inv'
  BY LocksNext, EntriesNext
<1>3. Inv => Server!LocksRight
  <2> SUFFICES ASSUME LocksHeld, EntriesOpen PROVE Server!LocksRight
    OBVIOUS
  <2>1. ASSUME Server!Stuck PROVE \E c \in Callers : pc[c] = "nested"
    <3>1. announced # Absent
      BY <2>1 DEF Server!Stuck, Server!Waiting, Server!CanProceed
    <3>2. announced \in Server!Waiting /\ ~Server!CanProceed(announced) /\ pc[announced] \in Server!Writing
      BY <2>1, <3>1 DEF LocksHeld, Server!Stuck, Server!Waiting
    <3>3. ~Server!NobodyReads
      BY <3>2 DEF Server!CanProceed
    <3> QED BY <3>3 DEF Server!NobodyReads, LocksHeld
  <2>2. Server!HealthFromOneVersion
    BY DEF Server!HealthFromOneVersion, LocksHeld, Server!Threads
  <2>3. Server!NoSendOnClosed
    BY DEF Server!NoSendOnClosed, Server!Registered, EntriesOpen
  <2> QED BY <2>1, <2>2, <2>3 DEF Server!LocksRight, Server!BlockedOnlyByNesting
<1> HIDE DEF Inv
<1> QED
  BY <1>1, <1>2, <1>3, PTL DEF Server!Spec


(* The types the proofs above do not need.                                 *)
ServerTyped ==
  /\ life \in {"running", "stopping", "stopped"} /\ collecting \in BOOLEAN
  /\ version \in 0..(Versions - 1) /\ seen \in [Callers -> 0..(Versions - 1)]
  /\ queue \in [Clients -> 0..ChannelCap]

LEMMA ServerTypedNext ==
  ASSUME Server!ServiceAssumption, ServerTyped, [Server!Next]_(Server!vars)
  PROVE  ServerTyped'
<1> USE DEF Server!ServiceAssumption, Server!aggregator, Server!lock, Server!streaming
<1>1. ASSUME UNCHANGED <<life, collecting, version, seen, queue>> PROVE ServerTyped'
  BY <1>1 DEF ServerTyped
<1>2. ASSUME \/ Server!CollectAll \/ Server!CollectEnds \/ Server!CleanupTick
             \/ Server!Stop \/ Server!LoopsEnd
      PROVE ServerTyped'
  BY <1>2 DEF Server!CollectAll, Server!CollectEnds, Server!CleanupTick, Server!Stop, Server!LoopsEnd,
    ServerTyped
<1>3. ASSUME NEW e \in Endpoints, Server!CollectFromEndpoint(e)
      PROVE UNCHANGED <<life, collecting, version, seen, queue>>
  BY <1>3 DEF Server!CollectFromEndpoint
<1>4. ASSUME NEW t \in Server!Threads, Server!Announce(t)
      PROVE UNCHANGED <<life, collecting, version, seen, queue>>
  BY <1>4 DEF Server!Announce
<1>5. ASSUME NEW t \in Server!Threads, Server!Write(t) PROVE ServerTyped'
  <2>1. (version + 1) % Versions \in 0..(Versions - 1)
    BY DEF ServerTyped
  <2>2. version' = (version + 1) % Versions /\ UNCHANGED <<life, collecting, seen, queue>>
    BY <1>5 DEF Server!Write
  <2> QED BY <2>1, <2>2 DEF ServerTyped
<1>6. ASSUME NEW t \in Server!Threads, Server!BroadcastUpdate(t) PROVE ServerTyped'
  <2>1. UNCHANGED <<life, collecting, version, seen>>
    BY <1>6 DEF Server!BroadcastUpdate
  <2>2. queue' = [c \in Clients |-> IF c \in Server!Registered /\ queue[c] < ChannelCap
                                   THEN queue[c] + 1 ELSE queue[c]]
    BY <1>6 DEF Server!BroadcastUpdate
  <2> QED BY <2>1, <2>2 DEF ServerTyped
<1>7. ASSUME NEW c \in Callers, Server!Request(c) \/ Server!Read(c) \/ Server!ReadSystem(c)
      PROVE UNCHANGED <<life, collecting, version, seen, queue>>
  BY <1>7 DEF Server!Request, Server!Read, Server!ReadSystem
<1>8. ASSUME NEW c \in Callers, Server!ReadHealth(c) PROVE ServerTyped'
  BY <1>8 DEF Server!ReadHealth, ServerTyped
<1>9. ASSUME NEW c \in Clients, Server!Subscribe(c) \/ Server!SendUpdate(c) PROVE ServerTyped'
  BY <1>9 DEF Server!Subscribe, Server!SendUpdate, ServerTyped
<1>10. ASSUME NEW c \in Clients, Server!Unregister(c) \/ Server!CloseChannel(c)
      PROVE UNCHANGED <<life, collecting, version, seen, queue>>
  BY <1>10 DEF Server!Unregister, Server!CloseChannel
<1>11. ASSUME UNCHANGED Server!vars PROVE UNCHANGED <<life, collecting, version, seen, queue>>
  BY <1>11 DEF Server!vars
<1> QED
  BY <1>1, <1>2, <1>3, <1>4, <1>5, <1>6, <1>7, <1>8, <1>9, <1>10, <1>11 DEF Server!Next

(* Type correctness of the watermark service: the reader count of every    *)
(* goroutine is zero or one, and no channel has more than it holds         *)
(* (server.go:131, :288).                                                  *)
THEOREM ServerTypeCorrect ==
  ASSUME Server!ServiceAssumption
  PROVE  Server!Spec => [](Server!TypeOK)
<1> DEFINE Inv == LocksHeld /\ EntriesOpen /\ ServerTyped
<1>1. Server!Init => Inv
  <2>1. Server!Init => ServerTyped
    <3>1. 0 \in 0..(Versions - 1) /\ 0 \in 0..ChannelCap
      BY DEF Server!ServiceAssumption
    <3>2. Server!Init => /\ life = "running" /\ collecting = FALSE /\ version = 0
                         /\ seen = [c \in Callers |-> 0] /\ queue = [c \in Clients |-> 0]
      BY DEF Server!Init
    <3> QED BY <3>1, <3>2 DEF ServerTyped
  <2> QED BY <2>1, LocksStart
<1>2. Inv /\ [Server!Next]_(Server!vars) => Inv'
  BY LocksNext, EntriesNext, ServerTypedNext
<1>3. Inv => Server!TypeOK
  BY DEF LocksHeld, EntriesOpen, ServerTyped, Server!TypeOK
<1> HIDE DEF Inv
<1> QED
  BY <1>1, <1>2, <1>3, PTL DEF Server!Spec

-----------------------------------------------------------------------------
(* Query API.                                                              *)

PathTyped ==
  /\ qstep \in [Queriers -> {"idle", "get", "set", "respond", "fail", "execute", "read", "return"}]
  /\ query \in [Queriers -> Queries] /\ waited \in [Queriers -> Nat]
  /\ answer \in [Queriers -> [of : Queries, age : Nat, seen : Nat]]
  /\ cache \in [Queries -> [of : Queries, age : Nat, seen : Nat, left : Nat]]

(* What a request has is about its query, and so is an entry.              *)
OwnQuery ==
  /\ \A r \in Queriers : answer[r].of = query[r]
  /\ \A k \in Queries : cache[k].left > 0 => cache[k].of = k

(* An answer read by a call is no older than the call, one being stored no *)
(* older than the longest call and the storing; an entry that is getting   *)
(* older has less left to live.                                            *)
AgesBounded ==
  /\ \A r \in Queriers :
       /\ qstep[r] \in {"read", "return"} => answer[r].age <= waited[r]
       /\ qstep[r] \in {"execute", "read", "return"} => waited[r] <= CallTimeout
       /\ qstep[r] = "set" => answer[r].age <= CallTimeout + waited[r] /\ waited[r] <= RedisTimeout
       /\ qstep[r] = "respond" => answer[r].age <= CallTimeout + RedisTimeout + TTL
  /\ \A k \in Queries : cache[k].left > 0 =>
       cache[k].age + cache[k].left <= CallTimeout + RedisTimeout + TTL

PathInv == PathTyped /\ OwnQuery /\ AgesBounded

LEMMA TimeoutsTyped ==
  ASSUME Path!QueryAssumption
  PROVE  /\ TTL \in Nat /\ CallTimeout \in Nat /\ RedisTimeout \in Nat
         /\ Path!AnyQuery \in Queries
         /\ \A a \in Nat : Path!Older(a) \in Nat /\ Path!Older(a) <= a + 1
BY DEF Path!QueryAssumption, Path!AnyQuery, Path!Older, Path!MaxAge

LEMMA PathStart ==
  ASSUME Path!QueryAssumption, Path!Init
  PROVE  PathInv
<1> USE TimeoutsTyped DEF Path!Init, Path!NoEntry, Path!Fresh
<1>1. PathTyped
  BY DEF PathTyped
<1>2. OwnQuery
  BY DEF OwnQuery
<1>3. AgesBounded
  BY DEF AgesBounded
<1> QED BY <1>1, <1>2, <1>3 DEF PathInv

(* A request that is given a new step, and the time of its next call.      *)
LEMMA PathHandles ==
  ASSUME Path!QueryAssumption, PathInv, NEW r \in Queriers,
         Path!Receive(r) \/ Path!Handle(r)
  PROVE  PathInv'
<1> USE TimeoutsTyped DEF PathInv, Path!Fresh, Path!Goto
<1>1. CASE Path!Receive(r)
  <2> USE <1>1 DEF Path!Receive
  <2>1. PathTyped'
    BY DEF PathTyped
  <2> QED BY <2>1 DEF PathTyped, OwnQuery, AgesBounded
<1>2. CASE Path!Get(r)
  <2> DEFINE k == query[r]
  <2>1. qstep[r] = "get" /\ UNCHANGED <<query, cache>> /\ waited' = [waited EXCEPT ![r] = 0]
    BY <1>2 DEF Path!Get, Path!AfterHit
  <2>2. CASE /\ cache[k].left > 0 /\ qstep' = [qstep EXCEPT ![r] = "respond"]
             /\ answer' = [answer EXCEPT ![r] = [of |-> cache[k].of, age |-> cache[k].age,
                                                 seen |-> cache[k].seen]]
    <3>1. PathTyped'
      BY <2>1, <2>2 DEF PathTyped
    <3>2. cache[k].of = k /\ cache[k].age <= CallTimeout + RedisTimeout + TTL
      BY <2>2 DEF PathTyped, OwnQuery, AgesBounded
    <3> QED BY <2>1, <2>2, <3>1, <3>2 DEF PathTyped, OwnQuery, AgesBounded
  <2>3. CASE qstep' = [qstep EXCEPT ![r] = "execute"] /\ UNCHANGED answer
    <3>1. PathTyped'
      BY <2>1, <2>3 DEF PathTyped
    <3> QED BY <2>1, <2>3, <3>1 DEF PathTyped, OwnQuery, AgesBounded
  <2> QED BY <1>2, <2>2, <2>3 DEF Path!Get, Path!GenerateKey
<1>3. CASE Path!Execute(r)
  <2> USE <1>3 DEF Path!Execute
  <2>1. PathTyped'
    BY DEF PathTyped
  <2> QED BY <2>1 DEF PathTyped, OwnQuery, AgesBounded
<1>4. CASE Path!ReadWatermark(r)
  <2> USE <1>4 DEF Path!ReadWatermark
  <2>1. PathTyped'
    BY DEF PathTyped
  <2> QED BY <2>1 DEF PathTyped, OwnQuery, AgesBounded
<1>5. CASE Path!Return(r)
  <2> USE <1>5 DEF Path!Return
  <2>1. PathTyped'
    BY DEF PathTyped
  <2>2. answer[r].age <= CallTimeout
    BY DEF PathTyped, AgesBounded
  <2> QED BY <2>1, <2>2 DEF PathTyped, OwnQuery, AgesBounded
<1>8. CASE Path!CallFails(r)
  <2> USE <1>8 DEF Path!CallFails
  <2>1. PathTyped'
    BY DEF PathTyped
  <2> QED BY <2>1 DEF PathTyped, OwnQuery, AgesBounded
<1>6. CASE Path!Set(r)
  <2> DEFINE k == query[r]
  <2>1. /\ qstep[r] = "set" /\ UNCHANGED <<query, answer>> /\ waited' = [waited EXCEPT ![r] = 0]
        /\ qstep' = [qstep EXCEPT ![r] = "respond"]
    BY <1>6 DEF Path!Set
  <2>2. \/ UNCHANGED cache
        \/ cache' = [cache EXCEPT ![k] = [of |-> answer[r].of, age |-> answer[r].age,
                                          seen |-> answer[r].seen, left |-> TTL]]
    BY <1>6 DEF Path!Set, Path!GenerateKey
  <2>3. answer[r].of = k /\ answer[r].age <= CallTimeout + RedisTimeout
    BY <2>1 DEF PathTyped, OwnQuery, AgesBounded
  <2>4. PathTyped'
    BY <2>1, <2>2 DEF PathTyped
  <2>5. OwnQuery'
    <3>1. CASE UNCHANGED cache
      BY <2>1, <3>1 DEF OwnQuery
    <3>2. CASE cache' = [cache EXCEPT ![k] = [of |-> answer[r].of, age |-> answer[r].age,
                                              seen |-> answer[r].seen, left |-> TTL]]
      <4>1. \A j \in Queries : IF j = k THEN cache'[j].of = k ELSE cache'[j] = cache[j]
        BY <2>3, <3>2 DEF PathTyped
      <4> QED BY <2>1, <4>1 DEF OwnQuery
    <3> QED BY <2>2, <3>1, <3>2
  <2>6. AgesBounded'
    <3>1. \A q \in Queriers : q # r => qstep'[q] = qstep[q] /\ waited'[q] = waited[q]
      BY <2>1 DEF PathTyped
    <3>2. qstep'[r] = "respond" /\ answer[r].age <= CallTimeout + RedisTimeout + TTL
      BY <2>1, <2>3 DEF PathTyped
    <3>3. \A j \in Queries :
            IF cache' # cache /\ j = k THEN cache'[j].age = answer[r].age /\ cache'[j].left = TTL
            ELSE cache'[j] = cache[j]
      BY <2>2 DEF PathTyped
    <3>4. \A j \in Queries : cache'[j].left > 0 =>
            cache'[j].age + cache'[j].left <= CallTimeout + RedisTimeout + TTL
      BY <2>3, <3>3 DEF PathTyped, AgesBounded
    <3> QED BY <2>1, <3>1, <3>2, <3>4 DEF AgesBounded
  <2> QED BY <2>4, <2>5, <2>6
<1>7. CASE Path!Respond(r)
  <2> USE <1>7 DEF Path!Respond
  <2>1. PathTyped'
    BY DEF PathTyped
  <2> QED BY <2>1 DEF PathTyped, OwnQuery, AgesBounded
<1> QED BY <1>1, <1>2, <1>3, <1>4, <1>5, <1>6, <1>7, <1>8 DEF Path!Handle

(* What a tick makes of an answer and of an entry, field by field.         *)
LEMMA AnswerFields ==
  ASSUME NEW a \in [of : Queries, age : Nat, seen : Nat], NEW x, NEW y
  PROVE  [a EXCEPT !.age = x, !.seen = y] = [of |-> a.of, age |-> x, seen |-> y]
<1> DEFINE b == [a EXCEPT !.age = x]
<1>1. b = [of |-> a.of, age |-> x, seen |-> a.seen]
  BY SMT
<1> HIDE DEF b
<1>2. [b EXCEPT !.seen = y] = [of |-> a.of, age |-> x, seen |-> y]
  BY <1>1, SMT
<1> QED BY <1>2 DEF b

LEMMA EntryFields ==
  ASSUME NEW e \in [of : Queries, age : Nat, seen : Nat, left : Nat], NEW x, NEW y, NEW z
  PROVE  [e EXCEPT !.age = x, !.seen = y, !.left = z] = [of |-> e.of, age |-> x, seen |-> y, left |-> z]
<1> DEFINE b == [e EXCEPT !.age = x]
<1>1. b = [of |-> e.of, age |-> x, seen |-> e.seen, left |-> e.left]
  BY SMT
<1> HIDE DEF b
<1> DEFINE c == [b EXCEPT !.seen = y]
<1>2. c = [of |-> e.of, age |-> x, seen |-> y, left |-> e.left]
  BY <1>1, SMT
<1> HIDE DEF c
<1>3. [c EXCEPT !.left = z] = [of |-> e.of, age |-> x, seen |-> y, left |-> z]
  BY <1>2, SMT
<1> QED BY <1>3 DEF b, c

LEMMA PathTicks ==
  ASSUME Path!QueryAssumption, PathInv, Path!Tick
  PROVE  PathInv'
<1> USE TimeoutsTyped DEF PathInv
<1>1. /\ UNCHANGED <<qstep, query>>
      /\ \A r \in Queriers : qstep[r] = "idle" \/ waited[r] < Path!Limit(r)
      /\ waited' = [r \in Queriers |-> IF qstep[r] = "idle" THEN 0 ELSE waited[r] + 1]
  BY DEF Path!Tick
<1>2. answer' = [r \in Queriers |->
                   IF qstep[r] = "idle" THEN answer[r]
                   ELSE [of |-> answer[r].of, age |-> Path!Older(answer[r].age),
                         seen |-> Path!Older(answer[r].seen)]]
  <2>1. answer' = [r \in Queriers |->
                     IF qstep[r] = "idle" THEN answer[r]
                     ELSE [answer[r] EXCEPT !.age = Path!Older(@), !.seen = Path!Older(@)]]
    BY Zenon DEF Path!Tick
  <2>2. \A r \in Queriers :
          [answer[r] EXCEPT !.age = Path!Older(@), !.seen = Path!Older(@)]
            = [of |-> answer[r].of, age |-> Path!Older(answer[r].age), seen |-> Path!Older(answer[r].seen)]
    <3>1. \A r \in Queriers : answer[r] \in [of : Queries, age : Nat, seen : Nat]
      BY DEF PathTyped
    <3> QED BY <3>1, AnswerFields, Zenon
  <2> QED BY <2>1, <2>2, Zenon
<1>3. cache' = [k \in Queries |->
                  IF cache[k].left <= 1 THEN Path!NoEntry
                  ELSE [of |-> cache[k].of, age |-> Path!Older(cache[k].age),
                        seen |-> Path!Older(cache[k].seen), left |-> cache[k].left - 1]]
  <2>1. cache' = [k \in Queries |->
                    IF cache[k].left <= 1 THEN Path!NoEntry
                    ELSE [cache[k] EXCEPT !.age = Path!Older(@), !.seen = Path!Older(@), !.left = @ - 1]]
    BY Zenon DEF Path!Tick
  <2>2. \A k \in Queries :
          [cache[k] EXCEPT !.age = Path!Older(@), !.seen = Path!Older(@), !.left = @ - 1]
            = [of |-> cache[k].of, age |-> Path!Older(cache[k].age),
               seen |-> Path!Older(cache[k].seen), left |-> cache[k].left - 1]
    <3>1. \A k \in Queries : cache[k] \in [of : Queries, age : Nat, seen : Nat, left : Nat]
      BY DEF PathTyped
    <3> QED BY <3>1, EntryFields, Zenon
  <2> QED BY <2>1, <2>2, Zenon
<1>4. PathTyped'
  <2>1. waited' \in [Queriers -> Nat] /\ answer' \in [Queriers -> [of : Queries, age : Nat, seen : Nat]]
    BY <1>1, <1>2 DEF PathTyped
  <2>2. cache' \in [Queries -> [of : Queries, age : Nat, seen : Nat, left : Nat]]
    BY <1>3 DEF PathTyped, Path!NoEntry
  <2> QED BY <1>1, <2>1, <2>2 DEF PathTyped
<1>5. OwnQuery'
  BY <1>1, <1>2, <1>3 DEF PathTyped, OwnQuery, Path!NoEntry
<1>6. AgesBounded'
  <2>1. ASSUME NEW r \in Queriers
        PROVE /\ qstep[r] \in {"execute", "read", "return"} => waited'[r] <= CallTimeout
              /\ qstep[r] = "set" => waited'[r] <= RedisTimeout
              /\ qstep[r] # "respond"
    BY <1>1 DEF Path!Limit, Path!Calling, PathTyped
  <2>2. ASSUME NEW r \in Queriers, qstep[r] # "idle"
        PROVE answer'[r].age <= answer[r].age + 1 /\ waited'[r] = waited[r] + 1
    BY <1>1, <1>2, <2>2 DEF PathTyped
  <2>3. ASSUME NEW k \in Queries, cache'[k].left > 0
        PROVE cache'[k].age + cache'[k].left <= CallTimeout + RedisTimeout + TTL
    <3>1. /\ cache[k].left > 1 /\ cache'[k].left = cache[k].left - 1
          /\ cache'[k].age <= cache[k].age + 1
      BY <1>3, <2>3 DEF PathTyped, Path!NoEntry
    <3>2. cache[k].age + cache[k].left <= CallTimeout + RedisTimeout + TTL
      BY <3>1 DEF PathTyped, AgesBounded
    <3>3. /\ cache[k].age \in Nat /\ cache[k].left \in Nat
          /\ cache'[k].age \in Nat /\ cache'[k].left \in Nat
      BY <1>4 DEF PathTyped
    <3> HIDE DEF PathInv
    <3> QED BY <3>1, <3>2, <3>3
  <2> QED BY <1>1, <1>4, <2>1, <2>2, <2>3 DEF PathTyped, AgesBounded
<1> QED BY <1>4, <1>5, <1>6

(* For any number of requests and any timeouts: an answer is one to its    *)
(* own query, and no older than a call, a write of the cache and the time  *)
(* to live together (main.go:113, :130, cache.go:97).                      *)
THEOREM AnswersAlwaysRight ==
  ASSUME Path!QueryAssumption
  PROVE  Path!Spec => [](Path!AnswersRight)
<1>1. Path!Init => PathInv
  BY PathStart
<1>2. PathInv /\ [Path!Next]_(Path!vars) => PathInv'
  <2> SUFFICES ASSUME PathInv, [Path!Next]_(Path!vars) PROVE PathInv'
    OBVIOUS
  <2>1. ASSUME UNCHANGED <<cache, qstep, query, waited, answer>> PROVE PathInv'
    BY <2>1 DEF PathInv, PathTyped, OwnQuery, AgesBounded
  <2>2. ASSUME Path!Shutdown \/ Path!Exit \/ UNCHANGED Path!vars PROVE PathInv'
    BY <2>1, <2>2 DEF Path!Shutdown, Path!Exit, Path!vars, Path!handlers
  <2> QED BY <2>2, PathHandles, PathTicks DEF Path!Next
<1>3. PathInv => Path!AnswersRight
  BY DEF PathInv, PathTyped, OwnQuery, AgesBounded, Path!AnswersRight, Path!AnswersOwnQuery,
    Path!StalenessBounded, Path!Answering
<1> QED
  BY <1>1, <1>2, <1>3, PTL DEF Path!Spec

(* The types, with their bounds.                                           *)
LEMMA PathTypedNext ==
  ASSUME Path!QueryAssumption, Path!TypeOK, [Path!Next]_(Path!vars)
  PROVE  Path!TypeOK'
<1> DEFINE Ages == 0..Path!MaxAge
<1>0. /\ TTL \in Nat \ {0} /\ CallTimeout \in Nat /\ RedisTimeout \in Nat /\ Grace \in Nat
      /\ Path!MaxAge \in Nat /\ Path!AnyQuery \in Queries
      /\ \A a \in Ages : Path!Older(a) \in Ages
  BY TimeoutsTyped DEF Path!QueryAssumption, Path!MaxAge, Path!Older
<1>A. Path!Answers = [of : Queries, age : Ages, seen : Ages]
  BY DEF Path!Answers
<1>E. Path!Entries = [of : Queries, age : Ages, seen : Ages, left : 0..TTL]
  BY DEF Path!Entries
<1>F. \A q \in Queries : Path!Fresh(q) \in Path!Answers
  BY <1>0 DEF Path!Fresh, Path!Answers
<1> HIDE DEF Ages
<1> USE DEF Path!TypeOK, Path!Goto, Path!Calling, Path!GenerateKey
<1>1. ASSUME NEW r \in Queriers, Path!Receive(r) PROVE Path!TypeOK'
  BY <1>0, <1>1, <1>F DEF Path!Receive
<1>2. ASSUME NEW r \in Queriers, Path!Get(r) PROVE Path!TypeOK'
  BY <1>0, <1>2, <1>A, <1>E DEF Path!Get, Path!AfterHit
<1>3. ASSUME NEW r \in Queriers, Path!Execute(r) PROVE Path!TypeOK'
  BY <1>3, <1>F DEF Path!Execute
<1>4. ASSUME NEW r \in Queriers, Path!ReadWatermark(r) PROVE Path!TypeOK'
  <2>1. 0 \in Ages
    BY <1>0 DEF Ages
  <2> QED BY <1>4, <1>A, <2>1 DEF Path!ReadWatermark
<1>5. ASSUME NEW r \in Queriers, Path!Return(r) \/ Path!CallFails(r) PROVE Path!TypeOK'
  BY <1>0, <1>5 DEF Path!Return, Path!CallFails
<1>6. ASSUME NEW r \in Queriers, Path!Set(r) PROVE Path!TypeOK'
  <2> DEFINE entry == [of |-> answer[r].of, age |-> answer[r].age, seen |-> answer[r].seen, left |-> TTL]
  <2>1. entry \in Path!Entries
    <3>1. answer[r] \in [of : Queries, age : Ages, seen : Ages]
      BY <1>A
    <3>2. TTL \in 0..TTL
      BY <1>0
    <3> QED BY <1>E, <3>1, <3>2
  <2>2. \/ cache' = [cache EXCEPT ![query[r]] = entry]
        \/ cache' = cache
    BY <1>6 DEF Path!Set
  <2> HIDE DEF entry
  <2>3. cache' \in [Queries -> Path!Entries]
    BY <2>1, <2>2
  <2>4. /\ qstep' = [qstep EXCEPT ![r] = "respond"]
        /\ waited' = [waited EXCEPT ![r] = 0]
        /\ UNCHANGED <<phase, drained, enabled, connected, query, answer>>
    BY <1>6 DEF Path!Set
  <2> QED BY <1>0, <2>3, <2>4
<1>7. ASSUME NEW r \in Queriers, Path!Respond(r) PROVE Path!TypeOK'
  BY <1>0, <1>7, <1>F DEF Path!Respond
<1>8. ASSUME Path!Tick PROVE Path!TypeOK'
  <2>0. /\ UNCHANGED <<phase, enabled, connected, qstep, query>>
        /\ drained' = IF phase = "draining" /\ drained < Grace THEN drained + 1 ELSE drained
        /\ \A r \in Queriers : qstep[r] = "idle" \/ waited[r] < Path!Limit(r)
        /\ waited' = [r \in Queriers |-> IF qstep[r] = "idle" THEN 0 ELSE waited[r] + 1]
    BY <1>8, Zenon DEF Path!Tick
  <2>1. drained' \in 0..Grace
    BY <1>0, <2>0
  <2>2. waited' \in [Queriers -> 0..(CallTimeout + RedisTimeout)]
    <3>1. \A r \in Queriers : Path!Limit(r) <= CallTimeout + RedisTimeout /\ Path!Limit(r) \in Nat
      BY <1>0 DEF Path!Limit
    <3>2. \A r \in Queriers : (IF qstep[r] = "idle" THEN 0 ELSE waited[r] + 1) \in 0..(CallTimeout + RedisTimeout)
      BY <1>0, <2>0, <3>1
    <3> QED BY <2>0, <3>2
  <2>3. answer' \in [Queriers -> Path!Answers]
    <3>1. \A r \in Queriers :
            [answer[r] EXCEPT !.age = Path!Older(@), !.seen = Path!Older(@)] \in Path!Answers
      <4> SUFFICES ASSUME NEW r \in Queriers
                   PROVE  [answer[r] EXCEPT !.age = Path!Older(@), !.seen = Path!Older(@)] \in Path!Answers
        OBVIOUS
      <4>1. answer[r] \in [of : Queries, age : Ages, seen : Ages]
        BY <1>A
      <4>2. answer[r] \in [of : Queries, age : Nat, seen : Nat]
        BY <4>1 DEF Ages
      <4>3. [answer[r] EXCEPT !.age = Path!Older(@), !.seen = Path!Older(@)]
              = [of |-> answer[r].of, age |-> Path!Older(answer[r].age), seen |-> Path!Older(answer[r].seen)]
        BY <4>2, AnswerFields, Zenon
      <4> QED BY <1>0, <1>A, <4>1, <4>3
    <3>2. answer' = [r \in Queriers |->
                       IF qstep[r] = "idle" THEN answer[r]
                       ELSE [answer[r] EXCEPT !.age = Path!Older(@), !.seen = Path!Older(@)]]
      BY <1>8, Zenon DEF Path!Tick
    <3> QED BY <3>1, <3>2
  <2>4. cache' \in [Queries -> Path!Entries]
    <3>1. Path!NoEntry \in Path!Entries
      BY <1>0, <1>E DEF Path!NoEntry, Ages
    <3>2. ASSUME NEW k \in Queries, ~(cache[k].left <= 1)
          PROVE  [cache[k] EXCEPT !.age = Path!Older(@), !.seen = Path!Older(@), !.left = @ - 1] \in Path!Entries
      <4>1. cache[k] \in [of : Queries, age : Ages, seen : Ages, left : 0..TTL]
        BY <1>E
      <4>2. cache[k] \in [of : Queries, age : Nat, seen : Nat, left : Nat]
        BY <1>0, <4>1 DEF Ages
      <4>3. [cache[k] EXCEPT !.age = Path!Older(@), !.seen = Path!Older(@), !.left = @ - 1]
              = [of |-> cache[k].of, age |-> Path!Older(cache[k].age),
                 seen |-> Path!Older(cache[k].seen), left |-> cache[k].left - 1]
        BY <4>2, EntryFields, Zenon
      <4>4. cache[k].left - 1 \in 0..TTL
        BY <1>0, <3>2, <4>1
      <4> QED BY <1>0, <1>E, <4>1, <4>3, <4>4
    <3>3. cache' = [k \in Queries |->
            IF cache[k].left <= 1 THEN Path!NoEntry
            ELSE [cache[k] EXCEPT !.age = Path!Older(@), !.seen = Path!Older(@), !.left = @ - 1]]
      BY <1>8, Zenon DEF Path!Tick
    <3> QED BY <3>1, <3>2, <3>3
  <2> QED BY <2>0, <2>1, <2>2, <2>3, <2>4
<1>9. ASSUME Path!Shutdown \/ Path!Exit \/ UNCHANGED Path!vars PROVE Path!TypeOK'
  BY <1>9 DEF Path!Shutdown, Path!Exit, Path!vars, Path!handlers
<1> QED
  BY <1>1, <1>2, <1>3, <1>4, <1>5, <1>6, <1>7, <1>8, <1>9 DEF Path!Next, Path!Handle

(* Type correctness of the query API: no age and no call goes beyond the   *)
(* bounds of the model, and no entry has more than its time to live left   *)
(* (cache.go:97).                                                          *)
THEOREM PathTypeCorrect ==
  ASSUME Path!QueryAssumption
  PROVE  Path!Spec => [](Path!TypeOK)
<1>1. ASSUME Path!Init PROVE Path!TypeOK
  BY <1>1, TimeoutsTyped DEF Path!Init, Path!NoEntry, Path!Fresh, Path!TypeOK, Path!Entries, Path!Answers,
    Path!MaxAge, Path!QueryAssumption
<1> QED
  BY <1>1, PathTypedNext, PTL DEF Path!Spec

-----------------------------------------------------------------------------
(* Watermark store.                                                        *)

LEMMA LeastOfNaturals ==
  ASSUME NEW T, T \subseteq Nat, T # {}
  PROVE  \E m \in T : \A n \in T : m <= n
<1> DEFINE R == {ss \in Nat \X Nat : ss[1] < ss[2]}
<1>1. IsWellFoundedOn(R, Nat)
  BY NatLessThanWellFounded DEF OpToRel
<1> HIDE DEF R
<1>2. PICK m \in T : \A n \in T : <<n, m>> \notin R
  BY <1>1, WFMin
<1>3. \A n \in T : ~(n < m)
  BY <1>2 DEF R
<1> QED BY <1>3

(* Those with a smaller value, and those with no greater one.              *)
Below(f, S, u) == {s \in S : f[s] < u}
UpTo(f, S, u) == {s \in S : f[s] <= u}

LEMMA Ranks ==
  ASSUME NEW S, IsFiniteSet(S), NEW f
  PROVE  /\ Store!Cardinality(S) \in Nat
         /\ \A u : /\ Store!Cardinality(Below(f, S, u)) \in Nat
                  /\ Store!Cardinality(UpTo(f, S, u)) \in Nat
                  /\ Store!Cardinality(UpTo(f, S, u)) <= Store!Cardinality(S)
         /\ \A u, w : UpTo(f, S, u) \subseteq Below(f, S, w)
              => Store!Cardinality(UpTo(f, S, u)) <= Store!Cardinality(Below(f, S, w))
         /\ \A u, w : UpTo(f, S, u) \subseteq UpTo(f, S, w) /\ UpTo(f, S, u) # UpTo(f, S, w)
              => Store!Cardinality(UpTo(f, S, u)) < Store!Cardinality(UpTo(f, S, w))
<1>1. \A T : Store!Cardinality(T) = Cardinality(T)
  BY DEF Store!Cardinality, Cardinality
<1>2. \A u : Below(f, S, u) \subseteq S /\ UpTo(f, S, u) \subseteq S
  BY DEF Below, UpTo
<1>3. \A T \in SUBSET S : IsFiniteSet(T) /\ Cardinality(T) \in Nat /\ Cardinality(T) <= Cardinality(S)
  BY FS_Subset, FS_CardinalityType
<1>4. \A T \in SUBSET S : \A R \in SUBSET T :
        /\ Cardinality(R) <= Cardinality(T)
        /\ Cardinality(R) = Cardinality(T) => R = T
  BY <1>3, FS_Subset
<1>5. \A T \in SUBSET S : \A R \in SUBSET T :
        /\ Cardinality(R) <= Cardinality(T)
        /\ R # T => Cardinality(R) < Cardinality(T)
  BY <1>3, <1>4
<1> QED BY <1>1, <1>2, <1>3, <1>5

LEMMA GreatestOfFinite ==
  ASSUME NEW S, IsFiniteSet(S), S # {}, NEW f, \A s \in S : f[s] \in Nat
  PROVE  \E m \in S : \A s \in S : f[s] <= f[m]
<1> DEFINE count(s) == Store!Cardinality(UpTo(f, S, f[s]))
           rest(s) == Store!Cardinality(S) - count(s)
           T == {rest(s) : s \in S}
<1>1. \A s \in S : count(s) \in Nat /\ rest(s) \in Nat
  BY Ranks
<1>2. PICK m \in S : \A s \in S : rest(m) <= rest(s)
  <2>1. T \subseteq Nat /\ T # {}
    BY <1>1
  <2>2. PICK d \in T : \A e \in T : d <= e
    <3> HIDE DEF T
    <3> QED BY <2>1, LeastOfNaturals
  <2> HIDE DEF rest
  <2> QED BY <2>2
<1>3. ASSUME NEW s \in S, ~(f[s] <= f[m]) PROVE FALSE
  <2>1. UpTo(f, S, f[m]) \subseteq UpTo(f, S, f[s]) /\ UpTo(f, S, f[m]) # UpTo(f, S, f[s])
    <3>1. s \in UpTo(f, S, f[s]) /\ s \notin UpTo(f, S, f[m])
      BY <1>3 DEF UpTo
    <3>2. \A q \in S : f[q] <= f[m] => f[q] <= f[s]
      BY <1>3
    <3> QED BY <3>1, <3>2 DEF UpTo
  <2>2. count(m) < count(s)
    BY <2>1, Ranks
  <2>3. Store!Cardinality(S) \in Nat
    BY Ranks
  <2> HIDE DEF count
  <2> QED BY <1>1, <1>2, <2>2, <2>3
<1> QED BY <1>2, <1>3

LEMMA KthAmong ==
  ASSUME NEW S, IsFiniteSet(S), NEW f, \A s \in S : f[s] \in Nat,
         NEW k \in Nat, k < Store!Cardinality(S)
  PROVE  /\ Store!KthSmallest(f, S, k) \in Nat
         /\ \E s \in S : Store!KthSmallest(f, S, k) = f[s]
         /\ Store!Cardinality(Below(f, S, Store!KthSmallest(f, S, k))) <= k
         /\ k < Store!Cardinality(UpTo(f, S, Store!KthSmallest(f, S, k)))
         /\ \A s \in S : /\ Store!Cardinality(Below(f, S, f[s])) <= k
                        /\ k < Store!Cardinality(UpTo(f, S, f[s]))
                        => f[s] = Store!KthSmallest(f, S, k)
<1> DEFINE V == {f[s] : s \in S}
           First(u) == /\ Store!Cardinality(Below(f, S, u)) <= k
                       /\ k < Store!Cardinality(UpTo(f, S, u))
           T == {u \in V : k < Store!Cardinality(UpTo(f, S, u))}
<1>1. V \subseteq Nat
  OBVIOUS
<1>2. Store!Cardinality({}) = 0
  <2>1. Store!Cardinality({}) = Cardinality({})
    BY DEF Store!Cardinality, Cardinality
  <2> QED BY <2>1, FS_EmptySet
<1>3. T # {}
  <2>1. S # {}
    BY <1>2
  <2>2. PICK m \in S : \A s \in S : f[s] <= f[m]
    BY <2>1, GreatestOfFinite
  <2>3. UpTo(f, S, f[m]) = S
    BY <2>2 DEF UpTo
  <2>4. f[m] \in T
    BY <2>3
  <2> QED BY <2>4
<1>4. PICK v \in T : \A u \in T : v <= u
  <2>1. T \subseteq Nat
    BY <1>1
  <2> HIDE DEF T
  <2> QED BY <1>3, <2>1, LeastOfNaturals
<1>5. Store!Cardinality(Below(f, S, v)) <= k
  <2> DEFINE B == Below(f, S, v)
  <2>1. CASE B = {}
    BY <1>2, <2>1
  <2>2. CASE B # {}
    <3>1. B \subseteq S /\ IsFiniteSet(B)
      BY FS_Subset DEF Below
    <3>2. PICK m \in B : \A s \in B : f[s] <= f[m]
      <4>1. \A s \in B : f[s] \in Nat
        BY <3>1
      <4> HIDE DEF B
      <4> QED BY <2>2, <3>1, <4>1, GreatestOfFinite
    <3>3. f[m] < v /\ m \in S /\ f[m] \in Nat /\ v \in Nat
      BY <1>1, <3>2 DEF Below
    <3>4. B = UpTo(f, S, f[m])
      <4>1. \A s \in S : f[s] < v <=> f[s] <= f[m]
        BY <3>2, <3>3 DEF Below
      <4> QED BY <4>1 DEF Below, UpTo
    <3>5. f[m] \notin T
      BY <1>4, <3>3
    <3>6. f[m] \in V /\ Store!Cardinality(UpTo(f, S, f[m])) \in Nat
      BY <3>3, Ranks
    <3>7. Store!Cardinality(UpTo(f, S, f[m])) <= k
      BY <3>5, <3>6
    <3> QED BY <3>4, <3>7
  <2> QED BY <2>1, <2>2
<1>6. v \in V /\ First(v)
  BY <1>4, <1>5
<1>7. ASSUME NEW u \in V, NEW w \in V, First(u), First(w), u < w PROVE FALSE
  <2>1. UpTo(f, S, u) \subseteq Below(f, S, w)
    BY <1>1, <1>7 DEF UpTo, Below
  <2>2. /\ Store!Cardinality(UpTo(f, S, u)) <= Store!Cardinality(Below(f, S, w))
        /\ Store!Cardinality(UpTo(f, S, u)) \in Nat /\ Store!Cardinality(Below(f, S, w)) \in Nat
    BY <2>1, Ranks
  <2> QED BY <1>7, <2>2
<1> DEFINE x == CHOOSE u \in V : First(u)
<1>8. x \in V /\ First(x)
  <2> HIDE DEF First, V
  <2> QED BY <1>6
<1>9. Store!KthSmallest(f, S, k) = x
  BY DEF Store!KthSmallest, Below, UpTo
<1> HIDE DEF x
<1>10. \A w \in V : First(w) => w = x
  <2>1. x \in Nat /\ \A w \in V : w \in Nat
    BY <1>1, <1>8
  <2> HIDE DEF First, V
  <2> QED BY <1>7, <1>8, <2>1
<1> QED BY <1>1, <1>8, <1>9, <1>10

(* For finitely many natural numbers and any k below their number, the     *)
(* k-th smallest is one of them and has its rank, so that the minimum, the *)
(* maximum and every percentile of a table are figures of its services     *)
(* (store.go:160, :473).                                                   *)
THEOREM OrderStatistics ==
  ASSUME NEW S, IsFiniteSet(S), NEW f, \A s \in S : f[s] \in Nat,
         NEW k \in Nat, k < Store!Cardinality(S)
  PROVE  LET v == Store!KthSmallest(f, S, k)
         IN /\ v \in {f[s] : s \in S}
            /\ Store!Cardinality({s \in S : f[s] < v}) <= k
            /\ k < Store!Cardinality({s \in S : f[s] <= v})
            /\ \A w \in {f[s] : s \in S} :
                 /\ Store!Cardinality({s \in S : f[s] < w}) <= k
                 /\ k < Store!Cardinality({s \in S : f[s] <= w})
                 => w = v
<1>1. \A u : Below(f, S, u) = {s \in S : f[s] < u} /\ UpTo(f, S, u) = {s \in S : f[s] <= u}
  BY DEF Below, UpTo
<1> DEFINE v == Store!KthSmallest(f, S, k)
<1>2. /\ \E s \in S : v = f[s]
      /\ Store!Cardinality(Below(f, S, v)) <= k
      /\ k < Store!Cardinality(UpTo(f, S, v))
      /\ \A s \in S : /\ Store!Cardinality(Below(f, S, f[s])) <= k
                     /\ k < Store!Cardinality(UpTo(f, S, f[s]))
                     => f[s] = v
  BY KthAmong
<1> HIDE DEF v
<1> QED BY <1>1, <1>2 DEF v

(* The figures of a table depend on nothing but its own services.          *)
LEMMA KthOfOwn ==
  ASSUME NEW S, NEW f, NEW g, \A s \in S : f[s] = g[s], NEW k
  PROVE  Store!KthSmallest(f, S, k) = Store!KthSmallest(g, S, k)
<1>1. {f[s] : s \in S} = {g[s] : s \in S}
  OBVIOUS
<1>2. \A v : {s \in S : f[s] < v} = {s \in S : g[s] < v}
  OBVIOUS
<1>3. \A v : {s \in S : f[s] <= v} = {s \in S : g[s] <= v}
  OBVIOUS
<1> QED BY <1>1, <1>2, <1>3, Zenon DEF Store!KthSmallest

(* The first of them is the smallest.                                      *)
LEMMA FirstIsSmallest ==
  ASSUME NEW S, IsFiniteSet(S), S # {}, NEW f, \A s \in S : f[s] \in Nat
  PROVE  /\ Store!KthSmallest(f, S, 0) \in {f[s] : s \in S}
         /\ \A s \in S : Store!KthSmallest(f, S, 0) <= f[s]
<1> DEFINE First(v) == /\ Store!Cardinality({s \in S : f[s] < v}) <= 0
                       /\ 0 < Store!Cardinality({s \in S : f[s] <= v})
<1>1. \A T \in SUBSET S : /\ IsFiniteSet(T) /\ Store!Cardinality(T) \in Nat
                          /\ Store!Cardinality(T) = 0 <=> T = {}
  <2>1. \A T : Store!Cardinality(T) = Cardinality(T)
    BY DEF Store!Cardinality, Cardinality
  <2> QED BY <2>1, FS_Subset, FS_EmptySet, FS_CardinalityType
<1>2. PICK m \in {f[s] : s \in S} : \A n \in {f[s] : s \in S} : m <= n
  BY LeastOfNaturals
<1>3. First(m)
  <2>1. {s \in S : f[s] < m} = {}
    BY <1>2
  <2>2. {s \in S : f[s] <= m} # {}
    BY <1>2
  <2> QED BY <1>1, <2>1, <2>2
<1> DEFINE v == CHOOSE u \in {f[s] : s \in S} : First(u)
<1>4. v \in {f[s] : s \in S} /\ First(v)
  <2> HIDE DEF First
  <2> QED BY <1>3
<1> HIDE DEF v
<1>5. {s \in S : f[s] < v} = {}
  BY <1>1, <1>4
<1>6. \A s \in S : v <= f[s]
  BY <1>4, <1>5
<1>7. Store!KthSmallest(f, S, 0) = v
  BY DEF Store!KthSmallest, v
<1> QED BY <1>4, <1>6, <1>7

StoreTyped ==
  /\ registered \subseteq Services /\ tracked \subseteq Tables /\ outdated \subseteq Tables
  /\ service \in [Services -> [table : Tables, high : Nat, processed : Nat,
                               expired : BOOLEAN, healthy : BOOLEAN]]
  /\ objective \in [Tables -> Store!Objective]

(* A table with services is tracked, and its minimum is not ahead of any,  *)
(* also while its figures wait for the next rebuild.                       *)
MinimumBehind ==
  /\ \A t \in Tables : table[t].min \in Nat
  /\ \A s \in registered :
       service[s].table \in tracked /\ table[service[s].table].min <= service[s].high

StoreInv == StoreTyped /\ MinimumBehind /\ Store!AggregatesCurrent

LEMMA MembersRegistered ==
  ASSUME NEW reg, NEW svc, NEW t, NEW s
  PROVE  s \in Store!Members(reg, svc, t) <=> s \in reg /\ svc[s].table = t
BY DEF Store!Members

(* The minimum of a table that is rebuilt, of services before or after a   *)
(* step.                                                                   *)
LEMMA RebuiltMinimum ==
  ASSUME IsFiniteSet(Services), NEW S \in SUBSET Services, S # {},
         NEW svc, \A s \in Services : svc[s].high \in Nat, NEW old
  PROVE  /\ Store!Summary(svc, S, old).min = Store!KthSmallest(Store!Highs(svc), S, 0)
         /\ Store!Summary(svc, S, old).min \in {svc[s].high : s \in S}
         /\ \A s \in S : Store!Summary(svc, S, old).min <= svc[s].high
<1>1. IsFiniteSet(S)
  BY FS_Subset
<1>2. \A s \in S : Store!Highs(svc)[s] = svc[s].high
  BY DEF Store!Highs
<1>3. Store!Summary(svc, S, old).min = Store!KthSmallest(Store!Highs(svc), S, 0)
  BY DEF Store!Summary
<1>4. /\ Store!KthSmallest(Store!Highs(svc), S, 0) \in {Store!Highs(svc)[s] : s \in S}
      /\ \A s \in S : Store!KthSmallest(Store!Highs(svc), S, 0) <= Store!Highs(svc)[s]
  BY <1>1, <1>2, FirstIsSmallest
<1> QED BY <1>2, <1>3, <1>4

(* What an operation may do to the services: none is taken to another      *)
(* table or back in time.  What it does to the tables it rebuilds.         *)
Forward ==
  \A s \in registered \cap registered' :
    service'[s].table = service[s].table /\ service[s].high <= service'[s].high

LEMMA RebuildMinima ==
  ASSUME Store!StoreAssumption, StoreTyped, StoreTyped', MinimumBehind, Forward,
         NEW ts \in SUBSET Tables, Store!Rebuild(registered', service', ts),
         \A s \in registered' : s \in registered \/ service'[s].table \in ts
  PROVE  /\ MinimumBehind'
         /\ \A t \in tracked : table'[t].min < table[t].min =>
              Store!Members(registered', service', t) \ Store!Members(registered, service, t) # {}
<1> DEFINE M(t) == Store!Members(registered', service', t)
           filled == {t \in ts : M(t) # {}}
<1>1. /\ tracked' = tracked \cup ts
      /\ \A t \in Tables : table'[t] = IF t \in filled THEN Store!Summary(service', M(t), table[t])
                                       ELSE table[t]
  BY DEF Store!Rebuild
<1>2. \A t \in Tables : M(t) \subseteq Services
  BY MembersRegistered DEF StoreTyped
<1>3. \A s \in Services : service'[s].high \in Nat
  BY DEF StoreTyped
<1>4. IsFiniteSet(Services)
  BY DEF Store!StoreAssumption, Store!IsFiniteSet, IsFiniteSet
<1>5. \A t \in filled : /\ table'[t].min \in {service'[s].high : s \in M(t)}
                        /\ \A s \in M(t) : table'[t].min <= service'[s].high
  <2> SUFFICES ASSUME NEW t \in filled
               PROVE  /\ table'[t].min \in {service'[s].high : s \in M(t)}
                      /\ \A s \in M(t) : table'[t].min <= service'[s].high
    OBVIOUS
  <2>1. table'[t] = Store!Summary(service', M(t), table[t]) /\ M(t) # {} /\ M(t) \in SUBSET Services
    BY <1>1, <1>2
  <2> HIDE DEF M, filled
  <2> QED BY <1>3, <1>4, <2>1, RebuiltMinimum
<1>6. \A t \in Tables \ filled : table'[t] = table[t]
  BY <1>1
<1>7. \A s, t : s \in M(t) <=> s \in registered' /\ service'[s].table = t
  BY MembersRegistered
<1>8. \A s \in registered' : /\ service'[s].table \in Tables
                             /\ service'[s].table \in ts => service'[s].table \in filled
  BY <1>7 DEF StoreTyped
<1>9. \A t \in filled : t \in Tables
  OBVIOUS
<1>10. ASSUME NEW t \in tracked, table'[t].min < table[t].min
       PROVE  M(t) \ Store!Members(registered, service, t) # {}
  <2>1. t \in filled
    <3>1. t \in Tables /\ table[t].min \in Nat
      BY DEF StoreTyped, MinimumBehind
    <3> QED BY <1>6, <1>10, <3>1
  <2>2. PICK s \in M(t) : table'[t].min = service'[s].high
    BY <1>5, <2>1
  <2>3. s \in registered' /\ service'[s].table = t /\ s \in Services
    BY <1>7, <2>2 DEF StoreTyped
  <2>4. ASSUME s \in Store!Members(registered, service, t) PROVE FALSE
    <3>1. s \in registered /\ service[s].table = t
      BY <2>4, MembersRegistered
    <3>2. table[t].min <= service[s].high /\ service[s].high <= service'[s].high
      BY <2>3, <3>1 DEF MinimumBehind, Forward
    <3>3. table[t].min \in Nat /\ service[s].high \in Nat /\ service'[s].high \in Nat
      BY <2>3, <3>1 DEF StoreTyped, MinimumBehind
    <3> QED BY <1>10, <2>2, <3>2, <3>3
  <2> QED BY <2>2, <2>4
<1>11. \A t \in Tables : table'[t].min \in Nat
  <2>1. \A t \in filled : \A s \in M(t) : service'[s].high \in Nat
    BY <1>2, <1>3
  <2> HIDE DEF M, filled
  <2> QED BY <1>5, <1>6, <2>1 DEF MinimumBehind
<1>12. ASSUME NEW s \in registered'
       PROVE  /\ service'[s].table \in tracked'
              /\ table'[service'[s].table].min <= service'[s].high
  <2> DEFINE t == service'[s].table
  <2>1. CASE t \in ts
    BY <1>1, <1>5, <1>7, <1>8, <2>1
  <2>2. CASE t \notin ts
    <3>1. s \in registered /\ service[s].table = t /\ service[s].high <= service'[s].high
      BY <2>2 DEF Forward
    <3>2. t \in tracked /\ table[t].min <= service[s].high /\ table'[t] = table[t]
      BY <1>6, <1>8, <2>2, <3>1 DEF MinimumBehind
    <3>3. table[t].min \in Nat /\ service[s].high \in Nat /\ service'[s].high \in Nat
      BY <3>1, <3>2, <1>8 DEF StoreTyped, MinimumBehind
    <3> QED BY <1>1, <3>1, <3>2, <3>3
  <2> QED BY <2>1, <2>2
<1> QED BY <1>10, <1>11, <1>12 DEF MinimumBehind

LEMMA FiguresRebuilt ==
  ASSUME NEW ts \in SUBSET Tables, Store!Rebuild(registered', service', ts), NEW t \in ts,
         objective' = objective
  PROVE  Store!FiguresCurrent(t)'
<1> DEFINE S == Store!Members(registered', service', t)
           figures == Store!Summary(service', S, table[t])
<1>1. ASSUME S # {}
      PROVE  /\ table'[t] = figures
             /\ violation'[t] = Store!Severity(table'[t].p99, objective[t])
  BY <1>1 DEF Store!Rebuild
<1>2. /\ figures.min = Store!KthSmallest(Store!Highs(service'), S, 0)
      /\ figures.max = Store!KthSmallest(Store!Highs(service'), S, Store!Cardinality(S) - 1)
      /\ figures.active = Store!Cardinality(S)
      /\ figures.healthy = Store!Cardinality({s \in S : service'[s].healthy})
  <2> HIDE DEF S
  <2> QED BY DEF Store!Summary
<1> HIDE DEF S, figures
<1>3. S = Store!Members(registered', service', t)
  BY DEF S
<1>4. SUFFICES ASSUME S # {}
      PROVE /\ table'[t].min = Store!KthSmallest(Store!Highs(service'), S, 0)
            /\ table'[t].max = Store!KthSmallest(Store!Highs(service'), S, Store!Cardinality(S) - 1)
            /\ table'[t].active = Store!Cardinality(S)
            /\ table'[t].healthy = Store!Cardinality({s \in S : service'[s].healthy})
            /\ violation'[t] = Store!Severity(table'[t].p99, objective'[t])
  BY <1>3, Zenon DEF Store!FiguresCurrent
<1> QED BY <1>1, <1>2, <1>4

LEMMA FiguresKept ==
  ASSUME NEW t \in Tables, Store!FiguresCurrent(t),
         Store!Members(registered', service', t) = Store!Members(registered, service, t),
         registered \subseteq Services,
         \A s \in Store!Members(registered, service, t) :
           service'[s].high = service[s].high /\ service'[s].healthy = service[s].healthy,
         table'[t] = table[t], violation'[t] = violation[t], objective'[t] = objective[t]
  PROVE  Store!FiguresCurrent(t)'
<1> DEFINE S == Store!Members(registered, service, t)
<1>1. \A s \in S : Store!Highs(service')[s] = Store!Highs(service)[s]
  BY MembersRegistered DEF Store!Highs
<1>2. \A k : Store!KthSmallest(Store!Highs(service'), S, k) = Store!KthSmallest(Store!Highs(service), S, k)
  BY <1>1, KthOfOwn
<1>3. {s \in S : service'[s].healthy} = {s \in S : service[s].healthy}
  OBVIOUS
<1> HIDE DEF S
<1>4. /\ S = Store!Members(registered, service, t) /\ S = Store!Members(registered', service', t)
  BY DEF S
<1> QED BY <1>2, <1>3, <1>4 DEF Store!FiguresCurrent

LEMMA StoreStart ==
  ASSUME Store!StoreAssumption, Store!Init
  PROVE  StoreInv
<1> USE DEF Store!Init
<1>1. (CHOOSE t \in Tables : TRUE) \in Tables
  BY DEF Store!StoreAssumption
<1>2. StoreTyped
  <2>1. service \in [Services -> [table : Tables, high : Nat, processed : Nat,
                                  expired : BOOLEAN, healthy : BOOLEAN]]
    BY <1>1 DEF Store!Unknown
  <2>2. objective \in [Tables -> Store!Objective]
    BY DEF Store!StoreAssumption
  <2> QED BY <2>1, <2>2 DEF StoreTyped
<1>3. MinimumBehind
  BY DEF MinimumBehind, Store!EmptyTable
<1>4. Store!AggregatesCurrent
  BY DEF Store!AggregatesCurrent
<1> QED BY <1>2, <1>3, <1>4 DEF StoreInv

(* No minimum goes back without a new service in the table.                *)
MinimaKept ==
  \A t \in tracked : table'[t].min < table[t].min =>
    Store!Members(registered', service', t) \ Store!Members(registered, service, t) # {}

LEMMA UpdateKeeps ==
  ASSUME Store!StoreAssumption, StoreInv, NEW s \in Services, NEW t \in Tables,
         Store!UpdateServiceWatermark(s, t)
  PROVE  StoreInv' /\ MinimaKept
<1> USE DEF StoreInv
<1>1. PICK new \in [table : Tables, high : Nat, processed : Nat, expired : BOOLEAN, healthy : BOOLEAN] :
        /\ new.table = IF s \in registered THEN service[s].table ELSE t
        /\ service[s].high <= new.high
        /\ service' = [service EXCEPT ![s] = new]
        /\ outdated' = (outdated \cup {new.table}) \ {t}
  <2>1. PICK event \in EventTimes, processed \in ProcessingTimes, expired, healthy \in BOOLEAN :
          LET new == Store!Updated(s, t, event, processed, expired, healthy)
          IN service' = [service EXCEPT ![s] = new] /\ outdated' = (outdated \cup {new.table}) \ {t}
    BY DEF Store!UpdateServiceWatermark
  <2> DEFINE new == Store!Updated(s, t, event, processed, expired, healthy)
  <2>2. event \in Nat /\ processed \in Nat /\ (healthy /\ ~expired) \in BOOLEAN
    BY DEF Store!StoreAssumption
  <2>3. /\ Store!MaxOf(service[s].high, event) \in Nat
        /\ service[s].high <= Store!MaxOf(service[s].high, event)
    BY <2>2 DEF Store!MaxOf, StoreTyped
  <2>4. (IF s \in registered THEN service[s].table ELSE t) \in Tables
    BY DEF StoreTyped
  <2>5. new = [table |-> IF s \in registered THEN service[s].table ELSE t,
               high |-> Store!MaxOf(service[s].high, event), processed |-> processed,
               expired |-> expired, healthy |-> healthy /\ ~expired]
    BY DEF Store!Updated
  <2>6. new \in [table : Tables, high : Nat, processed : Nat, expired : BOOLEAN, healthy : BOOLEAN]
    <3> DEFINE h == healthy /\ ~expired
    <3>1. h \in BOOLEAN
      BY <2>2
    <3> HIDE DEF h
    <3>2. new = [table |-> IF s \in registered THEN service[s].table ELSE t,
                 high |-> Store!MaxOf(service[s].high, event), processed |-> processed,
                 expired |-> expired, healthy |-> h]
      BY <2>5 DEF h
    <3> QED BY <2>2, <2>3, <2>4, <3>1, <3>2
  <2>7. /\ new.table = IF s \in registered THEN service[s].table ELSE t
        /\ new.high = Store!MaxOf(service[s].high, event)
    BY <2>5
  <2> HIDE DEF new
  <2>8. service' = [service EXCEPT ![s] = new] /\ outdated' = (outdated \cup {new.table}) \ {t}
    BY <2>1 DEF new
  <2> QED BY <2>3, <2>6, <2>7, <2>8
<1>2. /\ registered' = registered \cup {s} /\ UNCHANGED objective
      /\ Store!Rebuild(registered', service', {t})
  BY DEF Store!UpdateServiceWatermark
<1>3. StoreTyped'
  BY <1>1, <1>2 DEF StoreTyped, Store!Rebuild
<1>4. Forward
  BY <1>1, <1>2 DEF Forward, StoreTyped
<1>5. \A q \in registered' : q \in registered \/ service'[q].table \in {t}
  BY <1>1, <1>2 DEF StoreTyped
<1>6. MinimumBehind' /\ MinimaKept
  BY <1>2, <1>3, <1>4, <1>5, RebuildMinima DEF MinimaKept
<1>7. Store!AggregatesCurrent'
  <2> SUFFICES ASSUME NEW u \in tracked' \ outdated' PROVE Store!FiguresCurrent(u)'
    BY DEF Store!AggregatesCurrent
  <2>1. CASE u = t
    BY <1>2, <2>1, FiguresRebuilt
  <2>2. CASE u # t
    <3>1. u \in tracked \ outdated /\ u # new.table /\ u \in Tables
      BY <1>1, <1>2, <1>3, <2>2 DEF Store!Rebuild, StoreTyped
    <3>2. Store!Members(registered', service', u) = Store!Members(registered, service, u)
      <4>1. /\ service'[s].table = new.table
            /\ s \in registered => service[s].table = new.table
        BY <1>1 DEF StoreTyped
      <4>2. \A q \in registered : q # s => service'[q] = service[q]
        BY <1>1 DEF StoreTyped
      <4>3. \A q : q \in registered' /\ service'[q].table = u <=> q \in registered /\ service[q].table = u
        BY <1>2, <3>1, <4>1, <4>2
      <4> QED BY <4>3 DEF Store!Members
    <3>3. \A q \in Store!Members(registered, service, u) : q \in Services /\ q # s
      BY <1>1, <3>1, MembersRegistered DEF StoreTyped
    <3>4. \A q \in Store!Members(registered, service, u) : service'[q] = service[q]
      BY <1>1, <3>3 DEF StoreTyped
    <3>5. table'[u] = table[u] /\ violation'[u] = violation[u] /\ objective'[u] = objective[u]
      BY <1>2, <2>2, <3>1 DEF Store!Rebuild
    <3>6. Store!FiguresCurrent(u) /\ registered \subseteq Services
      BY <3>1 DEF Store!AggregatesCurrent, StoreTyped
    <3> QED BY <3>1, <3>2, <3>4, <3>5, <3>6, FiguresKept
  <2> QED BY <2>1, <2>2
<1> QED BY <1>3, <1>6, <1>7

LEMMA ObjectiveKeeps ==
  ASSUME Store!StoreAssumption, StoreInv, NEW t \in Tables, Store!SetFreshnessConfig(t)
  PROVE  StoreInv' /\ MinimaKept
<1> USE DEF StoreInv
<1>1. /\ UNCHANGED <<registered, service, tracked, table, violation>>
      /\ outdated' = outdated \cup {t}
      /\ \A u \in Tables : u # t => objective'[u] = objective[u]
  BY DEF Store!SetFreshnessConfig, StoreTyped
<1>2. StoreTyped'
  <2>1. objective' \in [Tables -> Store!Objective]
    BY DEF Store!SetFreshnessConfig, StoreTyped, Store!StoreAssumption
  <2> QED BY <1>1, <2>1 DEF StoreTyped
<1>3. MinimumBehind' /\ MinimaKept
  <2>1. \A u \in tracked : u \in Tables /\ table[u].min \in Nat
    BY DEF StoreTyped, MinimumBehind
  <2> QED BY <1>1, <2>1 DEF MinimumBehind, MinimaKept
<1>4. Store!AggregatesCurrent'
  <2> SUFFICES ASSUME NEW u \in tracked' \ outdated' PROVE Store!FiguresCurrent(u)'
    BY DEF Store!AggregatesCurrent
  <2>1. u \in tracked \ outdated /\ u # t /\ u \in Tables /\ registered \subseteq Services
    BY <1>1 DEF StoreTyped
  <2>2. Store!FiguresCurrent(u)
    BY <2>1 DEF Store!AggregatesCurrent
  <2>3. Store!Members(registered', service', u) = Store!Members(registered, service, u)
    BY <1>1 DEF Store!Members
  <2>4. \A q \in Store!Members(registered, service, u) : service'[q] = service[q]
    BY <1>1
  <2>5. table'[u] = table[u] /\ violation'[u] = violation[u] /\ objective'[u] = objective[u]
    BY <1>1, <2>1
  <2> QED BY <2>1, <2>2, <2>3, <2>4, <2>5, FiguresKept
<1> QED BY <1>2, <1>3, <1>4

LEMMA CleanupKeeps ==
  ASSUME Store!StoreAssumption, StoreInv, Store!CleanupStale
  PROVE  StoreInv' /\ MinimaKept
<1> USE DEF StoreInv
<1>1. /\ registered' = registered \ Store!Removed /\ UNCHANGED objective
      /\ service' = [s \in Services |-> IF s \in Store!Removed THEN Store!Unknown ELSE service[s]]
      /\ Store!Rebuild(registered', service', tracked)
      /\ outdated' \subseteq outdated
  BY DEF Store!CleanupStale, Store!RebuiltTables
<1>2. tracked' = tracked
  BY <1>1 DEF Store!Rebuild
<1>3. StoreTyped'
  <2>1. Store!Unknown \in [table : Tables, high : Nat, processed : Nat, expired : BOOLEAN, healthy : BOOLEAN]
    BY DEF Store!Unknown, Store!StoreAssumption
  <2>2. service' \in [Services -> [table : Tables, high : Nat, processed : Nat,
                                   expired : BOOLEAN, healthy : BOOLEAN]]
    BY <1>1, <2>1 DEF StoreTyped
  <2> QED BY <1>1, <1>2, <2>2 DEF StoreTyped
<1>4. \A s \in registered' : s \in registered /\ service'[s] = service[s]
  BY <1>1 DEF StoreTyped
<1>5. Forward
  <2>1. \A s \in registered : service[s].high \in Nat
    BY DEF StoreTyped
  <2> QED BY <1>4, <2>1 DEF Forward
<1>6. MinimumBehind' /\ MinimaKept
  <2>1. tracked \in SUBSET Tables
    BY DEF StoreTyped
  <2> QED BY <1>1, <1>3, <1>4, <1>5, <2>1, RebuildMinima DEF MinimaKept
<1>7. Store!AggregatesCurrent'
  <2> SUFFICES ASSUME NEW u \in tracked' \ outdated' PROVE Store!FiguresCurrent(u)'
    BY DEF Store!AggregatesCurrent
  <2>1. tracked \in SUBSET Tables /\ u \in tracked
    BY <1>2 DEF StoreTyped
  <2> QED BY <1>1, <2>1, FiguresRebuilt
<1> QED BY <1>3, <1>6, <1>7

LEMMA ExpireKeeps ==
  ASSUME StoreInv, NEW s \in Services, Store!Expire(s)
  PROVE  StoreInv' /\ MinimaKept
<1> USE DEF StoreInv
<1>1. /\ UNCHANGED <<registered, tracked, table, objective, violation, outdated>>
      /\ service' = [service EXCEPT ![s].expired = TRUE]
  BY DEF Store!Expire
<1>2. service' \in [Services -> [table : Tables, high : Nat, processed : Nat,
                                 expired : BOOLEAN, healthy : BOOLEAN]]
  BY <1>1 DEF StoreTyped
<1>3. \A q \in Services : /\ service'[q].table = service[q].table
                          /\ service'[q].high = service[q].high
                          /\ service'[q].healthy = service[q].healthy
  BY <1>1 DEF StoreTyped
<1>4. StoreTyped'
  BY <1>1, <1>2 DEF StoreTyped
<1>5. MinimumBehind' /\ MinimaKept
  <2>1. \A u \in tracked : u \in Tables /\ table[u].min \in Nat
    BY DEF StoreTyped, MinimumBehind
  <2>2. MinimaKept
    BY <1>1, <2>1 DEF MinimaKept
  <2>3. \A q \in registered : q \in Services
    BY DEF StoreTyped
  <2> QED BY <1>1, <1>3, <2>2, <2>3 DEF MinimumBehind
<1>6. Store!AggregatesCurrent'
  <2> SUFFICES ASSUME NEW u \in tracked' \ outdated' PROVE Store!FiguresCurrent(u)'
    BY DEF Store!AggregatesCurrent
  <2>1. u \in tracked \ outdated /\ u \in Tables /\ registered \subseteq Services
    BY <1>1 DEF StoreTyped
  <2>2. Store!FiguresCurrent(u)
    BY <2>1 DEF Store!AggregatesCurrent
  <2>3. Store!Members(registered', service', u) = Store!Members(registered, service, u)
    BY <1>1, <1>3, <2>1 DEF Store!Members
  <2>4. \A q \in Store!Members(registered, service, u) :
          service'[q].high = service[q].high /\ service'[q].healthy = service[q].healthy
    BY <1>3, <2>1, MembersRegistered
  <2>5. table'[u] = table[u] /\ violation'[u] = violation[u] /\ objective'[u] = objective[u]
    BY <1>1
  <2> QED BY <2>1, <2>2, <2>3, <2>4, <2>5, FiguresKept
<1> QED BY <1>4, <1>5, <1>6

LEMMA StoreSteps ==
  ASSUME Store!StoreAssumption, StoreInv, [Store!Next]_(Store!vars)
  PROVE  StoreInv' /\ (MinimaKept \/ UNCHANGED Store!vars)
<1>1. CASE Store!Next
  BY <1>1, UpdateKeeps, ObjectiveKeeps, CleanupKeeps, ExpireKeeps DEF Store!Next
<1>2. CASE UNCHANGED Store!vars
  <2>1. UNCHANGED <<registered, service, tracked, table, objective, violation, outdated>>
    BY <1>2 DEF Store!vars
  <2> QED BY <1>2, <2>1 DEF StoreInv, StoreTyped, MinimumBehind, Store!AggregatesCurrent,
        Store!FiguresCurrent
<1> QED BY <1>1, <1>2

LEMMA SystemBehind ==
  ASSUME Store!StoreAssumption, StoreInv
  PROVE  Store!SafeMinimum
<1> DEFINE minimum == [t \in Tables |-> table[t].min]
<1>1. SUFFICES ASSUME NEW s \in registered
               PROVE  Store!KthSmallest(minimum, tracked, 0) <= service[s].high
  BY DEF Store!SafeMinimum, Store!SystemMinimum
<1>2. /\ service[s].table \in tracked /\ tracked \subseteq Tables
      /\ table[service[s].table].min <= service[s].high
  BY DEF StoreInv, StoreTyped, MinimumBehind
<1>3. IsFiniteSet(tracked)
  <2>1. IsFiniteSet(Tables)
    BY DEF Store!StoreAssumption, Store!IsFiniteSet, IsFiniteSet
  <2> QED BY <1>2, <2>1, FS_Subset
<1>4. \A t \in tracked : minimum[t] = table[t].min /\ minimum[t] \in Nat
  BY <1>2 DEF StoreInv, MinimumBehind
<1> HIDE DEF minimum
<1>5. /\ Store!KthSmallest(minimum, tracked, 0) \in {minimum[t] : t \in tracked}
      /\ \A t \in tracked : Store!KthSmallest(minimum, tracked, 0) <= minimum[t]
  BY <1>2, <1>3, <1>4, FirstIsSmallest
<1>6. /\ Store!KthSmallest(minimum, tracked, 0) <= table[service[s].table].min
      /\ Store!KthSmallest(minimum, tracked, 0) \in Nat
      /\ table[service[s].table].min \in Nat
  BY <1>2, <1>4, <1>5
<1>7. service[s].high \in Nat
  BY DEF StoreInv, StoreTyped
<1> QED BY <1>2, <1>6, <1>7

(* For any services and tables, through every order of updates, removals   *)
(* and changes of objectives: the figures of a table that nothing has left *)
(* behind are those of its services, and the system's minimum is not ahead *)
(* of any service (store.go:131, :335).                                    *)
THEOREM WatermarksAlwaysAgree ==
  ASSUME Store!StoreAssumption
  PROVE  Store!Spec => [](Store!WatermarksAgree)
<1>1. Store!Init => StoreInv
  BY StoreStart
<1>2. StoreInv /\ [Store!Next]_(Store!vars) => StoreInv'
  BY StoreSteps
<1>3. StoreInv => Store!WatermarksAgree
  BY SystemBehind DEF StoreInv, Store!WatermarksAgree
<1> QED
  BY <1>1, <1>2, <1>3, PTL DEF Store!Spec

(* The figures of a table are numbers, whatever services it has.           *)
FiguresTyped ==
  /\ table \in [Tables -> [min : Nat, max : Nat, p99 : Nat, active : Nat, healthy : Nat]]
  /\ violation \in [Tables -> {"none", "warning", "critical"}]

LEMMA SummaryTyped ==
  ASSUME IsFiniteSet(Services), NEW S \in SUBSET Services, S # {},
         NEW svc, \A s \in Services : svc[s].high \in Nat /\ svc[s].processed \in Nat,
         NEW old, old.p99 \in Nat
  PROVE  Store!Summary(svc, S, old) \in [min : Nat, max : Nat, p99 : Nat, active : Nat, healthy : Nat]
<1> DEFINE highs == Store!Highs(svc)
           fresh == Store!Freshness(svc)
           late == Store!Behind(svc, S)
           good == {s \in S : svc[s].healthy}
<1>1. \A T \in SUBSET S : /\ IsFiniteSet(T) /\ Store!Cardinality(T) \in Nat
                          /\ T # {} => Store!Cardinality(T) > 0
  <2>1. \A T : Store!Cardinality(T) = Cardinality(T)
    BY DEF Store!Cardinality, Cardinality
  <2>2. \A T \in SUBSET S : IsFiniteSet(T)
    BY FS_Subset
  <2>3. \A T \in SUBSET S : Cardinality(T) \in Nat /\ (Cardinality(T) = 0 <=> T = {})
    BY <2>2, FS_CardinalityType, FS_EmptySet
  <2> QED BY <2>1, <2>2, <2>3
<1>2. \A s \in S : highs[s] \in Nat
  BY DEF Store!Highs
<1>3. late \subseteq S /\ \A s \in late : fresh[s] \in Nat
  BY DEF Store!Freshness, Store!Behind
<1>4. good \in SUBSET S
  OBVIOUS
<1> HIDE DEF highs, fresh, late, good
<1>5. ASSUME NEW f, NEW T \in SUBSET S, T # {}, \A s \in T : f[s] \in Nat,
             NEW k \in Nat, k < Store!Cardinality(T)
      PROVE  Store!KthSmallest(f, T, k) \in Nat
  <2>1. IsFiniteSet(T)
    BY <1>1
  <2> QED BY <1>5, <2>1, KthAmong
<1>6. Store!KthSmallest(highs, S, 0) \in Nat /\ Store!KthSmallest(highs, S, Store!Cardinality(S) - 1) \in Nat
  <2>1. Store!Cardinality(S) \in Nat /\ Store!Cardinality(S) > 0
    BY <1>1
  <2>2. /\ 0 < Store!Cardinality(S) /\ Store!Cardinality(S) - 1 \in Nat
        /\ Store!Cardinality(S) - 1 < Store!Cardinality(S)
    BY <2>1
  <2> QED BY <1>2, <1>5, <2>2
<1>7. late # {} => Store!Percentile(fresh, late, 99) \in Nat
  <2> SUFFICES ASSUME late # {} PROVE Store!Percentile(fresh, late, 99) \in Nat
    OBVIOUS
  <2> DEFINE c == Store!Cardinality(late)
             k == ((c - 1) * 99) \div 100
  <2>1. c \in Nat /\ c > 0
    BY <1>1, <1>3
  <2>2. k \in Nat /\ k < c
    <3> HIDE DEF c
    <3> QED BY <2>1
  <2>3. Store!KthSmallest(fresh, late, k) \in Nat
    <3> HIDE DEF k
    <3> QED BY <1>3, <1>5, <2>2
  <2> QED BY <2>3 DEF Store!Percentile
<1>8. Store!Cardinality(S) \in Nat /\ Store!Cardinality(good) \in Nat
  BY <1>1, <1>4
<1> DEFINE p == IF late = {} THEN old.p99 ELSE Store!Percentile(fresh, late, 99)
<1>9. p \in Nat
  BY <1>7
<1> HIDE DEF p
<1>10. Store!Summary(svc, S, old)
         = [min |-> Store!KthSmallest(highs, S, 0), max |-> Store!KthSmallest(highs, S, Store!Cardinality(S) - 1),
            p99 |-> p, active |-> Store!Cardinality(S), healthy |-> Store!Cardinality(good)]
  BY DEF Store!Summary, p, highs, fresh, late, good
<1> QED BY <1>6, <1>8, <1>9, <1>10

LEMMA RebuildTyped ==
  ASSUME IsFiniteSet(Services), StoreTyped, StoreTyped', FiguresTyped,
         NEW ts \in SUBSET Tables, Store!Rebuild(registered', service', ts)
  PROVE  FiguresTyped'
<1> DEFINE M(t) == Store!Members(registered', service', t)
           filled == {t \in ts : M(t) # {}}
           new(t) == IF t \in filled THEN Store!Summary(service', M(t), table[t]) ELSE table[t]
<1>1. \A s \in Services : service'[s].high \in Nat /\ service'[s].processed \in Nat
  BY DEF StoreTyped
<1>2. ASSUME NEW t \in Tables
      PROVE  new(t) \in [min : Nat, max : Nat, p99 : Nat, active : Nat, healthy : Nat]
  <2>1. table[t] \in [min : Nat, max : Nat, p99 : Nat, active : Nat, healthy : Nat]
    BY DEF FiguresTyped
  <2>2. M(t) \in SUBSET Services
    BY MembersRegistered DEF StoreTyped
  <2> HIDE DEF M
  <2> QED BY <1>1, <2>1, <2>2, SummaryTyped
<1>3. table' = [t \in Tables |-> new(t)]
  BY DEF Store!Rebuild
<1>4. violation' = [t \in Tables |->
        IF t \in filled THEN Store!Severity(table'[t].p99, objective[t]) ELSE violation[t]]
  BY <1>3 DEF Store!Rebuild
<1>5. \A t \in Tables : Store!Severity(table'[t].p99, objective[t]) \in {"none", "warning", "critical"}
  BY DEF Store!Severity
<1> HIDE DEF new, filled
<1> QED BY <1>2, <1>3, <1>4, <1>5 DEF FiguresTyped

LEMMA FiguresTypedNext ==
  ASSUME Store!StoreAssumption, StoreInv, StoreInv', FiguresTyped, [Store!Next]_(Store!vars)
  PROVE  FiguresTyped'
<1>0. /\ StoreTyped /\ StoreTyped'
      /\ IsFiniteSet(Services)
  BY DEF StoreInv, Store!StoreAssumption, Store!IsFiniteSet, IsFiniteSet
<1>1. ASSUME NEW s \in Services, NEW t \in Tables, Store!UpdateServiceWatermark(s, t) PROVE FiguresTyped'
  <2>1. Store!Rebuild(registered', service', {t})
    BY <1>1 DEF Store!UpdateServiceWatermark
  <2> QED BY <1>0, <2>1, RebuildTyped
<1>2. ASSUME Store!CleanupStale PROVE FiguresTyped'
  <2>1. Store!Rebuild(registered', service', tracked) /\ tracked \in SUBSET Tables
    BY <1>0, <1>2 DEF Store!CleanupStale, Store!RebuiltTables, StoreTyped
  <2> QED BY <1>0, <2>1, RebuildTyped
<1>3. ASSUME NEW t \in Tables, Store!SetFreshnessConfig(t) PROVE FiguresTyped'
  BY <1>3 DEF Store!SetFreshnessConfig, FiguresTyped
<1>4. ASSUME NEW s \in Services, Store!Expire(s) PROVE FiguresTyped'
  BY <1>4 DEF Store!Expire, FiguresTyped
<1>5. CASE UNCHANGED Store!vars
  BY <1>5 DEF Store!vars, FiguresTyped
<1> QED BY <1>1, <1>2, <1>3, <1>4, <1>5 DEF Store!Next

(* Type correctness of the store: every minimum, maximum and percentile is *)
(* a number, for tables of any number of services (store.go:203, :210).    *)
THEOREM StoreTypeCorrect ==
  ASSUME Store!StoreAssumption
  PROVE  Store!Spec => [](Store!TypeOK)
<1> DEFINE Inv == StoreInv /\ FiguresTyped
<1>1. Store!Init => Inv
  <2>1. Store!Init => FiguresTyped
    BY DEF Store!Init, FiguresTyped, Store!EmptyTable
  <2> QED BY <2>1, StoreStart
<1>2. Inv /\ [Store!Next]_(Store!vars) => Inv'
  BY StoreSteps, FiguresTypedNext
<1>3. Inv => Store!TypeOK
  BY DEF StoreInv, StoreTyped, FiguresTyped, Store!TypeOK, Store!Watermarks
<1> HIDE DEF Inv
<1> QED
  BY <1>1, <1>2, <1>3, PTL DEF Store!Spec

(* The minimum of a table goes back only when a service joins it.          *)
THEOREM MinimaNeverBack ==
  ASSUME Store!StoreAssumption
  PROVE  Store!Spec => Store!NeverBack
<1>1. Store!Init => StoreInv
  BY StoreStart
<1>2. StoreInv /\ [Store!Next]_(Store!vars) => StoreInv'
  BY StoreSteps
<1>3. StoreInv /\ [Store!Next]_(Store!vars) =>
        [\A t \in tracked : table[t].active > 0 /\ table'[t].min < table[t].min =>
           Store!Members(registered', service', t) \ Store!Members(registered, service, t) # {}]_(Store!vars)
  BY StoreSteps DEF MinimaKept
<1> QED
  BY <1>1, <1>2, <1>3, PTL DEF Store!Spec, Store!NeverBack

-----------------------------------------------------------------------------
(* ReadSide.                                                               *)

(* A behaviour stays with the component it starts with.                    *)
LEMMA SubjectStays ==
  ASSUME [ReadSideNext]_readSideVars
  PROVE  subject' = subject
BY DEF ReadSideNext, readSideVars

LEMMA StoreRuns ==
  /\ ReadSideInit /\ subject = "store" => Store!Init
  /\ [ReadSideNext]_readSideVars /\ subject = "store"
       => [Store!Next]_(Store!vars) /\ (subject = "store")'
  /\ [ReadSideNext]_readSideVars /\ ~(subject = "store")
       => UNCHANGED Store!vars /\ ~(subject = "store")'
<1>1. ReadSideInit /\ subject = "store" => Store!Init
  BY DEF ReadSideInit
<1>2. ASSUME [ReadSideNext]_readSideVars, subject = "store"
      PROVE [Store!Next]_(Store!vars) /\ (subject = "store")'
  <2>1. Store!Next \/ UNCHANGED store
    BY <1>2 DEF ReadSideNext, readSideVars
  <2> QED BY <1>2, <2>1, SubjectStays DEF store, Store!vars
<1>3. ASSUME [ReadSideNext]_readSideVars, ~(subject = "store")
      PROVE UNCHANGED Store!vars /\ ~(subject = "store")'
  <2>1. UNCHANGED store
    BY <1>3 DEF ReadSideNext, readSideVars
  <2> QED BY <1>3, <2>1, SubjectStays DEF store, Store!vars
<1> QED BY <1>1, <1>2, <1>3

LEMMA ServerRuns ==
  /\ ReadSideInit /\ subject = "server" => Server!Init
  /\ [ReadSideNext]_readSideVars /\ subject = "server"
       => [Server!Next]_(Server!vars) /\ (subject = "server")'
<1>1. ReadSideInit /\ subject = "server" => Server!Init
  BY DEF ReadSideInit
<1>2. ASSUME [ReadSideNext]_readSideVars, subject = "server"
      PROVE [Server!Next]_(Server!vars) /\ (subject = "server")'
  <2>1. Server!Next \/ UNCHANGED server
    BY <1>2 DEF ReadSideNext, readSideVars
  <2> QED BY <1>2, <2>1, SubjectStays DEF server, Server!vars, Server!aggregator, Server!lock,
        Server!streaming
<1> QED BY <1>1, <1>2

LEMMA PathRuns ==
  /\ ReadSideInit /\ subject = "path" => Path!Init
  /\ [ReadSideNext]_readSideVars /\ subject = "path"
       => [Path!Next]_(Path!vars) /\ (subject = "path")'
<1>1. ReadSideInit /\ subject = "path" => Path!Init
  BY DEF ReadSideInit
<1>2. ASSUME [ReadSideNext]_readSideVars, subject = "path"
      PROVE [Path!Next]_(Path!vars) /\ (subject = "path")'
  <2>1. Path!Next \/ UNCHANGED path
    BY <1>2 DEF ReadSideNext, readSideVars
  <2> QED BY <1>2, <2>1, SubjectStays DEF path, Path!vars, Path!handlers
<1> QED BY <1>1, <1>2

LEMMA PlaneRuns ==
  /\ ReadSideInit /\ subject = "plane" => Plane!Init
  /\ [ReadSideNext]_readSideVars /\ subject = "plane"
       => [Plane!Next]_(Plane!vars) /\ (subject = "plane")'
<1>1. ReadSideInit /\ subject = "plane" => Plane!Init
  BY DEF ReadSideInit
<1>2. ASSUME [ReadSideNext]_readSideVars, subject = "plane"
      PROVE [Plane!Next]_(Plane!vars) /\ (subject = "plane")'
  <2>1. Plane!Next \/ UNCHANGED plane
    BY <1>2 DEF ReadSideNext, readSideVars
  <2> QED BY <1>2, <2>1, SubjectStays DEF plane, Plane!vars
<1> QED BY <1>1, <1>2

LEMMA RingRuns ==
  /\ ReadSideInit => Init
  /\ [ReadSideNext]_readSideVars => [Next]_vars
BY DEF ReadSideInit, ReadSideNext, readSideVars

(* The reading side as it is checked, for every value of its constants:    *)
(* tables and system have the watermarks of their services (store.go:190,  *)
(* :316).                                                                  *)
THEOREM ReadSideAgrees == ReadSideSpec => []WatermarksAgree
<1>1. Store!Spec => [](Store!WatermarksAgree)
  BY ReadSideAssumption, WatermarksAlwaysAgree
<1> QED BY <1>1, StoreRuns, PTL DEF ReadSideSpec, Store!Spec, WatermarksAgree

(* No step takes a table's minimum back, unless a service joins it         *)
(* (store.go:135).                                                         *)
THEOREM ReadSideNeverBack == ReadSideSpec => NeverBack
<1>1. Store!Spec => Store!NeverBack
  BY ReadSideAssumption, MinimaNeverBack
<1>2. UNCHANGED Store!vars =>
        [\A t \in tracked : table[t].active > 0 /\ table'[t].min < table[t].min =>
           Store!Members(registered', service', t) \ Store!Members(registered, service, t) # {}]_(Store!vars)
  OBVIOUS
<1> QED BY <1>1, <1>2, StoreRuns, PTL DEF ReadSideSpec, Store!Spec, NeverBack, Store!NeverBack

(* Only the readiness check's second lock can block the store, and no      *)
(* update goes into a closed channel (store.go:376, server.go:288).        *)
THEOREM ReadSideLocks == ReadSideSpec => []LocksRight
<1>1. [ReadSideNext]_readSideVars /\ ~(subject = "server") => ~(subject = "server")'
  BY SubjectStays
<1>2. Server!Spec => [](Server!LocksRight)
  BY ReadSideAssumption, LocksAlwaysRight
<1> QED BY <1>1, <1>2, ServerRuns, PTL DEF ReadSideSpec, Server!Spec, LocksRight

(* An answer is one to its own query and of bounded age (main.go:113,      *)
(* :130).                                                                  *)
THEOREM ReadSideAnswers == ReadSideSpec => []AnswersRight
<1>1. [ReadSideNext]_readSideVars /\ ~(subject = "path") => ~(subject = "path")'
  BY SubjectStays
<1>2. Path!Spec => [](Path!AnswersRight)
  BY ReadSideAssumption, AnswersAlwaysRight
<1> QED BY <1>1, <1>2, PathRuns, PTL DEF ReadSideSpec, Path!Spec, AnswersRight

(* A name is created once, and what was acknowledged is audited            *)
(* (main.go:229, audit.go:98).                                             *)
THEOREM ReadSideRecords == ReadSideSpec => []WritesRecorded
<1>1. [ReadSideNext]_readSideVars /\ ~(subject = "plane") => ~(subject = "plane")'
  BY SubjectStays
<1> QED
  BY <1>1, WritesAlwaysRecorded, PlaneRuns, PTL DEF ReadSideSpec, Plane!Spec, WritesRecorded

(* The reading side as it is checked: whichever part runs, its types hold, *)
(* for every value of the constants (lockfree.go:21, store.go:33,          *)
(* aggregator.go:20, query-api main.go:42, control-plane main.go:229).     *)
THEOREM ReadSideTyped == ReadSideSpec => []AllTypes
<1> DEFINE Known == subject \in {"ring", "store", "server", "path", "plane"}
<1>1. Spec => []TypeOK
  BY TypeCorrect
<1>2. Store!Spec => [](Store!TypeOK)
  BY ReadSideAssumption, StoreTypeCorrect
<1>3. Server!Spec => [](Server!TypeOK)
  BY ReadSideAssumption, ServerTypeCorrect
<1>4. Path!Spec => [](Path!TypeOK)
  BY ReadSideAssumption, PathTypeCorrect
<1>5. Plane!Init => Plane!TypeOK
  BY DEF Plane!Init, Plane!TypeOK
<1>6. Plane!TypeOK /\ [Plane!Next]_(Plane!vars) => Plane!TypeOK'
  BY PlaneTyped
<1>7. ReadSideInit => Known
  BY DEF ReadSideInit
<1>8. /\ Known /\ [ReadSideNext]_readSideVars => Known'
      /\ [ReadSideNext]_readSideVars /\ ~(subject = "server") => ~(subject = "server")'
      /\ [ReadSideNext]_readSideVars /\ ~(subject = "path") => ~(subject = "path")'
      /\ [ReadSideNext]_readSideVars /\ ~(subject = "plane") => ~(subject = "plane")'
  BY SubjectStays
<1>9. /\ Known /\ TypeOK
      /\ subject = "store" => Store!TypeOK
      /\ subject = "server" => Server!TypeOK
      /\ subject = "path" => Path!TypeOK
      /\ subject = "plane" => Plane!TypeOK
      => AllTypes
  BY DEF AllTypes
<1> HIDE DEF Known
<1> QED
  BY <1>1, <1>2, <1>3, <1>4, <1>5, <1>6, <1>7, <1>8, <1>9, RingRuns, StoreRuns, ServerRuns, PathRuns,
     PlaneRuns, PTL DEF ReadSideSpec, Spec, Store!Spec, Server!Spec, Path!Spec, Plane!Spec

=============================================================================

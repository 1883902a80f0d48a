----------------------------- MODULE GatewayProofs -----------------------------
(***************************************************************************)
(* Theorems about the gateway's parts, for any sets of requests, objects,  *)
(* workers, watchers, tenants and any limits: first about the              *)
(* specification of each part, then about Gateway, which runs one of them. *)
(***************************************************************************)
EXTENDS Gateway, CircuitBreakerProofs, Integers, Sequences, FiniteSetTheorems, TLAPS

-----------------------------------------------------------------------------
(* Service discovery.                                                      *)

(* Whichever goroutine is about to close a channel, or has closed it, its  *)
(* watcher is no longer in the table and does not come back.               *)
Removed ==
  /\ \A w \in watchers : sender[w] \in {"send", "done"} /\ cleaner[w] = "wait"
  /\ \A w \in Watchers : w \in shut \/ cleaner[w] # "none" => sender[w] # "none"
  /\ Discovery!NotifiesOpen

(* What the sync has dealt with is as the registry answered.               *)
SyncedSoFar ==
  polling.at = "sync" /\ ~closed =>
    \A i \in Instances \ polling.todo :
      known[i] = IF Discovery!Answered(i) THEN Discovery!Health(i) ELSE "absent"

DiscoveryInv == Discovery!TypeOK /\ Removed /\ SyncedSoFar

LEMMA DiscoveryStarts ==
  ASSUME Discovery!ServiceDiscoveryAssumption, Discovery!Init
  PROVE  DiscoveryInv
<1> USE DEF Discovery!Init, Discovery!Resting
<1>1. Discovery!TableTyped
  BY DEF Discovery!TableTyped, Discovery!States
<1>2. Discovery!WatchersTyped
  <2>1. panicked \in BOOLEAN
    OBVIOUS
  <2>2. updates \in [Watchers -> 0..ChannelSize]
    BY DEF Discovery!ServiceDiscoveryAssumption
  <2> QED BY <2>1, <2>2 DEF Discovery!WatchersTyped
<1>3. Discovery!RoutesTyped
  BY DEF Discovery!RoutesTyped, Discovery!ServiceDiscoveryAssumption
<1>4. Removed
  BY DEF Removed, Discovery!NotifiesOpen
<1>5. SyncedSoFar
  <2>1. polling.at # "sync"
    OBVIOUS
  <2> QED BY <2>1 DEF SyncedSoFar
<1> QED BY <1>1, <1>2, <1>3, <1>4, <1>5 DEF DiscoveryInv, Discovery!TypeOK

(* The steps that send the change of an instance to the watchers.          *)
LEMMA NotifyTyped ==
  ASSUME Discovery!ServiceDiscoveryAssumption, Discovery!WatchersTyped, Discovery!Notify
  PROVE  Discovery!WatchersTyped'
<1> USE DEF Discovery!ServiceDiscoveryAssumption, Discovery!WatchersTyped, Discovery!Notify
<1>1. updates' \in [Watchers -> 0..ChannelSize]
  OBVIOUS
<1>2. panicked' \in BOOLEAN
  OBVIOUS
<1> QED BY <1>1, <1>2

LEMMA TableTypedNext ==
  ASSUME Discovery!TableTyped, [Discovery!Next]_(Discovery!vars)
  PROVE  Discovery!TableTyped'
<1> USE DEF Discovery!TableTyped, Discovery!States
<1>1. ASSUME NEW i \in Instances, Discovery!Change(i) PROVE Discovery!TableTyped'
  BY <1>1 DEF Discovery!Change
<1>2. ASSUME NEW i \in Instances, Discovery!SyncInstance(i) PROVE Discovery!TableTyped'
  <2>1. polling' = [polling EXCEPT !.todo = @ \ {i}] /\ UNCHANGED <<registry, closed>>
    BY <1>2 DEF Discovery!SyncInstance
  <2>2. \/ UNCHANGED known
        \/ known' = [known EXCEPT ![i] = "absent"]
        \/ known' = [known EXCEPT ![i] = "healthy"]
        \/ known' = [known EXCEPT ![i] = "unhealthy"]
    BY <1>2 DEF Discovery!SyncInstance, Discovery!SetInstance, Discovery!Health
  <2> QED BY <2>1, <2>2
<1>3. ASSUME Discovery!Poll PROVE Discovery!TableTyped'
  BY <1>3 DEF Discovery!Poll
<1>4. ASSUME Discovery!SyncEnds PROVE Discovery!TableTyped'
  BY <1>4 DEF Discovery!SyncEnds, Discovery!Resting
<1>5. ASSUME Discovery!Stop PROVE Discovery!TableTyped'
  BY <1>5 DEF Discovery!Stop, Discovery!Resting
<1>6. CASE UNCHANGED <<registry, polling, known, closed>>
  BY <1>6
<1>7. ASSUME NEW w \in Watchers,
        \/ Discovery!Watch(w) \/ Discovery!Cancel(w) \/ Discovery!Receive(w) \/ Discovery!SendFirst(w)
        \/ Discovery!SenderRemoves(w) \/ Discovery!SenderCloses(w)
        \/ Discovery!CleanerRemoves(w) \/ Discovery!CleanerCloses(w)
      PROVE UNCHANGED <<registry, polling, known, closed>>
  BY <1>7 DEF Discovery!Watch, Discovery!Cancel, Discovery!Receive, Discovery!SendFirst,
    Discovery!SenderRemoves, Discovery!SenderCloses, Discovery!CleanerRemoves, Discovery!CleanerCloses,
    Discovery!client
<1>8. ASSUME NEW r \in Routed,
        Discovery!GetHealthyInstance(r) \/ Discovery!CheckCircuit(r) \/ Discovery!Forward(r)
      PROVE UNCHANGED <<registry, polling, known, closed>>
  BY <1>8 DEF Discovery!GetHealthyInstance, Discovery!CheckCircuit, Discovery!Forward, Discovery!client
<1>9. ASSUME UNCHANGED Discovery!vars PROVE UNCHANGED <<registry, polling, known, closed>>
  BY <1>9 DEF Discovery!vars, Discovery!client
<1> QED
  BY <1>1, <1>2, <1>3, <1>4, <1>5, <1>6, <1>7, <1>8, <1>9 DEF Discovery!Next

LEMMA WatchersTypedNext ==
  ASSUME Discovery!ServiceDiscoveryAssumption, Discovery!WatchersTyped, [Discovery!Next]_(Discovery!vars)
  PROVE  Discovery!WatchersTyped'
<1> USE DEF Discovery!ServiceDiscoveryAssumption
<1>1. ASSUME UNCHANGED Discovery!watching PROVE Discovery!WatchersTyped'
  BY <1>1 DEF Discovery!WatchersTyped, Discovery!watching
<1>2. ASSUME NEW i \in Instances, Discovery!SyncInstance(i) PROVE Discovery!WatchersTyped'
  BY <1>1, <1>2, NotifyTyped DEF Discovery!SyncInstance, Discovery!SetInstance
<1>3. ASSUME NEW i \in Instances, Discovery!Change(i) PROVE UNCHANGED Discovery!watching
  BY <1>3 DEF Discovery!Change
<1>4. ASSUME Discovery!Poll \/ Discovery!SyncEnds PROVE UNCHANGED Discovery!watching
  BY <1>4 DEF Discovery!Poll, Discovery!SyncEnds
<1>5. ASSUME NEW r \in Routed,
        Discovery!GetHealthyInstance(r) \/ Discovery!CheckCircuit(r) \/ Discovery!Forward(r)
      PROVE UNCHANGED Discovery!watching
  BY <1>5 DEF Discovery!GetHealthyInstance, Discovery!CheckCircuit, Discovery!Forward
<1>6. ASSUME UNCHANGED Discovery!vars PROVE UNCHANGED Discovery!watching
  BY <1>6 DEF Discovery!vars
<1>7. ASSUME Discovery!Stop PROVE Discovery!WatchersTyped'
  <2> USE <1>7 DEF Discovery!Stop, Discovery!WatchersTyped
  <2>1. panicked' \in BOOLEAN
    OBVIOUS
  <2> QED BY <2>1
<1>8. ASSUME NEW w \in Watchers, Discovery!Watch(w) \/ Discovery!Cancel(w) PROVE Discovery!WatchersTyped'
  <2> USE <1>8 DEF Discovery!WatchersTyped, Discovery!Watch, Discovery!Cancel
  <2>1. UNCHANGED <<updates, shut, panicked>>
    OBVIOUS
  <2> QED BY <2>1
<1>10. ASSUME NEW w \in Watchers, Discovery!Receive(w) \/ Discovery!SendFirst(w)
       PROVE Discovery!WatchersTyped'
  <2> USE <1>10 DEF Discovery!WatchersTyped, Discovery!Receive, Discovery!SendFirst
  <2>1. panicked' \in BOOLEAN
    OBVIOUS
  <2>2. updates' \in [Watchers -> 0..ChannelSize]
    OBVIOUS
  <2> QED BY <2>1, <2>2
<1>9. ASSUME NEW w \in Watchers,
        \/ Discovery!SenderRemoves(w) \/ Discovery!SenderCloses(w)
        \/ Discovery!CleanerRemoves(w) \/ Discovery!CleanerCloses(w)
      PROVE Discovery!WatchersTyped'
  <2> USE <1>9 DEF Discovery!WatchersTyped, Discovery!SenderRemoves, Discovery!SenderCloses,
        Discovery!CleanerRemoves, Discovery!CleanerCloses, Discovery!RemoveWatcher, Discovery!CloseChannel
  <2>1. panicked' \in BOOLEAN
    OBVIOUS
  <2> QED BY <2>1
<1> QED
  BY <1>1, <1>2, <1>3, <1>4, <1>5, <1>6, <1>7, <1>8, <1>9, <1>10 DEF Discovery!Next

LEMMA RoutesTypedNext ==
  ASSUME Discovery!ServiceDiscoveryAssumption, Discovery!RoutesTyped, [Discovery!Next]_(Discovery!vars)
  PROVE  Discovery!RoutesTyped'
<1> USE DEF Discovery!ServiceDiscoveryAssumption
<1>1. ASSUME UNCHANGED Discovery!routing PROVE Discovery!RoutesTyped'
  BY <1>1 DEF Discovery!RoutesTyped, Discovery!routing
<1>2. ASSUME NEW r \in Routed, Discovery!GetHealthyInstance(r) PROVE Discovery!RoutesTyped'
  BY <1>2 DEF Discovery!GetHealthyInstance, Discovery!At, Discovery!RoutesTyped
<1>3. ASSUME NEW r \in Routed, Discovery!CheckCircuit(r) PROVE Discovery!RoutesTyped'
  BY <1>3 DEF Discovery!CheckCircuit, Discovery!At, Discovery!RoutesTyped
<1>4. ASSUME NEW r \in Routed, Discovery!Forward(r) PROVE Discovery!RoutesTyped'
  BY <1>4 DEF Discovery!Forward, Discovery!At, Discovery!RoutesTyped
<1>5. ASSUME NEW i \in Instances, Discovery!Change(i) \/ Discovery!SyncInstance(i)
      PROVE UNCHANGED Discovery!routing
  BY <1>5 DEF Discovery!Change, Discovery!SyncInstance
<1>6. ASSUME Discovery!Poll \/ Discovery!SyncEnds \/ Discovery!Stop PROVE UNCHANGED Discovery!routing
  BY <1>6 DEF Discovery!Poll, Discovery!SyncEnds, Discovery!Stop
<1>7. ASSUME NEW w \in Watchers,
        \/ Discovery!Watch(w) \/ Discovery!Cancel(w) \/ Discovery!Receive(w) \/ Discovery!SendFirst(w)
        \/ Discovery!SenderRemoves(w) \/ Discovery!SenderCloses(w)
        \/ Discovery!CleanerRemoves(w) \/ Discovery!CleanerCloses(w)
      PROVE UNCHANGED Discovery!routing
  BY <1>7 DEF Discovery!Watch, Discovery!Cancel, Discovery!Receive, Discovery!SendFirst,
    Discovery!SenderRemoves, Discovery!SenderCloses, Discovery!CleanerRemoves, Discovery!CleanerCloses
<1>8. ASSUME UNCHANGED Discovery!vars PROVE UNCHANGED Discovery!routing
  BY <1>8 DEF Discovery!vars
<1> QED
  BY <1>1, <1>2, <1>3, <1>4, <1>5, <1>6, <1>7, <1>8 DEF Discovery!Next

LEMMA RemovedNext ==
  ASSUME Discovery!TypeOK, Removed, [Discovery!Next]_(Discovery!vars)
  PROVE  Removed'
<1> USE DEF Discovery!TypeOK, Discovery!WatchersTyped, Discovery!TableTyped
<1>1. ASSUME UNCHANGED <<closed, watchers, shut, sender, cleaner>> PROVE Removed'
  BY <1>1 DEF Removed, Discovery!NotifiesOpen
<1>2. ASSUME NEW i \in Instances, Discovery!Change(i) \/ Discovery!SyncInstance(i) 
      PROVE UNCHANGED <<closed, watchers, shut, sender, cleaner>>
  BY <1>2 DEF Discovery!Change, Discovery!SyncInstance, Discovery!SetInstance, Discovery!Notify,
    Discovery!watching
<1>3. ASSUME Discovery!Poll \/ Discovery!SyncEnds
      PROVE UNCHANGED <<closed, watchers, shut, sender, cleaner>>
  BY <1>3 DEF Discovery!Poll, Discovery!SyncEnds, Discovery!watching
<1>4. ASSUME NEW r \in Routed,
        Discovery!GetHealthyInstance(r) \/ Discovery!CheckCircuit(r) \/ Discovery!Forward(r)
      PROVE UNCHANGED <<closed, watchers, shut, sender, cleaner>>
  BY <1>4 DEF Discovery!GetHealthyInstance, Discovery!CheckCircuit, Discovery!Forward,
    Discovery!watching
<1>5. ASSUME UNCHANGED Discovery!vars PROVE UNCHANGED <<closed, watchers, shut, sender, cleaner>>
  BY <1>5 DEF Discovery!vars, Discovery!watching
<1>6. ASSUME Discovery!Stop PROVE Removed'
  BY <1>6 DEF Discovery!Stop, Removed, Discovery!NotifiesOpen
<1>7. ASSUME NEW w \in Watchers, Discovery!Watch(w) PROVE Removed'
  BY <1>7 DEF Discovery!Watch, Removed, Discovery!NotifiesOpen
<1>8. ASSUME NEW w \in Watchers, Discovery!Cancel(w) \/ Discovery!Receive(w)
      PROVE UNCHANGED <<closed, watchers, shut, sender, cleaner>>
  BY <1>8 DEF Discovery!Cancel, Discovery!Receive
<1>9. ASSUME NEW w \in Watchers, Discovery!SendFirst(w) PROVE Removed'
  BY <1>9 DEF Discovery!SendFirst, Removed, Discovery!NotifiesOpen
<1>10. ASSUME NEW w \in Watchers, Discovery!SenderRemoves(w) \/ Discovery!CleanerRemoves(w) PROVE Removed'
  <2>1. /\ watchers' = watchers \ {w} /\ UNCHANGED <<closed, shut>>
        /\ \A v \in Watchers \ {w} : sender'[v] = sender[v] /\ cleaner'[v] = cleaner[v]
        /\ sender'[w] # "none"
    BY <1>10 DEF Discovery!SenderRemoves, Discovery!CleanerRemoves, Discovery!RemoveWatcher, Removed
  <2> QED BY <2>1 DEF Removed, Discovery!NotifiesOpen
<1>11. ASSUME NEW w \in Watchers, Discovery!SenderCloses(w) \/ Discovery!CleanerCloses(w) PROVE Removed'
  BY <1>11 DEF Discovery!SenderCloses, Discovery!CleanerCloses, Discovery!CloseChannel, Removed,
    Discovery!NotifiesOpen
<1> QED
  BY <1>1, <1>2, <1>3, <1>4, <1>5, <1>6, <1>7, <1>8, <1>9, <1>10, <1>11 DEF Discovery!Next

LEMMA SyncedNext ==
  ASSUME Discovery!TableTyped, SyncedSoFar, [Discovery!Next]_(Discovery!vars)
  PROVE  SyncedSoFar'
<1> USE DEF Discovery!TableTyped
<1>1. ASSUME UNCHANGED <<polling, known, closed>> PROVE SyncedSoFar'
  BY <1>1 DEF SyncedSoFar, Discovery!Answered, Discovery!Health
<1>2. ASSUME NEW i \in Instances, Discovery!Change(i) PROVE UNCHANGED <<polling, known, closed>>
  BY <1>2 DEF Discovery!Change
<1>3. ASSUME NEW r \in Routed,
        Discovery!GetHealthyInstance(r) \/ Discovery!CheckCircuit(r) \/ Discovery!Forward(r)
      PROVE UNCHANGED <<polling, known, closed>>
  BY <1>3 DEF Discovery!GetHealthyInstance, Discovery!CheckCircuit, Discovery!Forward, Discovery!client
<1>4. ASSUME NEW w \in Watchers,
        \/ Discovery!Watch(w) \/ Discovery!Cancel(w) \/ Discovery!Receive(w) \/ Discovery!SendFirst(w)
        \/ Discovery!SenderRemoves(w) \/ Discovery!SenderCloses(w)
        \/ Discovery!CleanerRemoves(w) \/ Discovery!CleanerCloses(w)
      PROVE UNCHANGED <<polling, known, closed>>
  BY <1>4 DEF Discovery!Watch, Discovery!Cancel, Discovery!Receive, Discovery!SendFirst,
    Discovery!SenderRemoves, Discovery!SenderCloses, Discovery!CleanerRemoves, Discovery!CleanerCloses,
    Discovery!client
<1>5. ASSUME UNCHANGED Discovery!vars PROVE UNCHANGED <<polling, known, closed>>
  BY <1>5 DEF Discovery!vars, Discovery!client
<1>6. ASSUME Discovery!SyncEnds \/ Discovery!Stop PROVE SyncedSoFar'
  <2>1. polling'.at # "sync"
    BY <1>6 DEF Discovery!SyncEnds, Discovery!Stop, Discovery!Resting
  <2> QED BY <2>1 DEF SyncedSoFar
<1>7. ASSUME Discovery!Poll PROVE SyncedSoFar'
  (* An instance that is not on the list is neither answered nor known.    *)
  <2> DEFINE answer == {i \in Instances : registry[i] # "absent"}
             before == {i \in Instances : ~closed /\ known[i] # "absent"}
  <2>1. /\ polling'.answer = {<<i, registry[i]>> : i \in answer}
        /\ polling'.todo = answer \cup before
        /\ UNCHANGED <<known, closed>>
    BY <1>7 DEF Discovery!Poll
  <2>2. SUFFICES ASSUME ~closed, NEW i \in Instances, i \notin answer \cup before
                 PROVE  known[i] = "absent" /\ ~Discovery!Answered(i)'
    BY <2>1 DEF SyncedSoFar
  <2>3. known[i] = "absent"
    BY <2>2
  <2>4. ~Discovery!Answered(i)'
    BY <2>1, <2>2 DEF Discovery!Answered
  <2> QED BY <2>3, <2>4
<1>8. ASSUME NEW i \in Instances, Discovery!SyncInstance(i) PROVE SyncedSoFar'
  <2>1. SUFFICES ASSUME ~closed, NEW j \in Instances, j \notin polling.todo \ {i}
                 PROVE  known'[j] = IF Discovery!Answered(j) THEN Discovery!Health(j) ELSE "absent"
    BY <1>8 DEF Discovery!SyncInstance, SyncedSoFar, Discovery!Answered, Discovery!Health
  <2>2. CASE j = i
    BY <1>8, <2>1, <2>2 DEF Discovery!SyncInstance, Discovery!SetInstance
  <2>3. CASE j # i
    <3>1. known'[j] = known[j]
      BY <1>8, <2>1, <2>3 DEF Discovery!SyncInstance, Discovery!SetInstance
    <3> QED BY <1>8, <2>1, <2>3, <3>1 DEF SyncedSoFar, Discovery!SyncInstance
  <2> QED BY <2>2, <2>3
<1> QED
  BY <1>1, <1>2, <1>3, <1>4, <1>5, <1>6, <1>7, <1>8 DEF Discovery!Next

LEMMA DiscoverySteps ==
  ASSUME Discovery!ServiceDiscoveryAssumption, DiscoveryInv, [Discovery!Next]_(Discovery!vars)
  PROVE  DiscoveryInv'
BY TableTypedNext, WatchersTypedNext, RoutesTypedNext, RemovedNext, SyncedNext
DEF DiscoveryInv, Discovery!TypeOK

(* The table of instances is what the registry answered whenever a poll    *)
(* has been worked off, and no watcher in it has a closed channel, for any *)
(* numbers of instances and watchers (registry_client.go:145,              *)
(* discovery.go:232).                                                      *)
THEOREM DiscoveryFollowed ==
  ASSUME Discovery!ServiceDiscoveryAssumption
  PROVE  Discovery!Spec => [](Discovery!DiscoveryFollows)
<1>1. Discovery!Init => DiscoveryInv
  BY DiscoveryStarts
<1>2. DiscoveryInv /\ [Discovery!Next]_(Discovery!vars) => DiscoveryInv'
  BY DiscoverySteps
<1>3. DiscoveryInv => Discovery!DiscoveryFollows
  <2>1. ASSUME DiscoveryInv PROVE Discovery!Synchronised
    BY <2>1 DEF DiscoveryInv, SyncedSoFar, Discovery!Synchronised, Discovery!Syncable
  <2> QED BY <2>1 DEF DiscoveryInv, Removed, Discovery!DiscoveryFollows
<1> QED
  BY <1>1, <1>2, <1>3, PTL DEF Discovery!Spec

-----------------------------------------------------------------------------
(* Request handlers.                                                       *)

HandlersTyped ==
  /\ step \in [Requests -> Handlers!Steps]
  /\ pool \subseteq Objects /\ batch \in [Requests -> SUBSET Objects]
  /\ content \in [Objects -> SUBSET Requests]
  /\ published \subseteq Requests /\ status \in [Requests -> {0, 202, 400, 429, 503}]

(* Every request owns its objects in every step, not only in those that    *)
(* send; and an object in the pool is empty, as the next request to take   *)
(* it adds its fields to what the object holds.                            *)
ObjectsOwned ==
  /\ \A r \in Requests : Handlers!HoldsItsOwn(r)
  /\ \A o \in pool : content[o] = {}

SentPublished == \A r \in Requests : step[r] = "sent" => r \in published

HandlersInv == HandlersTyped /\ ObjectsOwned /\ SentPublished /\ Handlers!AcceptedPublished

LEMMA RecycleEmpties ==
  ASSUME HandlersTyped, ObjectsOwned, NEW r \in Requests, Handlers!Recycle(r)
  PROVE  /\ pool' \subseteq Objects /\ batch' \in [Requests -> SUBSET Objects]
         /\ content' \in [Objects -> SUBSET Requests]
         /\ ObjectsOwned'
<1> USE DEF HandlersTyped, Handlers!Recycle, Handlers!Emptied
<1>1. /\ pool' \subseteq Objects /\ batch' \in [Requests -> SUBSET Objects]
      /\ content' \in [Objects -> SUBSET Requests]
  OBVIOUS
<1>2. ASSUME NEW q \in Requests, NEW o \in batch'[q]
      PROVE  /\ content'[o] = {q} /\ o \notin pool'
             /\ \A p \in Requests \ {q} : o \notin batch'[p]
  <2>1. q # r /\ o \in batch[q]
    BY <1>2
  <2>2. o \notin batch[r] /\ o \in Objects
    BY <2>1 DEF ObjectsOwned, Handlers!HoldsItsOwn
  <2> QED BY <2>1, <2>2 DEF ObjectsOwned, Handlers!HoldsItsOwn
<1>3. \A o \in pool' : content'[o] = {}
  BY DEF ObjectsOwned
<1> QED BY <1>1, <1>2, <1>3 DEF ObjectsOwned, Handlers!HoldsItsOwn

LEMMA HandlersStart ==
  ASSUME Handlers!Init
  PROVE  HandlersInv
<1> USE DEF Handlers!Init
<1>1. HandlersTyped
  BY DEF HandlersTyped, Handlers!Steps
<1>2. ObjectsOwned
  BY DEF ObjectsOwned, Handlers!HoldsItsOwn
<1>3. SentPublished /\ Handlers!AcceptedPublished
  BY DEF SentPublished, Handlers!AcceptedPublished
<1> QED BY <1>1, <1>2, <1>3 DEF HandlersInv

(* The steps that touch no object, and answer nothing with 202.            *)
LEMMA HandlersMove ==
  ASSUME HandlersInv, UNCHANGED <<pool, batch, content>>,
         published' \subseteq Requests, published \subseteq published',
         NEW r \in Requests,
         \/ UNCHANGED step
         \/ \E s \in Handlers!Steps : step' = [step EXCEPT ![r] = s] /\ (s = "sent" => r \in published'),
         \/ UNCHANGED status
         \/ \E code \in {400, 429, 503} : status' = [status EXCEPT ![r] = code]
  PROVE  HandlersInv'
<1> USE DEF HandlersInv
<1>1. HandlersTyped'
  BY DEF HandlersTyped
<1>2. ObjectsOwned'
  BY DEF ObjectsOwned, Handlers!HoldsItsOwn
<1>3. SentPublished'
  BY DEF SentPublished, HandlersTyped
<1>4. Handlers!AcceptedPublished'
  BY DEF Handlers!AcceptedPublished, HandlersTyped
<1> QED BY <1>1, <1>2, <1>3, <1>4

LEMMA HandlersParse ==
  ASSUME HandlersInv, NEW r \in Requests, Handlers!ParseEvent(r)
  PROVE  HandlersInv'
<1> USE DEF HandlersInv, HandlersTyped
<1>1. PICK o \in Handlers!Available :
        /\ pool' = pool \ {o}
        /\ batch' = [batch EXCEPT ![r] = @ \cup {o}]
        /\ content' = [content EXCEPT ![o] = IF o \in pool THEN @ \cup {r} ELSE {r}]
  BY DEF Handlers!ParseEvent
<1>2. UNCHANGED <<step, published, status>>
  BY DEF Handlers!ParseEvent
<1>3. o \in Objects /\ \A q \in Requests : o \notin batch[q]
  BY <1>1 DEF Handlers!Available, Handlers!InUse, ObjectsOwned, Handlers!HoldsItsOwn
<1>4. content' = [content EXCEPT ![o] = {r}]
  <2>1. (IF o \in pool THEN content[o] \cup {r} ELSE {r}) = {r}
    BY DEF ObjectsOwned
  <2> QED BY <1>1, <2>1
<1>5. HandlersTyped'
  BY <1>1, <1>2, <1>3, <1>4
<1>6. ObjectsOwned'
  BY <1>1, <1>3, <1>4 DEF ObjectsOwned, Handlers!HoldsItsOwn
<1>7. SentPublished' /\ Handlers!AcceptedPublished'
  BY <1>2 DEF SentPublished, Handlers!AcceptedPublished
<1> QED BY <1>5, <1>6, <1>7

LEMMA HandlersEnd ==
  ASSUME HandlersInv, NEW r \in Requests, Handlers!Reject(r) \/ Handlers!Finish(r)
  PROVE  HandlersInv'
<1> USE DEF HandlersInv
<1>1. Handlers!Recycle(r)
  BY DEF Handlers!Reject, Handlers!Finish
<1>2. PICK code \in {202, 400, 503} :
        /\ step' = [step EXCEPT ![r] = "done"] /\ status' = [status EXCEPT ![r] = code]
        /\ UNCHANGED published
        /\ code = 202 => r \in published
  BY DEF Handlers!Reject, Handlers!Finish, Handlers!Answer, Handlers!Accepted, SentPublished
<1>3. HandlersTyped' /\ ObjectsOwned'
  BY <1>1, <1>2, RecycleEmpties DEF HandlersTyped, Handlers!Steps
<1>4. SentPublished'
  BY <1>2 DEF SentPublished, HandlersTyped
<1>5. Handlers!AcceptedPublished'
  BY <1>2 DEF Handlers!AcceptedPublished, HandlersTyped
<1> QED BY <1>3, <1>4, <1>5

LEMMA HandlersSteps ==
  ASSUME HandlersInv, [Handlers!Next]_(Handlers!vars)
  PROVE  HandlersInv'
<1> USE DEF Handlers!Goto, Handlers!Answer, Handlers!objects, Handlers!Steps
<1>1. ASSUME Handlers!UpdateMetrics \/ UNCHANGED Handlers!vars PROVE HandlersInv'
  <2>1. UNCHANGED <<step, pool, batch, content, published, status>>
    BY <1>1 DEF Handlers!UpdateMetrics, Handlers!vars
  <2> QED BY <2>1 DEF HandlersInv, HandlersTyped, ObjectsOwned, SentPublished, Handlers!HoldsItsOwn,
            Handlers!AcceptedPublished
<1>2. ASSUME NEW r \in Requests,
             \/ Handlers!Arrive(r) \/ Handlers!Admit(r) \/ Handlers!Refuse(r) \/ Handlers!Allow(r)
      PROVE HandlersInv'
  <2>1. UNCHANGED <<pool, batch, content, published>>
    BY <1>2 DEF Handlers!Arrive, Handlers!Admit, Handlers!Refuse, Handlers!Allow
  <2>2. \E s \in {"admit", "allow", "parse", "done"} : step' = [step EXCEPT ![r] = s]
    BY <1>2 DEF Handlers!Arrive, Handlers!Admit, Handlers!Refuse, Handlers!Allow
  <2>3. UNCHANGED status \/ \E code \in {400, 429, 503} : status' = [status EXCEPT ![r] = code]
    BY <1>2 DEF Handlers!Arrive, Handlers!Admit, Handlers!Refuse, Handlers!Allow
  <2>4. \E s \in Handlers!Steps : step' = [step EXCEPT ![r] = s] /\ (s = "sent" => r \in published')
    BY <2>2
  <2> QED BY <2>1, <2>3, <2>4, HandlersMove DEF HandlersInv, HandlersTyped
<1>3. ASSUME NEW r \in Requests,
             \/ Handlers!Parsed(r) \/ Handlers!ValidateBatch(r)
             \/ \E o \in Objects : Handlers!ValidateChunk(r, o)
      PROVE HandlersInv'
  <2>1. UNCHANGED <<pool, batch, content, published>>
    BY <1>3 DEF Handlers!Parsed, Handlers!ValidateBatch, Handlers!ValidateChunk
  <2>2. UNCHANGED step \/ \E s \in {"validate", "send", "reject", "done"} : step' = [step EXCEPT ![r] = s]
    BY <1>3 DEF Handlers!Parsed, Handlers!ValidateBatch, Handlers!ValidateChunk
  <2>3. UNCHANGED status \/ \E code \in {400, 429, 503} : status' = [status EXCEPT ![r] = code]
    BY <1>3 DEF Handlers!Parsed, Handlers!ValidateBatch, Handlers!ValidateChunk
  <2>4. \/ UNCHANGED step
        \/ \E s \in Handlers!Steps : step' = [step EXCEPT ![r] = s] /\ (s = "sent" => r \in published')
    BY <2>2
  <2> QED BY <2>1, <2>3, <2>4, HandlersMove DEF HandlersInv, HandlersTyped
<1>4. ASSUME NEW r \in Requests, Handlers!SendBatch(r) PROVE HandlersInv'
  <2>1. UNCHANGED <<pool, batch, content, status>>
    BY <1>4 DEF Handlers!SendBatch
  <2>2. published' \subseteq Requests /\ published \subseteq published'
    BY <1>4 DEF Handlers!SendBatch, HandlersInv, HandlersTyped
  <2>3. \E s \in Handlers!Steps : step' = [step EXCEPT ![r] = s] /\ (s = "sent" => r \in published')
    BY <1>4 DEF Handlers!SendBatch
  <2> QED BY <2>1, <2>2, <2>3, HandlersMove
<1> QED
  BY <1>1, <1>2, <1>3, <1>4, HandlersParse, HandlersEnd DEF Handlers!Next

(* For any number of requests, contexts and event objects a request sends  *)
(* its own fields in objects that are nobody else's, and one answered 202  *)
(* is in the log (handler.go:181, :208).                                   *)
THEOREM RequestsSendTheirOwn == Handlers!Spec => [](Handlers!SendsItsOwn)
<1>1. Handlers!Init => HandlersInv
  BY HandlersStart
<1>2. HandlersInv /\ [Handlers!Next]_(Handlers!vars) => HandlersInv'
  BY HandlersSteps
<1>3. HandlersInv => Handlers!SendsItsOwn
  BY DEF HandlersInv, ObjectsOwned, Handlers!SendsItsOwn
<1> QED
  BY <1>1, <1>2, <1>3, PTL DEF Handlers!Spec

(* What shedding, tenancy and validation keep; a request that has arrived  *)
(* has a context.                                                          *)
HandlersRest ==
  /\ backpressure \in BOOLEAN /\ load \in Loads \cup {0}
  /\ shed \in [priority : Handlers!Priorities, load : Loads \cup {0}] \cup {None}
  /\ context \in [Requests -> Contexts \cup {None}]
  /\ \A r \in Requests : step[r] # "new" => context[r] \in Contexts
  /\ buffer \in [Contexts -> Tenants]
  /\ key \in [Tenants -> Contexts \cup {None}] /\ buckets \in [Tenants -> 0..2]
  /\ reading \in [Requests -> SUBSET Objects]

LEMMA HandlersRestNext ==
  ASSUME HandlersTyped, HandlersRest, [Handlers!Next]_(Handlers!vars)
  PROVE  HandlersRest'
<1> USE DEF HandlersRest, Handlers!Goto, Handlers!Answer, Handlers!shedding, Handlers!tenancy
<1> DEFINE others == <<backpressure, load, shed, context, buffer, key, buckets, reading>>
<1>1. ASSUME Handlers!UpdateMetrics PROVE HandlersRest'
  BY <1>1 DEF Handlers!UpdateMetrics
<1>2. ASSUME NEW r \in Requests, Handlers!Arrive(r) PROVE HandlersRest'
  <2>1. PICK c \in Contexts, t \in Tenants :
          context' = [context EXCEPT ![r] = c] /\ buffer' = [buffer EXCEPT ![c] = t]
    BY <1>2 DEF Handlers!Arrive
  <2>2. \A q \in Requests \ {r} : step'[q] = step[q]
    BY <1>2 DEF Handlers!Arrive, HandlersTyped
  <2>3. UNCHANGED <<backpressure, load, shed, key, buckets, reading>>
    BY <1>2 DEF Handlers!Arrive
  <2>4. /\ context' \in [Requests -> Contexts \cup {None}] /\ buffer' \in [Contexts -> Tenants]
        /\ \A q \in Requests : step'[q] # "new" => context'[q] \in Contexts
    BY <2>1, <2>2
  <2> QED BY <2>3, <2>4
<1>3. ASSUME NEW r \in Requests, Handlers!Admit(r) PROVE HandlersRest'
  <2>1. shed' \in [priority : Handlers!Priorities, load : Loads \cup {0}] \cup {None}
    BY <1>3 DEF Handlers!Admit
  <2>2. step[r] # "new" /\ \A q \in Requests \ {r} : step'[q] = step[q]
    BY <1>3 DEF Handlers!Admit, HandlersTyped
  <2>3. UNCHANGED <<backpressure, load, context, buffer, key, buckets, reading>>
    BY <1>3 DEF Handlers!Admit
  <2> QED BY <2>1, <2>2, <2>3
<1>4. ASSUME NEW r \in Requests, Handlers!Allow(r) PROVE HandlersRest'
  <2>1. step[r] # "new" /\ \A q \in Requests \ {r} : step'[q] = step[q]
    BY <1>4 DEF Handlers!Allow, HandlersTyped
  <2>2. context[r] \in Contexts /\ buffer[context[r]] \in Tenants
    BY <2>1
  <2>3. key' \in [Tenants -> Contexts \cup {None}]
    BY <1>4, <2>2 DEF Handlers!Allow
  <2>4. buckets' \in [Tenants -> 0..2]
    BY <1>4, <2>2 DEF Handlers!Allow
  <2>5. UNCHANGED <<backpressure, load, shed, context, buffer, reading>>
    BY <1>4 DEF Handlers!Allow
  <2> QED BY <2>1, <2>3, <2>4, <2>5
<1>5. ASSUME NEW r \in Requests, UNCHANGED <<backpressure, load, shed, context, buffer, key, buckets>>,
             reading' \in [Requests -> SUBSET Objects],
             step[r] # "new", \A q \in Requests \ {r} : step'[q] = step[q]
      PROVE HandlersRest'
  BY <1>5
<1>6. ASSUME NEW r \in Requests,
             \/ Handlers!Refuse(r) \/ Handlers!ParseEvent(r) \/ Handlers!ValidateBatch(r)
             \/ Handlers!Reject(r) \/ Handlers!SendBatch(r) \/ Handlers!Finish(r)
      PROVE HandlersRest'
  <2>1. UNCHANGED <<backpressure, load, shed, context, buffer, key, buckets, reading>>
    BY <1>6 DEF Handlers!Refuse, Handlers!ParseEvent, Handlers!ValidateBatch, Handlers!Reject,
      Handlers!SendBatch, Handlers!Finish
  <2>2. step[r] # "new" /\ \A q \in Requests \ {r} : step'[q] = step[q]
    BY <1>6 DEF Handlers!Refuse, Handlers!ParseEvent, Handlers!ValidateBatch, Handlers!Reject,
      Handlers!SendBatch, Handlers!Finish, HandlersTyped
  <2> QED BY <1>5, <2>1, <2>2
<1>7. ASSUME NEW r \in Requests, Handlers!Parsed(r) PROVE HandlersRest'
  <2>1. reading' \in [Requests -> SUBSET Objects]
    BY <1>7 DEF Handlers!Parsed, HandlersTyped
  <2>2. step[r] # "new" /\ \A q \in Requests \ {r} : step'[q] = step[q]
    BY <1>7 DEF Handlers!Parsed, HandlersTyped
  <2>3. UNCHANGED <<backpressure, load, shed, context, buffer, key, buckets>>
    BY <1>7 DEF Handlers!Parsed
  <2> QED BY <1>5, <2>1, <2>2, <2>3
<1>8. ASSUME NEW r \in Requests, NEW o \in Objects, Handlers!ValidateChunk(r, o) PROVE HandlersRest'
  <2>1. reading' \in [Requests -> SUBSET Objects]
    BY <1>8 DEF Handlers!ValidateChunk
  <2>2. \A q \in Requests : step'[q] # "new" => step[q] # "new"
    BY <1>8 DEF Handlers!ValidateChunk, HandlersTyped
  <2>3. UNCHANGED <<backpressure, load, shed, context, buffer, key, buckets>>
    BY <1>8 DEF Handlers!ValidateChunk
  <2> QED BY <2>1, <2>2, <2>3
<1>9. ASSUME UNCHANGED Handlers!vars PROVE HandlersRest'
  BY <1>9 DEF Handlers!vars
<1> QED
  BY <1>1, <1>2, <1>3, <1>4, <1>6, <1>7, <1>8, <1>9 DEF Handlers!Next

(* Type correctness of the handlers: a request that asks for its bucket    *)
(* has a context with a tenant in it, whichever contexts are reused        *)
(* meanwhile (handler.go:105, hierarchical.go:137).                        *)
THEOREM HandlersTypeCorrect == Handlers!Spec => [](Handlers!TypeOK)
<1>1. Handlers!Init => HandlersInv /\ HandlersRest
  <2>1. Handlers!Init => HandlersRest
    BY DEF Handlers!Init, HandlersRest
  <2> QED BY <2>1, HandlersStart
<1>2. HandlersInv /\ HandlersRest /\ [Handlers!Next]_(Handlers!vars) => (HandlersInv /\ HandlersRest)'
  BY HandlersSteps, HandlersRestNext DEF HandlersInv
<1>3. HandlersInv /\ HandlersRest => Handlers!TypeOK
  BY DEF HandlersInv, HandlersTyped, HandlersRest, Handlers!TypeOK
<1> QED
  BY <1>1, <1>2, <1>3, PTL DEF Handlers!Spec

-----------------------------------------------------------------------------
(* Request queue.                                                          *)

QueueTyped ==
  /\ entry \in [Callers -> {"new", "add", "try", "fallback", "stay", "wait", "done"}]
  /\ priority \in [Callers -> Queue!Channels \cup {"critical"}]
  /\ lane \in [Queue!Channels -> Seq(Callers)]
  /\ queued \in Int /\ response \in [Callers -> {0, 202, 503, 504}]
  /\ worker \in [Workers -> [at : Queue!Channels \cup {"taken", "process", "stopped"},
                             request : Callers \cup {None}]]
  /\ \A w \in Workers : worker[w].request = None <=> worker[w].at \notin {"taken", "process"}

(* No request is twice in the channels.                                    *)
InLine ==
  \A c, d \in Queue!Channels : \A i \in 1..Len(lane[c]), j \in 1..Len(lane[d]) :
    lane[c][i] = lane[d][j] => c = d /\ i = j

(* A request is not answered before it was queued, in a channel or in the  *)
(* hands of a worker, and it is in one of these places.                    *)
Unqueued == {"new", "add", "try", "fallback"}
Placed ==
  /\ \A r \in Callers : entry[r] \in Unqueued => response[r] = 0 /\ r \notin Queue!Contents
  /\ \A r \in Queue!Contents : response[r] = 0
  /\ \A w \in Workers : worker[w].request # None =>
       /\ entry[worker[w].request] \notin Unqueued
       /\ response[worker[w].request] = 0 /\ worker[w].request \notin Queue!Contents
  /\ \A v, w \in Workers : v # w /\ worker[v].request # None => worker[v].request # worker[w].request

Trying == {r \in Callers : entry[r] \in {"try", "fallback"}}
Taken == {w \in Workers : worker[w].at = "taken"}

(* The counter, as long as the queue is not drained, and the sets counted. *)
Exact ==
  /\ IsFiniteSet(Trying) /\ IsFiniteSet(Queue!Contents) /\ IsFiniteSet(Taken)
  /\ shutdown # "drained" =>
       queued = Cardinality(Trying) + Cardinality(Queue!Contents) + Cardinality(Taken)

QueueInv == QueueTyped /\ InLine /\ Placed /\ Exact

LEMMA InContents ==
  ASSUME QueueTyped, NEW r
  PROVE  r \in Queue!Contents <=>
           \E c \in Queue!Channels : \E i \in 1..Len(lane[c]) : r = lane[c][i]
<1>1. \A c \in Queue!Channels : DOMAIN lane[c] = 1..Len(lane[c])
  BY DEF QueueTyped
<1> QED BY <1>1 DEF Queue!Contents

LEMMA InContentsNext ==
  ASSUME QueueTyped', NEW r
  PROVE  r \in Queue!Contents' <=>
           \E c \in Queue!Channels : \E i \in 1..Len(lane'[c]) : r = lane'[c][i]
<1>1. \A c \in Queue!Channels : DOMAIN lane'[c] = 1..Len(lane'[c])
  BY DEF QueueTyped
<1> QED BY <1>1 DEF Queue!Contents

LEMMA ContentsQueued ==
  ASSUME QueueTyped
  PROVE  Queue!Contents \subseteq Callers
BY InContents DEF QueueTyped

(* A request that was in none of the channels comes into one of them.      *)
LEMMA AppendToLine ==
  ASSUME QueueTyped, QueueTyped', InLine, NEW c \in Queue!Channels, NEW r \in Callers,
         r \notin Queue!Contents, lane' = [lane EXCEPT ![c] = Append(@, r)]
  PROVE  InLine' /\ Queue!Contents' = Queue!Contents \cup {r}
<1>1. /\ Len(lane'[c]) = Len(lane[c]) + 1 /\ lane'[c][Len(lane[c]) + 1] = r
      /\ \A i \in 1..Len(lane[c]) : lane'[c][i] = lane[c][i]
      /\ \A d \in Queue!Channels \ {c} : lane'[d] = lane[d]
      /\ \A d \in Queue!Channels : Len(lane[d]) \in Nat
  BY DEF QueueTyped
<1>2. \A d \in Queue!Channels : \A i \in 1..Len(lane[d]) : lane[d][i] # r
  BY InContents
<1>3. \A d \in Queue!Channels : \A i \in 1..Len(lane'[d]) :
        \/ i \in 1..Len(lane[d]) /\ lane'[d][i] = lane[d][i]
        \/ d = c /\ i = Len(lane[c]) + 1 /\ lane'[d][i] = r
  BY <1>1
<1>4. InLine'
  BY <1>2, <1>3 DEF InLine
<1>5. ASSUME NEW q PROVE q \in Queue!Contents' <=> q \in Queue!Contents \cup {r}
  <2>1. q \in Queue!Contents' <=>
          \E d \in Queue!Channels : \E i \in 1..Len(lane'[d]) : q = lane'[d][i]
    BY InContentsNext
  <2>2. ASSUME q \in Queue!Contents' PROVE q \in Queue!Contents \cup {r}
    BY <1>3, <2>1, <2>2, InContents
  <2>3. ASSUME q \in Queue!Contents PROVE q \in Queue!Contents'
    <3>1. PICK d \in Queue!Channels : \E i \in 1..Len(lane[d]) : q = lane[d][i]
      BY <2>3, InContents
    <3>2. PICK i \in 1..Len(lane[d]) : q = lane[d][i]
      BY <3>1
    <3>3. i \in 1..Len(lane'[d]) /\ lane'[d][i] = q
      BY <1>1, <3>2
    <3> QED BY <2>1, <3>3
  <2>4. r \in Queue!Contents'
    <3>1. PICK i \in 1..Len(lane'[c]) : lane'[c][i] = r
      BY <1>1
    <3> QED BY <3>1, InContentsNext
  <2> QED BY <2>2, <2>3, <2>4
<1> QED BY <1>4, <1>5

(* The first of a channel is taken out.                                    *)
LEMMA TakeFromLine ==
  ASSUME QueueTyped, QueueTyped', InLine, NEW c \in Queue!Channels, lane[c] # <<>>,
         lane' = [lane EXCEPT ![c] = Tail(@)]
  PROVE  InLine' /\ Head(lane[c]) \in Queue!Contents
         /\ Queue!Contents' = Queue!Contents \ {Head(lane[c])}
<1> DEFINE r == lane[c][1]
<1>1. /\ Len(lane[c]) \in Nat \ {0} /\ Head(lane[c]) = r
      /\ Len(lane'[c]) = Len(lane[c]) - 1
      /\ \A i \in 1..Len(lane'[c]) : lane'[c][i] = lane[c][i + 1]
      /\ \A d \in Queue!Channels \ {c} : lane'[d] = lane[d]
      /\ \A d \in Queue!Channels : Len(lane[d]) \in Nat
  BY DEF QueueTyped
<1>2. \A d \in Queue!Channels : \A i \in 1..Len(lane'[d]) :
        \/ d = c /\ i + 1 \in 2..Len(lane[c]) /\ lane'[d][i] = lane[c][i + 1]
        \/ d # c /\ i \in 1..Len(lane[d]) /\ lane'[d][i] = lane[d][i]
  BY <1>1
<1>3. InLine'
  BY <1>1, <1>2 DEF InLine
<1>4. r \in Queue!Contents
  BY <1>1, InContents
<1>5. ASSUME NEW q PROVE q \in Queue!Contents' <=> q \in Queue!Contents \ {r}
  <2>1. q \in Queue!Contents' <=>
          \E d \in Queue!Channels : \E i \in 1..Len(lane'[d]) : q = lane'[d][i]
    BY InContentsNext
  <2>2. ASSUME q \in Queue!Contents' PROVE q \in Queue!Contents \ {r}
    <3>1. PICK d \in Queue!Channels : \E i \in 1..Len(lane'[d]) : q = lane'[d][i]
      BY <2>1, <2>2
    <3>2. PICK i \in 1..Len(lane'[d]) : q = lane'[d][i]
      BY <3>1
    <3>3. CASE d = c
      <4>1. i + 1 \in 2..Len(lane[c]) /\ q = lane[c][i + 1]
        BY <1>2, <3>2, <3>3
      <4>2. i + 1 \in 1..Len(lane[c]) /\ 1 \in 1..Len(lane[c]) /\ i + 1 # 1
        BY <1>1, <4>1
      <4>3. q # r
        BY <4>1, <4>2 DEF InLine
      <4> QED BY <4>1, <4>2, <4>3, InContents
    <3>4. CASE d # c
      <4>1. i \in 1..Len(lane[d]) /\ q = lane[d][i] /\ 1 \in 1..Len(lane[c])
        BY <1>1, <1>2, <3>2, <3>4
      <4>2. q # r
        BY <3>4, <4>1 DEF InLine
      <4> QED BY <4>1, <4>2, InContents
    <3> QED BY <3>3, <3>4
  <2>3. ASSUME q \in Queue!Contents, q # r PROVE q \in Queue!Contents'
    <3>1. PICK d \in Queue!Channels : \E i \in 1..Len(lane[d]) : q = lane[d][i]
      BY <2>3, InContents
    <3>2. PICK i \in 1..Len(lane[d]) : q = lane[d][i]
      BY <3>1
    <3>3. CASE d = c
      <4>1. i # 1
        BY <2>3, <3>2, <3>3
      <4>2. i - 1 \in 1..Len(lane'[c]) /\ (i - 1) + 1 = i
        BY <1>1, <3>2, <3>3, <4>1
      <4>3. lane'[c][i - 1] = q
        BY <1>1, <3>2, <3>3, <4>2
      <4> QED BY <2>1, <4>2, <4>3
    <3>4. CASE d # c
      BY <1>1, <2>1, <3>2, <3>4
    <3> QED BY <3>3, <3>4
  <2> QED BY <2>2, <2>3
<1> QED BY <1>1, <1>3, <1>4, <1>5

LEMMA QueueStart ==
  ASSUME Queue!Init
  PROVE  QueueInv
<1> USE DEF Queue!Init, Queue!Looking
<1>1. QueueTyped
  BY DEF QueueTyped, Queue!Channels
<1>2. Queue!Contents = {}
  BY <1>1, InContents
<1>3. InLine
  BY DEF InLine
<1>4. Placed
  BY <1>2 DEF Placed
<1>5. Trying = {} /\ Taken = {}
  BY DEF Trying, Taken
<1>6. Exact
  BY <1>2, <1>5, FS_EmptySet DEF Exact
<1> QED BY <1>1, <1>3, <1>4, <1>6 DEF QueueInv

(* The steps of a handler outside the channels.                            *)
LEMMA HandlerQueues ==
  ASSUME QueueInv, NEW r \in Callers,
         \/ Queue!CheckSize(r) \/ Queue!CountRequest(r) \/ Queue!FallBack(r) \/ Queue!Return(r)
         \/ Queue!Refuse(r) \/ Queue!Expire(r) \/ Queue!Answer(r)
  PROVE  QueueInv'
<1> USE DEF QueueInv, QueueTyped, Unqueued
<1>1. UNCHANGED <<lane, response, worker, shutdown>>
  BY DEF Queue!CheckSize, Queue!CountRequest, Queue!FallBack, Queue!Return, Queue!Refuse,
    Queue!Expire, Queue!Answer
<1>2. UNCHANGED Queue!Contents /\ UNCHANGED Taken
  BY <1>1 DEF Queue!Contents, Taken
<1>3. priority' \in [Callers -> Queue!Channels \cup {"critical"}]
  BY DEF Queue!CheckSize, Queue!CountRequest, Queue!FallBack, Queue!Return, Queue!Refuse,
    Queue!Expire, Queue!Answer
<1>4. InLine'
  BY <1>1 DEF InLine
<1>5. ASSUME Queue!CheckSize(r) \/ Queue!FallBack(r) \/ Queue!Return(r) \/ Queue!Expire(r) \/ Queue!Answer(r)
      PROVE QueueInv'
  <2>1. /\ queued' = queued
        /\ \E s \in {"add", "fallback", "wait", "done", entry[r]} :
             /\ entry' = [entry EXCEPT ![r] = s]
             /\ s \in {"try", "fallback"} <=> entry[r] \in {"try", "fallback"}
             /\ s \in Unqueued => entry[r] \in Unqueued
    BY <1>5 DEF Queue!CheckSize, Queue!FallBack, Queue!Return, Queue!Expire, Queue!Answer, Queue!Leave
  <2>2. QueueTyped'
    BY <1>1, <1>3, <2>1
  <2>3. Trying' = Trying
    BY <2>1 DEF Trying
  <2>4. Placed'
    BY <1>1, <1>2, <2>1 DEF Placed
  <2> QED BY <1>1, <1>2, <1>4, <2>1, <2>2, <2>3, <2>4 DEF Exact
<1>6. ASSUME Queue!CountRequest(r) PROVE QueueInv'
  <2>1. entry[r] = "add" /\ entry' = [entry EXCEPT ![r] = "try"] /\ queued' = queued + 1
    BY <1>6 DEF Queue!CountRequest
  <2>2. QueueTyped'
    BY <1>1, <1>3, <2>1
  <2>3. Trying' = Trying \cup {r} /\ r \notin Trying
    BY <2>1 DEF Trying
  <2>4. Placed'
    BY <1>1, <1>2, <2>1 DEF Placed
  <2>5. IsFiniteSet(Trying') /\ Cardinality(Trying') = Cardinality(Trying) + 1
    BY <2>3, FS_AddElement DEF Exact
  <2>6. Exact'
    BY <1>1, <1>2, <2>1, <2>5, FS_CardinalityType DEF Exact
  <2> QED BY <1>4, <2>2, <2>4, <2>6
<1>7. ASSUME Queue!Refuse(r) PROVE QueueInv'
  <2>1. /\ entry[r] \in {"try", "fallback"} /\ entry' = [entry EXCEPT ![r] = "done"]
        /\ queued' = queued - 1
    BY <1>7 DEF Queue!Refuse, Queue!Leave, Queue!Uncounted
  <2>2. QueueTyped'
    BY <1>1, <1>3, <2>1
  <2>3. Trying' = Trying \ {r} /\ r \in Trying
    BY <2>1 DEF Trying
  <2>4. Placed'
    BY <1>1, <1>2, <2>1 DEF Placed
  <2>5. IsFiniteSet(Trying') /\ Cardinality(Trying') = Cardinality(Trying) - 1
    BY <2>3, FS_RemoveElement DEF Exact
  <2>6. Exact'
    <3>1. /\ queued \in Int /\ Cardinality(Trying) \in Nat
          /\ Cardinality(Queue!Contents) \in Nat /\ Cardinality(Taken) \in Nat
      BY FS_CardinalityType DEF Exact, QueueTyped
    <3>2. /\ Cardinality(Queue!Contents)' = Cardinality(Queue!Contents)
          /\ Cardinality(Taken)' = Cardinality(Taken)
          /\ IsFiniteSet(Queue!Contents)' /\ IsFiniteSet(Taken)' /\ shutdown' = shutdown
      BY <1>1, <1>2 DEF Exact
    <3> QED BY <2>1, <2>5, <3>1, <3>2 DEF Exact
  <2> QED BY <1>4, <2>2, <2>4, <2>6
<1> QED BY <1>5, <1>6, <1>7

LEMMA EnqueueCounts ==
  ASSUME QueueInv, NEW r \in Callers, Queue!Enqueue(r)
  PROVE  QueueInv'
<1> USE DEF QueueInv
<1>1. /\ entry[r] \in {"try", "fallback"} /\ entry' = [entry EXCEPT ![r] = "stay"]
      /\ UNCHANGED <<priority, queued, response, worker, shutdown>>
  BY DEF Queue!Enqueue
<1>2. PICK c \in Queue!Channels : lane' = [lane EXCEPT ![c] = Append(@, r)]
  BY DEF Queue!Enqueue, Queue!Fallback, Queue!Channels, QueueTyped
<1>3. QueueTyped'
  BY <1>1, <1>2 DEF QueueTyped
<1>4. r \notin Queue!Contents
  BY <1>1 DEF Placed, Unqueued
<1>5. InLine' /\ Queue!Contents' = Queue!Contents \cup {r}
  BY <1>2, <1>3, <1>4, AppendToLine
<1>6. Placed'
  BY <1>1, <1>5 DEF Placed, Unqueued, QueueTyped
<1>7. Trying' = Trying \ {r} /\ r \in Trying /\ UNCHANGED Taken
  BY <1>1 DEF Trying, Taken, QueueTyped
<1>8. /\ IsFiniteSet(Trying') /\ Cardinality(Trying') = Cardinality(Trying) - 1
      /\ IsFiniteSet(Queue!Contents') /\ Cardinality(Queue!Contents') = Cardinality(Queue!Contents) + 1
  BY <1>4, <1>5, <1>7, FS_AddElement, FS_RemoveElement DEF Exact
<1>9. Exact'
  BY <1>1, <1>7, <1>8, FS_CardinalityType DEF Exact
<1> QED BY <1>3, <1>5, <1>6, <1>9

LEMMA TakeCounts ==
  ASSUME Queue!RequestQueueAssumption, QueueInv, NEW w \in Workers, Queue!Take(w)
  PROVE  QueueInv'
<1> USE DEF QueueInv
<1> DEFINE c == worker[w].at
           r == Head(lane[c])
<1>1. /\ c \in Queue!Channels /\ lane[c] # <<>>
      /\ worker' = [worker EXCEPT ![w] = [at |-> "taken", request |-> r]]
      /\ lane' = [lane EXCEPT ![c] = Tail(@)]
      /\ UNCHANGED <<entry, priority, queued, response, shutdown>>
  BY DEF Queue!Take, Queue!Moves
<1>2. r \in Callers /\ r # None
  BY <1>1 DEF QueueTyped, Queue!RequestQueueAssumption
<1>3. QueueTyped'
  <2>1. lane' \in [Queue!Channels -> Seq(Callers)]
    BY <1>1 DEF QueueTyped
  <2>2. worker' \in [Workers -> [at : Queue!Channels \cup {"taken", "process", "stopped"},
                                 request : Callers \cup {None}]]
    BY <1>1, <1>2 DEF QueueTyped
  <2>3. \A v \in Workers : worker'[v].request = None <=> worker'[v].at \notin {"taken", "process"}
    BY <1>1, <1>2 DEF QueueTyped
  <2> QED BY <1>1, <2>1, <2>2, <2>3 DEF QueueTyped
<1>4. InLine' /\ r \in Queue!Contents /\ Queue!Contents' = Queue!Contents \ {r}
  BY <1>1, <1>3, TakeFromLine
<1>5. Placed'
  <2>1. /\ \A q \in Callers : entry'[q] \in Unqueued => response'[q] = 0 /\ q \notin Queue!Contents'
        /\ \A q \in Queue!Contents' : response'[q] = 0
    BY <1>1, <1>4 DEF Placed
  <2>2. worker'[w].request = r /\ \A v \in Workers \ {w} : worker'[v] = worker[v]
    BY <1>1 DEF QueueTyped
  <2>3. entry[r] \notin Unqueued /\ response[r] = 0
    BY <1>2, <1>4 DEF Placed
  <2>4. \A v \in Workers : worker[v].request # None => worker[v].request # r
    BY <1>4 DEF Placed
  <2>5. \A v \in Workers : worker'[v].request # None =>
          /\ entry'[worker'[v].request] \notin Unqueued
          /\ response'[worker'[v].request] = 0 /\ worker'[v].request \notin Queue!Contents'
    BY <1>1, <1>4, <2>2, <2>3 DEF Placed
  <2>6. \A u, v \in Workers : u # v /\ worker'[u].request # None => worker'[u].request # worker'[v].request
    BY <1>2, <2>2, <2>4 DEF Placed
  <2> QED BY <2>1, <2>5, <2>6 DEF Placed
<1>6. Taken' = Taken \cup {w} /\ w \notin Taken /\ UNCHANGED Trying
  BY <1>1 DEF Taken, Trying, QueueTyped, Queue!Channels
<1>7. /\ IsFiniteSet(Taken') /\ Cardinality(Taken') = Cardinality(Taken) + 1
      /\ IsFiniteSet(Queue!Contents') /\ Cardinality(Queue!Contents') = Cardinality(Queue!Contents) - 1
  BY <1>4, <1>6, FS_AddElement, FS_RemoveElement DEF Exact
<1>8. Exact'
  BY <1>1, <1>6, <1>7, FS_CardinalityType DEF Exact
<1> QED BY <1>3, <1>4, <1>5, <1>8

(* The steps of a worker outside the channels.                             *)
LEMMA WorkerCounts ==
  ASSUME QueueInv, NEW w \in Workers,
         Queue!FindNothing(w) \/ Queue!StopWorker(w) \/ Queue!Begin(w) \/ Queue!Respond(w)
  PROVE  QueueInv'
<1> USE DEF QueueInv
<1> DEFINE r == worker[w].request
<1>1. UNCHANGED <<entry, priority, lane, shutdown>>
  BY DEF Queue!FindNothing, Queue!StopWorker, Queue!Begin, Queue!Respond
<1>2. UNCHANGED Queue!Contents /\ UNCHANGED Trying
  BY <1>1 DEF Queue!Contents, Trying
<1>3. InLine'
  BY <1>1 DEF InLine
<1>4. PICK at \in Queue!Channels \cup {"process", "stopped"} :
        worker' = [worker EXCEPT ![w] = [at |-> at, request |-> IF at = "process" THEN r ELSE None]]
  BY DEF Queue!FindNothing, Queue!StopWorker, Queue!Begin, Queue!Respond, Queue!Moves, Queue!After,
    Queue!Channels
<1>5. at = "process" => worker[w].at = "taken"
  BY <1>4 DEF Queue!FindNothing, Queue!StopWorker, Queue!Begin, Queue!Respond, Queue!Moves, Queue!After,
    Queue!Channels, QueueTyped
<1>6. \/ UNCHANGED response
      \/ /\ r # None /\ at # "process"
         /\ \E code \in {202, 504} : response' = [response EXCEPT ![r] = code]
  BY <1>4 DEF Queue!FindNothing, Queue!StopWorker, Queue!Begin, Queue!Respond, Queue!Moves,
    QueueTyped, Queue!Channels
<1>7. \/ worker[w].at # "taken" /\ UNCHANGED queued
      \/ worker[w].at = "taken" /\ queued' = queued - 1
  BY DEF Queue!FindNothing, Queue!StopWorker, Queue!Begin, Queue!Respond, Queue!Channels
<1>8. QueueTyped'
  <2>1. worker' \in [Workers -> [at : Queue!Channels \cup {"taken", "process", "stopped"},
                                 request : Callers \cup {None}]]
    BY <1>4 DEF QueueTyped
  <2>2. \A v \in Workers : worker'[v].request = None <=> worker'[v].at \notin {"taken", "process"}
    BY <1>4, <1>5 DEF QueueTyped, Queue!Channels
  <2>3. response' \in [Callers -> {0, 202, 503, 504}]
    BY <1>6 DEF QueueTyped
  <2>4. queued' \in Int
    BY <1>7 DEF QueueTyped
  <2> QED BY <1>1, <2>1, <2>2, <2>3, <2>4 DEF QueueTyped
<1>9. Placed'
  <2>1. /\ worker'[w].request = IF at = "process" THEN r ELSE None
        /\ \A v \in Workers \ {w} : worker'[v] = worker[v]
    BY <1>4 DEF QueueTyped
  <2>2. \A q \in Callers : response'[q] # response[q] => q = r /\ r # None /\ at # "process"
    BY <1>6 DEF QueueTyped
  <2>3. \A q \in Callers : entry'[q] \in Unqueued => response'[q] = 0 /\ q \notin Queue!Contents'
    BY <1>1, <1>2, <2>2 DEF Placed
  <2>4. \A q \in Queue!Contents' : response'[q] = 0
    BY <1>2, <2>2, ContentsQueued DEF Placed
  <2>5. \A v \in Workers : worker'[v].request # None =>
          /\ worker'[v].request = worker[v].request
          /\ response'[worker[v].request] = response[worker[v].request]
    BY <1>6, <2>1, <2>2 DEF Placed, QueueTyped
  <2>6. \A v \in Workers : worker'[v].request # None =>
          /\ entry'[worker'[v].request] \notin Unqueued
          /\ response'[worker'[v].request] = 0 /\ worker'[v].request \notin Queue!Contents'
    BY <1>1, <1>2, <2>5 DEF Placed
  <2>7. \A u, v \in Workers : u # v /\ worker'[u].request # None => worker'[u].request # worker'[v].request
    BY <2>1, <2>5 DEF Placed
  <2> QED BY <2>3, <2>4, <2>6, <2>7 DEF Placed
<1>10. Taken' = Taken \ {w}
  BY <1>4 DEF Taken, QueueTyped, Queue!Channels
<1>11. /\ IsFiniteSet(Taken')
       /\ Cardinality(Taken') = IF w \in Taken THEN Cardinality(Taken) - 1 ELSE Cardinality(Taken)
  BY <1>10, FS_RemoveElement DEF Exact
<1>12. Exact'
  <2>1. w \in Taken <=> worker[w].at = "taken"
    BY DEF Taken
  <2> QED BY <1>1, <1>2, <1>7, <1>11, <2>1, FS_CardinalityType DEF Exact, QueueTyped
<1> QED BY <1>3, <1>8, <1>9, <1>12

LEMMA DrainCounts ==
  ASSUME QueueInv, Queue!Drain
  PROVE  QueueInv'
<1> USE DEF QueueInv
<1>1. /\ shutdown' = "drained" /\ UNCHANGED <<entry, priority, queued, worker>>
      /\ lane' = [c \in Queue!Channels |-> <<>>]
      /\ response' = [r \in Callers |-> IF r \in Queue!Contents THEN 503 ELSE response[r]]
      /\ \A w \in Workers : worker[w].at = "stopped"
  BY DEF Queue!Drain
<1>2. QueueTyped'
  BY <1>1 DEF QueueTyped
<1>3. Queue!Contents' = {}
  BY <1>1, <1>2, InContentsNext
<1>4. InLine'
  BY <1>1 DEF InLine
<1>5. \A w \in Workers : worker'[w].request = None
  BY <1>1 DEF QueueTyped
<1>6. Placed'
  BY <1>1, <1>3, <1>5 DEF Placed
<1>7. UNCHANGED Trying /\ UNCHANGED Taken
  BY <1>1 DEF Trying, Taken
<1>8. Exact'
  BY <1>1, <1>3, <1>7, FS_EmptySet DEF Exact
<1> QED BY <1>2, <1>4, <1>6, <1>8

LEMMA QueueSteps ==
  ASSUME Queue!RequestQueueAssumption, QueueInv, [Queue!Next]_(Queue!vars)
  PROVE  QueueInv'
<1>1. ASSUME UNCHANGED <<entry, priority, lane, queued, response, worker>>,
             shutdown = "drained" => shutdown' = "drained"
      PROVE QueueInv'
  <2>1. UNCHANGED Queue!Contents /\ UNCHANGED Trying /\ UNCHANGED Taken
    BY <1>1 DEF Queue!Contents, Trying, Taken
  <2>2. QueueTyped' /\ InLine'
    BY <1>1 DEF QueueInv, QueueTyped, InLine
  <2>3. Placed'
    BY <1>1, <2>1 DEF QueueInv, Placed
  <2> QED BY <1>1, <2>1, <2>2, <2>3 DEF QueueInv, Exact
<1>2. ASSUME Queue!Cancel PROVE QueueInv'
  BY <1>1, <1>2 DEF Queue!Cancel
<1>3. ASSUME UNCHANGED Queue!vars PROVE QueueInv'
  BY <1>1, <1>3 DEF Queue!vars
<1> QED
  BY <1>2, <1>3, HandlerQueues, EnqueueCounts, TakeCounts, WorkerCounts, DrainCounts DEF Queue!Next

(* For any number of requests, workers and any capacities: until the queue *)
(* is drained its counter is exact, and no request is in two places or     *)
(* answered while it is in one (queue.go:86, :96, :207).                   *)
THEOREM CounterExact ==
  ASSUME Queue!RequestQueueAssumption
  PROVE  Queue!Spec => [](Queue!QueueCounted)
<1>1. Queue!Init => QueueInv
  BY QueueStart
<1>2. QueueInv /\ [Queue!Next]_(Queue!vars) => QueueInv'
  BY QueueSteps
<1>3. QueueInv => Queue!QueueCounted
  <2> SUFFICES ASSUME QueueInv PROVE Queue!QueueCounted
    OBVIOUS
  <2>1. shutdown # "drained" =>
          queued = Cardinality(Trying) + Cardinality(Queue!Contents) + Cardinality(Taken)
    BY DEF QueueInv, Exact
  <2>2. \A r \in {worker[w].request : w \in Workers} \ {None} :
          response[r] = 0 /\ r \notin Queue!Contents
    BY DEF QueueInv, Placed
  <2>3. \A S : Queue!Cardinality(S) = Cardinality(S)
    BY DEF Queue!Cardinality, Cardinality
  <2> QED BY <2>1, <2>2, <2>3 DEF QueueInv, Placed, Trying, Taken, Queue!QueueCounted
<1> QED
  BY <1>1, <1>2, <1>3, PTL DEF Queue!Spec

(* No channel is over its capacity; the counter is not above the number of *)
(* requests that have been counted, and once the queue is drained, when    *)
(* every worker has stopped, not below that of those that still try.       *)
Counted == {r \in Callers : entry[r] \notin {"new", "add"}}

QueueBounded ==
  /\ \A c \in Queue!Channels : Len(lane[c]) <= Capacity[c]
  /\ expired \subseteq over /\ over \subseteq Callers
  /\ shutdown \in {"no", "cancelled", "drained"}
  /\ queued <= Cardinality(Counted)
  /\ shutdown = "drained" =>
       (\A w \in Workers : worker[w].at = "stopped") /\ queued >= Cardinality(Trying)

LEMMA QueueSets ==
  ASSUME Queue!RequestQueueAssumption
  PROVE  \A S \in SUBSET Callers :
           /\ IsFiniteSet(S) /\ Cardinality(S) \in Nat /\ Cardinality(S) <= Cardinality(Callers)
           /\ \A r \in S : Cardinality(S \ {r}) = Cardinality(S) - 1
           /\ \A r \in Callers \ S : Cardinality(S \cup {r}) = Cardinality(S) + 1
<1>1. IsFiniteSet(Callers)
  BY DEF Queue!RequestQueueAssumption, Queue!IsFiniteSet, IsFiniteSet
<1> QED BY <1>1, FS_Subset, FS_CardinalityType, FS_AddElement, FS_RemoveElement

LEMMA QueueBoundedNext ==
  ASSUME Queue!RequestQueueAssumption, QueueInv, QueueInv', QueueBounded, [Queue!Next]_(Queue!vars)
  PROVE  QueueBounded'
<1> USE DEF QueueBounded
<1>0. /\ QueueTyped /\ QueueTyped' /\ queued \in Int
      /\ Trying \in SUBSET Callers /\ Counted \in SUBSET Callers
      /\ \A c \in Queue!Channels : Capacity[c] \in Nat
      /\ Cardinality(Trying) \in Nat /\ Cardinality(Counted) \in Nat
  <2>1. Trying \in SUBSET Callers /\ Counted \in SUBSET Callers
    BY DEF Trying, Counted
  <2> QED BY <2>1, QueueSets DEF QueueInv, QueueTyped, Queue!RequestQueueAssumption
<1>1. ASSUME NEW r \in Callers,
             Queue!CheckSize(r) \/ Queue!FallBack(r) \/ Queue!Return(r) \/ Queue!Expire(r) \/ Queue!Answer(r)
      PROVE  QueueBounded'
  <2>1. /\ UNCHANGED <<lane, queued, worker, shutdown>>
        /\ over \subseteq over' /\ over' \subseteq over \cup {r}
        /\ UNCHANGED expired \/ (expired' = expired \cup {r} /\ r \in over')
    BY <1>1 DEF Queue!CheckSize, Queue!FallBack, Queue!Return, Queue!Expire, Queue!Answer
  <2>2. \E s \in {"add", "fallback", "wait", "done", entry[r]} :
          /\ entry' = [entry EXCEPT ![r] = s]
          /\ s \in {"try", "fallback"} <=> entry[r] \in {"try", "fallback"}
          /\ s = "add" => entry[r] = "new"
    BY <1>0, <1>1 DEF Queue!CheckSize, Queue!FallBack, Queue!Return, Queue!Expire, Queue!Answer, Queue!Leave,
      QueueTyped
  <2>3. Trying' = Trying
    BY <1>0, <2>2 DEF Trying, QueueTyped
  <2>4. Counted' \in {Counted, Counted \cup {r}}
    BY <1>0, <2>2 DEF Counted, QueueTyped
  <2>5. Cardinality(Counted') >= Cardinality(Counted)
    <3>1. CASE r \in Counted
      <4>1. Counted' = Counted
        BY <2>4, <3>1
      <4> QED BY <1>0, <4>1
    <3>2. CASE r \notin Counted
      BY <1>0, <2>4, <3>2, QueueSets
    <3> QED BY <3>1, <3>2
  <2>6. Cardinality(Counted') \in Nat
    BY <1>0, <2>4, QueueSets
  <2> QED BY <1>0, <2>1, <2>3, <2>5, <2>6
<1>2. ASSUME NEW r \in Callers, Queue!CountRequest(r) PROVE QueueBounded'
  <2>1. /\ entry[r] = "add" /\ entry' = [entry EXCEPT ![r] = "try"] /\ queued' = queued + 1
        /\ UNCHANGED <<lane, expired, over, worker, shutdown>>
    BY <1>2 DEF Queue!CountRequest
  <2>2. /\ Trying' = Trying \cup {r} /\ r \notin Trying
        /\ Counted' = Counted \cup {r} /\ r \notin Counted
    BY <1>0, <2>1 DEF Trying, Counted, QueueTyped
  <2>3. Cardinality(Trying') = Cardinality(Trying) + 1 /\ Cardinality(Counted') = Cardinality(Counted) + 1
    BY <1>0, <2>2, QueueSets
  <2> QED BY <1>0, <2>1, <2>3
<1>3. ASSUME NEW r \in Callers, Queue!Refuse(r) PROVE QueueBounded'
  <2>1. /\ entry[r] \in {"try", "fallback"} /\ entry' = [entry EXCEPT ![r] = "done"] /\ queued' = queued - 1
        /\ over' = over \cup {r} /\ UNCHANGED <<lane, expired, worker, shutdown>>
    BY <1>3 DEF Queue!Refuse, Queue!Leave, Queue!Uncounted
  <2>2. Trying' = Trying \ {r} /\ r \in Trying /\ Counted' = Counted
    BY <1>0, <2>1 DEF Trying, Counted, QueueTyped
  <2>3. Cardinality(Trying') = Cardinality(Trying) - 1
    BY <1>0, <2>2, QueueSets
  <2> QED BY <1>0, <2>1, <2>2, <2>3
<1>4. ASSUME NEW r \in Callers, Queue!Enqueue(r) PROVE QueueBounded'
  <2>1. PICK c \in Queue!Channels : Len(lane[c]) < Capacity[c] /\ lane' = [lane EXCEPT ![c] = Append(@, r)]
    BY <1>0, <1>4 DEF Queue!Enqueue, Queue!HasRoom, Queue!Fallback, Queue!Channels, QueueTyped
  <2>2. /\ entry[r] \in {"try", "fallback"} /\ entry' = [entry EXCEPT ![r] = "stay"]
        /\ UNCHANGED <<queued, expired, over, worker, shutdown>>
    BY <1>4 DEF Queue!Enqueue
  <2>3. \A d \in Queue!Channels : Len(lane'[d]) <= Capacity[d]
    <3>1. Len(lane'[c]) = Len(lane[c]) + 1 /\ Len(lane[c]) \in Nat
      BY <1>0, <2>1 DEF QueueTyped
    <3>2. \A d \in Queue!Channels \ {c} : lane'[d] = lane[d]
      BY <1>0, <2>1 DEF QueueTyped
    <3> QED BY <1>0, <2>1, <3>1, <3>2
  <2>4. Trying' = Trying \ {r} /\ r \in Trying /\ Counted' = Counted
    BY <1>0, <2>2 DEF Trying, Counted, QueueTyped
  <2>5. Cardinality(Trying') = Cardinality(Trying) - 1
    BY <1>0, <2>4, QueueSets
  <2> QED BY <1>0, <2>2, <2>3, <2>4, <2>5
<1>5. ASSUME UNCHANGED <<entry, expired, over, shutdown>>,
             \A c \in Queue!Channels : Len(lane'[c]) <= Capacity[c],
             queued' \in Int, queued' <= queued,
             shutdown # "drained" \/ UNCHANGED <<queued, worker>>
      PROVE  QueueBounded'
  <2>1. UNCHANGED Trying /\ UNCHANGED Counted
    BY <1>5 DEF Trying, Counted
  <2> QED BY <1>0, <1>5, <2>1
<1>6. ASSUME NEW w \in Workers, Queue!Take(w) PROVE QueueBounded'
  <2>1. /\ worker[w].at \in Queue!Channels /\ lane[worker[w].at] # <<>>
        /\ lane' = [lane EXCEPT ![worker[w].at] = Tail(@)]
        /\ UNCHANGED <<entry, queued, expired, over, shutdown>>
    BY <1>6 DEF Queue!Take
  <2>2. shutdown # "drained"
    BY <2>1 DEF Queue!Channels
  <2>3. \A d \in Queue!Channels : Len(lane'[d]) <= Capacity[d]
    <3> DEFINE c == worker[w].at
    <3>1. Len(lane'[c]) = Len(lane[c]) - 1 /\ Len(lane[c]) \in Nat
      BY <1>0, <2>1 DEF QueueTyped
    <3>2. \A d \in Queue!Channels \ {c} : lane'[d] = lane[d]
      BY <1>0, <2>1 DEF QueueTyped
    <3> QED BY <1>0, <2>1, <3>1, <3>2
  <2> QED BY <1>0, <1>5, <2>1, <2>2, <2>3
<1>7. ASSUME NEW w \in Workers,
             Queue!FindNothing(w) \/ Queue!StopWorker(w) \/ Queue!Begin(w) \/ Queue!Respond(w)
      PROVE  QueueBounded'
  <2>1. UNCHANGED <<entry, lane, expired, over, shutdown>> /\ worker[w].at # "stopped"
    BY <1>7 DEF Queue!FindNothing, Queue!StopWorker, Queue!Begin, Queue!Respond, Queue!Channels
  <2>2. shutdown # "drained"
    BY <2>1
  <2>3. queued' \in {queued, queued - 1}
    BY <1>7 DEF Queue!FindNothing, Queue!StopWorker, Queue!Begin, Queue!Respond
  <2> QED BY <1>0, <1>5, <2>1, <2>2, <2>3
<1>8. ASSUME Queue!Cancel \/ UNCHANGED Queue!vars PROVE QueueBounded'
  <2>1. /\ UNCHANGED <<entry, lane, queued, expired, over, worker>>
        /\ shutdown' = shutdown \/ shutdown' = "cancelled"
    BY <1>8 DEF Queue!Cancel, Queue!vars
  <2>2. UNCHANGED Trying /\ UNCHANGED Counted
    BY <2>1 DEF Trying, Counted
  <2> QED BY <2>1, <2>2
<1>9. ASSUME Queue!Drain PROVE QueueBounded'
  <2>1. /\ UNCHANGED <<entry, queued, expired, over, worker>>
        /\ shutdown = "cancelled" /\ shutdown' = "drained"
        /\ lane' = [c \in Queue!Channels |-> <<>>]
        /\ \A w \in Workers : worker[w].at = "stopped"
    BY <1>9 DEF Queue!Drain
  <2>2. UNCHANGED Trying /\ UNCHANGED Counted
    BY <2>1 DEF Trying, Counted
  <2>3. queued >= Cardinality(Trying)
    <3>1. /\ queued = Cardinality(Trying) + Cardinality(Queue!Contents) + Cardinality(Taken)
          /\ Cardinality(Queue!Contents) \in Nat /\ Cardinality(Taken) \in Nat
      BY <2>1, FS_CardinalityType DEF QueueInv, Exact
    <3> QED BY <1>0, <3>1
  <2>4. \A c \in Queue!Channels : Len(lane'[c]) <= Capacity[c]
    BY <1>0, <2>1
  <2> QED BY <2>1, <2>2, <2>3, <2>4
<1> QED
  BY <1>1, <1>2, <1>3, <1>4, <1>6, <1>7, <1>8, <1>9 DEF Queue!Next

(* Type correctness of the queue: no channel is over its capacity, and the *)
(* counter is never negative nor above the number of requests, also after  *)
(* the queue is drained, when nothing counts the drained ones down         *)
(* (queue.go:86, :96, :264).                                               *)
THEOREM QueueTypeCorrect ==
  ASSUME Queue!RequestQueueAssumption
  PROVE  Queue!Spec => [](Queue!TypeOK)
<1>1. Queue!Init => QueueInv /\ QueueBounded
  <2> SUFFICES ASSUME Queue!Init PROVE QueueBounded
    BY QueueStart
  <2>1. Counted = {} /\ \A c \in Queue!Channels : Len(lane[c]) = 0
    BY DEF Queue!Init, Counted
  <2>2. Cardinality(Counted) = 0
    BY <2>1, FS_EmptySet
  <2> QED BY <2>1, <2>2 DEF Queue!Init, QueueBounded, Queue!RequestQueueAssumption
<1>2. QueueInv /\ QueueBounded /\ [Queue!Next]_(Queue!vars) => (QueueInv /\ QueueBounded)'
  BY QueueSteps, QueueBoundedNext
<1>3. QueueInv /\ QueueBounded => Queue!TypeOK
  <2> SUFFICES ASSUME QueueInv, QueueBounded PROVE Queue!TypeOK
    OBVIOUS
  <2>1. Queue!Cardinality(Callers) = Cardinality(Callers)
    BY DEF Queue!Cardinality, Cardinality
  <2>2. Counted \in SUBSET Callers /\ Trying \in SUBSET Callers
    BY DEF Counted, Trying
  <2>3. /\ Cardinality(Counted) \in Nat /\ Cardinality(Counted) <= Cardinality(Callers)
        /\ Cardinality(Trying) \in Nat /\ Cardinality(Callers) \in Nat
    BY <2>2, QueueSets
  <2>4. queued \in Int /\ queued >= 0
    <3>1. CASE shutdown = "drained"
      BY <2>3, <3>1 DEF QueueBounded, QueueInv, QueueTyped
    <3>2. CASE shutdown # "drained"
      BY <3>2, FS_CardinalityType DEF QueueInv, QueueTyped, Exact
    <3> QED BY <3>1, <3>2
  <2>5. queued \in 0..Queue!Cardinality(Callers)
    BY <2>1, <2>3, <2>4 DEF QueueBounded
  <2> QED BY <2>5 DEF QueueInv, QueueTyped, QueueBounded, Queue!TypeOK
<1> QED
  BY <1>1, <1>2, <1>3, PTL DEF Queue!Spec

-----------------------------------------------------------------------------
(* Adaptive limits.                                                        *)

LEMMA LimitMoves ==
  ASSUME Limits!AdaptiveLimitsAssumption, NEW old \in MinLimit..MaxLimit
  PROVE  Limits!Shrunk(old) \in MinLimit..MaxLimit /\ Limits!Grown(old) \in MinLimit..MaxLimit
<1>1. /\ MinLimit \in Nat /\ MaxLimit \in Nat /\ MinLimit <= MaxLimit
      /\ Increase \in Nat /\ Increase > 10 /\ Decrease \in 1..9 /\ old \in Nat
  BY DEF Limits!AdaptiveLimitsAssumption
<1>2. old * Decrease \in Nat /\ old * Decrease <= old * 9
  BY <1>1
<1>3. old * Increase \in Nat /\ old * 10 <= old * Increase
  BY <1>1
<1> DEFINE down == old * Decrease
           up == old * Increase
<1> HIDE DEF down, up
<1>4. down \in Nat /\ down <= old * 9 /\ up \in Nat /\ old * 10 <= up
  BY <1>2, <1>3 DEF down, up
<1>5. down \div 10 \in Nat /\ down \div 10 <= old /\ up \div 10 \in Nat /\ old <= up \div 10
  BY <1>1, <1>4
<1> QED BY <1>1, <1>5 DEF Limits!Shrunk, Limits!Grown, Limits!Larger, Limits!Smaller, down, up

(* Type correctness of the adaptive limits: whatever the window holds, and *)
(* whatever the two rates, both limits keep to their bounds                *)
(* (adaptive.go:79).                                                       *)
THEOREM LimitsTypeCorrect ==
  ASSUME Limits!AdaptiveLimitsAssumption
  PROVE  Limits!Spec => [](Limits!TypeOK)
<1>0. /\ WindowSize \in Nat \ {0} /\ MaxSuccesses \in Nat \ {0}
      /\ MinLimit \in Nat /\ MaxLimit \in Nat /\ MinLimit <= MaxLimit
  BY DEF Limits!AdaptiveLimitsAssumption
<1>1. Limits!Init => Limits!TypeOK
  BY <1>0 DEF Limits!Init, Limits!TypeOK, Limits!Slots
<1>2. ASSUME Limits!TypeOK, [Limits!Next]_(Limits!vars) PROVE Limits!TypeOK'
  <2> USE <1>2 DEF Limits!TypeOK
  <2>1. ASSUME Limits!RecordLatency PROVE Limits!TypeOK'
    BY <2>1 DEF Limits!RecordLatency
  <2>2. ASSUME NEW success \in BOOLEAN, Limits!RecordSuccess(success) PROVE Limits!TypeOK'
    <3>1. CASE success
      <4>1. Limits!Smaller(MaxSuccesses, counted[index] + 1) \in 0..MaxSuccesses
        BY <1>0 DEF Limits!Smaller
      <4> QED BY <2>2, <3>1, <4>1 DEF Limits!RecordSuccess
    <3>2. CASE ~success
      BY <2>2, <3>2 DEF Limits!RecordSuccess
    <3> QED BY <3>1, <3>2
  <2>3. ASSUME Limits!adjust PROVE Limits!TypeOK'
    <3>1. Limits!Next1 \in Limits!Slots
      BY <1>0 DEF Limits!Next1, Limits!Slots
    <3>2. /\ index' \in Limits!Slots /\ latencies' \in [Limits!Slots -> {0, 1, Limits!Slow}]
          /\ counted' \in [Limits!Slots -> 0..MaxSuccesses] /\ missed' \in [Limits!Slots -> BOOLEAN]
      BY <1>0, <2>3, <3>1 DEF Limits!adjust
    <3>3. /\ rateLimit' \in {Limits!Shrunk(rateLimit), Limits!Grown(rateLimit), rateLimit}
          /\ queueSize' \in {Limits!Shrunk(queueSize), Limits!Grown(queueSize), queueSize}
      BY <2>3 DEF Limits!adjust
    <3>4. rateLimit' \in MinLimit..MaxLimit /\ queueSize' \in MinLimit..MaxLimit
      BY <3>3, LimitMoves
    <3> QED BY <3>2, <3>4
  <2>4. ASSUME UNCHANGED Limits!vars PROVE Limits!TypeOK'
    BY <2>4 DEF Limits!vars
  <2> QED BY <2>1, <2>2, <2>3, <2>4 DEF Limits!Next
<1> QED BY <1>1, <1>2, PTL DEF Limits!Spec

-----------------------------------------------------------------------------
(* Gateway.                                                                *)

Bucket == INSTANCE RateLimiterProofs WITH Tenants <- Metered

(* The module of the limiter's theorems makes an instance of its own.      *)
LEMMA SameLimiter ==
  /\ Limiter!Init <=> Bucket!Init
  /\ Limiter!Next <=> Bucket!Next
  /\ [Limiter!Next]_(Limiter!vars) <=> [Bucket!Next]_(Bucket!vars)
  /\ Limiter!BucketsSound <=> Bucket!BucketsSound
  /\ Limiter!LimitsRestored <=> Bucket!LimitsRestored
  /\ Limiter!TypeOK <=> Bucket!TypeOK
  /\ Limiter!LimiterAssumption <=> Bucket!LimiterAssumption
BY DEF
  Limiter!Global, Bucket!Global, Limiter!Ticker, Bucket!Ticker, Limiter!Buckets,
  Bucket!Buckets, Limiter!Threads, Bucket!Threads, Limiter!TenantLimits, Bucket!TenantLimits,
  Limiter!LimiterAssumption, Bucket!LimiterAssumption, Limiter!bucketVars, Bucket!bucketVars,
  Limiter!historyVars, Bucket!historyVars, Limiter!vars, Bucket!vars, Limiter!Asking,
  Bucket!Asking, Limiter!Idle, Bucket!Idle, Limiter!At, Bucket!At, Limiter!Goto, Bucket!Goto,
  Limiter!InCustom, Bucket!InCustom, Limiter!Capped, Bucket!Capped, Limiter!Init, Bucket!Init,
  Limiter!TimePasses, Bucket!TimePasses, Limiter!GetTenantBucket, Bucket!GetTenantBucket,
  Limiter!Allow, Bucket!Allow, Limiter!AllowWithLimit, Bucket!AllowWithLimit, Limiter!SetLimit,
  Bucket!SetLimit, Limiter!Finish, Bucket!Finish, Limiter!AfterCustom, Bucket!AfterCustom,
  Limiter!RestoreLimit, Bucket!RestoreLimit, Limiter!Take, Bucket!Take, Limiter!HasToken,
  Bucket!HasToken, Limiter!TryConsume, Bucket!TryConsume, Limiter!TryAgain, Bucket!TryAgain,
  Limiter!LoseSwap, Bucket!LoseSwap, Limiter!ReturnToken, Bucket!ReturnToken, Limiter!Refilled,
  Bucket!Refilled, Limiter!Elapsed, Bucket!Elapsed, Limiter!LoadTimes, Bucket!LoadTimes,
  Limiter!TokensToAdd, Bucket!TokensToAdd, Limiter!SwapLastRefill, Bucket!SwapLastRefill,
  Limiter!AddTokens, Bucket!AddTokens, Limiter!Refill, Bucket!Refill, Limiter!Tick,
  Bucket!Tick, Limiter!NextBucket, Bucket!NextBucket, Limiter!Request, Bucket!Request,
  Limiter!Next, Bucket!Next, Limiter!Job, Bucket!Job, Limiter!TopLimit, Bucket!TopLimit,
  Limiter!InitialTokens, Bucket!InitialTokens, Limiter!Cost, Bucket!Cost,
  Limiter!RateRespected, Bucket!RateRespected, Limiter!NeverOverfull, Bucket!NeverOverfull,
  Limiter!BucketsSound, Bucket!BucketsSound, Limiter!LimitsRestored, Bucket!LimitsRestored,
  Limiter!TypeOK, Bucket!TypeOK,
  Limiter!Max, Bucket!Max, Limiter!IsFiniteSet, Bucket!IsFiniteSet

(* A behaviour stays with the component it starts with.                    *)
LEMMA SubjectStays ==
  ASSUME [GatewayNext]_gatewayVars
  PROVE  subject' = subject
BY DEF GatewayNext, gatewayVars

LEMMA LimiterRuns ==
  /\ GatewayInit /\ subject = "limiter" => Limiter!Init
  /\ [GatewayNext]_gatewayVars /\ subject = "limiter" => [Limiter!Next]_(Limiter!vars) /\ (subject = "limiter")'
<1>1. GatewayInit /\ subject = "limiter" => Limiter!Init
  BY DEF GatewayInit
<1>2. ASSUME [GatewayNext]_gatewayVars, subject = "limiter"
      PROVE [Limiter!Next]_(Limiter!vars) /\ (subject = "limiter")'
  <2>1. Limiter!Next \/ UNCHANGED <<backpressure, limiter>>
    BY <1>2 DEF GatewayNext, gatewayVars
  <2> QED BY <1>2, <2>1, SubjectStays DEF limiter, Limiter!vars, Limiter!bucketVars,
        Limiter!historyVars
<1> QED BY <1>1, <1>2

LEMMA HandlersRun ==
  /\ GatewayInit /\ subject = "handlers" => Handlers!Init
  /\ [GatewayNext]_gatewayVars /\ subject = "handlers" => [Handlers!Next]_(Handlers!vars) /\ (subject = "handlers")'
<1>1. GatewayInit /\ subject = "handlers" => Handlers!Init
  BY DEF GatewayInit
<1>2. ASSUME [GatewayNext]_gatewayVars, subject = "handlers"
      PROVE [Handlers!Next]_(Handlers!vars) /\ (subject = "handlers")'
  <2>1. Handlers!Next \/ UNCHANGED <<backpressure, handlers>>
    BY <1>2 DEF GatewayNext, gatewayVars
  <2> QED BY <1>2, <2>1, SubjectStays DEF handlers, Handlers!vars, Handlers!shedding,
        Handlers!tenancy, Handlers!objects
<1> QED BY <1>1, <1>2

LEMMA QueueRuns ==
  /\ GatewayInit /\ subject = "queue" => Queue!Init
  /\ [GatewayNext]_gatewayVars /\ subject = "queue" => [Queue!Next]_(Queue!vars) /\ (subject = "queue")'
<1>1. GatewayInit /\ subject = "queue" => Queue!Init
  BY DEF GatewayInit
<1>2. ASSUME [GatewayNext]_gatewayVars, subject = "queue"
      PROVE [Queue!Next]_(Queue!vars) /\ (subject = "queue")'
  <2>1. Queue!Next \/ UNCHANGED <<backpressure, queue>>
    BY <1>2 DEF GatewayNext, gatewayVars
  <2> QED BY <1>2, <2>1, SubjectStays DEF queue, Queue!vars
<1> QED BY <1>1, <1>2

LEMMA BreakerRuns ==
  ASSUME [GatewayNext]_gatewayVars
  PROVE  [Next]_vars
<1>1. Next \/ UNCHANGED breaker
  BY DEF GatewayNext, gatewayVars
<1> QED BY <1>1 DEF breaker, vars

LEMMA LimitsRun ==
  /\ GatewayInit /\ subject = "adaptive" => Limits!Init
  /\ [GatewayNext]_gatewayVars /\ subject = "adaptive" => [Limits!Next]_(Limits!vars) /\ (subject = "adaptive")'
<1>1. GatewayInit /\ subject = "adaptive" => Limits!Init
  BY DEF GatewayInit
<1>2. ASSUME [GatewayNext]_gatewayVars, subject = "adaptive"
      PROVE [Limits!Next]_(Limits!vars) /\ (subject = "adaptive")'
  <2>1. Limits!Next \/ UNCHANGED <<backpressure, adaptive>>
    BY <1>2 DEF GatewayNext, gatewayVars
  <2> QED BY <1>2, <2>1, SubjectStays DEF adaptive, Limits!vars
<1> QED BY <1>1, <1>2

LEMMA DiscoveryRuns ==
  /\ GatewayInit /\ subject = "discovery" => Discovery!Init
  /\ [GatewayNext]_gatewayVars /\ subject = "discovery" => [Discovery!Next]_(Discovery!vars) /\ (subject = "discovery")'
<1>1. GatewayInit /\ subject = "discovery" => Discovery!Init
  BY DEF GatewayInit
<1>2. ASSUME [GatewayNext]_gatewayVars, subject = "discovery"
      PROVE [Discovery!Next]_(Discovery!vars) /\ (subject = "discovery")'
  <2>1. Discovery!Next \/ UNCHANGED <<backpressure, discovery>>
    BY <1>2 DEF GatewayNext, gatewayVars
  <2> QED BY <1>2, <2>1, SubjectStays DEF discovery, Discovery!vars, Discovery!client,
        Discovery!watching, Discovery!routing
<1> QED BY <1>1, <1>2

(* The gateway as it is checked, for every value of its constants: no      *)
(* bucket pays out more than it has earned (hierarchical.go:155).          *)
THEOREM GatewayKeepsRates == GatewaySpec => []BucketsSound
<1>1. [GatewayNext]_gatewayVars /\ ~(subject = "limiter") => ~(subject = "limiter")'
  BY SubjectStays
<1>2. Limiter!Spec => [](Limiter!BucketsSound)
  <2>1. Bucket!Spec => [](Bucket!BucketsSound)
    BY GatewayAssumptions, SameLimiter, Bucket!BucketsAlwaysSound
  <2> QED BY <2>1, SameLimiter, PTL DEF Limiter!Spec, Bucket!Spec
<1> QED BY <1>1, <1>2, LimiterRuns, PTL DEF GatewaySpec, Limiter!Spec, BucketsSound

(* The limit a call has set for itself is never left on the bucket, in any *)
(* gateway (hierarchical.go:254).                                          *)
THEOREM GatewayRestoresLimits == GatewaySpec => []LimitsRestored
<1>1. [GatewayNext]_gatewayVars /\ ~(subject = "limiter") => ~(subject = "limiter")'
  BY SubjectStays
<1>2. Limiter!Spec => [](Limiter!LimitsRestored)
  <2>1. Bucket!Spec => [](Bucket!LimitsRestored)
    BY GatewayAssumptions, SameLimiter, Bucket!LimitsAlwaysRestored
  <2> QED BY <2>1, SameLimiter, PTL DEF Limiter!Spec, Bucket!Spec
<1> QED BY <1>1, <1>2, LimiterRuns, PTL DEF GatewaySpec, Limiter!Spec, LimitsRestored

(* A request publishes what it parsed itself, in any gateway (handler.go:  *)
(* 181, :208).                                                             *)
THEOREM GatewaySendsTheirOwn == GatewaySpec => []SendsItsOwn
<1>1. [GatewayNext]_gatewayVars /\ ~(subject = "handlers") => ~(subject = "handlers")'
  BY SubjectStays
<1> QED
  BY <1>1, RequestsSendTheirOwn, HandlersRun, PTL DEF GatewaySpec, Handlers!Spec, SendsItsOwn

(* The queue's counter is exact, in any gateway (queue.go:86).             *)
THEOREM GatewayCountsExactly == GatewaySpec => []QueueCounted
<1>1. [GatewayNext]_gatewayVars /\ ~(subject = "queue") => ~(subject = "queue")'
  BY SubjectStays
<1>2. Queue!Spec => [](Queue!QueueCounted)
  BY GatewayAssumptions, CounterExact
<1> QED BY <1>1, <1>2, QueueRuns, PTL DEF GatewaySpec, Queue!Spec, QueueCounted

(* The table of instances follows the registry, in any gateway             *)
(* (registry_client.go:119, discovery.go:253).                             *)
THEOREM GatewayFollows == GatewaySpec => []DiscoveryFollows
<1>1. [GatewayNext]_gatewayVars /\ ~(subject = "discovery") => ~(subject = "discovery")'
  BY SubjectStays
<1>2. Discovery!Spec => [](Discovery!DiscoveryFollows)
  BY GatewayAssumptions, DiscoveryFollowed
<1> QED BY <1>1, <1>2, DiscoveryRuns, PTL DEF GatewaySpec, Discovery!Spec, DiscoveryFollows

(* No state of the breaker is overdue and no caller that is not overtaken  *)
(* moves it where it must not go, in any gateway (RecordSuccess,          *)
(* RecordFailure).                                                         *)
THEOREM GatewayBreaks == GatewaySpec => []NothingOverdue /\ LegalTransitions
<1>1. GatewayInit => Init
  BY DEF GatewayInit
<1>2. [GatewayNext]_gatewayVars => [Next]_vars
  BY BreakerRuns
<1>3. Spec => []NothingOverdue
  BY NoDecisionLost
<1>4. Spec => LegalTransitions
  BY TransitionsLegal
<1>5. GatewaySpec => Spec
  BY <1>1, <1>2, PTL DEF GatewaySpec, Spec
<1> QED BY <1>3, <1>4, <1>5

(* The gateway as it is checked: whichever part runs, its types hold, for  *)
(* every value of the constants.                                           *)
THEOREM GatewayTyped == GatewaySpec => []AllTypes
<1> DEFINE Known == subject \in {"breaker", "limiter", "handlers", "queue", "adaptive", "discovery"}
<1>1. Spec => []TypeOK
  BY TypeCorrect
<1>2. Limiter!Spec => [](Limiter!TypeOK)
  <2>1. Bucket!Spec => [](Bucket!TypeOK)
    BY GatewayAssumptions, SameLimiter, Bucket!TypeCorrect
  <2> QED BY <2>1, SameLimiter, PTL DEF Limiter!Spec, Bucket!Spec
<1>3. Handlers!Spec => [](Handlers!TypeOK)
  BY HandlersTypeCorrect
<1>4. Queue!Spec => [](Queue!TypeOK)
  BY GatewayAssumptions, QueueTypeCorrect
<1>5. Limits!Spec => [](Limits!TypeOK)
  BY GatewayAssumptions, LimitsTypeCorrect
<1>6. Discovery!Spec => [](Discovery!TypeOK)
  <2>1. Discovery!Init => DiscoveryInv
    BY GatewayAssumptions, DiscoveryStarts
  <2>2. DiscoveryInv /\ [Discovery!Next]_(Discovery!vars) => DiscoveryInv'
    BY GatewayAssumptions, DiscoverySteps
  <2>3. DiscoveryInv => Discovery!TypeOK
    BY DEF DiscoveryInv
  <2> QED BY <2>1, <2>2, <2>3, PTL DEF Discovery!Spec
<1>7. GatewayInit => Init /\ Known
  BY DEF GatewayInit
<1>8. /\ Known /\ [GatewayNext]_gatewayVars => Known'
      /\ [GatewayNext]_gatewayVars /\ ~(subject = "limiter") => ~(subject = "limiter")'
      /\ [GatewayNext]_gatewayVars /\ ~(subject = "handlers") => ~(subject = "handlers")'
      /\ [GatewayNext]_gatewayVars /\ ~(subject = "queue") => ~(subject = "queue")'
      /\ [GatewayNext]_gatewayVars /\ ~(subject = "adaptive") => ~(subject = "adaptive")'
      /\ [GatewayNext]_gatewayVars /\ ~(subject = "discovery") => ~(subject = "discovery")'
  BY SubjectStays
<1>9. /\ Known /\ TypeOK
      /\ subject = "limiter" => Limiter!TypeOK
      /\ subject = "handlers" => Handlers!TypeOK
      /\ subject = "queue" => Queue!TypeOK
      /\ subject = "adaptive" => Limits!TypeOK
      /\ subject = "discovery" => Discovery!TypeOK
      => AllTypes
  BY DEF AllTypes
<1> HIDE DEF Known
<1> QED
  BY <1>1, <1>2, <1>3, <1>4, <1>5, <1>6, <1>7, <1>8, <1>9, BreakerRuns, LimiterRuns, HandlersRun,
     QueueRuns, LimitsRun, DiscoveryRuns, PTL
  DEF GatewaySpec, Spec, Limiter!Spec, Handlers!Spec, Queue!Spec, Limits!Spec, Discovery!Spec

=============================================================================

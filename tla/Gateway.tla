------------------------------- MODULE Gateway -------------------------------
(***************************************************************************)
(* The gateway's parts side by side: circuit breaker, rate limiter,        *)
(* request handlers, request queue, adaptive limits, service discovery.    *)
(* They share only the flag backpressure, which never changes.  So a       *)
(* behaviour is one of the component it starts with, its subject, while    *)
(* the others rest: their variables are empty, those of the breaker        *)
(* initial.                                                                *)
(***************************************************************************)
EXTENDS CircuitBreaker

CONSTANTS
  Requests,                                (* of the limiter, the handlers *)
  Metered, GlobalLimit, TenantLimit, Adaptive,             (* limiter: its *)
  Second, MaxClock,                                        (* tenants      *)
  Tenants, Contexts, Objects, ParallelFrom, Loads,         (* handlers     *)
  Workers, MaxSize, Capacity,              (* queue; its requests: Callers *)
  WindowSize, MinLimit, MaxLimit, Increase, Decrease,      (* adaptive     *)
  TargetLatency, MaxSuccesses,
  Instances, Watchers, Routed, ChannelSize, FailureLimit,  (* discovery    *)
  None

VARIABLES
  subject, backpressure,
  clock, created, tokens, limit, lastRefill, job, todo, granted, overlapped,
  load, step, shed, context, buffer, key, buckets, pool, batch, content, reading,
  published, status,
  entry, priority, lane, queued, expired, over, response, worker, shutdown,
  latencies, counted, index, rateLimit, queueSize, missed,
  registry, polling, known, closed, watchers, updates, shut, sender, cleaner,
  cancelled, panicked, attempts, routed

breaker == <<state, failures, successes, halfOpenRequests, cooled, mu, pc, seen, target>>
limiter == <<clock, created, tokens, limit, lastRefill, job, todo, granted, overlapped>>
handlers == <<load, step, shed, context, buffer, key, buckets, pool, batch, content, reading,
              published, status>>
queue == <<entry, priority, lane, queued, expired, over, response, worker, shutdown>>
adaptive == <<latencies, counted, index, rateLimit, queueSize, missed>>
discovery == <<registry, polling, known, closed, watchers, updates, shut, sender, cleaner,
               cancelled, panicked, attempts, routed>>

Limiter == INSTANCE RateLimiter WITH Tenants <- Metered
Handlers == INSTANCE GatewayRequests
Queue == INSTANCE RequestQueue WITH
  Requests <- Callers, step <- entry, channel <- lane
Limits == INSTANCE AdaptiveLimits WITH
  Target <- TargetLatency, successes <- counted
Discovery == INSTANCE ServiceDiscovery WITH
  Requests <- Routed, channel <- updates, failures <- attempts, request <- routed

ASSUME GatewayAssumptions ==
  /\ Limiter!LimiterAssumption /\ Handlers!GatewayAssumption
  /\ Queue!RequestQueueAssumption /\ Limits!AdaptiveLimitsAssumption
  /\ Discovery!ServiceDiscoveryAssumption

gatewayVars == <<subject, backpressure, breaker, limiter, handlers, queue, adaptive, discovery>>

Rest == {}

GatewayInit ==
  /\ subject \in {"breaker", "limiter", "handlers", "queue", "adaptive", "discovery"}
  /\ backpressure \in (IF subject \in {"limiter", "handlers"} THEN BOOLEAN ELSE {FALSE})
  /\ Init
  /\ IF subject = "limiter" THEN Limiter!Init
     ELSE /\ clock = Rest /\ created = Rest /\ tokens = Rest /\ limit = Rest
          /\ lastRefill = Rest /\ job = Rest /\ todo = Rest
          /\ granted = Rest /\ overlapped = Rest
  /\ IF subject = "handlers" THEN Handlers!Init
     ELSE /\ load = Rest /\ step = Rest /\ shed = Rest /\ context = Rest
          /\ buffer = Rest /\ key = Rest /\ buckets = Rest /\ pool = Rest
          /\ batch = Rest /\ content = Rest /\ reading = Rest
          /\ published = Rest /\ status = Rest
  /\ IF subject = "queue" THEN Queue!Init
     ELSE /\ entry = Rest /\ priority = Rest /\ lane = Rest /\ queued = Rest
          /\ expired = Rest /\ over = Rest /\ response = Rest
          /\ worker = Rest /\ shutdown = Rest
  /\ IF subject = "adaptive" THEN Limits!Init
     ELSE /\ latencies = Rest /\ counted = Rest /\ index = Rest
          /\ rateLimit = Rest /\ queueSize = Rest /\ missed = Rest
  /\ IF subject = "discovery" THEN Discovery!Init
     ELSE /\ registry = Rest /\ polling = Rest /\ known = Rest
          /\ closed = Rest /\ watchers = Rest /\ updates = Rest
          /\ shut = Rest /\ sender = Rest /\ cleaner = Rest
          /\ cancelled = Rest /\ panicked = Rest /\ attempts = Rest
          /\ routed = Rest

GatewayNext ==
  /\ UNCHANGED <<subject, backpressure>>
  /\ \/ /\ subject = "breaker" /\ Next
        /\ UNCHANGED <<limiter, handlers, queue, adaptive, discovery>>
     \/ /\ subject = "limiter" /\ Limiter!Next
        /\ UNCHANGED <<breaker, handlers, queue, adaptive, discovery>>
     \/ /\ subject = "handlers" /\ Handlers!Next
        /\ UNCHANGED <<breaker, limiter, queue, adaptive, discovery>>
     \/ /\ subject = "queue" /\ Queue!Next
        /\ UNCHANGED <<breaker, limiter, handlers, adaptive, discovery>>
     \/ /\ subject = "adaptive" /\ Limits!Next
        /\ UNCHANGED <<breaker, limiter, handlers, queue, discovery>>
     \/ /\ subject = "discovery" /\ Discovery!Next
        /\ UNCHANGED <<breaker, limiter, handlers, queue, adaptive>>

GatewaySpec == GatewayInit /\ [][GatewayNext]_gatewayVars

-----------------------------------------------------------------------------
(* Every component keeps its types.                                        *)
AllTypes ==
  CASE subject = "breaker"   -> TypeOK
    [] subject = "limiter"   -> Limiter!TypeOK
    [] subject = "handlers"  -> Handlers!TypeOK
    [] subject = "queue"     -> Queue!TypeOK
    [] subject = "adaptive"  -> Limits!TypeOK
    [] subject = "discovery" -> Discovery!TypeOK

(* No tenant is granted more than its bucket has earned, and no bucket     *)
(* holds more than its limit, however requests, returned tokens and        *)
(* refills interleave (hierarchical.go:155, :171, :194).                   *)
BucketsSound ==
  subject = "limiter" => Limiter!BucketsSound

(* A tenant's limit is its own again after the requests that changed it    *)
(* (hierarchical.go:254).                                                  *)
LimitsRestored ==
  subject = "limiter" => Limiter!LimitsRestored

(* A request sends the objects it parsed, its own fields and nobody else's *)
(* in them, and one that is accepted is in the log (handler.go:181, :208). *)
SendsItsOwn ==
  subject = "handlers" => Handlers!SendsItsOwn

(* The queue's counter is exact, and a request in one place (queue.go:86). *)
QueueCounted ==
  subject = "queue" => Queue!QueueCounted

(* The table of instances follows the registry's answer, and no watcher is *)
(* in the table with its channel closed (registry_client.go:119,           *)
(* discovery.go:253).                                                      *)
DiscoveryFollows ==
  subject = "discovery" => Discovery!DiscoveryFollows
=============================================================================

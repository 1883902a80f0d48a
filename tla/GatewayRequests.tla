--------------------------- MODULE GatewayRequests ---------------------------
(***************************************************************************)
(* The gateway's handlers of ingestion requests, from shedding to the      *)
(* answer: what they share is the pool of event objects, the goroutines of *)
(* the parallel validation, and the memory of the request contexts.        *)
(*                                                                         *)
(* Whether the circuit is open and a bucket has a token is free (see       *)
(* CircuitBreaker and RateLimiter).  The request queue is behind a test    *)
(* for a hundred queued requests and only it queues any, so that a request *)
(* is always handled directly.  A request that is no POST or lacks its     *)
(* headers touches nothing of this.                                        *)
(***************************************************************************)
EXTENDS Integers, FiniteSets

CONSTANTS
  Requests, Tenants,
  Contexts,       (* request contexts of the server, reused                *)
  Objects,        (* event objects that may exist at a time (bound)        *)
  ParallelFrom,   (* events from which a batch is validated in parallel    *)
  Loads,          (* load in percent the metrics updater may compute       *)
  None

GatewayAssumption ==
  /\ None \notin Contexts \cup Requests
  /\ ParallelFrom \in Nat \ {0, 1} /\ Loads \subseteq 0..100 /\ 0 \notin Loads

VARIABLES
  backpressure,  (* the flag                                               *)
  load,          (* average of cpu and memory in percent                   *)
  step,          (* request -> what its handler does next                  *)
  shed,          (* history: [priority, load] of the request shed last     *)
  context,       (* request -> its context                                 *)
  buffer,        (* context -> tenant in its header, as bytes              *)
  key,           (* tenant -> context whose bytes its bucket's key is      *)
  buckets,       (* history: tenant -> buckets made for it                 *)
  pool,          (* objects in the pool                                    *)
  batch,         (* request -> its objects                                 *)
  content,       (* object -> requests whose fields it holds               *)
  reading,       (* request -> objects its validation has yet to read      *)
  published,     (* requests whose events are in the log                   *)
  status         (* request -> its answer, 0 for none                      *)

shedding == <<backpressure, load, shed>>
tenancy == <<context, buffer, key, buckets>>
objects == <<pool, batch, content>>
vars == <<shedding, step, tenancy, objects, reading, published, status>>

Init ==
  /\ backpressure \in BOOLEAN /\ load = 0 /\ shed = None
  /\ step = [r \in Requests |-> "new"]
  /\ context = [r \in Requests |-> None]
  /\ buffer \in [Contexts -> Tenants]
  /\ key = [t \in Tenants |-> None] /\ buckets = [t \in Tenants |-> 0]
  /\ pool = {} /\ batch = [r \in Requests |-> {}]
  /\ content = [o \in Objects |-> {}]
  /\ reading = [r \in Requests |-> {}]
  /\ published = {} /\ status = [r \in Requests |-> 0]

Goto(r, s) == step' = [step EXCEPT ![r] = s]
Answer(r, code) == step' = [step EXCEPT ![r] = "done"] /\ status' = [status EXCEPT ![r] = code]

-----------------------------------------------------------------------------
(* Shedding.                                                               *)

Priorities == {"low", "normal", "high", "critical"}
Target == 80   \* of a hundred

(* UpdateMetrics: the estimate grows with all requests ever counted.       *)
UpdateMetrics ==
  /\ backpressure
  /\ \E l \in Loads : l >= load /\ load' = l
  /\ UNCHANGED <<backpressure, shed, step, tenancy, objects, reading, published, status>>

Weight(p) == CASE p = "high" -> 25 [] p = "normal" -> 50 [] p = "low" -> 150 [] OTHER -> 0

(* In percent.  The target is a fraction, the load is not.                 *)
Overload(p) ==
  LET over == ((100 * load - Target) * Weight(p)) \div (100 - Target)
  IN IF p = "critical" \/ 100 * load < Target \/ over < 0 THEN 0
     ELSE IF over > 100 THEN 100 ELSE over

(* A context is reused once its request is answered.                       *)
Arrive(r) ==
  /\ step[r] = "new"
  /\ \E c \in Contexts \ {context[q] : q \in {q \in Requests : step[q] \notin {"new", "done"}}},
        t \in Tenants :
       /\ context' = [context EXCEPT ![r] = c]
       /\ buffer' = [buffer EXCEPT ![c] = t]
  /\ Goto(r, IF backpressure THEN "admit" ELSE "allow")
  /\ UNCHANGED <<shedding, key, buckets, objects, reading, published, status>>

Admit(r) ==
  /\ step[r] = "admit"
  /\ \E p \in Priorities :
       \/ /\ Overload(p) > 0
          /\ Answer(r, 503)
          /\ shed' = [priority |-> p, load |-> load]
       \/ /\ Overload(p) < 100
          /\ Goto(r, "allow") /\ UNCHANGED <<status, shed>>
  /\ UNCHANGED <<backpressure, load, tenancy, objects, reading, published>>

(* The circuit is open.                                                    *)
Refuse(r) ==
  /\ step[r] = "allow" /\ backpressure
  /\ Answer(r, 503)
  /\ UNCHANGED <<shedding, tenancy, objects, reading, published>>

-----------------------------------------------------------------------------
(* The tenant's bucket.  Its key is made without a copy.                   *)

Found(t) == key[t] # None /\ buffer[key[t]] = t

Allow(r) ==
  LET c == context[r] t == buffer[c] IN
  /\ step[r] = "allow"
  /\ IF Found(t) THEN UNCHANGED <<key, buckets>>
     ELSE /\ key' = [key EXCEPT ![t] = c]
          /\ buckets' = [buckets EXCEPT ![t] = IF @ < 2 THEN @ + 1 ELSE @]
  /\ \/ Goto(r, "parse") /\ UNCHANGED status
     \/ Answer(r, 429)
  /\ UNCHANGED <<shedding, context, buffer, objects, reading, published>>

-----------------------------------------------------------------------------
(* Events.                                                                 *)

(* sync.Pool gives an object of the pool or a new one, and may lose those  *)
(* it has: an object that is nowhere is new.  Those goroutines still read  *)
(* are not collected.                                                      *)
InUse == UNION {batch[r] \cup reading[r] : r \in Requests}
Available == pool \cup (Objects \ InUse)

(* parseEvent: the fields are added to what the object's maps hold.        *)
(* Without an id the object goes back as it was.                           *)
ParseEvent(r) ==
  /\ step[r] = "parse"
  /\ \E o \in Available :
       /\ pool' = pool \ {o}
       /\ batch' = [batch EXCEPT ![r] = @ \cup {o}]
       /\ content' = [content EXCEPT ![o] = IF o \in pool THEN @ \cup {r} ELSE {r}]
  /\ UNCHANGED <<shedding, step, tenancy, reading, published, status>>

Parsed(r) ==
  /\ step[r] = "parse"
  /\ IF batch[r] = {} THEN Answer(r, 400) ELSE Goto(r, "validate") /\ UNCHANGED status
  /\ reading' = [reading EXCEPT ![r] =
                   IF Cardinality(batch[r]) >= ParallelFrom THEN batch[r] ELSE {}]
  /\ UNCHANGED <<shedding, tenancy, objects, published>>

(* Small batches are validated here, event after event.                    *)
ValidateBatch(r) ==
  /\ step[r] = "validate" /\ Cardinality(batch[r]) < ParallelFrom
  /\ \E next \in {"send", "reject"} : Goto(r, next)
  /\ UNCHANGED <<shedding, tenancy, objects, reading, published, status>>

(* A goroutine ends with its verdict.  The first bad one ends the wait for *)
(* all, not their reading; when the last good one is in, the batch is good.*)
ValidateChunk(r, o) ==
  /\ o \in reading[r]
  /\ reading' = [reading EXCEPT ![r] = @ \ {o}]
  /\ IF step[r] # "validate" THEN UNCHANGED step
     ELSE \/ Goto(r, "reject")
          \/ IF reading'[r] = {} THEN Goto(r, "send") ELSE UNCHANGED step
  /\ UNCHANGED <<shedding, tenancy, objects, published, status>>

KeptContent(o) == content[o]   \* mutant: resetEvent leaves the maps
Emptied(o) == {}

(* resetEvent and Put, for the whole batch.                                *)
Recycle(r) ==
  /\ pool' = pool \cup batch[r]
  /\ content' = [o \in Objects |-> IF o \in batch[r] THEN Emptied(o) ELSE content[o]]
  /\ batch' = [batch EXCEPT ![r] = {}]

Reject(r) ==
  /\ step[r] = "reject"
  /\ Recycle(r)
  /\ Answer(r, 400)
  /\ UNCHANGED <<shedding, tenancy, reading, published>>

(* SendBatch: a failed call may have arrived.                              *)
SendBatch(r) ==
  /\ step[r] = "send"
  /\ \/ published' = published \cup {r} /\ Goto(r, "sent")
     \/ /\ published' \in {published, published \cup {r}}
        /\ Goto(r, "failed")
  /\ UNCHANGED <<shedding, tenancy, objects, reading, status>>

AcceptedAnyway == {"sent", "failed"}   \* mutant: the error is not looked at
Accepted == {"sent"}

Finish(r) ==
  /\ step[r] \in {"sent", "failed"}
  /\ Recycle(r)
  /\ Answer(r, IF step[r] \in Accepted THEN 202 ELSE 503)
  /\ UNCHANGED <<shedding, tenancy, reading, published>>

Next ==
  \/ UpdateMetrics
  \/ \E r \in Requests :
       \/ Arrive(r) \/ Admit(r) \/ Refuse(r) \/ Allow(r)
       \/ ParseEvent(r) \/ Parsed(r) \/ ValidateBatch(r) \/ Reject(r)
       \/ SendBatch(r) \/ Finish(r)
       \/ \E o \in Objects : ValidateChunk(r, o)

Spec == Init /\ [][Next]_vars

-----------------------------------------------------------------------------
(* Properties.                                                             *)

Steps == {"new", "admit", "allow", "parse", "validate", "reject", "send", "sent", "failed", "done"}
TypeOK ==
  /\ backpressure \in BOOLEAN /\ load \in Loads \cup {0}
  /\ shed \in [priority : Priorities, load : Loads \cup {0}] \cup {None}
  /\ step \in [Requests -> Steps]
  /\ context \in [Requests -> Contexts \cup {None}]
  /\ buffer \in [Contexts -> Tenants]
  /\ key \in [Tenants -> Contexts \cup {None}] /\ buckets \in [Tenants -> 0..2]
  /\ pool \subseteq Objects /\ batch \in [Requests -> SUBSET Objects]
  /\ content \in [Objects -> SUBSET Requests] /\ reading \in [Requests -> SUBSET Objects]
  /\ published \subseteq Requests /\ status \in [Requests -> {0, 202, 400, 429, 503}]

(* A request's objects are nobody else's and hold no field of an earlier   *)
(* request, whichever way that one ended (handler.go:181, :214, :222).     *)
HoldsItsOwn(r) ==
  \A o \in batch[r] :
    /\ content[o] = {r} /\ o \notin pool
    /\ \A q \in Requests \ {r} : o \notin batch[q]

(* An accepted request is in the log (handler.go:208).                     *)
AcceptedPublished == \A r \in Requests : status[r] = 202 => r \in published

(* What a request sends is what it was sent, and it is in the log when the *)
(* request is accepted.                                                    *)
SendsItsOwn ==
  /\ \A r \in Requests : step[r] \in {"send", "sent", "failed"} => HoldsItsOwn(r)
  /\ AcceptedPublished

(* Refuted: a request answered 503 by the producer is not in the log.      *)
RefusedNotPublished == \A r \in Requests : status[r] = 503 => r \notin published

(* Refuted: the maps goroutines of the validation read are not written.    *)
(* The first bad chunk lets the handler empty and reuse the objects the    *)
(* other goroutines still read (simd.go:106, handler.go:182); Go ends a    *)
(* process that reads and writes a map at a time.                          *)
NoMapConflict == \A r \in Requests : reading[r] \subseteq batch[r]

(* Refuted: a tenant has one bucket.  The key of its bucket is memory of a *)
(* request context (handler.go:105, hierarchical.go:137); the next request *)
(* of another tenant overwrites it, and the tenant gets a new, full bucket.*)
OneBucket == \A t \in Tenants : buckets[t] <= 1

(* Refuted: below the target no request is shed.  The load is in percent,  *)
(* the target a fraction (shedding.go:145, :150).                          *)
ShedsAboveTarget == shed # None => shed.load >= Target
=============================================================================

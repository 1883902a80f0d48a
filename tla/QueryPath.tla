------------------------------ MODULE QueryPath ------------------------------
(***************************************************************************)
(* The query API: a request looks into the Redis cache, asks the hot tier  *)
(* on a miss, stores the answer for TTL and returns it.                    *)
(*                                                                         *)
(* Time is relative: everything that ages has its age, and time cannot     *)
(* pass a timeout of a call that is under way.  A query that validateQuery *)
(* refuses is answered at once and changes nothing.  The plan's shards,    *)
(* resolution, filters and table do not reach the hot tier, which is asked *)
(* for a range and a group, both part of the query here.                   *)
(***************************************************************************)
EXTENDS Integers, FiniteSets

CONSTANTS
  Requests, Queries,
  TTL,           (* of a cached answer, 60 s                               *)
  CallTimeout,   (* of a call to the hot tier, 10 s                        *)
  RedisTimeout,  (* of a command of Redis with its retries                 *)
  Grace          (* of the shutdown, 10 s                                  *)

QueryAssumption ==
  /\ Queries # {} /\ IsFiniteSet(Queries)
  /\ TTL \in Nat \ {0} /\ CallTimeout \in Nat \ {0} /\ RedisTimeout \in Nat
  /\ Grace \in Nat

VARIABLES
  phase,      (* "running", "draining", "exited"                           *)
  drained,    (* time since the shutdown began                             *)
  enabled,    (* the cache was reachable when the service started          *)
  connected,  (* the hot-tier node was, too                                *)
  cache,      (* key -> [of, age, seen, left]; left = 0: no entry          *)
  step,       (* request -> what its handler does next                     *)
  query,      (* request -> its query                                      *)
  waited,     (* request -> time in its call                               *)
  answer      (* request -> [of, age, seen], or what it has of one         *)

handlers == <<step, query, waited, answer>>
vars == <<phase, drained, enabled, connected, cache, handlers>>

(* An answer is about a query, from data of some age, and says that it     *)
(* covers everything up to its watermark, which has an age as well.        *)
MaxAge == TTL + CallTimeout + 2 * RedisTimeout + 1   \* bound: ages above count as one
Answers == [of : Queries, age : 0..MaxAge, seen : 0..MaxAge]
Fresh(q) == [of |-> q, age |-> 0, seen |-> 0]
Older(a) == IF a < MaxAge THEN a + 1 ELSE a

AnyQuery == CHOOSE q \in Queries : TRUE
NoEntry == [of |-> AnyQuery, age |-> 0, seen |-> 0, left |-> 0]

Init ==
  /\ phase = "running" /\ drained = 0
  /\ enabled \in BOOLEAN /\ connected \in BOOLEAN
  /\ cache = [k \in Queries |-> NoEntry]
  /\ step = [r \in Requests |-> "idle"]
  /\ query = [r \in Requests |-> AnyQuery]
  /\ waited = [r \in Requests |-> 0]
  /\ answer = [r \in Requests |-> Fresh(AnyQuery)]

-----------------------------------------------------------------------------
(* A handler.                                                              *)

Goto(r, s) == step' = [step EXCEPT ![r] = s] /\ waited' = [waited EXCEPT ![r] = 0]

Receive(r) ==
  /\ phase = "running" /\ step[r] = "idle"
  /\ \E q \in Queries :
       /\ query' = [query EXCEPT ![r] = q]
       /\ answer' = [answer EXCEPT ![r] = Fresh(q)]
  /\ Goto(r, "get")
  /\ UNCHANGED <<phase, drained, enabled, connected, cache>>

PlannedKey(q) == AnyQuery   \* mutant: the key of the plan, which is constant
GenerateKey(q) == q         \* a digest of the whole request

KeptWhenRead(k) == [cache EXCEPT ![k].left = TTL]   \* mutant: a hit prolongs the entry
AfterHit(k) == cache

(* A failing command is a miss.                                            *)
Get(r) ==
  LET k == GenerateKey(query[r]) IN
  /\ step[r] = "get"
  /\ \/ /\ enabled /\ cache[k].left > 0
        /\ answer' = [answer EXCEPT ![r] = [of |-> cache[k].of, age |-> cache[k].age,
                                            seen |-> cache[k].seen]]
        /\ cache' = AfterHit(k)
        /\ Goto(r, "respond")
     \/ Goto(r, "execute") /\ UNCHANGED <<answer, cache>>
  /\ UNCHANGED <<phase, drained, enabled, connected, query>>

(* The hot tier reads its slots, ...                                       *)
Execute(r) ==
  /\ step[r] = "execute"
  /\ IF connected THEN step' = [step EXCEPT ![r] = "read"] ELSE step' = [step EXCEPT ![r] = "fail"]
  /\ answer' = [answer EXCEPT ![r] = Fresh(query[r])]
  /\ UNCHANGED <<phase, drained, enabled, connected, cache, query, waited>>

(* ... then its clock, for the watermark.                                  *)
ReadWatermark(r) ==
  /\ step[r] = "read"
  /\ answer' = [answer EXCEPT ![r].seen = 0]
  /\ step' = [step EXCEPT ![r] = "return"]
  /\ UNCHANGED <<phase, drained, enabled, connected, cache, query, waited>>

Return(r) ==
  /\ step[r] = "return"
  /\ Goto(r, "set")
  /\ UNCHANGED <<phase, drained, enabled, connected, cache, query, answer>>

(* The call fails or its deadline passes.                                  *)
CallFails(r) ==
  /\ step[r] \in {"execute", "read", "return"}
  /\ Goto(r, "fail")
  /\ UNCHANGED <<phase, drained, enabled, connected, cache, query, answer>>

(* An error of Redis is logged.                                            *)
Set(r) ==
  LET k == GenerateKey(query[r]) IN
  /\ step[r] = "set"
  /\ \/ /\ enabled
        /\ cache' = [cache EXCEPT ![k] = [of |-> answer[r].of, age |-> answer[r].age,
                                          seen |-> answer[r].seen, left |-> TTL]]
     \/ UNCHANGED cache
  /\ Goto(r, "respond")
  /\ UNCHANGED <<phase, drained, enabled, connected, query, answer>>

Respond(r) ==
  /\ step[r] \in {"respond", "fail"}
  /\ Goto(r, "idle")
  /\ query' = [query EXCEPT ![r] = AnyQuery]
  /\ answer' = [answer EXCEPT ![r] = Fresh(AnyQuery)]
  /\ UNCHANGED <<phase, drained, enabled, connected, cache>>

-----------------------------------------------------------------------------
(* Time and shutdown.                                                      *)

Calling == {"execute", "read", "return"}
Limit(r) ==
  IF step[r] \in Calling THEN CallTimeout ELSE IF step[r] \in {"get", "set"} THEN RedisTimeout ELSE 0

Tick ==
  /\ phase # "exited"
  /\ \A r \in Requests : step[r] = "idle" \/ waited[r] < Limit(r)
  /\ waited' = [r \in Requests |-> IF step[r] = "idle" THEN 0 ELSE waited[r] + 1]
  /\ drained' = IF phase = "draining" /\ drained < Grace THEN drained + 1 ELSE drained
  /\ cache' = [k \in Queries |->
       IF cache[k].left <= 1 THEN NoEntry
       ELSE [cache[k] EXCEPT !.age = Older(@), !.seen = Older(@), !.left = @ - 1]]
  /\ answer' = [r \in Requests |->
       IF step[r] = "idle" THEN answer[r]
       ELSE [answer[r] EXCEPT !.age = Older(@), !.seen = Older(@)]]
  /\ UNCHANGED <<phase, enabled, connected, step, query>>

Shutdown ==
  /\ phase = "running"
  /\ phase' = "draining"
  /\ UNCHANGED <<drained, enabled, connected, cache, handlers>>

(* All requests are answered, or their time is over.                       *)
Exit ==
  /\ phase = "draining"
  /\ drained = Grace \/ \A r \in Requests : step[r] = "idle"
  /\ phase' = "exited"
  /\ UNCHANGED <<drained, enabled, connected, cache, handlers>>

Handle(r) ==
  \/ Get(r) \/ Execute(r) \/ ReadWatermark(r) \/ Return(r) \/ CallFails(r) \/ Set(r) \/ Respond(r)

Next ==
  \/ \E r \in Requests : Receive(r) \/ (phase # "exited" /\ Handle(r))
  \/ Tick \/ Shutdown \/ Exit

Spec == Init /\ [][Next]_vars

-----------------------------------------------------------------------------
(* Properties.                                                             *)

Entries == [of : Queries, age : 0..MaxAge, seen : 0..MaxAge, left : 0..TTL]
TypeOK ==
  /\ phase \in {"running", "draining", "exited"} /\ drained \in 0..Grace
  /\ enabled \in BOOLEAN /\ connected \in BOOLEAN
  /\ cache \in [Queries -> Entries]
  /\ step \in [Requests -> {"idle", "get", "set", "respond", "fail"} \cup Calling]
  /\ query \in [Requests -> Queries]
  /\ waited \in [Requests -> 0..(CallTimeout + RedisTimeout)]
  /\ answer \in [Requests -> Answers]

Answering == {r \in Requests : step[r] = "respond"}

(* However requests, late writes of the cache and expiry interleave, no    *)
(* answer is older than a slow call, a slow write of the cache and the     *)
(* time to live together (main.go:130, cache.go:97).                       *)
StalenessBounded ==
  \A r \in Answering : answer[r].age <= CallTimeout + RedisTimeout + TTL

(* A request is answered with an answer to its own query, also when it     *)
(* comes out of the cache (main.go:113).                                   *)
AnswersOwnQuery == \A r \in Answering : answer[r].of = query[r]

(* An answer is one to its own query and not too old.                      *)
AnswersRight == AnswersOwnQuery /\ StalenessBounded

(* Refuted: an answer has all its watermark says.  The hot tier reads its  *)
(* clock after its slots (aggregator.go:212).                              *)
WatermarkCovered == \A r \in Answering : answer[r].age <= answer[r].seen

(* Refuted: an entry is never replaced by one from older data.  A slow     *)
(* request writes after a quick one.                                       *)
CacheMovesOn ==
  [][\A k \in Queries : cache[k].left > 0 /\ cache'[k].left = TTL /\ cache'[k] # cache[k] =>
       cache'[k].age <= cache[k].age]_vars

(* Refuted: a shutdown answers what it has accepted.  A request may take   *)
(* CallTimeout and its commands of Redis, Grace is no longer than that.    *)
NothingCut == phase = "exited" => \A r \in Requests : step[r] = "idle"
=============================================================================

---------------------------- MODULE RateLimiter ----------------------------
(***************************************************************************)
(* The gateway's hierarchical rate limiter: a token bucket per tenant, one *)
(* for the whole gateway, and a goroutine that refills all of them every   *)
(* 10ms.  The plain handler asks Allow; with the flag backpressure a        *)
(* request asks AllowWithLimit, which changes the tenant's limit around an *)
(* Allow, and then runs the plain handler, which asks Allow again.         *)
(*                                                                         *)
(* A loop of Load and CompareAndSwap takes effect at its last swap and is  *)
(* one step; refill's own Load, CompareAndSwap of lastRefill and addition  *)
(* are three.  maxTokens and refillRate of a bucket are always equal:      *)
(* limit stands for both.  Time is counted in ticks, Second of them to the *)
(* second, so that a tick may be worth less than a token.                  *)
(***************************************************************************)
EXTENDS Integers, FiniteSets, FiniteSetsExt

CONSTANTS
  Tenants,
  Requests,     (* goroutines handling a request                           *)
  GlobalLimit,  (* tokens per second of the global bucket (1000000)        *)
  TenantLimit,  (* tokens per second of a tenant, by default (100000)      *)
  Adaptive,     (* limits the adaptive controller may pass                 *)
  Second,       (* ticks in a second (10^9)                                *)
  MaxClock      (* bound: ticks the model runs                             *)

Global == "global"
Ticker == "ticker"
Buckets == Tenants \cup {Global}
Threads == Requests \cup {Ticker}

TenantLimits == {TenantLimit} \cup Adaptive

LimiterAssumption ==
  /\ Global \notin Tenants /\ Ticker \notin Requests
  /\ IsFiniteSet(Requests)
  /\ GlobalLimit \in Nat /\ TenantLimit \in Nat /\ Adaptive \subseteq Nat
  /\ \E n \in TenantLimits : \A m \in TenantLimits : m <= n   \* the controller's bound
  /\ Second \in Nat \ {0} /\ MaxClock \in Nat

VARIABLES
  backpressure, (* the gateway's flag                                      *)
  clock,
  created,    (* buckets that exist                                        *)
  tokens, limit, lastRefill,      (* the fields of a bucket                *)
  job,        (* thread -> what it is doing                                *)
  todo,       (* buckets the ticker has still to refill in this round      *)
  granted,    (* history: bucket -> requests it let through to the producer*)
  overlapped  (* history: tenants two of whose AllowWithLimit overlapped   *)

bucketVars == <<tokens, limit, lastRefill>>
historyVars == <<granted, overlapped>>
vars == <<backpressure, clock, created, bucketVars, job, todo, historyVars>>

(* tenant, bucket: whose request it is and the bucket being asked; now,    *)
(* last, add: locals of refill; custom: an AllowWithLimit is in progress   *)
(* with old as the limit to restore and new as the one to set; ok: what    *)
(* Allow returned.                                                         *)
Asking(t, pc, custom, old, new) ==
  [pc |-> pc, tenant |-> t, bucket |-> t, now |-> 0, last |-> 0, add |-> 0,
   custom |-> custom, old |-> old, new |-> new, ok |-> FALSE]
Idle == Asking(Global, "idle", FALSE, 0, 0)

At(p, label) == job[p].pc = label
Goto(p, label) == job' = [job EXCEPT ![p].pc = label]
InCustom(t) == \E r \in Requests : job[r].custom /\ job[r].tenant = t
Capped(n, b) == IF n > limit[b] THEN limit[b] ELSE n

Init ==
  /\ backpressure \in BOOLEAN
  /\ clock = 0
  /\ created = {Global}
  /\ tokens = [b \in Buckets |-> IF b = Global THEN GlobalLimit ELSE 0]
  /\ limit = [b \in Buckets |-> IF b = Global THEN GlobalLimit ELSE TenantLimit]
  /\ lastRefill = [b \in Buckets |-> 0]
  /\ job = [p \in Threads |-> Idle]
  /\ todo = {}
  /\ granted = [b \in Buckets |-> 0]
  /\ overlapped = {}

TimePasses ==
  /\ clock < MaxClock
  /\ clock' = clock + 1
  /\ UNCHANGED <<backpressure, created, bucketVars, job, todo, historyVars>>

-----------------------------------------------------------------------------
(* getTenantBucket: a new bucket is full.                                  *)
GetTenantBucket(t) ==
  /\ created' = created \cup {t}
  /\ IF t \in created
       THEN UNCHANGED <<tokens, lastRefill>>
       ELSE /\ tokens' = [tokens EXCEPT ![t] = TenantLimit]
            /\ lastRefill' = [lastRefill EXCEPT ![t] = clock]

(* A request of tenant t: Allow, or AllowWithLimit with limit n.           *)
Allow(r, t) ==
  /\ At(r, "idle") /\ ~backpressure
  /\ GetTenantBucket(t)
  /\ job' = [job EXCEPT ![r] = Asking(t, "try", FALSE, 0, 0)]
  /\ UNCHANGED <<backpressure, clock, limit, todo, historyVars>>

AllowWithLimit(r, t, n) ==
  /\ At(r, "idle") /\ backpressure
  /\ GetTenantBucket(t)
  /\ job' = [job EXCEPT ![r] = Asking(t, "set", TRUE, limit[t], n)]
  /\ overlapped' = IF InCustom(t) THEN overlapped \cup {t} ELSE overlapped
  /\ UNCHANGED <<backpressure, clock, limit, todo, granted>>

SetLimit(r) ==
  /\ At(r, "set")
  /\ limit' = [limit EXCEPT ![job[r].tenant] = job[r].new]
  /\ Goto(r, "try")
  /\ UNCHANGED <<backpressure, clock, created, tokens, lastRefill, todo, historyVars>>

(* Allow has returned ok; a custom limit is put back.                      *)
Finish(r, ok) ==
  job' = [job EXCEPT ![r] =
            IF @.custom THEN [@ EXCEPT !.pc = "restore", !.ok = ok] ELSE Idle]

(* A request that passed goes on to the plain handler's Allow, unless the  *)
(* circuit breaker or the handler's first checks stop it.                  *)
AfterCustom(r) ==
  LET handle == Asking(job[r].tenant, "try", FALSE, 0, 0)
  IN \E next \in {Idle} \cup (IF job[r].ok THEN {handle} ELSE {}) :
       job' = [job EXCEPT ![r] = next]

RestoreOnSuccess(r) ==   \* mutant: a refused request returns early
  /\ At(r, "restore")
  /\ limit' = IF job[r].ok THEN [limit EXCEPT ![job[r].tenant] = job[r].old] ELSE limit
  /\ AfterCustom(r)
  /\ UNCHANGED <<backpressure, clock, created, tokens, lastRefill, todo, historyVars>>

RestoreLimit(r) ==
  /\ At(r, "restore")
  /\ limit' = [limit EXCEPT ![job[r].tenant] = job[r].old]
  /\ AfterCustom(r)
  /\ UNCHANGED <<backpressure, clock, created, tokens, lastRefill, todo, historyVars>>

-----------------------------------------------------------------------------
(* TryConsume(1) on the tenant's bucket, then on the global one.           *)

(* The token is taken: ask the other bucket, or the request may pass.      *)
Take(r) ==
  /\ tokens' = [tokens EXCEPT ![job[r].bucket] = @ - 1]
  /\ IF job[r].bucket = Global
       THEN /\ granted' = IF job[r].custom THEN granted
                          ELSE [b \in Buckets |-> IF b \in {job[r].tenant, Global}
                                                    THEN granted[b] + 1 ELSE granted[b]]
            /\ Finish(r, TRUE)
       ELSE /\ UNCHANGED granted
            /\ job' = [job EXCEPT ![r] = [@ EXCEPT !.pc = "try", !.bucket = Global]]

HasTokenOffByOne(r) == tokens[job[r].bucket] >= 0   \* mutant: >= 0 for >= 1
HasToken(r) == tokens[job[r].bucket] >= 1

TryConsume(r) ==
  /\ At(r, "try")
  /\ IF HasToken(r) THEN Take(r)
                    ELSE Goto(r, "refill") /\ UNCHANGED <<tokens, granted>>
  /\ UNCHANGED <<backpressure, clock, created, limit, lastRefill, todo, overlapped>>

(* After the refill; no token means no, and the tenant's token goes back.  *)
TryAgain(r) ==
  /\ At(r, "retry")
  /\ IF HasToken(r) THEN Take(r)
     ELSE /\ UNCHANGED <<tokens, granted>>
          /\ IF job[r].bucket = Global THEN Goto(r, "return") ELSE Finish(r, FALSE)
  /\ UNCHANGED <<backpressure, clock, created, limit, lastRefill, todo, overlapped>>

(* There was a token, but another thread's swap came first: start again.   *)
LoseSwap(r) ==
  /\ At(r, "retry") /\ HasToken(r)
  /\ Goto(r, "try")
  /\ UNCHANGED <<backpressure, clock, created, bucketVars, todo, historyVars>>

ReturnUncapped(r) ==   \* mutant: the bucket may overflow its maximum
  /\ At(r, "return")
  /\ tokens' = [tokens EXCEPT ![job[r].tenant] = @ + 1]
  /\ Finish(r, FALSE)
  /\ UNCHANGED <<backpressure, clock, created, limit, lastRefill, todo, historyVars>>

ReturnToken(r) ==
  /\ At(r, "return")
  /\ tokens' = [tokens EXCEPT ![job[r].tenant] = Capped(@ + 1, job[r].tenant)]
  /\ Finish(r, FALSE)
  /\ UNCHANGED <<backpressure, clock, created, limit, lastRefill, todo, historyVars>>

-----------------------------------------------------------------------------
(* refill, called by TryConsume and by the ticker.                         *)

(* refill returns, its locals are gone.                                    *)
Refilled(p) ==
  job' = [job EXCEPT ![p] = IF p = Ticker THEN Idle
                            ELSE [@ EXCEPT !.pc = "retry", !.now = 0, !.last = 0, !.add = 0]]
Elapsed(p) == job[p].now - job[p].last

LoadTimes(p) ==
  /\ At(p, "refill")
  /\ LET last == lastRefill[job[p].bucket]
     IN IF clock - last <= 0 THEN Refilled(p)
        ELSE job' = [job EXCEPT ![p] = [@ EXCEPT !.pc = "swap", !.now = clock, !.last = last]]
  /\ UNCHANGED <<backpressure, clock, created, bucketVars, todo, historyVars>>

(* tokensToAdd: whole tokens only, the remainder of the time is dropped.   *)
TokensToAdd(elapsed, rate) == (elapsed * rate) \div Second

UncheckedSwap(p) ==   \* mutant: the result of CompareAndSwap is ignored
  /\ At(p, "swap")
  /\ LET b == job[p].bucket
         add == TokensToAdd(Elapsed(p), limit[b])
     IN /\ lastRefill' = [lastRefill EXCEPT ![b] = job[p].now]
        /\ job' = [job EXCEPT ![p] = [@ EXCEPT !.pc = "add", !.add = add]]
  /\ UNCHANGED <<backpressure, clock, created, tokens, limit, todo, historyVars>>

(* Only the thread that moves lastRefill adds tokens for the time between. *)
SwapLastRefill(p) ==
  /\ At(p, "swap")
  /\ LET b == job[p].bucket
         add == TokensToAdd(Elapsed(p), limit[b])
     IN IF lastRefill[b] = job[p].last
          THEN /\ lastRefill' = [lastRefill EXCEPT ![b] = job[p].now]
               /\ job' = [job EXCEPT ![p] = [@ EXCEPT !.pc = "add", !.add = add]]
          ELSE /\ Refilled(p)
               /\ UNCHANGED lastRefill
  /\ UNCHANGED <<backpressure, clock, created, tokens, limit, todo, historyVars>>

AddTokens(p) ==
  /\ At(p, "add")
  /\ LET b == job[p].bucket
     IN tokens' = [tokens EXCEPT ![b] = IF job[p].add > 0 THEN Capped(@ + job[p].add, b) ELSE @]
  /\ Refilled(p)
  /\ UNCHANGED <<backpressure, clock, created, limit, lastRefill, todo, historyVars>>

Refill(p) == LoadTimes(p) \/ SwapLastRefill(p) \/ AddTokens(p)

(* refillLoop: the global bucket, then every tenant's.                     *)
Tick ==
  /\ At(Ticker, "idle") /\ todo = {}
  /\ todo' = created
  /\ UNCHANGED <<backpressure, clock, created, bucketVars, job, historyVars>>

NextBucket(b) ==
  /\ At(Ticker, "idle") /\ b \in todo
  /\ Global \in todo => b = Global
  /\ todo' = todo \ {b}
  /\ job' = [job EXCEPT ![Ticker] = [@ EXCEPT !.pc = "refill", !.bucket = b]]
  /\ UNCHANGED <<backpressure, clock, created, bucketVars, historyVars>>

-----------------------------------------------------------------------------
Request(r) ==
  \/ \E t \in Tenants : Allow(r, t) \/ \E n \in Adaptive : AllowWithLimit(r, t, n)
  \/ SetLimit(r) \/ RestoreLimit(r)
  \/ TryConsume(r) \/ TryAgain(r) \/ LoseSwap(r) \/ ReturnToken(r)

Next ==
  \/ TimePasses
  \/ \E r \in Requests : Request(r)
  \/ \E p \in Threads : Refill(p)
  \/ Tick \/ \E b \in Buckets : NextBucket(b)

Spec == Init /\ [][Next]_vars

-----------------------------------------------------------------------------
Job == [pc : {"idle", "set", "try", "refill", "swap", "add", "retry", "return", "restore"},
        tenant : Buckets, bucket : Buckets,
        now : Nat, last : Nat, add : Nat,
        custom : BOOLEAN, old : Nat, new : Nat, ok : BOOLEAN]

(* Type correctness; no bucket is ever overdrawn.                          *)
TypeOK ==
  /\ clock \in 0..MaxClock
  /\ created \subseteq Buckets /\ todo \subseteq Buckets
  /\ tokens \in [Buckets -> Nat] /\ limit \in [Buckets -> Nat]
  /\ lastRefill \in [Buckets -> 0..clock]
  /\ job \in [Threads -> Job]
  /\ backpressure \in BOOLEAN /\ overlapped \subseteq Tenants
  /\ granted \in [Buckets -> Nat]

(* A request costs its tenant and the gateway one token each, and with     *)
(* backpressure two: in AllowWithLimit and in Handle.  Whatever the        *)
(* requests, the ticker, the temporary limits and the refusals of the      *)
(* global bucket interleave, no bucket pays for more requests than it held *)
(* at first and its highest limit has earned since (TryConsume, refill,    *)
(* Return).                                                                *)
TopLimit(b) ==
  IF b = Global THEN GlobalLimit
  ELSE IF backpressure THEN Max(TenantLimits) ELSE TenantLimit
InitialTokens(b) == IF b = Global THEN GlobalLimit ELSE TenantLimit
Cost == IF backpressure THEN 2 ELSE 1
RateRespected ==
  \A b \in Buckets : Cost * granted[b] <= InitialTokens(b) + TokensToAdd(clock, TopLimit(b))

(* A bucket never holds more than the highest limit it has had, the tokens *)
(* refused by the global bucket and given back included (Return, refill:   *)
(* newVal capped).                                                         *)
NeverOverfull == \A b \in Buckets : tokens[b] <= TopLimit(b)

(* No tenant, nor the gateway, is granted more than the bucket has earned, *)
(* and no bucket overflows, however requests, returned tokens and refills  *)
(* interleave (hierarchical.go:155, :171, :194).                           *)
BucketsSound == RateRespected /\ NeverOverfull

(* "Restore original limits": with no custom limit in progress, a tenant   *)
(* has the limit it was created with, unless two requests of its ran       *)
(* AllowWithLimit at a time, when one may save the other's limit.          *)
LimitsRestored ==
  \A t \in Tenants \ overlapped : ~InCustom(t) => limit[t] = TenantLimit

(* The comment does not make that exception.                               *)
AlwaysRestored == \A t \in Tenants : ~InCustom(t) => limit[t] = TenantLimit
=============================================================================

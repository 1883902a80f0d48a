-------------------------- MODULE RateLimiterProofs --------------------------
(***************************************************************************)
(* Proofs about RateLimiter for any tenants, limits, length of a tick,     *)
(* number of requests and running time: type correctness, BucketsSound and *)
(* LimitsRestored.                                                         *)
(*                                                                         *)
(* RateRespected is about the requests that got through; a step of one     *)
(* takes a token, or gives it back, long before it is known whether it     *)
(* does.  Balanced is the account that is kept at every step: the tokens   *)
(* in a bucket, those the requests under way have taken, those that a      *)
(* refill has earned and not yet put in, and those paid for the requests   *)
(* let through.                                                            *)
(***************************************************************************)
EXTENDS RateLimiter, FiniteSetTheorems, TLAPS

-----------------------------------------------------------------------------
(* The record of a job after a step that keeps whose request it is.        *)
Step(j, pc, bucket, now, last, add, ok) ==
  [pc |-> pc, tenant |-> j.tenant, bucket |-> bucket, now |-> now, last |-> last, add |-> add,
   custom |-> j.custom, old |-> j.old, new |-> j.new, ok |-> ok]

LEMMA JobFields ==
  ASSUME NEW j \in Job
  PROVE  /\ \A pc : [j EXCEPT !.pc = pc] = Step(j, pc, j.bucket, j.now, j.last, j.add, j.ok)
         /\ \A pc, b : [j EXCEPT !.pc = pc, !.bucket = b] = Step(j, pc, b, j.now, j.last, j.add, j.ok)
         /\ \A pc, ok : [j EXCEPT !.pc = pc, !.ok = ok] = Step(j, pc, j.bucket, j.now, j.last, j.add, ok)
         /\ \A pc, x, y : [j EXCEPT !.pc = pc, !.now = x, !.last = y] = Step(j, pc, j.bucket, x, y, j.add, j.ok)
         /\ \A pc, x : [j EXCEPT !.pc = pc, !.add = x] = Step(j, pc, j.bucket, j.now, j.last, x, j.ok)
         /\ \A pc, x, y, z : [j EXCEPT !.pc = pc, !.now = x, !.last = y, !.add = z] = Step(j, pc, j.bucket, x, y, z, j.ok)
<1>1. \A pc : [j EXCEPT !.pc = pc] = Step(j, pc, j.bucket, j.now, j.last, j.add, j.ok)
  BY SMT DEF Job, Step
<1> DEFINE t(pc) == [j EXCEPT !.pc = pc]
<1>2. \A pc : t(pc) = Step(j, pc, j.bucket, j.now, j.last, j.add, j.ok)
  BY <1>1
<1> HIDE DEF t
<1>3. \A pc, b : [t(pc) EXCEPT !.bucket = b] = Step(j, pc, b, j.now, j.last, j.add, j.ok)
  BY <1>2, SMT DEF Step
<1>4. \A pc, ok : [t(pc) EXCEPT !.ok = ok] = Step(j, pc, j.bucket, j.now, j.last, j.add, ok)
  BY <1>2, SMT DEF Step
<1>5. \A pc, x : [t(pc) EXCEPT !.add = x] = Step(j, pc, j.bucket, j.now, j.last, x, j.ok)
  BY <1>2, SMT DEF Step
<1> DEFINE u(pc, x) == [t(pc) EXCEPT !.now = x]
<1>6. \A pc, x : u(pc, x) = Step(j, pc, j.bucket, x, j.last, j.add, j.ok)
  BY <1>2, SMT DEF Step
<1> HIDE DEF u
<1> DEFINE v(pc, x, y) == [u(pc, x) EXCEPT !.last = y]
<1>7. \A pc, x, y : v(pc, x, y) = Step(j, pc, j.bucket, x, y, j.add, j.ok)
  BY <1>6, SMT DEF Step
<1> HIDE DEF v
<1>8. \A pc, x, y, z : [v(pc, x, y) EXCEPT !.add = z] = Step(j, pc, j.bucket, x, y, z, j.ok)
  BY <1>7, SMT DEF Step
<1> QED BY <1>2, <1>3, <1>4, <1>5, <1>7, <1>8 DEF t, u, v

LEMMA JobTypes ==
  /\ Idle \in Job
  /\ \A t \in Tenants : \A pc \in {"set", "try"}, custom \in BOOLEAN, old, new \in Nat :
       Asking(t, pc, custom, old, new) \in Job
  /\ \A j \in Job, b \in Buckets, now, last, add \in Nat, ok \in BOOLEAN,
        pc \in {"idle", "set", "try", "refill", "swap", "add", "retry", "return", "restore"} :
       Step(j, pc, b, now, last, add, ok) \in Job
<1>1. Global \in Buckets /\ Tenants \subseteq Buckets
  BY DEF Buckets
<1>2. Idle \in Job
  BY <1>1 DEF Idle, Asking, Job
<1>3. \A t \in Tenants : \A pc \in {"set", "try"}, custom \in BOOLEAN, old, new \in Nat :
        Asking(t, pc, custom, old, new) \in Job
  BY <1>1 DEF Asking, Job
<1>4. \A j \in Job, b \in Buckets, now, last, add \in Nat, ok \in BOOLEAN,
        pc \in {"idle", "set", "try", "refill", "swap", "add", "retry", "return", "restore"} :
       Step(j, pc, b, now, last, add, ok) \in Job
  BY DEF Step, Job
<1> QED BY <1>2, <1>3, <1>4

-----------------------------------------------------------------------------
(* Arithmetic of TokensToAdd: what two refills one after the other bring   *)
(* is no more than one refill over the whole time, at a limit as high,     *)
(* would bring.                                                            *)
LEMMA DivIs ==
  ASSUME NEW a \in Nat, NEW d \in Nat \ {0}
  PROVE  /\ a \div d \in Nat
         /\ d * (a \div d) <= a
         /\ a < d * (a \div d) + d
<1>1. a \div d \in Int /\ a = d * (a \div d) + (a % d) /\ (a % d) \in 0..(d - 1)
  BY SMT
<1>2. a \div d >= 0
  <2> SUFFICES ASSUME ~(a \div d >= 0) PROVE FALSE OBVIOUS
  <2>1. (a \div d) + 1 <= 0
    BY <1>1, SMT
  <2>2. d * ((a \div d) + 1) <= 0
    BY <1>1, <2>1, SMT
  <2>3. d * ((a \div d) + 1) = d * (a \div d) + d
    BY <1>1, SMT
  <2> QED BY <1>1, <2>2, <2>3, SMT
<1> QED BY <1>1, <1>2, SMT

LEMMA Product ==
  ASSUME NEW d \in Nat \ {0}, NEW x \in Int, NEW y \in Int, d * x < d * y + d
  PROVE  x <= y
<1> SUFFICES ASSUME ~(x <= y) PROVE FALSE OBVIOUS
<1>1. x - (y + 1) \in Nat
  BY SMT
<1>2. \A z \in Nat : d * z >= 0
  BY SMT
<1>3. d * (x - (y + 1)) >= 0
  BY <1>1, <1>2
<1>4. d * (x - (y + 1)) = d * x - (d * y + d)
  BY SMT
<1> QED BY <1>3, <1>4, SMT

LEMMA DivSum ==
  ASSUME NEW a \in Nat, NEW b \in Nat, NEW c \in Nat, NEW d \in Nat \ {0}, a + b <= c
  PROVE  (a \div d) + (b \div d) <= c \div d
<1> DEFINE x == a \div d
           y == b \div d
           z == c \div d
<1>1. /\ x \in Nat /\ d * x <= a
      /\ y \in Nat /\ d * y <= b
      /\ z \in Nat /\ c < d * z + d
  BY DivIs
<1> HIDE DEF x, y, z
<1>2. d * (x + y) = d * x + d * y
  BY <1>1, SMT
<1>3. d * x \in Int /\ d * y \in Int /\ d * z \in Int
  BY <1>1, SMT
<1>4. d * (x + y) < d * z + d
  BY <1>1, <1>2, <1>3, SMT
<1>5. x + y <= z
  BY <1>1, <1>4, Product
<1> QED BY <1>5 DEF x, y, z

LEMMA RefillsAdd ==
  ASSUME LimiterAssumption, NEW top \in Nat, NEW n \in Nat, n <= top,
         NEW last \in Nat, NEW now \in Nat, last <= now
  PROVE  /\ TokensToAdd(now, top) \in Nat
         /\ TokensToAdd(now - last, n) \in Nat
         /\ TokensToAdd(last, top) + TokensToAdd(now - last, n) <= TokensToAdd(now, top)
<1>0. Second \in Nat \ {0}
  BY DEF LimiterAssumption
<1> DEFINE e == now - last
<1>1. e \in Nat /\ now = last + e
  BY SMT
<1> HIDE DEF e
<1>2. \A u, v \in Nat : u * v \in Nat
  BY SMT
<1>3. top - n \in Nat
  BY SMT
<1>4. e * (top - n) \in Nat
  BY <1>1, <1>2, <1>3
<1>5. now * top = last * top + e * top
  BY <1>1, SMT
<1>6. e * top = e * n + e * (top - n)
  BY <1>1, SMT
<1>7. /\ now * top \in Nat /\ last * top \in Nat /\ e * n \in Nat /\ e * top \in Nat
  BY <1>1, <1>2
<1>8. last * top + e * n <= now * top
  BY <1>4, <1>5, <1>6, <1>7, SMT
<1>9. ((last * top) \div Second) + ((e * n) \div Second) <= (now * top) \div Second
  BY <1>0, <1>7, <1>8, DivSum
<1>10. (now * top) \div Second \in Nat /\ (e * n) \div Second \in Nat
  BY <1>0, <1>7, DivIs
<1> QED BY <1>9, <1>10 DEF e, TokensToAdd

(* More time brings no less.                                               *)
LEMMA RefillsGrow ==
  ASSUME LimiterAssumption, NEW top \in Nat, NEW last \in Nat, NEW now \in Nat, last <= now
  PROVE  /\ TokensToAdd(last, top) \in Nat /\ TokensToAdd(now, top) \in Nat
         /\ TokensToAdd(last, top) <= TokensToAdd(now, top)
<1>1. /\ TokensToAdd(now, top) \in Nat
      /\ TokensToAdd(now - last, top) \in Nat
      /\ TokensToAdd(last, top) + TokensToAdd(now - last, top) <= TokensToAdd(now, top)
  BY RefillsAdd, SMT
<1>2. TokensToAdd(last, top) \in Nat
  BY RefillsAdd, SMT
<1> QED BY <1>1, <1>2, SMT

-----------------------------------------------------------------------------
(* A function from threads to numbers laid out as a set, so that its sum   *)
(* is a cardinality; and what changing it at one thread does to the sum.   *)
Pile(f) == UNION {{p} \X (1..f[p]) : p \in Threads}

LEMMA Column ==
  ASSUME NEW p, NEW n \in Nat
  PROVE  IsFiniteSet({p} \X (1..n)) /\ Cardinality({p} \X (1..n)) = n
<1>1. IsFiniteSet({p}) /\ Cardinality({p}) = 1
  BY FS_Singleton
<1>2. IsFiniteSet(1..n) /\ Cardinality(1..n) = IF 1 > n THEN 0 ELSE n - 1 + 1
  BY FS_Interval, 1 \in Int, n \in Int
<1>3. Cardinality(1..n) = n
  BY <1>2, SMT
<1>4. /\ IsFiniteSet({p} \X (1..n))
      /\ Cardinality({p} \X (1..n)) = Cardinality({p}) * Cardinality(1..n)
  BY <1>1, <1>2, FS_Product
<1> QED BY <1>1, <1>3, <1>4, SMT

LEMMA PileFinite ==
  ASSUME LimiterAssumption, NEW f \in [Threads -> Nat]
  PROVE  IsFiniteSet(Pile(f)) /\ Cardinality(Pile(f)) \in Nat
<1>1. IsFiniteSet(Threads)
  BY FS_Singleton, FS_Union DEF LimiterAssumption, Threads
<1> DEFINE column == [p \in Threads |-> {p} \X (1..f[p])]
           S == {column[p] : p \in Threads}
<1>2. IsFiniteSet(S)
  <2>1. column \in Surjection(Threads, S)
    BY DEF Surjection
  <2> QED BY <1>1, <2>1, FS_Surjection DEF ExistsSurjection
<1>3. \A T \in S : IsFiniteSet(T)
  <2>1. \A p \in Threads : f[p] \in Nat /\ column[p] = {p} \X (1..f[p])
    OBVIOUS
  <2>2. \A p \in Threads : IsFiniteSet(column[p])
    BY <2>1, Column
  <2> QED BY <2>2
<1>4. IsFiniteSet(UNION S)
  BY <1>2, <1>3, FS_UNION
<1>5. UNION S = Pile(f)
  BY DEF Pile
<1> QED BY <1>4, <1>5, FS_CardinalityType

LEMMA PileMove ==
  ASSUME LimiterAssumption, NEW f \in [Threads -> Nat], NEW g \in [Threads -> Nat],
         NEW q \in Threads, \A p \in Threads \ {q} : g[p] = f[p]
  PROVE  /\ Cardinality(Pile(f)) \in Nat /\ Cardinality(Pile(g)) \in Nat
         /\ Cardinality(Pile(g)) + f[q] = Cardinality(Pile(f)) + g[q]
<1> DEFINE rest == UNION {{p} \X (1..f[p]) : p \in Threads \ {q}}
<1>1. Pile(f) = rest \cup ({q} \X (1..f[q]))
  BY DEF Pile
<1>2. Pile(g) = rest \cup ({q} \X (1..g[q]))
  BY DEF Pile
<1>3. \A n : rest \cap ({q} \X (1..n)) = {}
  OBVIOUS
<1>4. IsFiniteSet(Pile(f))
  BY PileFinite
<1>5. IsFiniteSet(rest)
  BY <1>1, <1>4, FS_Subset
<1>6. \A n \in Nat : Cardinality(rest \cup ({q} \X (1..n))) = Cardinality(rest) + n
  <2> TAKE n \in Nat
  <2>1. IsFiniteSet({q} \X (1..n)) /\ Cardinality({q} \X (1..n)) = n
    BY Column
  <2>2. Cardinality(rest \cup ({q} \X (1..n)))
          = Cardinality(rest) + n - Cardinality(rest \cap ({q} \X (1..n)))
    BY <1>5, <2>1, FS_Union
  <2>3. Cardinality(rest \cap ({q} \X (1..n))) = 0
    BY <1>3, FS_EmptySet
  <2>4. Cardinality(rest) \in Nat
    BY <1>5, FS_CardinalityType
  <2> HIDE DEF rest
  <2> QED BY <2>2, <2>3, <2>4, SMT
<1>7. Cardinality(rest) \in Nat
  BY <1>5, FS_CardinalityType
<1>8. f[q] \in Nat /\ g[q] \in Nat
  OBVIOUS
<1> HIDE DEF rest
<1>9. Cardinality(Pile(f)) = Cardinality(rest) + f[q] /\ Cardinality(Pile(g)) = Cardinality(rest) + g[q]
  BY <1>1, <1>2, <1>6, <1>8
<1> QED BY <1>7, <1>8, <1>9, SMT

LEMMA PileEmpty ==
  ASSUME NEW f \in [Threads -> Nat], \A p \in Threads : f[p] = 0
  PROVE  Cardinality(Pile(f)) = 0
<1>1. \A n \in Nat : n = 0 => 1..n = {}
  BY SMT
<1>2. \A p \in Threads : {p} \X (1..f[p]) = {}
  BY <1>1
<1>3. Pile(f) = {}
  BY <1>2 DEF Pile
<1> QED BY <1>3, FS_EmptySet

-----------------------------------------------------------------------------
(* What a thread may be doing, C being the buckets that exist.  A request's *)
(* tenant has a bucket since it began, the global bucket is asked after    *)
(* the tenant's, a custom limit is in progress only with backpressure, and *)
(* refill's lastRefill is no later than its now.                           *)
RequestRight(j, C) ==
  /\ j.pc # "idle" => j.tenant \in Tenants /\ j.tenant \in C
  /\ j.pc = "idle" => j.tenant = Global
  /\ j.bucket \in {j.tenant, Global}
  /\ j.pc = "set" => j.bucket = j.tenant
  /\ j.pc = "return" => j.bucket = Global
  /\ j.pc \in {"set", "restore"} => j.custom
  /\ j.custom => backpressure /\ j.pc # "idle"
  /\ j.custom => j.old \in TenantLimits /\ j.new \in TenantLimits

TickerRight(j, C) == j.pc \in {"idle", "refill", "swap", "add"} /\ j.bucket \in C

JobRight(p, j, C) ==
  /\ IF p = Ticker THEN TickerRight(j, C) ELSE RequestRight(j, C)
  /\ j.pc = "swap" => j.last <= j.now /\ j.now <= clock

JobsRight ==
  /\ \A p \in Threads : JobRight(p, job[p], created)
  /\ Global \in created /\ todo \subseteq created

(* The limits a bucket may have.                                           *)
Limits(b) == IF b = Global THEN {GlobalLimit} ELSE IF backpressure THEN TenantLimits ELSE {TenantLimit}
LimitsRight == \A b \in Buckets : limit[b] \in Limits(b)

TypeInv == TypeOK /\ JobsRight /\ LimitsRight

(* The tokens that the request of a job has taken from bucket b and not    *)
(* yet spent nor given back: the one taken for AllowWithLimit, when it is  *)
(* in Handle, and the tenant's when it is asking the global bucket.        *)
Passing(j) == j.pc \in {"try", "refill", "swap", "add", "retry", "return"}
SecondTime(j) == backpressure /\ IF j.custom THEN j.pc = "restore" /\ j.ok ELSE Passing(j)
Held(j, b) ==
  IF b = Global THEN IF SecondTime(j) THEN 1 ELSE 0
  ELSE IF j.tenant # b THEN 0
  ELSE (IF SecondTime(j) THEN 1 ELSE 0) + (IF Passing(j) /\ j.bucket = Global THEN 1 ELSE 0)

(* Those, and the tokens it is about to put in.                            *)
Adding(j, b) == IF j.pc = "add" /\ j.bucket = b THEN j.add ELSE 0
Due(p, j, b) == (IF p = Ticker THEN 0 ELSE Held(j, b)) + Adding(j, b)
Owed(b) == Pile([p \in Threads |-> Due(p, job[p], b)])

Earned(b) == InitialTokens(b) + TokensToAdd(lastRefill[b], TopLimit(b))
Balance(b) == tokens[b] + Cost * granted[b] + Cardinality(Owed(b)) <= Earned(b)
Balanced == \A b \in Buckets : IF b \in created THEN Balance(b) ELSE granted[b] = 0

Inv == TypeInv /\ Balanced /\ NeverOverfull

(* With one AllowWithLimit of a tenant at a time, the limit it saved is    *)
(* the one the tenant was created with.                                    *)
OneCustom ==
  \A t \in Tenants \ overlapped :
    /\ \A r, s \in Requests : /\ job[r].custom /\ job[r].tenant = t
                              /\ job[s].custom /\ job[s].tenant = t
                              => r = s
    /\ \A r \in Requests : job[r].custom /\ job[r].tenant = t => job[r].old = TenantLimit
    /\ ~InCustom(t) => limit[t] = TenantLimit

-----------------------------------------------------------------------------
(* What each action does to the job of its thread.                         *)
Moved(q, k) == job' = [job EXCEPT ![q] = k]

FinishTo(j, ok) == IF j.custom THEN Step(j, "restore", j.bucket, j.now, j.last, j.add, ok) ELSE Idle
TakeTo(j) == IF j.bucket = Global THEN FinishTo(j, TRUE)
             ELSE Step(j, "try", Global, j.now, j.last, j.add, j.ok)
GoTo(j, pc) == Step(j, pc, j.bucket, j.now, j.last, j.add, j.ok)
RefilledTo(p, j) == IF p = Ticker THEN Idle ELSE Step(j, "retry", j.bucket, 0, 0, 0, j.ok)

(* A job whose thread goes to another line is a job.                       *)
LEMMA GoToJob ==
  ASSUME NEW j \in Job,
         NEW pc \in {"idle", "set", "try", "refill", "swap", "add", "retry", "return", "restore"}
  PROVE  GoTo(j, pc) \in Job
<1>1. /\ j.bucket \in Buckets /\ j.now \in Nat /\ j.last \in Nat /\ j.add \in Nat
      /\ j.ok \in BOOLEAN
  BY DEF Job
<1> QED BY <1>1, JobTypes DEF GoTo

LEMMA ThreadsAre ==
  ASSUME LimiterAssumption
  PROVE  /\ Requests \subseteq Threads /\ Ticker \in Threads /\ Ticker \notin Requests
         /\ \A p \in Threads : p # Ticker => p \in Requests
         /\ Tenants \subseteq Buckets /\ Global \in Buckets /\ Global \notin Tenants
         /\ \A b \in Buckets : b # Global => b \in Tenants
BY DEF LimiterAssumption, Threads, Buckets

LEMMA JobHelpers ==
  ASSUME job \in [Threads -> Job], NEW p \in Threads
  PROVE  /\ \A pc : Goto(p, pc) => Moved(p, GoTo(job[p], pc))
         /\ \A ok : Finish(p, ok) => Moved(p, FinishTo(job[p], ok))
         /\ Refilled(p) => Moved(p, RefilledTo(p, job[p]))
         /\ Take(p) => Moved(p, TakeTo(job[p]))
<1>0. job[p] \in Job
  OBVIOUS
<1>1. ASSUME NEW pc, Goto(p, pc) PROVE Moved(p, GoTo(job[p], pc))
  <2>1. job' = [job EXCEPT ![p] = [job[p] EXCEPT !.pc = pc]]
    BY <1>1 DEF Goto
  <2>2. [job[p] EXCEPT !.pc = pc] = GoTo(job[p], pc)
    BY <1>0, JobFields, Zenon DEF GoTo
  <2> QED BY <2>1, <2>2, Zenon DEF Moved
<1>2. ASSUME NEW ok, Finish(p, ok) PROVE Moved(p, FinishTo(job[p], ok))
  <2>1. job' = [job EXCEPT ![p] =
            IF job[p].custom THEN [job[p] EXCEPT !.pc = "restore", !.ok = ok] ELSE Idle]
    BY <1>2 DEF Finish
  <2> DEFINE j == job[p]
  <2>3. \A x, ok1 : [j EXCEPT !.pc = x, !.ok = ok1] = Step(j, x, j.bucket, j.now, j.last, j.add, ok1)
    BY <1>0, JobFields
  <2>2. [job[p] EXCEPT !.pc = "restore", !.ok = ok]
          = Step(job[p], "restore", job[p].bucket, job[p].now, job[p].last, job[p].add, ok)
    BY <2>3, Zenon
  <2> QED BY <2>1, <2>2, Zenon DEF Moved, FinishTo
<1>3. Refilled(p) => Moved(p, RefilledTo(p, job[p]))
  <2>1. Refilled(p) => job' = [job EXCEPT ![p] = IF p = Ticker THEN Idle
           ELSE [job[p] EXCEPT !.pc = "retry", !.now = 0, !.last = 0, !.add = 0]]
    BY DEF Refilled
  <2> DEFINE j == job[p]
  <2>3. \A pc, x, y, z : [j EXCEPT !.pc = pc, !.now = x, !.last = y, !.add = z]
                           = Step(j, pc, j.bucket, x, y, z, j.ok)
    BY <1>0, JobFields
  <2>2. [job[p] EXCEPT !.pc = "retry", !.now = 0, !.last = 0, !.add = 0]
          = Step(job[p], "retry", job[p].bucket, 0, 0, 0, job[p].ok)
    BY <2>3, Zenon
  <2> QED BY <2>1, <2>2, Zenon DEF Moved, RefilledTo
<1>4. Take(p) => Moved(p, TakeTo(job[p]))
  <2>1. Take(p) => IF job[p].bucket = Global THEN Finish(p, TRUE)
           ELSE job' = [job EXCEPT ![p] = [job[p] EXCEPT !.pc = "try", !.bucket = Global]]
    BY DEF Take
  <2>2. [job[p] EXCEPT !.pc = "try", !.bucket = Global]
          = Step(job[p], "try", Global, job[p].now, job[p].last, job[p].add, job[p].ok)
    BY <1>0, JobFields, Zenon
  <2> QED BY <2>1, <2>2, <1>2, Zenon DEF Moved, TakeTo
<1> QED BY <1>1, <1>2, <1>3, <1>4

(* A step that changes one job, to one that is right, and creates at most  *)
(* buckets keeps the jobs right.                                           *)
LEMMA MoveOne ==
  ASSUME TypeOK, JobsRight, NEW q \in Threads, NEW k \in Job, Moved(q, k),
         created \subseteq created', clock' = clock, backpressure' = backpressure,
         todo' \subseteq created', JobRight(q, k, created')
  PROVE  job' \in [Threads -> Job] /\ JobsRight'
<1>1. job \in [Threads -> Job]
  BY DEF TypeOK
<1>2. job' \in [Threads -> Job] /\ job'[q] = k /\ \A p \in Threads : p # q => job'[p] = job[p]
  BY <1>1 DEF Moved
<1>3. \A p \in Threads : JobRight(p, job[p], created')
  <2>1. \A p \in Threads : JobRight(p, job[p], created)
    BY DEF JobsRight
  <2>2. \A p \in Threads : job[p].bucket \in created => job[p].bucket \in created'
    OBVIOUS
  <2>3. \A p \in Threads : job[p].tenant \in created => job[p].tenant \in created'
    OBVIOUS
  <2> QED BY <2>1, <2>2, <2>3 DEF JobRight, RequestRight, TickerRight
<1>4. \A p \in Threads : JobRight(p, job'[p], created')
  BY <1>2, <1>3
<1>5. \A p \in Threads : JobRight(p, job[p], created)'
  BY <1>4 DEF JobRight, RequestRight, TickerRight
<1>6. Global \in created'
  BY DEF JobsRight
<1> QED BY <1>2, <1>5, <1>6 DEF JobsRight

(* The pieces a step has to keep.                                          *)
LEMMA Typed ==
  ASSUME TypeInv, job' \in [Threads -> Job], JobsRight',
         clock' \in 0..MaxClock, created' \subseteq Buckets, todo' \subseteq Buckets,
         tokens' \in [Buckets -> Nat], limit' \in [Buckets -> Nat],
         lastRefill' \in [Buckets -> 0..clock'], granted' \in [Buckets -> Nat],
         overlapped' \subseteq Tenants, backpressure' = backpressure,
         \A b \in Buckets : limit'[b] \in Limits(b)
  PROVE  TypeInv'
<1>1. TypeOK'
  BY DEF TypeInv, TypeOK
<1>2. LimitsRight'
  BY DEF LimitsRight, Limits
<1> QED BY <1>1, <1>2 DEF TypeInv

LEMMA TypedCreate ==
  ASSUME LimiterAssumption, TypeInv, NEW r \in Requests, NEW t \in Tenants,
         NEW k \in Job, GetTenantBucket(t), Moved(r, k), RequestRight(k, created'), k.pc # "swap",
         UNCHANGED <<backpressure, clock, limit, todo, granted>>, overlapped' \subseteq Tenants
  PROVE  TypeInv'
<1>1. TypeOK /\ JobsRight /\ LimitsRight
  BY DEF TypeInv
<1>2. r \in Threads /\ r # Ticker /\ t \in Buckets
  BY ThreadsAre
<1>3. created' = created \cup {t} /\ created \subseteq created'
  BY DEF GetTenantBucket
<1>4. JobRight(r, k, created')
  BY <1>2 DEF JobRight
<1>5. todo' \subseteq created'
  BY <1>1, <1>3 DEF JobsRight
<1>6. job' \in [Threads -> Job] /\ JobsRight'
  BY <1>1, <1>2, <1>3, <1>4, <1>5, MoveOne
<1>7. tokens' \in [Buckets -> Nat] /\ lastRefill' \in [Buckets -> 0..clock']
  <2>1. TenantLimit \in Nat /\ clock \in 0..clock
    BY <1>1, SMT DEF TypeOK, LimiterAssumption
  <2> QED BY <1>1, <2>1 DEF GetTenantBucket, TypeOK
<1>8. \A b \in Buckets : limit'[b] \in Limits(b)
  BY <1>1 DEF LimitsRight
<1> QED BY <1>1, <1>2, <1>3, <1>6, <1>7, <1>8, Typed DEF TypeOK

LEMMA TypedMove ==
  ASSUME LimiterAssumption, TypeInv, NEW q \in Threads, NEW k \in Job, Moved(q, k),
         JobRight(q, k, created), todo' \subseteq todo,
         UNCHANGED <<backpressure, clock, created, overlapped>>,
         tokens' \in [Buckets -> Nat], limit' \in [Buckets -> Nat],
         lastRefill' \in [Buckets -> 0..clock'], granted' \in [Buckets -> Nat],
         \A b \in Buckets : limit'[b] \in Limits(b)
  PROVE  TypeInv'
<1>1. TypeOK /\ JobsRight /\ LimitsRight
  BY DEF TypeInv
<1>2. job' \in [Threads -> Job] /\ JobsRight'
  BY <1>1, MoveOne DEF JobsRight
<1> QED BY <1>1, <1>2, Typed DEF TypeOK

LEMMA StepFields ==
  ASSUME NEW j, NEW pc, NEW b, NEW now, NEW last, NEW add, NEW ok
  PROVE  /\ Step(j, pc, b, now, last, add, ok).pc = pc
         /\ Step(j, pc, b, now, last, add, ok).tenant = j.tenant
         /\ Step(j, pc, b, now, last, add, ok).bucket = b
         /\ Step(j, pc, b, now, last, add, ok).now = now
         /\ Step(j, pc, b, now, last, add, ok).last = last
         /\ Step(j, pc, b, now, last, add, ok).add = add
         /\ Step(j, pc, b, now, last, add, ok).custom = j.custom
         /\ Step(j, pc, b, now, last, add, ok).old = j.old
         /\ Step(j, pc, b, now, last, add, ok).new = j.new
         /\ Step(j, pc, b, now, last, add, ok).ok = ok
BY DEF Step

LEMMA AskingFields ==
  ASSUME NEW t, NEW pc, NEW custom, NEW old, NEW new
  PROVE  /\ Asking(t, pc, custom, old, new).pc = pc
         /\ Asking(t, pc, custom, old, new).tenant = t
         /\ Asking(t, pc, custom, old, new).bucket = t
         /\ Asking(t, pc, custom, old, new).add = 0
         /\ Asking(t, pc, custom, old, new).custom = custom
         /\ Asking(t, pc, custom, old, new).old = old
         /\ Asking(t, pc, custom, old, new).new = new
         /\ Asking(t, pc, custom, old, new).ok = FALSE
BY DEF Asking

(* The jobs that a step leads to.                                          *)
LEMMA JobsTo ==
  ASSUME LimiterAssumption, TypeInv, NEW r \in Requests, NEW j, j = job[r]
  PROVE  /\ j \in Job /\ RequestRight(j, created) /\ Idle \in Job /\ RequestRight(Idle, created)
         /\ j.pc # "idle" => RequestRight(Asking(j.tenant, "try", FALSE, 0, 0), created)
                             /\ Asking(j.tenant, "try", FALSE, 0, 0) \in Job
         /\ \A pc \in {"try", "refill", "retry"} : j.pc \in {"set", "try", "refill", "retry"}
              => GoTo(j, pc) \in Job /\ RequestRight(GoTo(j, pc), created)
         /\ j.pc = "retry" /\ j.bucket = Global
              => GoTo(j, "return") \in Job /\ RequestRight(GoTo(j, "return"), created)
         /\ \A ok \in BOOLEAN : j.pc # "idle"
              => FinishTo(j, ok) \in Job /\ RequestRight(FinishTo(j, ok), created)
         /\ j.pc # "idle" /\ j.pc # "set" => TakeTo(j) \in Job /\ RequestRight(TakeTo(j), created)
         /\ j.pc # "idle" => RefilledTo(r, j) \in Job /\ RequestRight(RefilledTo(r, j), created)
         /\ Idle.pc = "idle" /\ \A ok \in BOOLEAN : FinishTo(j, ok).pc \in {"idle", "restore"}
         /\ TakeTo(j).pc \in {"idle", "restore", "try"} /\ RefilledTo(r, j).pc \in {"idle", "retry"}
<1>0. r \in Threads /\ r # Ticker
  BY ThreadsAre
<1>1. j \in Job /\ RequestRight(j, created)
  BY <1>0 DEF TypeInv, TypeOK, JobsRight, JobRight
<1>10. /\ j.bucket \in Buckets /\ j.now \in Nat /\ j.last \in Nat /\ j.add \in Nat
      /\ j.custom \in BOOLEAN /\ j.ok \in BOOLEAN
  BY <1>1 DEF Job
<1>2. Global \in created /\ Global \in Buckets
  BY ThreadsAre DEF TypeInv, JobsRight
<1>3. Idle \in Job /\ RequestRight(Idle, created) /\ Idle.pc = "idle"
  BY JobTypes DEF Idle, Asking, RequestRight
<1>4. ASSUME j.pc # "idle"
      PROVE  /\ RequestRight(Asking(j.tenant, "try", FALSE, 0, 0), created)
             /\ Asking(j.tenant, "try", FALSE, 0, 0) \in Job
  <2>1. j.tenant \in Tenants /\ j.tenant \in created
    BY <1>1, <1>4 DEF RequestRight
  <2>2. Asking(j.tenant, "try", FALSE, 0, 0) \in Job
    BY <2>1, JobTypes
  <2> DEFINE k == Asking(j.tenant, "try", FALSE, 0, 0)
  <2>3. k.pc = "try" /\ k.tenant = j.tenant /\ k.bucket = j.tenant /\ ~k.custom
    BY DEF Asking
  <2> HIDE DEF k
  <2>4. RequestRight(k, created)
    BY <2>1, <2>3 DEF RequestRight
  <2> QED BY <2>2, <2>4 DEF k
<1>5. ASSUME NEW pc \in {"try", "refill", "retry"}, j.pc \in {"set", "try", "refill", "retry"}
      PROVE  GoTo(j, pc) \in Job /\ RequestRight(GoTo(j, pc), created)
  <2>1. GoTo(j, pc) \in Job
    <3>1. pc \in {"idle", "set", "try", "refill", "swap", "add", "retry", "return", "restore"}
      OBVIOUS
    <3> QED BY <1>1, <3>1, GoToJob, Zenon
  <2> DEFINE k == Step(j, pc, j.bucket, j.now, j.last, j.add, j.ok)
  <2>8. k.pc = pc /\ k.bucket = j.bucket /\ k.tenant = j.tenant /\ k.custom = j.custom /\ k.old = j.old /\ k.new = j.new
    BY StepFields
  <2> HIDE DEF k
  <2>9. RequestRight(k, created)
    BY <1>1, <1>5, <2>8 DEF RequestRight
  <2> QED BY <2>1, <2>9 DEF k, GoTo
<1>6. ASSUME j.pc = "retry", j.bucket = Global
      PROVE  GoTo(j, "return") \in Job /\ RequestRight(GoTo(j, "return"), created)
  <2>1. GoTo(j, "return") \in Job
    <3>1. "return" \in {"idle", "set", "try", "refill", "swap", "add", "retry", "return", "restore"}
      OBVIOUS
    <3> QED BY <1>1, <3>1, GoToJob, Zenon
  <2> DEFINE k == Step(j, "return", j.bucket, j.now, j.last, j.add, j.ok)
  <2>8. k.pc = "return" /\ k.bucket = j.bucket /\ k.tenant = j.tenant /\ k.custom = j.custom /\ k.old = j.old /\ k.new = j.new
    BY StepFields
  <2> HIDE DEF k
  <2>9. RequestRight(k, created)
    BY <1>1, <1>6, <2>8 DEF RequestRight
  <2> QED BY <2>1, <2>9 DEF k, GoTo
<1>7. ASSUME NEW ok \in BOOLEAN
      PROVE  /\ j.pc # "idle" => FinishTo(j, ok) \in Job /\ RequestRight(FinishTo(j, ok), created)
             /\ FinishTo(j, ok).pc \in {"idle", "restore"}
  <2>1. Step(j, "restore", j.bucket, j.now, j.last, j.add, ok) \in Job
    BY <1>1, <1>10, JobTypes
  <2> DEFINE k == Step(j, "restore", j.bucket, j.now, j.last, j.add, ok)
  <2>8. k.pc = "restore" /\ k.bucket = j.bucket /\ k.tenant = j.tenant
        /\ k.custom = j.custom /\ k.old = j.old /\ k.new = j.new
    BY StepFields
  <2> HIDE DEF k
  <2>2. CASE j.custom
    <3>1. j.pc # "idle" => RequestRight(k, created)
      BY <1>1, <2>2, <2>8 DEF RequestRight
    <3>2. FinishTo(j, ok) = k
      BY <2>2 DEF FinishTo, k
    <3> QED BY <2>1, <2>8, <3>1, <3>2 DEF k
  <2>3. CASE ~j.custom
    BY <1>3, <2>3 DEF FinishTo
  <2> QED BY <2>2, <2>3
<1>8. /\ j.pc # "idle" /\ j.pc # "set" => TakeTo(j) \in Job /\ RequestRight(TakeTo(j), created)
      /\ TakeTo(j).pc \in {"idle", "restore", "try"}
  <2>1. Step(j, "try", Global, j.now, j.last, j.add, j.ok) \in Job
    BY <1>1, <1>10, <1>2, JobTypes
  <2>2. CASE j.bucket = Global
    BY <1>7, <2>2 DEF TakeTo
  <2> DEFINE k == Step(j, "try", Global, j.now, j.last, j.add, j.ok)
  <2>8. k.pc = "try" /\ k.bucket = Global /\ k.tenant = j.tenant
        /\ k.custom = j.custom /\ k.old = j.old /\ k.new = j.new
    BY StepFields
  <2> HIDE DEF k
  <2>3. CASE j.bucket # Global
    <3>1. j.pc # "idle" => RequestRight(k, created)
      BY <1>1, <2>3, <2>8 DEF RequestRight
    <3>2. TakeTo(j) = k
      BY <2>3 DEF TakeTo, k
    <3> QED BY <2>1, <2>8, <3>1, <3>2 DEF k
  <2> QED BY <2>2, <2>3
<1>9. /\ j.pc # "idle" => RefilledTo(r, j) \in Job /\ RequestRight(RefilledTo(r, j), created)
      /\ RefilledTo(r, j).pc \in {"idle", "retry"}
  <2>1. Step(j, "retry", j.bucket, 0, 0, 0, j.ok) \in Job
    BY <1>1, <1>10, JobTypes
  <2>2. RefilledTo(r, j) = Step(j, "retry", j.bucket, 0, 0, 0, j.ok)
    BY <1>0 DEF RefilledTo
  <2> DEFINE k == Step(j, "retry", j.bucket, 0, 0, 0, j.ok)
  <2>8. k.pc = "retry" /\ k.bucket = j.bucket /\ k.tenant = j.tenant
        /\ k.custom = j.custom /\ k.old = j.old /\ k.new = j.new
    BY StepFields
  <2> HIDE DEF k
  <2>9. j.pc # "idle" => RequestRight(k, created)
    BY <1>1, <2>8 DEF RequestRight
  <2> QED BY <2>1, <2>2, <2>8, <2>9 DEF k
<1> QED BY <1>1, <1>3, <1>4, <1>5, <1>6, <1>7, <1>8, <1>9

LEMMA TypesOf ==
  ASSUME TypeInv
  PROVE  /\ TypeOK /\ JobsRight /\ LimitsRight /\ job \in [Threads -> Job]
         /\ tokens \in [Buckets -> Nat] /\ limit \in [Buckets -> Nat]
         /\ lastRefill \in [Buckets -> 0..clock] /\ granted \in [Buckets -> Nat]
         /\ clock \in 0..MaxClock /\ clock \in Nat
         /\ \A b \in Buckets : limit[b] \in Limits(b)
BY SMT DEF TypeInv, TypeOK, LimitsRight

LEMMA TypedTime ==
  ASSUME LimiterAssumption, TypeInv, TimePasses
  PROVE  TypeInv'
<1>1. /\ TypeOK /\ JobsRight /\ LimitsRight /\ job \in [Threads -> Job]
      /\ tokens \in [Buckets -> Nat] /\ limit \in [Buckets -> Nat]
      /\ lastRefill \in [Buckets -> 0..clock] /\ granted \in [Buckets -> Nat]
      /\ clock \in 0..MaxClock /\ clock \in Nat
      /\ \A b \in Buckets : limit[b] \in Limits(b)
  BY TypesOf
<1>2. clock' \in 0..MaxClock /\ \A n \in 0..clock : n \in 0..clock'
  BY <1>1, SMT DEF TimePasses, LimiterAssumption
<1>3. /\ tokens' = tokens /\ limit' = limit /\ lastRefill' = lastRefill /\ granted' = granted
      /\ job' = job /\ created' = created /\ todo' = todo
      /\ backpressure' = backpressure /\ overlapped' = overlapped /\ clock' = clock + 1
  BY DEF TimePasses, bucketVars, historyVars
<1>4. lastRefill' \in [Buckets -> 0..clock']
  BY <1>1, <1>2, <1>3
<1>5. \A p \in Threads : JobRight(p, job[p], created)'
  <2> SUFFICES ASSUME NEW p \in Threads PROVE JobRight(p, job[p], created)'
    OBVIOUS
  <2>1. JobRight(p, job[p], created) /\ job[p].now \in Nat
    BY <1>1 DEF JobsRight, Job
  <2>2. job[p].now <= clock => job[p].now <= clock + 1
    BY <1>1, <2>1, SMT
  <2> QED BY <1>3, <2>1, <2>2, Zenon DEF JobRight, RequestRight, TickerRight
<1>6. JobsRight'
  BY <1>1, <1>3, <1>5 DEF JobsRight
<1>7. created' \subseteq Buckets /\ todo' \subseteq Buckets /\ overlapped' \subseteq Tenants
  BY <1>1, <1>3 DEF TypeOK
<1> QED BY <1>1, <1>2, <1>3, <1>4, <1>6, <1>7, Typed

LEMMA TypedAllow ==
  ASSUME LimiterAssumption, TypeInv, NEW r \in Requests, NEW t \in Tenants, Allow(r, t)
  PROVE  TypeInv'
<1> DEFINE k == Asking(t, "try", FALSE, 0, 0)
<1>1. GetTenantBucket(t) /\ Moved(r, k) /\ UNCHANGED <<backpressure, clock, limit, todo, granted, overlapped>>
  BY DEF Allow, Moved, historyVars
<1>2. k \in Job
  BY JobTypes
<1>3. k.pc = "try" /\ k.tenant = t /\ k.bucket = t /\ ~k.custom
  BY DEF Asking
<1> HIDE DEF k
<1>4. t \in created'
  BY <1>1 DEF GetTenantBucket
<1>5. RequestRight(k, created') /\ k.pc # "swap"
  BY <1>3, <1>4 DEF RequestRight
<1>6. overlapped' \subseteq Tenants
  BY <1>1 DEF TypeInv, TypeOK
<1> QED BY <1>1, <1>2, <1>5, <1>6, TypedCreate

LEMMA LimitIs ==
  ASSUME LimiterAssumption, TypeInv, NEW t \in Tenants
  PROVE  limit[t] \in TenantLimits /\ limit[t] \in Nat
<1>1. t \in Buckets /\ t # Global
  BY ThreadsAre
<1>2. limit[t] \in Limits(t)
  BY <1>1, TypesOf
<1> QED BY <1>1, <1>2 DEF Limits, TenantLimits, LimiterAssumption

LEMMA TypedCustom ==
  ASSUME LimiterAssumption, TypeInv,
         NEW r \in Requests, NEW t \in Tenants, NEW n \in Adaptive, AllowWithLimit(r, t, n)
  PROVE  TypeInv'
<1> DEFINE k == Asking(t, "set", TRUE, limit[t], n)
<1>1. limit[t] \in TenantLimits /\ n \in TenantLimits /\ limit[t] \in Nat /\ n \in Nat /\ backpressure
  BY LimitIs DEF AllowWithLimit, TenantLimits, LimiterAssumption
<1>2. GetTenantBucket(t) /\ Moved(r, k) /\ UNCHANGED <<backpressure, clock, limit, todo, granted>>
  BY DEF AllowWithLimit, Moved
<1>3. k \in Job
  BY <1>1, JobTypes
<1>4. k.pc = "set" /\ k.tenant = t /\ k.bucket = t /\ k.custom /\ k.old = limit[t] /\ k.new = n
  BY DEF Asking
<1> HIDE DEF k
<1>5. t \in created'
  BY <1>2 DEF GetTenantBucket
<1>6. RequestRight(k, created') /\ k.pc # "swap"
  BY <1>1, <1>4, <1>5 DEF RequestRight
<1>7. overlapped' \subseteq Tenants
  BY DEF TypeInv, TypeOK, AllowWithLimit
<1> QED BY <1>2, <1>3, <1>6, <1>7, TypedCreate

LEMMA TypedLimit ==
  ASSUME LimiterAssumption, TypeInv, NEW r \in Requests, SetLimit(r) \/ RestoreLimit(r)
  PROVE  TypeInv'
<1> DEFINE j == job[r]
           n == IF SetLimit(r) THEN j.new ELSE j.old
<1>1. /\ TypeOK /\ JobsRight /\ LimitsRight /\ job \in [Threads -> Job]
      /\ tokens \in [Buckets -> Nat] /\ limit \in [Buckets -> Nat]
      /\ lastRefill \in [Buckets -> 0..clock] /\ granted \in [Buckets -> Nat]
      /\ clock \in 0..MaxClock /\ clock \in Nat
      /\ \A b \in Buckets : limit[b] \in Limits(b)
  BY TypesOf
<1>2. r \in Threads /\ r # Ticker
  BY ThreadsAre
<1>3. /\ j \in Job /\ RequestRight(j, created) /\ Idle \in Job /\ RequestRight(Idle, created)
      /\ j.pc # "idle" => RequestRight(Asking(j.tenant, "try", FALSE, 0, 0), created)
                          /\ Asking(j.tenant, "try", FALSE, 0, 0) \in Job
      /\ j.pc = "set" => GoTo(j, "try") \in Job /\ RequestRight(GoTo(j, "try"), created)
      /\ Idle.pc = "idle"
  BY JobsTo
<1>4. j.pc \in {"set", "restore"}
  BY DEF SetLimit, RestoreLimit, At
<1>5. j.custom /\ backpressure /\ j.tenant \in Tenants /\ j.old \in TenantLimits /\ j.new \in TenantLimits
  BY <1>3, <1>4 DEF RequestRight
<1>6. n \in TenantLimits /\ n \in Nat /\ limit' = [limit EXCEPT ![j.tenant] = n]
  BY <1>5 DEF SetLimit, RestoreLimit, At, LimiterAssumption, TenantLimits
<1>7. j.tenant \in Buckets /\ j.tenant # Global
  BY <1>5, ThreadsAre
<1>8. limit' \in [Buckets -> Nat] /\ \A b \in Buckets : limit'[b] \in Limits(b)
  BY <1>1, <1>5, <1>6, <1>7 DEF Limits
<1>9. /\ UNCHANGED <<backpressure, clock, created, overlapped>> /\ todo' \subseteq todo
      /\ tokens' = tokens /\ lastRefill' = lastRefill /\ granted' = granted
  BY DEF SetLimit, RestoreLimit, historyVars
<1>10. CASE SetLimit(r)
  <2>1. Moved(r, GoTo(j, "try")) /\ j.pc = "set"
    BY <1>1, <1>2, <1>10, JobHelpers DEF SetLimit, At
  <2>2. GoTo(j, "try").pc = "try"
    BY StepFields DEF GoTo
  <2>3. JobRight(r, GoTo(j, "try"), created)
    BY <1>2, <1>3, <2>1, <2>2 DEF JobRight
  <2> QED BY <1>1, <1>2, <1>3, <1>8, <1>9, <2>1, <2>3, TypedMove
<1>11. CASE RestoreLimit(r)
  <2>1. PICK k \in {Idle, Asking(j.tenant, "try", FALSE, 0, 0)} : Moved(r, k)
    BY <1>11 DEF RestoreLimit, AfterCustom, Moved
  <2>2. k.pc \in {"idle", "try"}
    BY <1>3 DEF Asking
  <2>3. k \in Job /\ JobRight(r, k, created)
    BY <1>2, <1>3, <1>4, <2>2 DEF JobRight
  <2> QED BY <1>1, <1>2, <1>8, <1>9, <2>1, <2>3, TypedMove
<1> QED BY <1>10, <1>11

(* The steps of Allow itself, but refill's.                                *)
LEMMA TypedConsume ==
  ASSUME LimiterAssumption, TypeInv, NEW r \in Requests,
         TryConsume(r) \/ TryAgain(r) \/ LoseSwap(r) \/ ReturnToken(r)
  PROVE  TypeInv'
<1> DEFINE j == job[r]
<1>1. /\ TypeOK /\ JobsRight /\ LimitsRight /\ job \in [Threads -> Job]
      /\ tokens \in [Buckets -> Nat] /\ limit \in [Buckets -> Nat]
      /\ lastRefill \in [Buckets -> 0..clock] /\ granted \in [Buckets -> Nat]
      /\ clock \in 0..MaxClock /\ clock \in Nat
      /\ \A b \in Buckets : limit[b] \in Limits(b)
  BY TypesOf
<1>2. r \in Threads /\ r # Ticker
  BY ThreadsAre
<1>3. /\ j \in Job /\ RequestRight(j, created)
      /\ \A pc \in {"try", "refill", "retry"} : j.pc \in {"set", "try", "refill", "retry"}
           => GoTo(j, pc) \in Job /\ RequestRight(GoTo(j, pc), created)
      /\ j.pc = "retry" /\ j.bucket = Global
           => GoTo(j, "return") \in Job /\ RequestRight(GoTo(j, "return"), created)
      /\ \A ok \in BOOLEAN : j.pc # "idle"
           => FinishTo(j, ok) \in Job /\ RequestRight(FinishTo(j, ok), created)
      /\ j.pc # "idle" /\ j.pc # "set" => TakeTo(j) \in Job /\ RequestRight(TakeTo(j), created)
      /\ \A ok \in BOOLEAN : FinishTo(j, ok).pc \in {"idle", "restore"}
      /\ TakeTo(j).pc \in {"idle", "restore", "try"}
  BY JobsTo
<1>4. \A pc : GoTo(j, pc).pc = pc
  BY StepFields DEF GoTo
<1>5. j.pc \in {"try", "retry", "return"}
  BY DEF TryConsume, TryAgain, LoseSwap, ReturnToken, At
<1>6. /\ UNCHANGED <<backpressure, clock, created, overlapped>> /\ todo' \subseteq todo
      /\ limit' = limit /\ lastRefill' = lastRefill
  BY DEF TryConsume, TryAgain, LoseSwap, ReturnToken, bucketVars, historyVars
<1> DEFINE Right == \E k \in Job : Moved(r, k) /\ RequestRight(k, created) /\ k.pc # "swap"
<1>7. Right
  <2>1. ASSUME Take(r) PROVE Right
    BY <1>1, <1>2, <1>3, <1>5, <2>1, JobHelpers
  <2>2. ASSUME Goto(r, "refill"), j.pc = "try" PROVE Right
    BY <1>1, <1>2, <1>3, <1>4, <2>2, JobHelpers
  <2>3. ASSUME Goto(r, "try"), j.pc = "retry" PROVE Right
    BY <1>1, <1>2, <1>3, <1>4, <2>3, JobHelpers
  <2>4. ASSUME Goto(r, "return"), j.pc = "retry", j.bucket = Global PROVE Right
    BY <1>1, <1>2, <1>3, <1>4, <2>4, JobHelpers
  <2>5. ASSUME Finish(r, FALSE) PROVE Right
    BY <1>1, <1>2, <1>3, <1>5, <2>5, JobHelpers
  <2>6. CASE TryConsume(r)
    BY <2>1, <2>2, <2>6 DEF TryConsume, At
  <2>7. CASE TryAgain(r)
    BY <2>1, <2>4, <2>5, <2>7 DEF TryAgain, At
  <2>8. CASE LoseSwap(r)
    BY <2>3, <2>8 DEF LoseSwap, At
  <2>9. CASE ReturnToken(r)
    BY <2>5, <2>9 DEF ReturnToken
  <2> QED BY <2>6, <2>7, <2>8, <2>9
<1>8. PICK k \in Job : Moved(r, k) /\ JobRight(r, k, created)
  BY <1>2, <1>7 DEF JobRight
<1> DEFINE Counted == tokens' \in [Buckets -> Nat] /\ granted' \in [Buckets -> Nat]
<1>9. Counted
  <2>0. j.bucket \in Buckets /\ j.tenant \in Buckets
    BY <1>3 DEF Job
  <2>1. ASSUME Take(r), HasToken(r) PROVE Counted
    <3>1. tokens[j.bucket] - 1 \in Nat
      BY <1>1, <2>0, <2>1, SMT DEF HasToken
    <3>2. tokens' \in [Buckets -> Nat]
      BY <1>1, <2>0, <2>1, <3>1 DEF Take
    <3>3. \A b \in Buckets : granted[b] + 1 \in Nat
      BY <1>1, SMT
    <3>4. \/ granted' = granted
          \/ granted' = [b \in Buckets |-> IF b \in {job[r].tenant, Global}
                                            THEN granted[b] + 1 ELSE granted[b]]
      BY <2>1, Zenon DEF Take
    <3> QED BY <1>1, <3>2, <3>3, <3>4
  <2>2. ASSUME ReturnToken(r) PROVE Counted
    <3>1. Capped(tokens[j.tenant] + 1, j.tenant) \in Nat
      BY <1>1, <2>0, SMT DEF Capped
    <3> QED BY <1>1, <2>0, <2>2, <3>1 DEF ReturnToken, historyVars
  <2>3. \/ Take(r) /\ HasToken(r)
        \/ ReturnToken(r)
        \/ tokens' = tokens /\ granted' = granted
    BY DEF TryConsume, TryAgain, LoseSwap, bucketVars, historyVars
  <2> QED BY <1>1, <2>1, <2>2, <2>3
<1> QED BY <1>1, <1>2, <1>6, <1>8, <1>9, TypedMove

(* refill's two swaps and its addition, for the ticker and for a request.  *)
LEMMA TypedRefill ==
  ASSUME LimiterAssumption, TypeInv, NEW p \in Threads, Refill(p)
  PROVE  TypeInv'
<1> DEFINE j == job[p]
           b == j.bucket
           Loaded == Step(j, "swap", b, clock, lastRefill[b], j.add, j.ok)
           add == TokensToAdd(Elapsed(p), limit[b])
           Swapped == Step(j, "add", b, j.now, j.last, add, j.ok)
<1>1. /\ TypeOK /\ JobsRight /\ LimitsRight /\ job \in [Threads -> Job]
      /\ tokens \in [Buckets -> Nat] /\ limit \in [Buckets -> Nat]
      /\ lastRefill \in [Buckets -> 0..clock] /\ granted \in [Buckets -> Nat]
      /\ clock \in 0..MaxClock /\ clock \in Nat
      /\ \A c \in Buckets : limit[c] \in Limits(c)
  BY TypesOf
<1>2. j \in Job /\ JobRight(p, j, created) /\ j.pc \in {"refill", "swap", "add"}
  BY <1>1 DEF JobsRight, Refill, LoadTimes, SwapLastRefill, AddTokens, At
<1>3. /\ b \in Buckets /\ j.now \in Nat /\ j.last \in Nat /\ j.add \in Nat
      /\ j.ok \in BOOLEAN /\ j.custom \in BOOLEAN
  BY <1>2 DEF Job
<1>4. /\ UNCHANGED <<backpressure, clock, created, overlapped>> /\ todo' \subseteq todo
      /\ limit' = limit /\ granted' = granted
  BY DEF Refill, LoadTimes, SwapLastRefill, AddTokens, bucketVars, historyVars
<1>5. lastRefill[b] \in 0..clock /\ lastRefill[b] \in Nat /\ limit[b] \in Nat
  BY <1>1, <1>3, SMT
<1>6. RefilledTo(p, j) \in Job /\ JobRight(p, RefilledTo(p, j), created)
  <2>1. CASE p = Ticker
    <3>1. Idle.pc = "idle" /\ Idle.bucket = Global /\ Global \in created
      BY <1>1 DEF Idle, Asking, JobsRight
    <3> QED BY <2>1, <3>1, JobTypes DEF RefilledTo, JobRight, TickerRight
  <2>2. CASE p # Ticker
    <3>1. p \in Requests
      BY <2>2, ThreadsAre
    <3>2. /\ RefilledTo(p, j) \in Job /\ RequestRight(RefilledTo(p, j), created)
          /\ RefilledTo(p, j).pc \in {"idle", "retry"}
      BY <1>2, <3>1, JobsTo
    <3> QED BY <2>2, <3>2 DEF JobRight
  <2> QED BY <2>1, <2>2
<1>7. ASSUME NEW k \in Job, k.tenant = j.tenant, k.bucket = b, k.custom = j.custom,
             k.old = j.old, k.new = j.new, k.pc \in {"swap", "add"},
             k.pc = "swap" => k.last <= k.now /\ k.now <= clock
      PROVE  JobRight(p, k, created)
  BY <1>2, <1>7 DEF JobRight, TickerRight, RequestRight
<1>8. CASE LoadTimes(p)
  <2>1. CASE clock - lastRefill[b] <= 0
    <3>1. Moved(p, RefilledTo(p, j))
      BY <1>1, <1>8, <2>1, JobHelpers DEF LoadTimes
    <3> QED BY <1>1, <1>4, <1>6, <1>8, <3>1, TypedMove DEF LoadTimes, bucketVars
  <2>2. CASE ~(clock - lastRefill[b] <= 0)
    <3>1. job' = [job EXCEPT ![p] = [job[p] EXCEPT !.pc = "swap", !.now = clock, !.last = lastRefill[b]]]
      BY <1>8, <2>2 DEF LoadTimes
    <3>2. \A pc, x, y : [j EXCEPT !.pc = pc, !.now = x, !.last = y] = Step(j, pc, b, x, y, j.add, j.ok)
      BY <1>2, JobFields
    <3>3. [job[p] EXCEPT !.pc = "swap", !.now = clock, !.last = lastRefill[b]] = Loaded
      BY <3>2, Zenon
    <3>4. Moved(p, Loaded)
      BY <3>1, <3>3, Zenon DEF Moved
    <3>5. Loaded \in Job
      BY <1>1, <1>2, <1>3, <1>5, JobTypes
    <3>6. /\ Loaded.pc = "swap" /\ Loaded.tenant = j.tenant /\ Loaded.bucket = b
          /\ Loaded.now = clock /\ Loaded.last = lastRefill[b]
          /\ Loaded.custom = j.custom /\ Loaded.old = j.old /\ Loaded.new = j.new
      BY StepFields
    <3>7. lastRefill[b] <= clock /\ clock <= clock
      BY <1>1, <1>5, SMT
    <3> HIDE DEF Loaded
    <3>8. JobRight(p, Loaded, created)
      BY <1>7, <3>5, <3>6, <3>7
    <3> QED BY <1>1, <1>4, <1>8, <3>4, <3>5, <3>8, TypedMove DEF LoadTimes, bucketVars
  <2> QED BY <2>1, <2>2
<1>9. CASE SwapLastRefill(p)
  <2>0. tokens' = tokens
    BY <1>9 DEF SwapLastRefill
  <2>1. CASE lastRefill[b] = j.last
    <3>1. job' = [job EXCEPT ![p] = [job[p] EXCEPT !.pc = "add", !.add = add]]
          /\ lastRefill' = [lastRefill EXCEPT ![b] = j.now] /\ j.pc = "swap"
      BY <1>9, <2>1 DEF SwapLastRefill, At
    <3>a. j.last <= j.now /\ j.now <= clock
      BY <1>2, <3>1 DEF JobRight
    <3>b. add \in Nat
      <4>1. Elapsed(p) = j.now - j.last
        BY DEF Elapsed
      <4>2. limit[b] <= limit[b]
        BY <1>5, SMT
      <4> QED BY <1>3, <1>5, <3>a, <4>1, <4>2, RefillsAdd
    <3> HIDE DEF add
    <3>2. \A pc, x : [j EXCEPT !.pc = pc, !.add = x] = Step(j, pc, b, j.now, j.last, x, j.ok)
      BY <1>2, JobFields
    <3>3. [job[p] EXCEPT !.pc = "add", !.add = add] = Swapped
      BY <3>2, Zenon
    <3>4. Moved(p, Swapped)
      BY <3>1, <3>3, Zenon DEF Moved
    <3>5. Swapped \in Job
      BY <1>2, <1>3, <3>b, JobTypes
    <3>6. /\ Swapped.pc = "add" /\ Swapped.tenant = j.tenant /\ Swapped.bucket = b
          /\ Swapped.custom = j.custom /\ Swapped.old = j.old /\ Swapped.new = j.new
      BY StepFields
    <3> HIDE DEF Swapped
    <3>7. JobRight(p, Swapped, created)
      BY <1>7, <3>5, <3>6
    <3>8. lastRefill' \in [Buckets -> 0..clock']
      <4>1. j.now \in 0..clock
        BY <1>1, <1>3, <3>a, SMT
      <4> QED BY <1>1, <1>4, <3>1, <4>1
    <3> QED BY <1>1, <1>4, <2>0, <3>4, <3>5, <3>7, <3>8, TypedMove
  <2>2. CASE lastRefill[b] # j.last
    <3>1. Moved(p, RefilledTo(p, j)) /\ lastRefill' = lastRefill
      BY <1>1, <1>9, <2>2, JobHelpers DEF SwapLastRefill
    <3> QED BY <1>1, <1>4, <1>6, <2>0, <3>1, TypedMove
  <2> QED BY <2>1, <2>2
<1>10. CASE AddTokens(p)
  <2>1. Moved(p, RefilledTo(p, j)) /\ lastRefill' = lastRefill
    BY <1>1, <1>10, JobHelpers DEF AddTokens
  <2>2. (IF j.add > 0 THEN Capped(tokens[b] + j.add, b) ELSE tokens[b]) \in Nat
    BY <1>1, <1>3, <1>5, SMT DEF Capped
  <2>3. tokens' \in [Buckets -> Nat]
    BY <1>1, <1>3, <1>10, <2>2 DEF AddTokens
  <2> QED BY <1>1, <1>4, <1>6, <2>1, <2>3, TypedMove
<1> QED BY <1>8, <1>9, <1>10 DEF Refill

LEMMA TypedTicker ==
  ASSUME LimiterAssumption, TypeInv, Tick \/ \E b \in Buckets : NextBucket(b)
  PROVE  TypeInv'
<1> DEFINE j == job[Ticker]
<1>1. /\ TypeOK /\ JobsRight /\ LimitsRight /\ job \in [Threads -> Job]
      /\ tokens \in [Buckets -> Nat] /\ limit \in [Buckets -> Nat]
      /\ lastRefill \in [Buckets -> 0..clock] /\ granted \in [Buckets -> Nat]
      /\ clock \in 0..MaxClock /\ clock \in Nat
      /\ \A c \in Buckets : limit[c] \in Limits(c)
  BY TypesOf
<1>2. CASE Tick
  <2>1. /\ job' = job /\ created' = created /\ todo' = created /\ clock' = clock
        /\ backpressure' = backpressure /\ tokens' = tokens /\ limit' = limit
        /\ lastRefill' = lastRefill /\ granted' = granted /\ overlapped' = overlapped
    BY <1>2 DEF Tick, bucketVars, historyVars
  <2>2. \A p \in Threads : JobRight(p, job[p], created)'
    BY <1>1, <2>1, Zenon DEF JobsRight, JobRight, RequestRight, TickerRight
  <2>3. JobsRight'
    BY <1>1, <2>1, <2>2 DEF JobsRight
  <2>4. created' \subseteq Buckets /\ overlapped' \subseteq Tenants
    BY <1>1, <2>1 DEF TypeOK
  <2> QED BY <1>1, <2>1, <2>3, <2>4, Typed
<1>3. ASSUME NEW b \in Buckets, NextBucket(b) PROVE TypeInv'
  <2> DEFINE k == Step(j, "refill", b, j.now, j.last, j.add, j.ok)
  <2>1. Ticker \in Threads /\ j \in Job /\ b \in created
    BY <1>1, <1>3, ThreadsAre DEF NextBucket, JobsRight
  <2>2. j.now \in Nat /\ j.last \in Nat /\ j.add \in Nat /\ j.ok \in BOOLEAN
    BY <2>1 DEF Job
  <2>3. job' = [job EXCEPT ![Ticker] = [job[Ticker] EXCEPT !.pc = "refill", !.bucket = b]]
    BY <1>3 DEF NextBucket
  <2>4. \A pc, c : [j EXCEPT !.pc = pc, !.bucket = c] = Step(j, pc, c, j.now, j.last, j.add, j.ok)
    BY <2>1, JobFields
  <2>5. [job[Ticker] EXCEPT !.pc = "refill", !.bucket = b] = k
    BY <2>4, Zenon
  <2>6. Moved(Ticker, k)
    BY <2>3, <2>5, Zenon DEF Moved
  <2>7. k \in Job
    BY <2>1, <2>2, JobTypes
  <2>8. k.pc = "refill" /\ k.bucket = b
    BY StepFields
  <2> HIDE DEF k
  <2>9. JobRight(Ticker, k, created)
    BY <2>1, <2>8 DEF JobRight, TickerRight
  <2> QED BY <1>1, <1>3, <2>1, <2>6, <2>7, <2>9, TypedMove DEF NextBucket, bucketVars, historyVars
<1> QED BY <1>2, <1>3

LEMMA TypedStep ==
  ASSUME LimiterAssumption, TypeInv, [Next]_vars
  PROVE  TypeInv'
<1>1. CASE UNCHANGED vars
  BY <1>1, Zenon DEF vars, bucketVars, historyVars, TypeInv, TypeOK, JobsRight, LimitsRight, Limits,
     JobRight, RequestRight, TickerRight
<1>2. ASSUME NEW r \in Requests, Request(r) PROVE TypeInv'
  BY <1>2, TypedAllow, TypedCustom, TypedLimit, TypedConsume DEF Request
<1>3. ASSUME NEW p \in Threads, Refill(p) PROVE TypeInv'
  BY <1>3, TypedRefill
<1> QED BY <1>1, <1>2, <1>3, TypedTime, TypedTicker DEF Next

LEMMA TypedInit ==
  ASSUME LimiterAssumption, Init
  PROVE  TypeInv
<1>1. Idle \in Job /\ Idle.pc = "idle" /\ Idle.tenant = Global /\ Idle.bucket = Global /\ ~Idle.custom
  BY JobTypes DEF Idle, Asking
<1>2. \A p \in Threads : job[p] = Idle
  BY DEF Init
<1>3. Global \in Buckets /\ created = {Global} /\ todo = {}
  BY ThreadsAre DEF Init
<1>4. JobsRight
  BY <1>1, <1>2, <1>3 DEF JobsRight, JobRight, RequestRight, TickerRight
<1>5. 0 \in 0..MaxClock /\ 0 \in 0..0 /\ clock = 0
  BY SMT DEF LimiterAssumption, Init
<1>6. TypeOK
  BY <1>1, <1>3, <1>5 DEF TypeOK, Init, LimiterAssumption
<1>7. LimitsRight
  BY DEF LimitsRight, Limits, Init, TenantLimits
<1> QED BY <1>4, <1>6, <1>7 DEF TypeInv

(* Type correctness: no bucket is ever overdrawn, whichever thread takes   *)
(* the last token (hierarchical.go TryConsume).                            *)
THEOREM TypeCorrect ==
  ASSUME LimiterAssumption PROVE Spec => []TypeOK
<1>1. Init => TypeInv
  BY TypedInit
<1>2. TypeInv /\ [Next]_vars => TypeInv'
  BY TypedStep
<1>3. TypeInv => TypeOK
  BY DEF TypeInv
<1> QED BY <1>1, <1>2, <1>3, PTL DEF Spec

-----------------------------------------------------------------------------
(* What a thread's step does to the tokens it holds.                       *)
LEMMA DueNat ==
  ASSUME NEW j \in Job, NEW p, NEW b
  PROVE  Due(p, j, b) \in Nat
<1>1. j.add \in Nat
  BY DEF Job
<1>2. Held(j, b) \in Nat
  BY SMT DEF Held
<1>3. Adding(j, b) \in Nat
  BY <1>1 DEF Adding
<1> QED BY <1>2, <1>3, SMT DEF Due

LEMMA DueNone ==
  ASSUME NEW j \in Job, NEW r, NEW b, j.pc # "add", ~SecondTime(j), ~(Passing(j) /\ j.bucket = Global)
  PROVE  Due(r, j, b) = 0
BY SMT DEF Due, Held, Adding

LEMMA DueKept ==
  ASSUME NEW j \in Job, NEW k \in Job, NEW p, NEW b,
         k.tenant = j.tenant, k.bucket = j.bucket, k.custom = j.custom,
         j.pc # "add", k.pc # "add", p = Ticker \/ (Passing(j) /\ Passing(k))
  PROVE  Due(p, k, b) = Due(p, j, b)
<1>1. Adding(j, b) = 0 /\ Adding(k, b) = 0
  BY DEF Adding
<1>2. CASE p = Ticker
  BY <1>1, <1>2 DEF Due
<1>3. CASE Passing(j) /\ Passing(k)
  <2>1. SecondTime(j) <=> SecondTime(k)
    <3>1. j.pc # "restore" /\ k.pc # "restore"
      BY <1>3 DEF Passing
    <3> QED BY <1>3, <3>1 DEF SecondTime
  <2>2. Held(j, b) = Held(k, b)
    BY <1>3, <2>1 DEF Held
  <2> QED BY <1>1, <2>2 DEF Due
<1> QED BY <1>2, <1>3

(* A refill takes the tokens for the time, and puts them in.               *)
LEMMA DueAdding ==
  ASSUME NEW j \in Job, NEW k \in Job, NEW p, NEW b,
         k.tenant = j.tenant, k.bucket = j.bucket, k.custom = j.custom,
         j.pc # "add", k.pc = "add", p = Ticker \/ (Passing(j) /\ Passing(k))
  PROVE  Due(p, k, b) = Due(p, j, b) + (IF b = j.bucket THEN k.add ELSE 0)
<1>1. Adding(j, b) = 0 /\ Adding(k, b) = (IF b = j.bucket THEN k.add ELSE 0) /\ k.add \in Nat
  BY DEF Adding, Job
<1>2. CASE p = Ticker
  BY <1>1, <1>2, SMT DEF Due
<1>3. CASE Passing(j) /\ Passing(k)
  <2>1. SecondTime(j) <=> SecondTime(k)
    <3>1. j.pc # "restore" /\ k.pc # "restore"
      BY <1>3 DEF Passing
    <3> QED BY <1>3, <3>1 DEF SecondTime
  <2>2. Held(j, b) = Held(k, b) /\ Held(j, b) \in Nat
    BY <1>3, <2>1 DEF Held
  <2> QED BY <1>1, <2>2, SMT DEF Due
<1> QED BY <1>2, <1>3

(* A token taken: the tenant's, when the global bucket is to be asked; the *)
(* global one, when AllowWithLimit has both.                               *)
LEMMA DueAsked ==
  ASSUME NEW j \in Job, NEW k \in Job, NEW r, r # Ticker, NEW b,
         j.tenant # Global, k.tenant = j.tenant, k.custom = j.custom, Passing(j), j.pc # "add",
         j.bucket = j.tenant, k.bucket = Global, k.pc = "try"
  PROVE  Due(r, k, b) = Due(r, j, b) + (IF b = j.bucket THEN 1 ELSE 0)
<1>1. Adding(j, b) = 0 /\ Adding(k, b) = 0
  BY DEF Adding
<1>2. j.pc # "restore" /\ Passing(k)
  BY DEF Passing
<1>3. SecondTime(j) <=> SecondTime(k)
  BY <1>2 DEF SecondTime
<1>4. Held(k, b) = Held(j, b) + (IF b = j.bucket THEN 1 ELSE 0) /\ Held(j, b) \in Nat
  BY <1>2, <1>3, SMT DEF Held
<1> QED BY <1>1, <1>4, SMT DEF Due

LEMMA DueGranted ==
  ASSUME NEW j \in Job, NEW k \in Job, NEW r, r # Ticker, NEW b,
         j.tenant # Global, k.tenant = j.tenant, j.custom, k.custom, Passing(j), j.pc # "add",
         j.bucket = Global, k.pc = "restore", k.ok, backpressure
  PROVE  Due(r, k, b) = Due(r, j, b) + (IF b = j.bucket THEN 1 ELSE 0)
<1>1. Adding(j, b) = 0 /\ Adding(k, b) = 0
  BY DEF Adding
<1>2. j.pc # "restore" /\ ~Passing(k) /\ SecondTime(k) /\ ~SecondTime(j)
  BY DEF Passing, SecondTime
<1>3. Held(k, b) = Held(j, b) + (IF b = j.bucket THEN 1 ELSE 0) /\ Held(j, b) \in Nat
  BY <1>2, SMT DEF Held
<1> QED BY <1>1, <1>3, SMT DEF Due

(* The request has passed the global bucket and Handle: all it held, and   *)
(* the last token, is its cost.                                            *)
LEMMA DueSpent ==
  ASSUME NEW j \in Job, NEW r, r # Ticker, NEW b,
         j.tenant # Global, Passing(j), j.pc # "add", ~j.custom, j.bucket = Global
  PROVE  Due(r, j, b) + (IF b = Global THEN 1 ELSE 0) = IF b \in {j.tenant, Global} THEN Cost ELSE 0
<1>1. Adding(j, b) = 0
  BY DEF Adding
<1>2. SecondTime(j) <=> backpressure
  BY DEF SecondTime
<1>3. Held(j, b) + (IF b = Global THEN 1 ELSE 0) = (IF b \in {j.tenant, Global} THEN Cost ELSE 0)
      /\ Held(j, b) \in Nat
  BY <1>2, SMT DEF Held, Cost
<1> QED BY <1>1, <1>3, SMT DEF Due

LEMMA OwedMove ==
  ASSUME LimiterAssumption, job \in [Threads -> Job], NEW q \in Threads, NEW k \in Job, Moved(q, k),
         backpressure' = backpressure, NEW b
  PROVE  /\ Cardinality(Owed(b)) \in Nat /\ Cardinality(Owed(b))' \in Nat
         /\ Cardinality(Owed(b))' + Due(q, job[q], b) = Cardinality(Owed(b)) + Due(q, k, b)
<1> DEFINE f == [p \in Threads |-> Due(p, job[p], b)]
           g == [p \in Threads |-> Due(p, job'[p], b)]
<1>1. job' \in [Threads -> Job] /\ job'[q] = k /\ \A p \in Threads \ {q} : job'[p] = job[p]
  BY DEF Moved
<1>2. f \in [Threads -> Nat] /\ g \in [Threads -> Nat]
  BY <1>1, DueNat
<1>3. \A p \in Threads \ {q} : g[p] = f[p]
  BY <1>1
<1>4. Owed(b) = Pile(f)
  BY DEF Owed
<1>6. \A p \in Threads : Due(p, job[p], b)' = Due(p, job'[p], b)
  BY DEF Due, Held, SecondTime, Passing, Adding
<1>7. Owed(b)' = Pile([p \in Threads |-> Due(p, job[p], b)'])
  BY DEF Owed, Pile
<1>8. Owed(b)' = Pile(g)
  BY <1>6, <1>7
<1>9. f[q] = Due(q, job[q], b) /\ g[q] = Due(q, k, b)
  BY <1>1
<1> HIDE DEF f, g
<1> QED BY <1>2, <1>3, <1>4, <1>8, <1>9, PileMove

-----------------------------------------------------------------------------
(* The account of one bucket, step by step.                                *)
LEMMA TopIs ==
  ASSUME LimiterAssumption, TypeInv, NEW b \in Buckets
  PROVE  /\ TopLimit(b) \in Nat /\ InitialTokens(b) \in Nat /\ InitialTokens(b) <= TopLimit(b)
         /\ limit[b] \in Nat /\ limit[b] <= TopLimit(b)
         /\ Cost \in {1, 2}
<1>1. PICK top \in TenantLimits : \A m \in TenantLimits : m <= top
  BY DEF LimiterAssumption
<1>2. \A m \in TenantLimits : m \in Nat
  BY DEF LimiterAssumption, TenantLimits
<1>3. Max(TenantLimits) \in TenantLimits /\ \A m \in TenantLimits : Max(TenantLimits) >= m
  <2>1. \E x \in TenantLimits : \A m \in TenantLimits : x >= m
    BY <1>1, <1>2, SMT
  <2> QED BY <2>1 DEF Max
<1> DEFINE highest == Max(TenantLimits)
<1>4. highest \in Nat /\ \A m \in TenantLimits : m <= highest
  BY <1>2, <1>3, SMT
<1> HIDE DEF highest
<1>5. TenantLimit \in TenantLimits /\ TenantLimit \in Nat /\ GlobalLimit \in Nat
  BY <1>2 DEF TenantLimits, LimiterAssumption
<1>6. limit[b] \in Nat /\ limit[b] \in Limits(b)
  BY TypesOf
<1>7. TopLimit(b) = IF b = Global THEN GlobalLimit ELSE IF backpressure THEN highest ELSE TenantLimit
  BY DEF TopLimit, highest
<1>8. TopLimit(b) \in Nat
  BY <1>4, <1>5, <1>7
<1>9. InitialTokens(b) \in Nat /\ InitialTokens(b) <= TopLimit(b)
  BY <1>4, <1>5, <1>7, SMT DEF InitialTokens
<1>10. limit[b] <= TopLimit(b)
  BY <1>4, <1>5, <1>6, <1>7, SMT DEF Limits
<1> QED BY <1>6, <1>8, <1>9, <1>10 DEF Cost

(* It is enough that one thread's tokens and the bucket's agree.           *)
LEMMA BalanceMove ==
  ASSUME LimiterAssumption, TypeInv, TypeInv', NEW q \in Threads, NEW k \in Job, Moved(q, k),
         backpressure' = backpressure, NEW b \in Buckets, Balance(b),
         lastRefill' = lastRefill,
         tokens'[b] + Cost * granted'[b] + Due(q, k, b)
           <= tokens[b] + Cost * granted[b] + Due(q, job[q], b)
  PROVE  Balance(b)'
<1>1. /\ tokens[b] \in Nat /\ tokens'[b] \in Nat /\ granted[b] \in Nat /\ granted'[b] \in Nat
      /\ job \in [Threads -> Job] /\ job[q] \in Job
  BY DEF TypeInv, TypeOK
<1> DEFINE owed == Cardinality(Owed(b))
           owed1 == Cardinality(Owed(b))'
           d == Due(q, job[q], b)
           d1 == Due(q, k, b)
           e == Earned(b)
           x == Cost * granted[b]
           x1 == Cost * granted'[b]
<1>2. owed \in Nat /\ owed1 \in Nat /\ owed1 + d = owed + d1
  BY <1>1, OwedMove
<1>3. d \in Nat /\ d1 \in Nat
  BY <1>1, DueNat
<1>4. x \in Nat /\ x1 \in Nat
  BY <1>1, TopIs, SMT
<1>5. e \in Nat
  <2>1. lastRefill[b] \in 0..clock /\ clock \in Nat
    BY TypesOf
  <2>2. lastRefill[b] \in Nat /\ lastRefill[b] <= lastRefill[b]
    BY <2>1, SMT
  <2>3. TokensToAdd(lastRefill[b], TopLimit(b)) \in Nat /\ InitialTokens(b) \in Nat
    BY <2>2, TopIs, RefillsGrow
  <2> QED BY <2>3, SMT DEF Earned
<1>6. tokens[b] + x + owed <= e
  BY DEF Balance
<1>7. tokens'[b] + x1 + d1 <= tokens[b] + x + d
  OBVIOUS
<1>8. e = Earned(b)' /\ x1 = (Cost * granted[b])'
  BY DEF Earned, TopLimit, InitialTokens, TokensToAdd, Cost
<1> HIDE DEF owed, owed1, d, d1, e, x, x1
<1>9. tokens'[b] + x1 + owed1 <= e
  BY <1>1, <1>2, <1>3, <1>4, <1>5, <1>6, <1>7, SMT
<1> QED BY <1>8, <1>9 DEF Balance, owed1

LEMMA BalancedMove ==
  ASSUME LimiterAssumption, TypeInv, TypeInv', Balanced,
         NEW q \in Threads, NEW k \in Job, Moved(q, k),
         UNCHANGED <<backpressure, created, lastRefill>>,
         \A b \in created : tokens'[b] + Cost * granted'[b] + Due(q, k, b)
                              <= tokens[b] + Cost * granted[b] + Due(q, job[q], b),
         \A b \in Buckets \ created : granted'[b] = granted[b]
  PROVE  Balanced'
<1> SUFFICES ASSUME NEW b \in Buckets PROVE (IF b \in created THEN Balance(b) ELSE granted[b] = 0)'
  BY DEF Balanced
<1>1. IF b \in created THEN Balance(b) ELSE granted[b] = 0
  BY DEF Balanced
<1>2. CASE b \in created
  <2>1. Balance(b)'
    BY <1>1, <1>2, BalanceMove
  <2> QED BY <1>2, <2>1
<1>3. CASE b \notin created
  BY <1>1, <1>3
<1> QED BY <1>2, <1>3

LEMMA BalancedSame ==
  ASSUME Balanced, UNCHANGED <<backpressure, created, tokens, granted, lastRefill, job>>
  PROVE  Balanced'
<1>1. \A b \in Buckets : Owed(b)' = Owed(b)
  BY DEF Owed, Pile, Due, Held, SecondTime, Passing, Adding
<1>2. \A b \in Buckets : Earned(b)' = Earned(b) /\ Cost' = Cost
  BY DEF Earned, TopLimit, InitialTokens, TokensToAdd, Cost
<1>3. \A b \in Buckets : Balance(b)' <=> Balance(b)
  BY <1>1, <1>2 DEF Balance
<1> QED BY <1>3 DEF Balanced

(* A new bucket is full, and nobody holds any of its tokens.               *)
LEMMA BalancedCreate ==
  ASSUME LimiterAssumption, TypeInv, TypeInv', Balanced, NEW r \in Requests, NEW t \in Tenants,
         At(r, "idle"), NEW k \in Job, Moved(r, k), k.pc \in {"set", "try"}, k.bucket = t, k.tenant = t,
         IF k.pc = "set" THEN k.custom ELSE ~backpressure,
         GetTenantBucket(t), backpressure' = backpressure, granted' = granted
  PROVE  Balanced'
<1>1. /\ job \in [Threads -> Job] /\ lastRefill \in [Buckets -> 0..clock] /\ clock \in Nat
      /\ tokens \in [Buckets -> Nat] /\ granted \in [Buckets -> Nat]
  BY TypesOf
<1>2. r \in Threads /\ r # Ticker /\ t \in Buckets /\ t # Global /\ Global \in created
  BY ThreadsAre DEF TypeInv, JobsRight
<1>3. \A b : Due(r, job[r], b) = 0 /\ Due(r, k, b) = 0
  <2> SUFFICES ASSUME NEW b PROVE Due(r, job[r], b) = 0 /\ Due(r, k, b) = 0
    OBVIOUS
  <2>1. job[r] \in Job /\ job[r].pc = "idle" /\ RequestRight(job[r], created)
    BY <1>1, <1>2 DEF At, TypeInv, JobsRight, JobRight
  <2>2. ~SecondTime(job[r]) /\ ~Passing(job[r])
    BY <2>1 DEF SecondTime, Passing, RequestRight
  <2>3. ~SecondTime(k) /\ k.pc # "add" /\ k.bucket # Global
    BY <1>2 DEF SecondTime
  <2> QED BY <2>1, <2>2, <2>3, DueNone
<1>4. \A b : Cardinality(Owed(b)) \in Nat /\ Cardinality(Owed(b))' = Cardinality(Owed(b))
  <2> SUFFICES ASSUME NEW b
               PROVE Cardinality(Owed(b)) \in Nat /\ Cardinality(Owed(b))' = Cardinality(Owed(b))
    OBVIOUS
  <2>1. /\ Cardinality(Owed(b)) \in Nat /\ Cardinality(Owed(b))' \in Nat
        /\ Cardinality(Owed(b))' + Due(r, job[r], b) = Cardinality(Owed(b)) + Due(r, k, b)
    BY <1>1, <1>2, OwedMove
  <2> QED BY <1>3, <2>1, SMT
<1>5. \A b \in Buckets : Cost' = Cost /\ TopLimit(b)' = TopLimit(b) /\ InitialTokens(b)' = InitialTokens(b)
  BY DEF Cost, TopLimit, InitialTokens
<1>6. ASSUME NEW b \in Buckets, b # t \/ t \in created
      PROVE  (IF b \in created THEN Balance(b) ELSE granted[b] = 0)'
  <2>1. tokens'[b] = tokens[b] /\ lastRefill'[b] = lastRefill[b] /\ (b \in created' <=> b \in created)
    BY <1>1, <1>6 DEF GetTenantBucket
  <2>2. IF b \in created THEN Balance(b) ELSE granted[b] = 0
    BY DEF Balanced
  <2>3. Earned(b)' = Earned(b)
    BY <1>5, <2>1 DEF Earned, TokensToAdd
  <2>4. Balance(b)' <=> Balance(b)
    BY <1>4, <1>5, <2>1, <2>3 DEF Balance
  <2> QED BY <2>1, <2>2, <2>4
<1>7. ASSUME t \notin created
      PROVE  (IF t \in created THEN Balance(t) ELSE granted[t] = 0)'
  <2>1. tokens'[t] = TenantLimit /\ lastRefill'[t] = clock /\ t \in created'
    BY <1>1, <1>2, <1>7 DEF GetTenantBucket
  <2>2. granted'[t] = 0
    BY <1>2, <1>7 DEF Balanced
  <2>3. \A p \in Threads : Due(p, job[p], t) = 0
    <3> SUFFICES ASSUME NEW p \in Threads PROVE Due(p, job[p], t) = 0
      OBVIOUS
    <3>1. JobRight(p, job[p], created)
      BY DEF TypeInv, JobsRight
    <3>2. CASE p = Ticker
      <4>1. job[p].bucket # t
        BY <1>7, <3>1, <3>2 DEF JobRight, TickerRight
      <4> QED BY <3>2, <4>1 DEF Due, Adding
    <3>3. CASE p # Ticker
      <4>1. job[p].tenant # t /\ job[p].bucket # t
        BY <1>2, <1>7, <3>1, <3>3 DEF JobRight, RequestRight
      <4>2. Held(job[p], t) = 0
        BY <1>2, <4>1 DEF Held
      <4>3. Adding(job[p], t) = 0
        BY <4>1 DEF Adding
      <4> QED BY <3>3, <4>2, <4>3 DEF Due
    <3> QED BY <3>2, <3>3
  <2>4. Cardinality(Owed(t)) = 0
    <3>1. [p \in Threads |-> Due(p, job[p], t)] \in [Threads -> Nat]
      BY <2>3
    <3> QED BY <2>3, <3>1, PileEmpty DEF Owed
  <2>5. Cost' * granted'[t] = 0
    <3>1. Cost' \in {1, 2}
      BY <1>2, <1>5, TopIs
    <3>2. \A c \in {1, 2} : c * 0 = 0
      BY SMT
    <3> QED BY <2>2, <3>1, <3>2
  <2>6. TokensToAdd(clock, TopLimit(t)) \in Nat /\ TenantLimit \in Nat
    <3>1. TopLimit(t) \in Nat /\ clock <= clock
      BY <1>1, <1>2, TopIs, SMT
    <3> QED BY <1>1, <3>1, RefillsGrow DEF LimiterAssumption
  <2>7. Earned(t)' = TenantLimit + TokensToAdd(clock, TopLimit(t))
    BY <1>2, <1>5, <2>1 DEF Earned, InitialTokens, TokensToAdd
  <2>8. TenantLimit + 0 + 0 <= TenantLimit + TokensToAdd(clock, TopLimit(t))
    BY <2>6, SMT
  <2>9. Balance(t)'
    BY <1>4, <2>1, <2>4, <2>5, <2>7, <2>8 DEF Balance
  <2> QED BY <2>1, <2>9
<1> QED BY <1>6, <1>7 DEF Balanced

LEMMA BalancedBegin ==
  ASSUME LimiterAssumption, TypeInv, TypeInv', Balanced, NEW r \in Requests, NEW t \in Tenants,
         Allow(r, t) \/ \E n \in Adaptive : AllowWithLimit(r, t, n)
  PROVE  Balanced'
<1>1. CASE Allow(r, t)
  <2> DEFINE k == Asking(t, "try", FALSE, 0, 0)
  <2>1. /\ GetTenantBucket(t) /\ Moved(r, k) /\ At(r, "idle") /\ ~backpressure
        /\ backpressure' = backpressure /\ granted' = granted
    BY <1>1 DEF Allow, Moved, historyVars
  <2>2. k \in Job
    BY JobTypes
  <2>3. k.pc = "try" /\ k.tenant = t /\ k.bucket = t
    BY DEF Asking
  <2> HIDE DEF k
  <2> QED BY <2>1, <2>2, <2>3, BalancedCreate
<1>2. ASSUME NEW n \in Adaptive, AllowWithLimit(r, t, n) PROVE Balanced'
  <2> DEFINE k == Asking(t, "set", TRUE, limit[t], n)
  <2>1. /\ GetTenantBucket(t) /\ Moved(r, k) /\ At(r, "idle")
        /\ backpressure' = backpressure /\ granted' = granted
    BY <1>2 DEF AllowWithLimit, Moved
  <2>2. limit[t] \in Nat /\ n \in Nat
    BY LimitIs DEF LimiterAssumption
  <2>3. k \in Job
    BY <2>2, JobTypes
  <2>4. k.pc = "set" /\ k.tenant = t /\ k.bucket = t /\ k.custom
    BY DEF Asking
  <2> HIDE DEF k
  <2> QED BY <2>1, <2>3, <2>4, BalancedCreate
<1> QED BY <1>1, <1>2

LEMMA BalancedLimit ==
  ASSUME LimiterAssumption, TypeInv, TypeInv', Balanced, NEW r \in Requests,
         SetLimit(r) \/ RestoreLimit(r)
  PROVE  Balanced'
<1> DEFINE j == job[r]
<1>1. /\ job \in [Threads -> Job] /\ tokens \in [Buckets -> Nat] /\ granted \in [Buckets -> Nat]
  BY TypesOf
<1>2. r \in Threads /\ r # Ticker
  BY ThreadsAre
<1>3. /\ j \in Job /\ RequestRight(j, created) /\ Idle \in Job
      /\ j.pc # "idle" => Asking(j.tenant, "try", FALSE, 0, 0) \in Job
      /\ j.pc = "set" => GoTo(j, "try") \in Job
      /\ Idle.pc = "idle"
  BY JobsTo
<1>4. j.pc \in {"set", "restore"} /\ UNCHANGED <<backpressure, created, lastRefill, tokens, granted>>
  BY DEF SetLimit, RestoreLimit, At, historyVars
<1>5. j.custom /\ backpressure /\ j.tenant \in Tenants /\ j.tenant # Global
  BY <1>3, <1>4, ThreadsAre DEF RequestRight
<1>6. PICK k \in Job : Moved(r, k) /\ \A b : Due(r, k, b) <= Due(r, j, b)
  <2>1. CASE SetLimit(r)
    <3> DEFINE k == GoTo(j, "try")
    <3>1. Moved(r, k) /\ j.pc = "set" /\ k \in Job
      BY <1>1, <1>2, <1>3, <2>1, JobHelpers DEF SetLimit, At
    <3>2. k.pc = "try" /\ k.bucket = j.bucket /\ k.custom = j.custom
      BY StepFields DEF GoTo
    <3>3. j.bucket # Global
      BY <1>3, <1>5, <3>1 DEF RequestRight
    <3> HIDE DEF k
    <3>4. ~SecondTime(k) /\ ~SecondTime(j)
      BY <1>5, <3>1, <3>2 DEF SecondTime
    <3>5. \A b : Due(r, k, b) = 0 /\ Due(r, j, b) = 0
      BY <1>3, <3>1, <3>2, <3>3, <3>4, DueNone
    <3>6. \A b : Due(r, k, b) <= Due(r, j, b)
      BY <3>5, SMT
    <3> QED BY <3>1, <3>6
  <2>2. CASE RestoreLimit(r)
    <3> DEFINE a == Asking(j.tenant, "try", FALSE, 0, 0)
    <3>1. Moved(r, Idle) \/ (j.ok /\ Moved(r, a))
      BY <2>2, Zenon DEF RestoreLimit, AfterCustom, Moved
    <3>2. j.pc = "restore" /\ ~Passing(j)
      BY <2>2 DEF RestoreLimit, At, Passing
    <3>3. \A b : Due(r, j, b) \in Nat
      BY <1>3, DueNat
    <3>4. CASE Moved(r, Idle)
      <4>1. ~SecondTime(Idle) /\ ~Passing(Idle)
        BY <1>3 DEF SecondTime, Passing, Idle, Asking
      <4>2. \A b : Due(r, Idle, b) = 0
        BY <1>3, <4>1, DueNone
      <4>3. \A b : Due(r, Idle, b) <= Due(r, j, b)
        BY <3>3, <4>2, SMT
      <4> QED BY <1>3, <3>4, <4>3
    <3>5. CASE j.ok /\ Moved(r, a)
      <4>1. a \in Job /\ a.pc = "try" /\ a.tenant = j.tenant /\ a.bucket = j.tenant /\ ~a.custom
        BY <1>3, <3>2 DEF Asking
      <4> HIDE DEF a
      <4>2. SecondTime(a) /\ SecondTime(j) /\ a.bucket # Global
        BY <1>5, <3>2, <3>5, <4>1 DEF SecondTime, Passing
      <4>3. \A b : Held(a, b) = Held(j, b) /\ Adding(a, b) = 0 /\ Adding(j, b) = 0
        BY <1>5, <3>2, <4>1, <4>2 DEF Held, Adding
      <4>4. \A b : Due(r, a, b) = Due(r, j, b)
        BY <4>3 DEF Due
      <4>5. \A b : Due(r, a, b) <= Due(r, j, b)
        BY <3>3, <4>4, SMT
      <4> QED BY <3>5, <4>1, <4>5
    <3> QED BY <3>1, <3>4, <3>5
  <2> QED BY <2>1, <2>2
<1>7. \A b \in created : tokens'[b] + Cost * granted'[b] + Due(r, k, b)
                           <= tokens[b] + Cost * granted[b] + Due(r, j, b)
  <2> SUFFICES ASSUME NEW b \in created
               PROVE tokens'[b] + Cost * granted'[b] + Due(r, k, b)
                       <= tokens[b] + Cost * granted[b] + Due(r, j, b)
    OBVIOUS
  <2>1. b \in Buckets
    BY DEF TypeInv, TypeOK
  <2>2. tokens[b] \in Nat /\ Cost * granted[b] \in Nat
    <3>1. Cost \in {1, 2} /\ granted[b] \in Nat
      BY <1>1, <2>1, TopIs
    <3> QED BY <1>1, <2>1, <3>1, SMT
  <2>3. Due(r, k, b) \in Nat /\ Due(r, j, b) \in Nat /\ Due(r, k, b) <= Due(r, j, b)
    BY <1>3, <1>6, DueNat
  <2> QED BY <1>4, <2>2, <2>3, SMT
<1> QED BY <1>2, <1>4, <1>6, <1>7, BalancedMove

(* A token is taken.                                                       *)
LEMMA BalancedTake ==
  ASSUME LimiterAssumption, TypeInv, TypeInv', Balanced, NEW r \in Requests,
         job[r].pc \in {"try", "retry"}, HasToken(r), Take(r),
         UNCHANGED <<backpressure, created, lastRefill>>
  PROVE  Balanced'
<1> DEFINE j == job[r]
           k == TakeTo(j)
           one(b) == IF b = j.bucket THEN 1 ELSE 0
<1>1. /\ job \in [Threads -> Job] /\ tokens \in [Buckets -> Nat] /\ granted \in [Buckets -> Nat]
  BY TypesOf
<1>2. r \in Threads /\ r # Ticker
  BY ThreadsAre
<1>3. j \in Job /\ RequestRight(j, created) /\ k \in Job
  BY JobsTo
<1>4. Moved(r, k)
  BY <1>1, <1>2, JobHelpers
<1>5. /\ j.tenant \in Tenants /\ j.tenant # Global /\ j.tenant \in created /\ Global \in created
      /\ j.bucket \in {j.tenant, Global} /\ j.bucket \in Buckets /\ created \subseteq Buckets
  BY <1>3, ThreadsAre DEF RequestRight, Job, TypeInv, TypeOK, JobsRight
<1>6. Passing(j) /\ j.pc # "add"
  BY DEF Passing
<1>7. \A b \in created : tokens[b] \in Nat /\ tokens'[b] = tokens[b] - one(b)
  <2>1. tokens' = [tokens EXCEPT ![j.bucket] = tokens[j.bucket] - 1]
    BY DEF Take
  <2>2. \A b \in created : tokens'[b] = IF b = j.bucket THEN tokens[b] - 1 ELSE tokens[b]
    BY <1>1, <1>5, <2>1
  <2> QED BY <1>1, <1>5, <2>2, SMT
<1>8. \A b \in Buckets : /\ Due(r, k, b) \in Nat /\ Due(r, j, b) \in Nat
                         /\ granted[b] \in Nat /\ Cost \in {1, 2}
  BY <1>1, <1>3, DueNat, TopIs
<1>9. CASE j.bucket # Global \/ j.custom
  <2>1. granted' = granted
    BY <1>9 DEF Take
  <2>2. ASSUME NEW b PROVE Due(r, k, b) = Due(r, j, b) + one(b)
    <3>1. CASE j.bucket # Global
      <4>1. k = Step(j, "try", Global, j.now, j.last, j.add, j.ok)
        BY <3>1 DEF TakeTo
      <4>2. k.tenant = j.tenant /\ k.custom = j.custom /\ k.bucket = Global /\ k.pc = "try"
        BY <4>1, StepFields
      <4> HIDE DEF k
      <4> QED BY <1>2, <1>3, <1>5, <1>6, <3>1, <4>2, DueAsked
    <3>2. CASE j.bucket = Global /\ j.custom
      <4>1. k = Step(j, "restore", j.bucket, j.now, j.last, j.add, TRUE)
        BY <3>2 DEF TakeTo, FinishTo
      <4>2. k.tenant = j.tenant /\ k.bucket = j.bucket /\ k.pc = "restore"
        BY <4>1 DEF Step
      <4>3. k.custom /\ k.ok
        BY <3>2, <4>1 DEF Step
      <4>4. backpressure
        BY <1>3, <3>2 DEF RequestRight
      <4> HIDE DEF k
      <4>5. \A kk \in Job : /\ kk.tenant = j.tenant /\ kk.custom /\ kk.pc = "restore" /\ kk.ok
                           => Due(r, kk, b) = Due(r, j, b) + (IF b = j.bucket THEN 1 ELSE 0)
        BY <1>2, <1>3, <1>5, <1>6, <3>2, <4>4, DueGranted
      <4> QED BY <1>3, <4>2, <4>3, <4>5
    <3> QED BY <1>9, <3>1, <3>2
  <2> HIDE DEF k
  <2>3. ASSUME NEW b \in created
        PROVE  tokens'[b] + Cost * granted'[b] + Due(r, k, b)
                 <= tokens[b] + Cost * granted[b] + Due(r, j, b)
    <3>1. b \in Buckets
      BY <1>5
    <3>2. Cost * granted[b] \in Nat
      BY <1>8, <3>1, SMT
    <3> QED BY <1>7, <1>8, <2>1, <2>2, <3>1, <3>2, SMT
  <2> QED BY <1>2, <1>3, <1>4, <2>1, <2>3, BalancedMove
<1>10. CASE j.bucket = Global /\ ~j.custom
  <2>1. k = Idle
    BY <1>10 DEF TakeTo, FinishTo
  <2>2. ASSUME NEW b PROVE Due(r, k, b) = 0
    <3>1. ~SecondTime(Idle) /\ ~Passing(Idle) /\ Idle.pc # "add"
      BY DEF SecondTime, Passing, Idle, Asking
    <3> QED BY <1>3, <2>1, <3>1, DueNone
  <2>3. ASSUME NEW b
        PROVE Due(r, j, b) + (IF b = Global THEN 1 ELSE 0) = IF b \in {j.tenant, Global} THEN Cost ELSE 0
    BY <1>2, <1>3, <1>5, <1>6, <1>10, DueSpent
  <2>4. \A b \in Buckets : granted'[b] = IF b \in {j.tenant, Global} THEN granted[b] + 1 ELSE granted[b]
    <3>1. granted' = [b \in Buckets |-> IF b \in {job[r].tenant, Global}
                                         THEN granted[b] + 1 ELSE granted[b]]
      BY <1>10 DEF Take
    <3> QED BY <3>1
  <2>5. \A b \in Buckets \ created : granted'[b] = granted[b]
    BY <1>5, <2>4
  <2> HIDE DEF k
  <2>6. ASSUME NEW b \in created
        PROVE  tokens'[b] + Cost * granted'[b] + Due(r, k, b)
                 <= tokens[b] + Cost * granted[b] + Due(r, j, b)
    <3>1. b \in Buckets
      BY <1>5
    <3>2. one(b) = IF b = Global THEN 1 ELSE 0
      BY <1>10
    <3>3. Cost * granted[b] \in Nat /\ Cost * (granted[b] + 1) = Cost * granted[b] + Cost
      BY <1>8, <3>1, SMT
    <3>4. CASE b \in {j.tenant, Global}
      <4>1. Cost * granted'[b] = Cost * granted[b] + Cost /\ Due(r, j, b) + one(b) = Cost
        BY <2>3, <2>4, <3>1, <3>2, <3>3, <3>4
      <4>2. one(b) \in {0, 1}
        OBVIOUS
      <4> HIDE DEF one
      <4> QED BY <1>7, <1>8, <2>2, <3>1, <3>3, <4>1, <4>2, SMT
    <3>5. CASE b \notin {j.tenant, Global}
      <4>1. granted'[b] = granted[b] /\ one(b) = 0
        BY <2>4, <3>1, <3>2, <3>5
      <4> QED BY <1>7, <1>8, <2>2, <3>1, <3>3, <4>1, SMT
    <3> QED BY <3>4, <3>5
  <2> QED BY <1>2, <1>3, <1>4, <2>5, <2>6, BalancedMove
<1> QED BY <1>9, <1>10

(* The other outcomes of Allow's steps.                                    *)
LEMMA BalancedConsume ==
  ASSUME LimiterAssumption, TypeInv, TypeInv', Balanced, NEW r \in Requests,
         TryConsume(r) \/ TryAgain(r) \/ LoseSwap(r) \/ ReturnToken(r)
  PROVE  Balanced'
<1> DEFINE j == job[r]
           k == FinishTo(j, FALSE)
<1>1. /\ job \in [Threads -> Job] /\ tokens \in [Buckets -> Nat] /\ granted \in [Buckets -> Nat]
      /\ limit \in [Buckets -> Nat]
  BY TypesOf
<1>2. r \in Threads /\ r # Ticker
  BY ThreadsAre
<1>3. /\ j \in Job /\ RequestRight(j, created)
      /\ \A pc \in {"try", "refill", "retry"} : j.pc \in {"set", "try", "refill", "retry"}
           => GoTo(j, pc) \in Job
      /\ j.pc = "retry" /\ j.bucket = Global => GoTo(j, "return") \in Job
      /\ j.pc # "idle" => k \in Job
  BY JobsTo
<1>4. created \subseteq Buckets
  BY DEF TypeInv, TypeOK
<1>5. UNCHANGED <<backpressure, created, lastRefill>>
  BY DEF TryConsume, TryAgain, LoseSwap, ReturnToken, bucketVars
<1>6. \A b \in Buckets : granted[b] \in Nat /\ Cost \in {1, 2} /\ Cost * granted[b] \in Nat
  <2> SUFFICES ASSUME NEW b \in Buckets
               PROVE granted[b] \in Nat /\ Cost \in {1, 2} /\ Cost * granted[b] \in Nat
    OBVIOUS
  <2>1. granted[b] \in Nat /\ Cost \in {1, 2}
    BY <1>1, TopIs
  <2> QED BY <2>1, SMT
<1>7. ASSUME NEW pc \in {"try", "refill", "return"}, Moved(r, GoTo(j, pc)), GoTo(j, pc) \in Job,
             j.pc \in {"try", "retry"}, tokens' = tokens, granted' = granted
      PROVE  Balanced'
  <2> DEFINE g == GoTo(j, pc)
  <2>1. g.pc = pc /\ g.tenant = j.tenant /\ g.bucket = j.bucket /\ g.custom = j.custom
    BY StepFields DEF GoTo
  <2> HIDE DEF g
  <2>2. Passing(g) /\ Passing(j) /\ g.pc # "add" /\ j.pc # "add"
    BY <1>7, <2>1 DEF Passing
  <2>3. \A b : Due(r, g, b) = Due(r, j, b) /\ Due(r, j, b) \in Nat
    BY <1>3, <1>7, <2>1, <2>2, DueKept, DueNat DEF g
  <2>4. ASSUME NEW b \in created
        PROVE  tokens'[b] + Cost * granted'[b] + Due(r, g, b)
                 <= tokens[b] + Cost * granted[b] + Due(r, j, b)
    <3>1. tokens[b] \in Nat /\ Cost * granted[b] \in Nat
      BY <1>1, <1>4, <1>6
    <3> QED BY <1>7, <2>3, <3>1, SMT
  <2> QED BY <1>2, <1>5, <1>7, <2>4, BalancedMove DEF g
<1>8. ASSUME j.pc # "idle", Finish(r, FALSE), granted' = granted,
             \A b \in created : tokens'[b] \in Nat /\ tokens'[b] <= tokens[b] + Due(r, j, b)
      PROVE  Balanced'
  <2>1. Moved(r, k) /\ k \in Job
    BY <1>1, <1>2, <1>3, <1>8, JobHelpers
  <2>2. ~SecondTime(k) /\ ~Passing(k) /\ k.pc # "add"
    <3>1. CASE j.custom
      <4>1. k.pc = "restore" /\ ~k.ok /\ (k.custom <=> j.custom)
        BY <3>1 DEF FinishTo, Step
      <4> HIDE DEF k
      <4> QED BY <3>1, <4>1 DEF SecondTime, Passing
    <3>2. CASE ~j.custom
      <4>1. k.pc = "idle" /\ ~k.custom
        BY <3>2 DEF FinishTo, Idle, Asking
      <4> HIDE DEF k
      <4> QED BY <4>1 DEF SecondTime, Passing
    <3> QED BY <3>1, <3>2
  <2> HIDE DEF k
  <2>3. \A b : Due(r, k, b) = 0 /\ Due(r, j, b) \in Nat
    BY <1>3, <2>1, <2>2, DueNone, DueNat
  <2>4. ASSUME NEW b \in created
        PROVE  tokens'[b] + Cost * granted'[b] + Due(r, k, b)
                 <= tokens[b] + Cost * granted[b] + Due(r, j, b)
    <3>1. tokens[b] \in Nat /\ Cost * granted[b] \in Nat
      BY <1>1, <1>4, <1>6
    <3> QED BY <1>8, <2>3, <3>1, SMT
  <2> QED BY <1>2, <1>5, <1>8, <2>1, <2>4, BalancedMove
<1>9. CASE TryConsume(r)
  <2>1. CASE HasToken(r)
    BY <1>5, <1>9, <2>1, BalancedTake DEF TryConsume, At
  <2>2. CASE ~HasToken(r)
    <3>1. Goto(r, "refill") /\ tokens' = tokens /\ granted' = granted /\ j.pc = "try"
      BY <1>9, <2>2 DEF TryConsume, At
    <3> QED BY <1>1, <1>2, <1>3, <1>7, <3>1, JobHelpers
  <2> QED BY <2>1, <2>2
<1>10. CASE TryAgain(r)
  <2>0. j.pc = "retry"
    BY <1>10 DEF TryAgain, At
  <2>1. CASE HasToken(r)
    BY <1>5, <1>10, <2>0, <2>1, BalancedTake DEF TryAgain
  <2>2. CASE ~HasToken(r) /\ j.bucket = Global
    <3>1. Goto(r, "return") /\ tokens' = tokens /\ granted' = granted
      BY <1>10, <2>2 DEF TryAgain
    <3> QED BY <1>1, <1>2, <1>3, <1>7, <2>0, <2>2, <3>1, JobHelpers
  <2>3. CASE ~HasToken(r) /\ j.bucket # Global
    <3>1. Finish(r, FALSE) /\ tokens' = tokens /\ granted' = granted
      BY <1>10, <2>3 DEF TryAgain
    <3>2. ASSUME NEW b \in created PROVE tokens'[b] \in Nat /\ tokens'[b] <= tokens[b] + Due(r, j, b)
      <4>1. tokens[b] \in Nat /\ Due(r, j, b) \in Nat
        BY <1>1, <1>3, <1>4, DueNat
      <4> QED BY <3>1, <4>1, SMT
    <3> QED BY <1>8, <2>0, <3>1, <3>2
  <2> QED BY <2>1, <2>2, <2>3
<1>11. CASE LoseSwap(r)
  <2>1. Goto(r, "try") /\ tokens' = tokens /\ granted' = granted /\ j.pc = "retry"
    BY <1>11 DEF LoseSwap, At, bucketVars, historyVars
  <2> QED BY <1>1, <1>2, <1>3, <1>7, <2>1, JobHelpers
<1>12. CASE ReturnToken(r)
  <2>1. /\ Finish(r, FALSE) /\ granted' = granted /\ j.pc = "return"
        /\ tokens' = [tokens EXCEPT ![j.tenant] = Capped(tokens[j.tenant] + 1, j.tenant)]
    BY <1>12 DEF ReturnToken, At, historyVars
  <2>2. j.bucket = Global /\ j.tenant \in Tenants /\ j.tenant # Global /\ j.tenant \in Buckets
    BY <1>3, <2>1, ThreadsAre DEF RequestRight
  <2>3. ASSUME NEW b \in created PROVE tokens'[b] \in Nat /\ tokens'[b] <= tokens[b] + Due(r, j, b)
    <3>1. b \in Buckets /\ tokens[b] \in Nat /\ limit[b] \in Nat /\ Due(r, j, b) \in Nat
      BY <1>1, <1>3, <1>4, DueNat
    <3>2. CASE b = j.tenant
      <4>1. Passing(j)
        BY <2>1 DEF Passing
      <4>2. Due(r, j, b) >= 1
        BY <1>2, <2>1, <2>2, <3>2, <4>1, SMT DEF Due, Held, Adding
      <4>3. tokens'[b] = Capped(tokens[b] + 1, b)
        BY <1>1, <2>1, <2>2, <3>2
      <4> QED BY <3>1, <4>2, <4>3, SMT DEF Capped
    <3>3. CASE b # j.tenant
      <4>1. tokens'[b] = tokens[b]
        BY <1>1, <2>1, <3>1, <3>3
      <4> QED BY <3>1, <4>1, SMT
    <3> QED BY <3>2, <3>3
  <2> QED BY <1>8, <2>1, <2>3
<1> QED BY <1>9, <1>10, <1>11, <1>12

LEMMA DueRefilled ==
  ASSUME NEW p, NEW j \in Job, NEW b, RefilledTo(p, j) \in Job, j.pc \in {"refill", "swap", "add"}
  PROVE  Due(p, j, b) = Due(p, RefilledTo(p, j), b) + Adding(j, b)
<1> DEFINE k == RefilledTo(p, j)
<1>1. Adding(j, b) \in Nat
  BY DEF Adding, Job
<1>2. CASE p = Ticker
  <2>1. Adding(k, b) = 0
    BY <1>2 DEF RefilledTo, Idle, Asking, Adding
  <2> HIDE DEF k
  <2>2. Due(p, k, b) = 0 /\ Due(p, j, b) = Adding(j, b)
    BY <1>1, <1>2, <2>1, SMT DEF Due
  <2> QED BY <1>1, <2>2, SMT DEF k
<1>3. CASE p # Ticker
  <2>1. k = Step(j, "retry", j.bucket, 0, 0, 0, j.ok)
    BY <1>3 DEF RefilledTo
  <2>2. k.pc = "retry" /\ k.bucket = j.bucket /\ k.tenant = j.tenant /\ k.custom = j.custom
    BY <2>1, StepFields
  <2> HIDE DEF k
  <2>3. /\ Adding(k, b) = 0 /\ Passing(j) /\ Passing(k)
        /\ j.pc # "restore" /\ k.pc # "restore"
    BY <2>2 DEF Adding, Passing
  <2>4. SecondTime(j) <=> SecondTime(k)
    BY <2>2, <2>3 DEF SecondTime
  <2>5. Held(j, b) = Held(k, b) /\ Held(j, b) \in Nat
    BY <2>2, <2>3, <2>4 DEF Held
  <2>6. Due(p, j, b) = Held(j, b) + Adding(j, b) /\ Due(p, k, b) = Held(k, b) + 0
    BY <1>3, <2>3 DEF Due
  <2> QED BY <1>1, <2>5, <2>6, SMT DEF k
<1> QED BY <1>2, <1>3

LEMMA BalancedLoad ==
  ASSUME LimiterAssumption, TypeInv, TypeInv', Balanced, NEW p \in Threads, NEW k \in Job, Moved(p, k),
         job[p].pc \in {"refill", "swap"}, UNCHANGED <<backpressure, created, bucketVars, granted>>,
         \/ k = RefilledTo(p, job[p])
         \/ /\ k.pc = "swap" /\ k.tenant = job[p].tenant /\ k.bucket = job[p].bucket
            /\ k.custom = job[p].custom
  PROVE  Balanced'
<1> DEFINE j == job[p]
<1>1. /\ job \in [Threads -> Job] /\ tokens \in [Buckets -> Nat] /\ granted \in [Buckets -> Nat]
      /\ j \in Job /\ created \subseteq Buckets
  BY TypesOf DEF TypeOK
<1>2. \A b : Due(p, k, b) \in Nat /\ Due(p, j, b) \in Nat
  BY <1>1, DueNat
<1>3. \A b : Due(p, k, b) = Due(p, j, b)
  <2>1. CASE k = RefilledTo(p, j)
    <3>1. \A b : Due(p, j, b) = Due(p, k, b) + Adding(j, b) /\ Adding(j, b) = 0
      BY <1>1, <2>1, DueRefilled DEF Adding
    <3> QED BY <1>2, <3>1, SMT
  <2>2. CASE k.pc = "swap" /\ k.tenant = j.tenant /\ k.bucket = j.bucket /\ k.custom = j.custom
    <3>1. Passing(k) /\ Passing(j) /\ k.pc # "add" /\ j.pc # "add"
      BY <2>2 DEF Passing
    <3> QED BY <1>1, <2>2, <3>1, DueKept
  <2> QED BY <2>1, <2>2
<1>4. ASSUME NEW b \in created
      PROVE  tokens'[b] + Cost * granted'[b] + Due(p, k, b) <= tokens[b] + Cost * granted[b] + Due(p, j, b)
  <2>1. tokens[b] \in Nat /\ granted[b] \in Nat /\ Cost \in {1, 2}
    BY <1>1, TopIs
  <2>2. Cost * granted[b] \in Nat
    BY <2>1, SMT
  <2>3. tokens' = tokens /\ granted' = granted
    BY DEF bucketVars
  <2> QED BY <1>2, <1>3, <2>1, <2>2, <2>3, SMT
<1> QED BY <1>4, BalancedMove DEF bucketVars

LEMMA BalancedAdd ==
  ASSUME LimiterAssumption, TypeInv, TypeInv', Balanced, NEW p \in Threads, AddTokens(p)
  PROVE  Balanced'
<1> DEFINE j == job[p]
           k == RefilledTo(p, j)
<1>1. /\ job \in [Threads -> Job] /\ tokens \in [Buckets -> Nat] /\ granted \in [Buckets -> Nat]
      /\ limit \in [Buckets -> Nat] /\ j \in Job /\ created \subseteq Buckets
  BY TypesOf DEF TypeOK
<1>2. /\ j.pc = "add" /\ Moved(p, k) /\ UNCHANGED <<backpressure, created, lastRefill, granted>>
      /\ tokens' = [tokens EXCEPT ![j.bucket] =
           IF j.add > 0 THEN Capped(tokens[j.bucket] + j.add, j.bucket) ELSE tokens[j.bucket]]
  BY <1>1, JobHelpers DEF AddTokens, At, historyVars
<1>3. k \in Job
  <2>1. job' \in [Threads -> Job] /\ job'[p] = k
    BY <1>1, <1>2 DEF Moved, TypeInv, TypeOK
  <2> QED BY <2>1
<1>4. j.add \in Nat /\ j.bucket \in Buckets
  BY <1>1 DEF Job
<1>5. ASSUME NEW b \in created
      PROVE  tokens'[b] + Cost * granted'[b] + Due(p, k, b) <= tokens[b] + Cost * granted[b] + Due(p, j, b)
  <2>1. tokens[b] \in Nat /\ granted[b] \in Nat /\ Cost \in {1, 2} /\ limit[b] \in Nat
    BY <1>1, TopIs
  <2>2. Cost * granted[b] \in Nat
    BY <2>1, SMT
  <2>3. Due(p, j, b) = Due(p, k, b) + Adding(j, b) /\ Due(p, k, b) \in Nat
    BY <1>1, <1>2, <1>3, DueRefilled, DueNat
  <2>4. tokens'[b] \in Nat /\ tokens'[b] <= tokens[b] + Adding(j, b) /\ Adding(j, b) \in Nat
    <3>1. CASE b = j.bucket
      <4>1. tokens'[b] = IF j.add > 0 THEN Capped(tokens[b] + j.add, b) ELSE tokens[b]
        BY <1>1, <1>2, <1>4, <3>1
      <4>2. Adding(j, b) = j.add
        BY <1>2, <3>1 DEF Adding
      <4> QED BY <1>4, <2>1, <4>1, <4>2, SMT DEF Capped
    <3>2. CASE b # j.bucket
      <4>1. tokens'[b] = tokens[b] /\ Adding(j, b) = 0
        BY <1>1, <1>2, <3>2 DEF Adding
      <4> QED BY <2>1, <4>1, SMT
    <3> QED BY <3>1, <3>2
  <2> HIDE DEF k
  <2> QED BY <1>2, <2>1, <2>2, <2>3, <2>4, SMT
<1> QED BY <1>2, <1>3, <1>5, BalancedMove

(* The tokens for the time since lastRefill are taken by the one thread    *)
(* that moves lastRefill.                                                  *)
LEMMA BalancedSwap ==
  ASSUME LimiterAssumption, TypeInv, TypeInv', Balanced, NEW p \in Threads, SwapLastRefill(p)
  PROVE  Balanced'
<1> DEFINE j == job[p]
           c == j.bucket
           add == TokensToAdd(Elapsed(p), limit[c])
<1>1. /\ job \in [Threads -> Job] /\ tokens \in [Buckets -> Nat] /\ granted \in [Buckets -> Nat]
      /\ limit \in [Buckets -> Nat] /\ j \in Job /\ created \subseteq Buckets
      /\ lastRefill \in [Buckets -> 0..clock] /\ clock \in Nat
  BY TypesOf DEF TypeOK
<1>2. /\ j.pc = "swap" /\ UNCHANGED <<backpressure, created, tokens, limit, granted>>
      /\ job' \in [Threads -> Job]
  BY DEF SwapLastRefill, At, historyVars, TypeInv, TypeOK
<1>3. JobRight(p, j, created)
  BY DEF TypeInv, JobsRight
<1>4. j.now \in Nat /\ j.last \in Nat /\ c \in Buckets /\ j.last <= j.now
  BY <1>1, <1>2, <1>3 DEF Job, JobRight
<1>5. CASE lastRefill[c] # j.last
  <2>1. Moved(p, RefilledTo(p, j)) /\ lastRefill' = lastRefill
    BY <1>1, <1>5, JobHelpers DEF SwapLastRefill
  <2>2. RefilledTo(p, j) \in Job
    <3>1. job'[p] = RefilledTo(p, j)
      BY <1>1, <2>1 DEF Moved
    <3> QED BY <1>2, <3>1
  <2> QED BY <1>2, <2>1, <2>2, BalancedLoad DEF bucketVars
<1>6. CASE lastRefill[c] = j.last
  <2>1. /\ job' = [job EXCEPT ![p] = [job[p] EXCEPT !.pc = "add", !.add = add]]
        /\ lastRefill' = [lastRefill EXCEPT ![c] = j.now]
    BY <1>6 DEF SwapLastRefill
  <2> DEFINE k == Step(j, "add", c, j.now, j.last, add, j.ok)
  <2>2. Moved(p, k)
    <3> HIDE DEF add
    <3>1. \A pc, x : [j EXCEPT !.pc = pc, !.add = x] = Step(j, pc, c, j.now, j.last, x, j.ok)
      BY <1>1, JobFields
    <3>2. [job[p] EXCEPT !.pc = "add", !.add = add] = k
      BY <3>1, Zenon
    <3> QED BY <2>1, <3>2, Zenon DEF Moved
  <2>3. /\ k.pc = "add" /\ k.tenant = j.tenant /\ k.bucket = c /\ k.custom = j.custom /\ k.add = add
    BY StepFields
  <2>4. k \in Job
    <3>1. job'[p] = k
      BY <1>1, <2>2 DEF Moved
    <3> QED BY <1>2, <3>1
  <2> HIDE DEF k
  <2>5. ASSUME NEW b
        PROVE  /\ Due(p, k, b) = Due(p, j, b) + (IF b = c THEN add ELSE 0)
               /\ Cardinality(Owed(b)) \in Nat /\ Cardinality(Owed(b))' \in Nat
               /\ Cardinality(Owed(b))' = Cardinality(Owed(b)) + (IF b = c THEN add ELSE 0)
               /\ add \in Nat
    <3>1. Passing(j) /\ Passing(k) /\ j.pc # "add"
      BY <1>2, <2>3 DEF Passing
    <3>2. Due(p, k, b) = Due(p, j, b) + (IF b = c THEN k.add ELSE 0)
      BY <1>1, <2>3, <2>4, <3>1, DueAdding
    <3>3. /\ Cardinality(Owed(b)) \in Nat /\ Cardinality(Owed(b))' \in Nat
          /\ Cardinality(Owed(b))' + Due(p, j, b) = Cardinality(Owed(b)) + Due(p, k, b)
      BY <1>1, <1>2, <2>2, <2>4, OwedMove
    <3>4. Due(p, j, b) \in Nat /\ Due(p, k, b) \in Nat /\ k.add \in Nat
      BY <1>1, <2>4, DueNat DEF Job
    <3> HIDE DEF add
    <3> QED BY <2>3, <3>2, <3>3, <3>4, SMT
  <2>6. ASSUME NEW b \in Buckets
        PROVE  /\ Earned(b) + (IF b = c THEN add ELSE 0) <= Earned(b)'
               /\ Earned(b) \in Nat /\ Earned(b)' \in Nat
    <3>1. /\ TopLimit(b) \in Nat /\ InitialTokens(b) \in Nat
          /\ limit[b] \in Nat /\ limit[b] <= TopLimit(b)
      BY TopIs
    <3>2. lastRefill[b] \in Nat /\ lastRefill[b] <= lastRefill[b]
      BY <1>1, SMT
    <3>3. TokensToAdd(lastRefill[b], TopLimit(b)) \in Nat
      BY <3>1, <3>2, RefillsGrow
    <3>4. Earned(b)' = InitialTokens(b) + TokensToAdd(lastRefill'[b], TopLimit(b))
      BY <1>2 DEF Earned, InitialTokens, TopLimit, TokensToAdd
    <3>5. CASE b = c
      <4>1. lastRefill'[b] = j.now /\ lastRefill[b] = j.last
        BY <1>1, <1>4, <1>6, <2>1, <3>5
      <4>2. add = TokensToAdd(j.now - j.last, limit[b])
        BY <3>5 DEF Elapsed
      <4> HIDE DEF add
      <4>3. /\ TokensToAdd(j.now, TopLimit(b)) \in Nat /\ add \in Nat
            /\ TokensToAdd(j.last, TopLimit(b)) + add <= TokensToAdd(j.now, TopLimit(b))
        BY <1>4, <3>1, <4>2, RefillsAdd
      <4> QED BY <3>1, <3>3, <3>4, <3>5, <4>1, <4>3, SMT DEF Earned
    <3>6. CASE b # c
      <4>1. lastRefill'[b] = lastRefill[b]
        BY <1>1, <2>1, <3>6
      <4> QED BY <3>1, <3>3, <3>4, <3>6, <4>1, SMT DEF Earned
    <3> QED BY <3>5, <3>6
  <2> HIDE DEF add
  <2>7. ASSUME NEW b \in Buckets PROVE (IF b \in created THEN Balance(b) ELSE granted[b] = 0)'
    <3>1. IF b \in created THEN Balance(b) ELSE granted[b] = 0
      BY DEF Balanced
    <3>2. Cost' = Cost /\ Cost \in {1, 2} /\ granted[b] \in Nat /\ tokens[b] \in Nat
      BY <1>1, <1>2, TopIs DEF Cost
    <3>3. Cost * granted[b] \in Nat
      BY <3>2, SMT
    <3>4. ASSUME Balance(b) PROVE Balance(b)'
      <4>1. tokens[b] + Cost * granted[b] + Cardinality(Owed(b)) <= Earned(b)
        BY <3>4 DEF Balance
      <4>2. tokens[b] + Cost * granted[b] + Cardinality(Owed(b))' <= Earned(b)'
        BY <2>5, <2>6, <3>2, <3>3, <4>1, SMT
      <4> QED BY <1>2, <3>2, <4>2 DEF Balance
    <3> QED BY <1>2, <3>1, <3>4
  <2> QED BY <2>7 DEF Balanced
<1> QED BY <1>5, <1>6

LEMMA BalancedRefill ==
  ASSUME LimiterAssumption, TypeInv, TypeInv', Balanced, NEW p \in Threads, Refill(p)
  PROVE  Balanced'
<1>1. CASE LoadTimes(p)
  <2> DEFINE j == job[p]
             b == j.bucket
  <2>1. job \in [Threads -> Job] /\ j \in Job /\ job' \in [Threads -> Job] /\ j.pc = "refill"
    BY <1>1 DEF LoadTimes, At, TypeInv, TypeOK
  <2>2. UNCHANGED <<backpressure, created, bucketVars, granted>>
    BY <1>1 DEF LoadTimes, historyVars
  <2>3. CASE clock - lastRefill[b] <= 0
    <3>1. Moved(p, RefilledTo(p, j))
      BY <1>1, <2>1, <2>3, JobHelpers DEF LoadTimes
    <3>2. job'[p] = RefilledTo(p, j)
      BY <2>1, <3>1 DEF Moved
    <3>3. RefilledTo(p, j) \in Job
      BY <2>1, <3>2
    <3> QED BY <2>1, <2>2, <3>1, <3>3, BalancedLoad
  <2>4. CASE ~(clock - lastRefill[b] <= 0)
    <3> DEFINE k == Step(j, "swap", b, clock, lastRefill[b], j.add, j.ok)
    <3>1. job' = [job EXCEPT ![p] = [job[p] EXCEPT !.pc = "swap", !.now = clock, !.last = lastRefill[b]]]
      BY <1>1, <2>4 DEF LoadTimes
    <3>2. \A pc, x, y : [j EXCEPT !.pc = pc, !.now = x, !.last = y] = Step(j, pc, b, x, y, j.add, j.ok)
      BY <2>1, JobFields
    <3>3. [job[p] EXCEPT !.pc = "swap", !.now = clock, !.last = lastRefill[b]] = k
      BY <3>2, Zenon
    <3>4. Moved(p, k)
      BY <3>1, <3>3, Zenon DEF Moved
    <3>5. k.pc = "swap" /\ k.tenant = j.tenant /\ k.bucket = b /\ k.custom = j.custom
      BY StepFields
    <3> HIDE DEF k
    <3>6. job'[p] = k
      BY <2>1, <3>4 DEF Moved
    <3>7. k \in Job
      BY <2>1, <3>6
    <3> QED BY <2>1, <2>2, <3>4, <3>5, <3>7, BalancedLoad
  <2> QED BY <2>3, <2>4
<1> QED BY <1>1, BalancedSwap, BalancedAdd DEF Refill

LEMMA BalancedTicker ==
  ASSUME LimiterAssumption, TypeInv, TypeInv', Balanced, NEW c \in Buckets, NextBucket(c)
  PROVE  Balanced'
<1> DEFINE j == job[Ticker]
           k == Step(j, "refill", c, j.now, j.last, j.add, j.ok)
<1>1. /\ job \in [Threads -> Job] /\ tokens \in [Buckets -> Nat] /\ granted \in [Buckets -> Nat]
      /\ Ticker \in Threads /\ j \in Job /\ created \subseteq Buckets /\ job' \in [Threads -> Job]
  BY TypesOf, ThreadsAre DEF TypeInv, TypeOK
<1>2. /\ job' = [job EXCEPT ![Ticker] = [job[Ticker] EXCEPT !.pc = "refill", !.bucket = c]]
      /\ j.pc = "idle" /\ UNCHANGED <<backpressure, created, lastRefill, tokens, granted>>
  BY DEF NextBucket, At, bucketVars, historyVars
<1>3. \A pc, b : [j EXCEPT !.pc = pc, !.bucket = b] = Step(j, pc, b, j.now, j.last, j.add, j.ok)
  BY <1>1, JobFields
<1>4. [job[Ticker] EXCEPT !.pc = "refill", !.bucket = c] = k
  BY <1>3, Zenon
<1>5. Moved(Ticker, k)
  BY <1>2, <1>4, Zenon DEF Moved
<1>6. k.pc = "refill"
  BY StepFields
<1> HIDE DEF k
<1>7. job'[Ticker] = k
  BY <1>1, <1>5 DEF Moved
<1>8. k \in Job
  BY <1>1, <1>7
<1>9. \A b : Due(Ticker, k, b) = 0 /\ Due(Ticker, j, b) = 0
  BY <1>2, <1>6 DEF Due, Adding
<1>10. ASSUME NEW b \in created
       PROVE  tokens'[b] + Cost * granted'[b] + Due(Ticker, k, b)
                <= tokens[b] + Cost * granted[b] + Due(Ticker, j, b)
  <2>1. tokens[b] \in Nat /\ granted[b] \in Nat /\ Cost \in {1, 2}
    BY <1>1, TopIs
  <2>2. Cost * granted[b] \in Nat
    BY <2>1, SMT
  <2> QED BY <1>2, <1>9, <2>1, <2>2, SMT
<1> QED BY <1>1, <1>2, <1>5, <1>8, <1>10, BalancedMove

LEMMA BalancedStep ==
  ASSUME LimiterAssumption, TypeInv, TypeInv', Balanced, [Next]_vars
  PROVE  Balanced'
<1>1. CASE UNCHANGED vars \/ TimePasses \/ Tick
  <2>1. UNCHANGED <<backpressure, created, tokens, granted, lastRefill, job>>
    BY <1>1 DEF vars, bucketVars, historyVars, TimePasses, Tick
  <2> QED BY <2>1, BalancedSame
<1>2. ASSUME NEW r \in Requests, Request(r) PROVE Balanced'
  <2>1. ASSUME NEW t \in Tenants, Allow(r, t) \/ \E n \in Adaptive : AllowWithLimit(r, t, n)
        PROVE  Balanced'
    BY <2>1, BalancedBegin
  <2> QED BY <1>2, <2>1, BalancedLimit, BalancedConsume DEF Request
<1>3. ASSUME NEW p \in Threads, Refill(p) PROVE Balanced'
  BY <1>3, BalancedRefill
<1>4. ASSUME NEW b \in Buckets, NextBucket(b) PROVE Balanced'
  BY <1>4, BalancedTicker
<1> QED BY <1>1, <1>2, <1>3, <1>4 DEF Next

LEMMA BalancedInit ==
  ASSUME LimiterAssumption, Init, TypeInv
  PROVE  Balanced
<1>1. Global \in Buckets /\ \A b \in Buckets : granted[b] = 0 /\ lastRefill[b] = 0
  BY ThreadsAre DEF Init
<1>2. created = {Global} /\ tokens[Global] = GlobalLimit
  BY <1>1 DEF Init
<1>3. \A p \in Threads : Due(p, job[p], Global) = 0
  <2>1. ~SecondTime(Idle) /\ ~Passing(Idle) /\ Idle.pc # "add" /\ Idle \in Job
    BY JobTypes DEF SecondTime, Passing, Idle, Asking
  <2>2. \A p : Due(p, Idle, Global) = 0
    BY <2>1, DueNone
  <2> QED BY <2>2 DEF Init
<1>4. Cardinality(Owed(Global)) = 0
  <2>1. [p \in Threads |-> Due(p, job[p], Global)] \in [Threads -> Nat]
    BY <1>3
  <2> QED BY <1>3, <2>1, PileEmpty DEF Owed
<1>5. TokensToAdd(0, TopLimit(Global)) \in Nat /\ GlobalLimit \in Nat
  <2>1. TopLimit(Global) \in Nat
    BY <1>1, TopIs
  <2>2. 0 \in Nat /\ 0 <= 0
    BY SMT
  <2> QED BY <2>1, <2>2, RefillsGrow DEF LimiterAssumption
<1>6. Cost * 0 = 0
  <2>1. Cost \in {1, 2}
    BY <1>1, TopIs
  <2> QED BY <2>1, SMT
<1>7. Earned(Global) = GlobalLimit + TokensToAdd(0, TopLimit(Global))
  BY <1>1 DEF Earned, InitialTokens
<1>8. GlobalLimit + 0 + 0 <= GlobalLimit + TokensToAdd(0, TopLimit(Global))
  BY <1>5, SMT
<1>9. Balance(Global)
  BY <1>1, <1>2, <1>4, <1>6, <1>7, <1>8 DEF Balance
<1> QED BY <1>1, <1>2, <1>9 DEF Balanced

(* A bucket's tokens never grow beyond its limit.                          *)
LEMMA TokensMove ==
  ASSUME LimiterAssumption, TypeInv, [Next]_vars, NEW b \in Buckets
  PROVE  \/ tokens'[b] <= tokens[b]
         \/ tokens'[b] <= limit[b]
         \/ tokens'[b] <= InitialTokens(b)
<1> DEFINE Goal == tokens'[b] <= tokens[b] \/ tokens'[b] <= limit[b] \/ tokens'[b] <= InitialTokens(b)
<1>1. /\ job \in [Threads -> Job] /\ tokens \in [Buckets -> Nat] /\ limit \in [Buckets -> Nat]
      /\ \A p \in Threads : job[p] \in Job
  BY TypesOf
<1>2. /\ tokens[b] \in Nat /\ limit[b] \in Nat /\ tokens[b] <= tokens[b]
      /\ TenantLimit \in Nat /\ TenantLimit <= TenantLimit
  BY <1>1, SMT DEF LimiterAssumption
<1>3. ASSUME NEW t \in Tenants, GetTenantBucket(t) PROVE Goal
  <2>1. t \in Buckets /\ t # Global
    BY ThreadsAre
  <2> QED BY <1>1, <1>2, <1>3, <2>1 DEF GetTenantBucket, InitialTokens
<1>4. ASSUME NEW r \in Requests, Take(r) PROVE Goal
  <2>1. tokens' = [tokens EXCEPT ![job[r].bucket] = tokens[job[r].bucket] - 1]
    BY <1>4 DEF Take
  <2>2. tokens'[b] = tokens[b] \/ tokens'[b] = tokens[b] - 1
    BY <1>1, <2>1
  <2>3. tokens'[b] <= tokens[b]
    BY <1>2, <2>2, SMT
  <2> QED BY <2>3
<1>5. ASSUME NEW c \in Buckets, NEW n \in Nat, tokens' = [tokens EXCEPT ![c] = Capped(tokens[c] + n, c)]
      PROVE  Goal
  <2>1. CASE b = c
    <3>1. tokens'[b] = Capped(tokens[b] + n, b)
      BY <1>1, <1>5, <2>1
    <3>2. Capped(tokens[b] + n, b) <= limit[b]
      BY <1>2, SMT DEF Capped
    <3> QED BY <3>1, <3>2
  <2>2. CASE b # c
    <3>1. tokens'[b] = tokens[b]
      BY <1>1, <1>5, <2>2
    <3> QED BY <1>2, <3>1
  <2> QED BY <2>1, <2>2
<1>6. ASSUME tokens' = tokens PROVE Goal
  BY <1>2, <1>6
<1>7. ASSUME NEW r \in Requests, Request(r) PROVE Goal
  <2>1. r \in Threads /\ job[r].tenant \in Buckets
    BY <1>1, ThreadsAre DEF Job
  <2>2. ASSUME NEW t \in Tenants, Allow(r, t) \/ \E n \in Adaptive : AllowWithLimit(r, t, n) PROVE Goal
    BY <1>3, <2>2 DEF Allow, AllowWithLimit
  <2>3. CASE SetLimit(r) \/ RestoreLimit(r) \/ LoseSwap(r)
    BY <1>6, <2>3 DEF SetLimit, RestoreLimit, LoseSwap, bucketVars
  <2>4. CASE TryConsume(r) \/ TryAgain(r)
    <3>1. Take(r) \/ tokens' = tokens
      BY <2>4 DEF TryConsume, TryAgain
    <3> QED BY <1>4, <1>6, <3>1
  <2>5. CASE ReturnToken(r)
    <3>1. tokens' = [tokens EXCEPT ![job[r].tenant] = Capped(tokens[job[r].tenant] + 1, job[r].tenant)]
      BY <2>5 DEF ReturnToken
    <3>2. 1 \in Nat
      BY SMT
    <3> HIDE DEF Goal
    <3> QED BY <1>5, <2>1, <3>1, <3>2
  <2> HIDE DEF Goal
  <2> QED BY <1>7, <2>2, <2>3, <2>4, <2>5 DEF Request
<1>8. ASSUME NEW p \in Threads, Refill(p) PROVE Goal
  <2>1. CASE LoadTimes(p) \/ SwapLastRefill(p)
    BY <1>6, <2>1 DEF LoadTimes, SwapLastRefill, bucketVars
  <2>2. CASE AddTokens(p)
    <3> DEFINE c == job[p].bucket
               n == job[p].add
    <3>1. c \in Buckets /\ n \in Nat
      BY <1>1 DEF Job
    <3>2. tokens' = [tokens EXCEPT ![c] = IF n > 0 THEN Capped(tokens[c] + n, c) ELSE tokens[c]]
      BY <2>2 DEF AddTokens
    <3>3. CASE n > 0
      <4>1. tokens' = [tokens EXCEPT ![c] = Capped(tokens[c] + n, c)]
        BY <3>2, <3>3
      <4> HIDE DEF Goal, c, n
      <4> QED BY <1>5, <3>1, <4>1
    <3>4. CASE ~(n > 0)
      <4>1. tokens' = tokens
        BY <1>1, <3>1, <3>2, <3>4
      <4> QED BY <1>6, <4>1
    <3> QED BY <3>3, <3>4
  <2> QED BY <1>8, <2>1, <2>2 DEF Refill
<1>9. ASSUME TimePasses \/ Tick \/ (\E c \in Buckets : NextBucket(c)) \/ UNCHANGED vars PROVE Goal
  BY <1>6, <1>9 DEF TimePasses, Tick, NextBucket, vars, bucketVars
<1> HIDE DEF Goal
<1>10. Goal
  BY <1>7, <1>8, <1>9 DEF Next
<1> QED BY <1>10 DEF Goal

LEMMA Unflagged ==
  ASSUME [Next]_vars
  PROVE  backpressure' = backpressure
<1>1. ASSUME NEW r \in Requests, Request(r) PROVE backpressure' = backpressure
  <2>1. ASSUME NEW t \in Tenants, Allow(r, t) \/ \E n \in Adaptive : AllowWithLimit(r, t, n)
        PROVE  backpressure' = backpressure
    BY <2>1 DEF Allow, AllowWithLimit
  <2>2. CASE SetLimit(r) \/ RestoreLimit(r) \/ TryConsume(r) \/ TryAgain(r) \/ LoseSwap(r) \/ ReturnToken(r)
    BY <2>2 DEF SetLimit, RestoreLimit, TryConsume, TryAgain, LoseSwap, ReturnToken
  <2> QED BY <1>1, <2>1, <2>2 DEF Request
<1>2. ASSUME NEW p \in Threads, Refill(p) PROVE backpressure' = backpressure
  BY <1>2 DEF Refill, LoadTimes, SwapLastRefill, AddTokens
<1>3. CASE TimePasses \/ Tick \/ (\E c \in Buckets : NextBucket(c)) \/ UNCHANGED vars
  BY <1>3 DEF TimePasses, Tick, NextBucket, vars
<1> QED BY <1>1, <1>2, <1>3 DEF Next

LEMMA OverfullStep ==
  ASSUME LimiterAssumption, TypeInv, TypeInv', NeverOverfull, [Next]_vars
  PROVE  NeverOverfull'
<1> SUFFICES ASSUME NEW b \in Buckets PROVE (tokens[b] <= TopLimit(b))'
  BY DEF NeverOverfull
<1>1. backpressure' = backpressure
  BY Unflagged
<1>2. TopLimit(b)' = TopLimit(b)
  BY <1>1 DEF TopLimit
<1>3. /\ tokens[b] \in Nat /\ tokens'[b] \in Nat /\ limit[b] \in Nat /\ tokens[b] <= TopLimit(b)
      /\ TopLimit(b) \in Nat /\ InitialTokens(b) \in Nat
      /\ limit[b] <= TopLimit(b) /\ InitialTokens(b) <= TopLimit(b)
  BY TopIs DEF TypeInv, TypeOK, NeverOverfull
<1>4. \/ tokens'[b] <= tokens[b]
      \/ tokens'[b] <= limit[b]
      \/ tokens'[b] <= InitialTokens(b)
  BY TokensMove
<1>5. tokens'[b] <= TopLimit(b)
  BY <1>3, <1>4, SMT
<1> QED BY <1>2, <1>5

LEMMA InvInit ==
  ASSUME LimiterAssumption, Init
  PROVE  Inv
<1>1. TypeInv /\ Balanced
  BY TypedInit, BalancedInit
<1>2. ASSUME NEW b \in Buckets PROVE tokens[b] <= TopLimit(b)
  <2>1. TopLimit(b) \in Nat /\ InitialTokens(b) \in Nat /\ InitialTokens(b) <= TopLimit(b)
    BY <1>1, TopIs
  <2>2. tokens[b] = 0 \/ tokens[b] = InitialTokens(b)
    BY DEF Init, InitialTokens
  <2> QED BY <2>1, <2>2, SMT
<1> QED BY <1>1, <1>2 DEF Inv, NeverOverfull

LEMMA InvStep ==
  ASSUME LimiterAssumption, Inv, [Next]_vars
  PROVE  Inv'
<1>1. TypeInv /\ Balanced /\ NeverOverfull
  BY DEF Inv
<1>2. TypeInv'
  BY <1>1, TypedStep
<1>3. Balanced' /\ NeverOverfull'
  BY <1>1, <1>2, BalancedStep, OverfullStep
<1> QED BY <1>2, <1>3 DEF Inv

(* What a bucket has paid for, it has earned.                              *)
LEMMA BalanceBounds ==
  ASSUME LimiterAssumption, Inv
  PROVE  BucketsSound
<1>1. TypeInv /\ Balanced /\ NeverOverfull
  BY DEF Inv
<1>2. /\ job \in [Threads -> Job] /\ tokens \in [Buckets -> Nat] /\ granted \in [Buckets -> Nat]
      /\ lastRefill \in [Buckets -> 0..clock] /\ clock \in Nat
  BY <1>1, TypesOf
<1>3. ASSUME NEW b \in Buckets
      PROVE  Cost * granted[b] <= InitialTokens(b) + TokensToAdd(clock, TopLimit(b))
  <2>1. TopLimit(b) \in Nat /\ InitialTokens(b) \in Nat /\ Cost \in {1, 2}
    BY <1>1, TopIs
  <2>2. tokens[b] \in Nat /\ granted[b] \in Nat /\ lastRefill[b] \in Nat /\ lastRefill[b] <= clock
    BY <1>2, SMT
  <2>3. /\ TokensToAdd(lastRefill[b], TopLimit(b)) \in Nat /\ TokensToAdd(clock, TopLimit(b)) \in Nat
        /\ TokensToAdd(lastRefill[b], TopLimit(b)) <= TokensToAdd(clock, TopLimit(b))
    BY <1>2, <2>1, <2>2, RefillsGrow
  <2>4. Cost * granted[b] \in Nat
    BY <2>1, <2>2, SMT
  <2>5. CASE b \in created
    <3>1. tokens[b] + Cost * granted[b] + Cardinality(Owed(b)) <= Earned(b)
      BY <1>1, <2>5 DEF Balanced, Balance
    <3>2. Cardinality(Owed(b)) \in Nat
      <4>1. [p \in Threads |-> Due(p, job[p], b)] \in [Threads -> Nat]
        BY <1>2, DueNat
      <4> QED BY <4>1, PileFinite DEF Owed
    <3> QED BY <2>1, <2>2, <2>3, <2>4, <3>1, <3>2, SMT DEF Earned
  <2>6. CASE b \notin created
    <3>1. granted[b] = 0
      BY <1>1, <2>6 DEF Balanced
    <3>2. Cost * granted[b] = 0
      BY <2>1, <3>1, SMT
    <3> QED BY <2>1, <2>3, <3>2, SMT
  <2> QED BY <2>5, <2>6
<1> QED BY <1>1, <1>3 DEF BucketsSound, RateRespected

(* Whatever the requests, the ticker, the temporary limits and the         *)
(* refusals of the global bucket interleave, no bucket pays for more       *)
(* requests than it held at first and its highest limit has earned since,  *)
(* and none overflows (TryConsume, refill, Return).                        *)
THEOREM BucketsAlwaysSound ==
  ASSUME LimiterAssumption PROVE Spec => []BucketsSound
<1>1. Init => Inv
  BY InvInit
<1>2. Inv /\ [Next]_vars => Inv'
  BY InvStep
<1>3. Inv => BucketsSound
  BY BalanceBounds
<1> QED BY <1>1, <1>2, <1>3, PTL DEF Spec

-----------------------------------------------------------------------------
(* The limit a tenant was created with comes back.                         *)
LEMMA CustomInit ==
  ASSUME LimiterAssumption, Init
  PROVE  OneCustom
<1>1. \A r \in Requests : job[r] = Idle /\ ~job[r].custom
  BY ThreadsAre DEF Init, Idle, Asking
<1>2. \A t \in Tenants : limit[t] = TenantLimit
  BY ThreadsAre DEF Init
<1> QED BY <1>1, <1>2 DEF OneCustom

(* A step that keeps the limits, and whose AllowWithLimits it is.          *)
LEMMA CustomKept ==
  ASSUME OneCustom, UNCHANGED limit, overlapped \subseteq overlapped',
         \A r \in Requests : /\ job'[r].custom <=> job[r].custom
                             /\ job[r].custom => job'[r].tenant = job[r].tenant /\ job'[r].old = job[r].old
  PROVE  OneCustom'
<1>1. \A t \in Tenants \ overlapped' : t \in Tenants \ overlapped
  OBVIOUS
<1>2. \A t : InCustom(t)' <=> InCustom(t)
  BY DEF InCustom
<1>3. ASSUME NEW t \in Tenants \ overlapped'
      PROVE  /\ \A r, s \in Requests : /\ job'[r].custom /\ job'[r].tenant = t
                                       /\ job'[s].custom /\ job'[s].tenant = t
                                       => r = s
             /\ \A r \in Requests : job'[r].custom /\ job'[r].tenant = t => job'[r].old = TenantLimit
             /\ ~InCustom(t)' => limit'[t] = TenantLimit
  BY <1>1, <1>2 DEF OneCustom
<1> QED BY <1>3 DEF OneCustom

(* A job that keeps its custom limit, if there is one.                     *)
Stays(j, k) ==
  IF j.custom THEN k.custom /\ k.tenant = j.tenant /\ k.old = j.old ELSE ~k.custom

LEMMA StaysAre ==
  ASSUME NEW j
  PROVE  /\ Stays(j, TakeTo(j)) /\ Stays(j, FinishTo(j, FALSE))
         /\ \A pc : Stays(j, GoTo(j, pc))
         /\ \A pc, b, now, last, add, ok : Stays(j, Step(j, pc, b, now, last, add, ok))
<1>1. \A pc, b, now, last, add, ok : Stays(j, Step(j, pc, b, now, last, add, ok))
  BY DEF Step, Stays
<1>2. ~j.custom => Stays(j, Idle)
  BY DEF Stays, Idle, Asking
<1>3. \A pc : Stays(j, GoTo(j, pc))
  BY <1>1 DEF GoTo
<1>4. \A ok : Stays(j, FinishTo(j, ok))
  BY <1>1, <1>2 DEF FinishTo
<1>5. Stays(j, TakeTo(j))
  BY <1>1, <1>4 DEF TakeTo
<1> QED BY <1>1, <1>3, <1>4, <1>5

LEMMA RefillMoves ==
  ASSUME job \in [Threads -> Job], NEW p \in Threads, Refill(p)
  PROVE  \E k : Moved(p, k) /\ (p = Ticker \/ Stays(job[p], k))
<1> DEFINE j == job[p]
           Goal == \E k : Moved(p, k) /\ (p = Ticker \/ Stays(j, k))
<1>1. j \in Job
  OBVIOUS
<1>2. ASSUME Refilled(p) PROVE Goal
  <2>1. Moved(p, RefilledTo(p, j))
    BY <1>2, JobHelpers
  <2>2. p = Ticker \/ RefilledTo(p, j) = Step(j, "retry", j.bucket, 0, 0, 0, j.ok)
    BY DEF RefilledTo
  <2> QED BY <2>1, <2>2, StaysAre
<1>3. ASSUME NEW x, NEW y, job' = [job EXCEPT ![p] = [job[p] EXCEPT !.pc = "swap", !.now = x, !.last = y]]
      PROVE  Goal
  <2>1. \A pc, u, v : [j EXCEPT !.pc = pc, !.now = u, !.last = v] = Step(j, pc, j.bucket, u, v, j.add, j.ok)
    BY <1>1, JobFields
  <2>2. [job[p] EXCEPT !.pc = "swap", !.now = x, !.last = y] = Step(j, "swap", j.bucket, x, y, j.add, j.ok)
    BY <2>1, Zenon
  <2>3. Moved(p, Step(j, "swap", j.bucket, x, y, j.add, j.ok))
    BY <1>3, <2>2, Zenon DEF Moved
  <2> QED BY <2>3, StaysAre
<1>4. ASSUME NEW x, job' = [job EXCEPT ![p] = [job[p] EXCEPT !.pc = "add", !.add = x]]
      PROVE  Goal
  <2>1. \A pc, u : [j EXCEPT !.pc = pc, !.add = u] = Step(j, pc, j.bucket, j.now, j.last, u, j.ok)
    BY <1>1, JobFields
  <2>2. [job[p] EXCEPT !.pc = "add", !.add = x] = Step(j, "add", j.bucket, j.now, j.last, x, j.ok)
    BY <2>1, Zenon
  <2>3. Moved(p, Step(j, "add", j.bucket, j.now, j.last, x, j.ok))
    BY <1>4, <2>2, Zenon DEF Moved
  <2> QED BY <2>3, StaysAre
<1> HIDE DEF Goal
<1>5. ASSUME LoadTimes(p) PROVE Goal
  <2> DEFINE last == lastRefill[job[p].bucket]
  <2>1. \/ Refilled(p)
        \/ job' = [job EXCEPT ![p] = [job[p] EXCEPT !.pc = "swap", !.now = clock, !.last = last]]
    BY <1>5, Zenon DEF LoadTimes
  <2> HIDE DEF last
  <2> QED BY <1>2, <1>3, <2>1
<1>6. ASSUME SwapLastRefill(p) PROVE Goal
  <2> DEFINE add == TokensToAdd(Elapsed(p), limit[job[p].bucket])
  <2>1. Refilled(p) \/ job' = [job EXCEPT ![p] = [job[p] EXCEPT !.pc = "add", !.add = add]]
    BY <1>6, Zenon DEF SwapLastRefill
  <2> HIDE DEF add
  <2> QED BY <1>2, <1>4, <2>1
<1>7. ASSUME AddTokens(p) PROVE Goal
  BY <1>2, <1>7 DEF AddTokens
<1>8. Goal
  BY <1>5, <1>6, <1>7 DEF Refill
<1> QED BY <1>8 DEF Goal

(* The steps that move one job, and neither begin nor end a custom limit.  *)
LEMMA CustomMove ==
  ASSUME LimiterAssumption, OneCustom, job \in [Threads -> Job], NEW q \in Threads, NEW k, Moved(q, k),
         q = Ticker \/ Stays(job[q], k), UNCHANGED limit, overlapped' = overlapped
  PROVE  OneCustom'
<1>1. ASSUME NEW r \in Requests
      PROVE  /\ job'[r].custom <=> job[r].custom
             /\ job[r].custom => job'[r].tenant = job[r].tenant /\ job'[r].old = job[r].old
  <2>1. r \in Threads /\ r # Ticker
    BY ThreadsAre
  <2>2. CASE r # q
    BY <2>1, <2>2 DEF Moved
  <2>3. CASE r = q
    <3>1. job'[r] = k
      BY <2>1, <2>3 DEF Moved
    <3> QED BY <2>1, <2>3, <3>1 DEF Stays
  <2> QED BY <2>2, <2>3
<1> QED BY <1>1, CustomKept

(* A custom limit that does not overlap another saves the first limit.     *)
LEMMA CustomBegins ==
  ASSUME LimiterAssumption, TypeInv, OneCustom,
         NEW q \in Requests, NEW t \in Tenants, NEW n \in Adaptive, AllowWithLimit(q, t, n)
  PROVE  OneCustom'
<1> DEFINE k == Asking(t, "set", TRUE, limit[t], n)
<1>1. job \in [Threads -> Job] /\ \A r \in Requests : r \in Threads
  BY TypesOf, ThreadsAre
<1>2. /\ job' = [job EXCEPT ![q] = k] /\ UNCHANGED limit
      /\ overlapped' = IF InCustom(t) THEN overlapped \cup {t} ELSE overlapped
  BY DEF AllowWithLimit
<1>3. k.custom /\ k.tenant = t /\ k.old = limit[t]
  BY DEF Asking
<1> HIDE DEF k
<1>4. job'[q] = k /\ \A r \in Requests : r # q => job'[r] = job[r]
  BY <1>1, <1>2
<1>5. ~job[q].custom
  <2>1. job[q].pc = "idle" /\ RequestRight(job[q], created)
    BY ThreadsAre DEF AllowWithLimit, At, TypeInv, JobsRight, JobRight
  <2> QED BY <2>1 DEF RequestRight
<1>6. ASSUME NEW u \in Tenants \ overlapped'
      PROVE  /\ \A r, s \in Requests : /\ job'[r].custom /\ job'[r].tenant = u
                                       /\ job'[s].custom /\ job'[s].tenant = u
                                       => r = s
             /\ \A r \in Requests : job'[r].custom /\ job'[r].tenant = u => job'[r].old = TenantLimit
             /\ ~InCustom(u)' => limit'[u] = TenantLimit
  <2>1. u \in Tenants \ overlapped
    BY <1>2
  <2>2. CASE u = t
    <3>1. ~InCustom(t) /\ limit[t] = TenantLimit
      BY <1>2, <1>6, <2>1, <2>2 DEF OneCustom
    <3>2. \A r \in Requests : job'[r].custom /\ job'[r].tenant = t => r = q
      BY <1>4, <3>1 DEF InCustom
    <3> QED BY <1>2, <1>3, <1>4, <2>2, <3>1, <3>2
  <2>3. CASE u # t
    <3>1. \A r \in Requests : (job'[r].custom /\ job'[r].tenant = u)
             <=> (job[r].custom /\ job[r].tenant = u)
      BY <1>3, <1>4, <1>5, <2>3
    <3>2. InCustom(u)' <=> InCustom(u)
      BY <3>1 DEF InCustom
    <3>3. \A r \in Requests : job'[r].custom /\ job'[r].tenant = u => job'[r].old = job[r].old
      BY <1>3, <1>4, <2>3
    <3> QED BY <1>2, <2>1, <3>1, <3>2, <3>3 DEF OneCustom
  <2> QED BY <2>2, <2>3
<1> QED BY <1>6 DEF OneCustom

(* It sets its tenant's limit, and puts the saved one back.                *)
LEMMA CustomSets ==
  ASSUME LimiterAssumption, TypeInv, OneCustom, NEW q \in Requests, SetLimit(q) \/ RestoreLimit(q)
  PROVE  OneCustom'
<1> DEFINE j == job[q]
           t == j.tenant
<1>1. /\ job \in [Threads -> Job] /\ limit \in [Buckets -> Nat]
      /\ q \in Threads /\ q # Ticker /\ \A r \in Requests : r \in Threads
  BY TypesOf, ThreadsAre
<1>2. j \in Job /\ RequestRight(j, created) /\ j.pc \in {"set", "restore"}
  BY <1>1 DEF TypeInv, JobsRight, JobRight, SetLimit, RestoreLimit, At
<1>3. j.custom /\ t \in Tenants /\ overlapped' = overlapped
  BY <1>2 DEF RequestRight, SetLimit, RestoreLimit, historyVars
<1>4. PICK n : limit' = [limit EXCEPT ![t] = n] /\ (RestoreLimit(q) => n = j.old)
  <2>1. CASE SetLimit(q) /\ ~RestoreLimit(q)
    BY <2>1 DEF SetLimit
  <2>2. CASE RestoreLimit(q)
    BY <2>2 DEF RestoreLimit
  <2> QED BY <2>1, <2>2
<1>5. PICK k : Moved(q, k) /\ IF RestoreLimit(q) THEN ~k.custom ELSE Stays(j, k)
  <2>1. CASE SetLimit(q) /\ ~RestoreLimit(q)
    <3>1. Moved(q, GoTo(j, "try"))
      BY <1>1, <2>1, JobHelpers DEF SetLimit
    <3>2. Stays(j, GoTo(j, "try"))
      BY StaysAre
    <3> QED BY <2>1, <3>1, <3>2
  <2>2. CASE RestoreLimit(q)
    <3>1. Moved(q, Idle) \/ Moved(q, Asking(t, "try", FALSE, 0, 0))
      BY <2>2, Zenon DEF RestoreLimit, AfterCustom, Moved
    <3>2. ~Idle.custom /\ ~Asking(t, "try", FALSE, 0, 0).custom
      BY DEF Idle, Asking
    <3> QED BY <2>2, <3>1, <3>2
  <2> QED BY <2>1, <2>2
<1>6. job'[q] = k /\ \A r \in Requests : r # q => job'[r] = job[r]
  BY <1>1, <1>5 DEF Moved
<1>7. \A u \in Tenants : u \in Buckets /\ limit'[u] = IF u = t THEN n ELSE limit[u]
  BY <1>1, <1>3, <1>4, ThreadsAre
<1>8. ASSUME NEW u \in Tenants \ overlapped'
      PROVE  /\ \A r, s \in Requests : /\ job'[r].custom /\ job'[r].tenant = u
                                       /\ job'[s].custom /\ job'[s].tenant = u
                                       => r = s
             /\ \A r \in Requests : job'[r].custom /\ job'[r].tenant = u => job'[r].old = TenantLimit
             /\ ~InCustom(u)' => limit'[u] = TenantLimit
  <2>1. u \in Tenants \ overlapped
    BY <1>3
  <2>2. \A r \in Requests : job'[r].custom
           => job[r].custom /\ job'[r].tenant = job[r].tenant /\ job'[r].old = job[r].old
    BY <1>3, <1>5, <1>6 DEF Stays
  <2>3. CASE u # t
    <3>1. InCustom(u)' <=> InCustom(u)
      BY <1>5, <1>6, <2>2, <2>3 DEF InCustom
    <3> QED BY <1>7, <2>1, <2>2, <2>3, <3>1 DEF OneCustom
  <2>4. CASE u = t
    <3>1. RestoreLimit(q) => limit'[u] = TenantLimit
      BY <1>3, <1>4, <1>7, <2>1, <2>4 DEF OneCustom
    <3>2. ~RestoreLimit(q) => InCustom(u)'
      BY <1>3, <1>5, <1>6, <2>4 DEF InCustom, Stays
    <3> QED BY <2>1, <2>2, <3>1, <3>2 DEF OneCustom
  <2> QED BY <2>3, <2>4
<1> QED BY <1>8 DEF OneCustom

LEMMA CustomStep ==
  ASSUME LimiterAssumption, TypeInv, OneCustom, [Next]_vars
  PROVE  OneCustom'
<1>1. /\ job \in [Threads -> Job] /\ limit \in [Buckets -> Nat]
      /\ \A p \in Threads : job[p] \in Job /\ JobRight(p, job[p], created)
  BY TypesOf DEF JobsRight
<1>2. \A r \in Requests : r \in Threads /\ r # Ticker /\ RequestRight(job[r], created)
  BY <1>1, ThreadsAre DEF JobRight
<1>3. CASE TimePasses \/ Tick \/ UNCHANGED vars
  <2>1. job' = job /\ UNCHANGED limit /\ overlapped' = overlapped
    BY <1>3 DEF TimePasses, Tick, vars, bucketVars, historyVars
  <2> QED BY <2>1, CustomKept
<1>4. ASSUME NEW b \in Buckets, NextBucket(b) PROVE OneCustom'
  <2>1. /\ job' = [job EXCEPT ![Ticker] = [job[Ticker] EXCEPT !.pc = "refill", !.bucket = b]]
        /\ UNCHANGED limit /\ overlapped' = overlapped
    BY <1>4 DEF NextBucket, bucketVars, historyVars
  <2>2. \A r \in Requests : job'[r] = job[r]
    BY <1>1, <1>2, <2>1
  <2> QED BY <2>1, <2>2, CustomKept
<1>5. ASSUME NEW r \in Requests, Request(r) PROVE OneCustom'
  <2>0. r \in Threads /\ r # Ticker /\ job[r] \in Job /\ RequestRight(job[r], created)
    BY <1>1, <1>2
  <2>1. ASSUME NEW t \in Tenants, Allow(r, t) PROVE OneCustom'
    <3>1. job' = [job EXCEPT ![r] = Asking(t, "try", FALSE, 0, 0)] /\ job[r].pc = "idle"
          /\ UNCHANGED limit /\ overlapped' = overlapped
      BY <2>1 DEF Allow, At, historyVars
    <3>2. ~job[r].custom /\ ~Asking(t, "try", FALSE, 0, 0).custom
      BY <2>0, <3>1 DEF RequestRight, Asking
    <3>3. \A s \in Requests : /\ job'[s].custom <=> job[s].custom
                              /\ job[s].custom => job'[s].tenant = job[s].tenant /\ job'[s].old = job[s].old
      BY <1>1, <1>2, <3>1, <3>2
    <3> QED BY <3>1, <3>3, CustomKept
  <2>2. ASSUME NEW t \in Tenants, NEW n \in Adaptive, AllowWithLimit(r, t, n) PROVE OneCustom'
    BY <2>2, CustomBegins
  <2>3. CASE SetLimit(r) \/ RestoreLimit(r)
    BY <2>3, CustomSets
  <2>4. CASE TryConsume(r) \/ TryAgain(r) \/ LoseSwap(r) \/ ReturnToken(r)
    <3>1. UNCHANGED limit /\ overlapped' = overlapped
      BY <2>4 DEF TryConsume, TryAgain, LoseSwap, ReturnToken, bucketVars, historyVars
    <3>2. \/ Take(r) \/ Goto(r, "refill") \/ Goto(r, "return") \/ Goto(r, "try") \/ Finish(r, FALSE)
      BY <2>4 DEF TryConsume, TryAgain, LoseSwap, ReturnToken
    <3>3. \/ Moved(r, TakeTo(job[r])) \/ Moved(r, FinishTo(job[r], FALSE))
          \/ Moved(r, GoTo(job[r], "refill")) \/ Moved(r, GoTo(job[r], "return"))
          \/ Moved(r, GoTo(job[r], "try"))
      BY <1>1, <2>0, <3>2, JobHelpers
    <3>4. \A k : Stays(job[r], k) /\ Moved(r, k) => OneCustom'
      BY <1>1, <2>0, <3>1, CustomMove
    <3>5. /\ Stays(job[r], TakeTo(job[r])) /\ Stays(job[r], FinishTo(job[r], FALSE))
          /\ \A pc : Stays(job[r], GoTo(job[r], pc))
      BY StaysAre
    <3> QED BY <3>3, <3>4, <3>5
  <2> QED BY <1>5, <2>1, <2>2, <2>3, <2>4 DEF Request
<1>6. ASSUME NEW p \in Threads, Refill(p) PROVE OneCustom'
  <2>1. UNCHANGED limit /\ overlapped' = overlapped
    BY <1>6 DEF Refill, LoadTimes, SwapLastRefill, AddTokens, bucketVars, historyVars
  <2>2. PICK k : Moved(p, k) /\ (p = Ticker \/ Stays(job[p], k))
    BY <1>1, <1>6, RefillMoves
  <2> QED BY <1>1, <2>1, <2>2, CustomMove
<1> QED BY <1>3, <1>4, <1>5, <1>6 DEF Next

LEMMA OneCustomRestores ==
  ASSUME OneCustom
  PROVE  LimitsRestored
BY DEF OneCustom, LimitsRestored

(* A tenant's limit is the one it was created with when no AllowWithLimit  *)
(* is in progress, however its requests end, if no two of them ever        *)
(* overlapped (AllowWithLimit: "Restore original limits").                 *)
THEOREM LimitsAlwaysRestored ==
  ASSUME LimiterAssumption PROVE Spec => []LimitsRestored
<1>1. Init => TypeInv /\ OneCustom
  BY TypedInit, CustomInit
<1>2. TypeInv /\ OneCustom /\ [Next]_vars => (TypeInv /\ OneCustom)'
  BY TypedStep, CustomStep
<1>3. OneCustom => LimitsRestored
  BY OneCustomRestores
<1> QED BY <1>1, <1>2, <1>3, PTL DEF Spec

=============================================================================

--------------------------- MODULE CircuitBreaker ---------------------------
(***************************************************************************)
(* The gateway's circuit breaker and its callers, the goroutines in        *)
(* HandleWithBackpressure.  Each looks at GetState first and answers 503   *)
(* while the circuit is open; the others run the request inside Call.      *)
(* (The queue workers would call the breaker without that look, but the    *)
(* queue is never filled: a request is queued only when 100 others are.)   *)
(*                                                                         *)
(* The breaker's fields are separate atomics; only transitionTo takes the  *)
(* mutex, so every Load, Add and Store of a caller is a step of its own.   *)
(* The clock is reduced to one bit: has the timeout passed since the last  *)
(* recorded failure?  With it the length of the timeout and its backoff    *)
(* drop out.  Counters saturate at the value their comparisons look at.    *)
(***************************************************************************)
EXTENDS Naturals, FiniteSets

CONSTANTS
  Callers,    (* goroutines in HandleWithBackpressure                      *)
  MaxFailures (* consecutive failures that open the circuit (100)          *)

VARIABLES
  state,             (* "closed", "open" or "halfOpen"                     *)
  failures,          (* saturates at MaxFailures                           *)
  successes,         (* saturates at SuccessesToClose                      *)
  halfOpenRequests,  (* saturates at MaxRequests + 1                       *)
  cooled,            (* time.Since(lastFailureTime) > timeout              *)
  mu,                (* holder of the mutex, or Nobody                     *)
  pc,                (* caller -> next step                                *)
  seen,              (* caller -> the state it loaded last                 *)
  target             (* caller -> argument of its transitionTo             *)

vars == <<state, failures, successes, halfOpenRequests, cooled, mu, pc, seen, target>>
counters == <<failures, successes, halfOpenRequests>>

States == {"closed", "open", "halfOpen"}
MaxRequests == MaxFailures \div 2
SuccessesToClose == MaxRequests \div 2
Nobody == "nobody"

(* A smaller threshold would close on the first success, or on none.       *)
ASSUME BreakerAssumption ==
  /\ MaxFailures \in Nat /\ MaxFailures >= 4
  /\ Nobody \notin Callers

Saturated(n, limit) == IF n < limit THEN n + 1 ELSE limit

At(c, label) == pc[c] = label
Goto(c, label) == pc' = [pc EXCEPT ![c] = label]
CallTransition(c, s) ==
  /\ Goto(c, "lock")
  /\ target' = [target EXCEPT ![c] = s]

Init ==
  /\ state = "closed"
  /\ failures = 0 /\ successes = 0 /\ halfOpenRequests = 0
  /\ cooled = TRUE /\ mu = Nobody
  /\ pc = [c \in Callers |-> "idle"]
  /\ seen = [c \in Callers |-> "closed"]
  /\ target = [c \in Callers |-> "closed"]

-----------------------------------------------------------------------------
(* A request arrives; when GetState() = StateOpen it is answered 503       *)
(* without a word to the breaker.                                          *)
Arrive(c) ==
  /\ At(c, "idle") /\ state # "open"
  /\ Goto(c, "allow")
  /\ UNCHANGED <<state, counters, cooled, mu, seen, target>>

-----------------------------------------------------------------------------
(* AllowRequest.                                                           *)

TimerFirst(c) ==   \* mutant: the timeout is looked at before the state
  /\ At(c, "allow")
  /\ seen' = [seen EXCEPT ![c] = state]
  /\ Goto(c, IF state # "halfOpen" /\ cooled THEN "timer" ELSE "run")
  /\ UNCHANGED <<state, counters, cooled, mu, target>>

LoadState(c) ==
  /\ At(c, "allow")
  /\ seen' = [seen EXCEPT ![c] = state]
  /\ Goto(c, CASE state = "closed" -> "run"
               [] state = "open" -> "timer"
               [] OTHER -> "permit")
  /\ UNCHANGED <<state, counters, cooled, mu, target>>

CheckTimer(c) ==
  /\ At(c, "timer")
  /\ IF cooled THEN CallTransition(c, "halfOpen")
               ELSE Goto(c, "idle") /\ UNCHANGED target
  /\ UNCHANGED <<state, counters, cooled, mu, seen>>

TakePermit(c) ==
  /\ At(c, "permit")
  /\ halfOpenRequests' = Saturated(halfOpenRequests, MaxRequests + 1)
  /\ Goto(c, IF halfOpenRequests' <= MaxRequests THEN "run" ELSE "idle")
  /\ UNCHANGED <<state, failures, successes, cooled, mu, seen, target>>

(* The request itself: the handler's status is below 500, or it is not.    *)
Run(c) ==
  /\ At(c, "run")
  /\ \E outcome \in {"succeeded", "failed"} : Goto(c, outcome)
  /\ UNCHANGED <<state, counters, cooled, mu, seen, target>>

-----------------------------------------------------------------------------
(* RecordSuccess.                                                          *)

LoadAfterSuccess(c) ==
  /\ At(c, "succeeded")
  /\ Goto(c, CASE state = "halfOpen" -> "addSuccess"
               [] state = "closed" -> "clearFailures"
               [] OTHER -> "idle")
  /\ seen' = [seen EXCEPT ![c] = state]
  /\ UNCHANGED <<state, counters, cooled, mu, target>>

EnoughSuccesses(n) == n >= SuccessesToClose

AddSuccess(c) ==
  /\ At(c, "addSuccess")
  /\ successes' = Saturated(successes, SuccessesToClose)
  /\ IF EnoughSuccesses(successes') THEN CallTransition(c, "closed")
                                    ELSE Goto(c, "idle") /\ UNCHANGED target
  /\ UNCHANGED <<state, failures, halfOpenRequests, cooled, mu, seen>>

ClearFailures(c) ==
  /\ At(c, "clearFailures")
  /\ failures' = 0
  /\ Goto(c, "idle")
  /\ UNCHANGED <<state, successes, halfOpenRequests, cooled, mu, seen, target>>

-----------------------------------------------------------------------------
(* RecordFailure.                                                          *)

StampFailure(c) ==
  /\ At(c, "failed")
  /\ cooled' = FALSE
  /\ Goto(c, "failedLoad")
  /\ UNCHANGED <<state, counters, mu, seen, target>>

LoadAfterFailure(c) ==
  /\ At(c, "failedLoad")
  /\ CASE state = "closed" -> Goto(c, "addFailure") /\ UNCHANGED target
       [] state = "halfOpen" -> CallTransition(c, "open")
       [] OTHER -> Goto(c, "idle") /\ UNCHANGED target
  /\ seen' = [seen EXCEPT ![c] = state]
  /\ UNCHANGED <<state, counters, cooled, mu>>

TooManyStrict(n) == n > MaxFailures   \* mutant: > for >=
TooMany(n) == n >= MaxFailures

AddFailure(c) ==
  /\ At(c, "addFailure")
  /\ failures' = Saturated(failures, MaxFailures)
  /\ IF TooMany(failures') THEN CallTransition(c, "open")
                              ELSE Goto(c, "idle") /\ UNCHANGED target
  /\ UNCHANGED <<state, successes, halfOpenRequests, cooled, mu, seen>>

-----------------------------------------------------------------------------
(* transitionTo: take the mutex, reset the counters, store the state.      *)

ResetCounters(c) ==
  /\ At(c, "lock") /\ mu = Nobody
  /\ mu' = c
  /\ successes' = 0
  /\ failures' = IF target[c] = "halfOpen" THEN failures ELSE 0
  /\ halfOpenRequests' = IF target[c] = "open" THEN halfOpenRequests ELSE 0
  /\ Goto(c, "store")
  /\ UNCHANGED <<state, cooled, seen, target>>

MissingUnlock(c) ==   \* mutant: the mutex is not released
  /\ At(c, "store")
  /\ state' = target[c]
  /\ Goto(c, IF target[c] = "halfOpen" THEN "run" ELSE "idle")
  /\ UNCHANGED <<counters, cooled, mu, seen, target>>

StoreState(c) ==
  /\ At(c, "store")
  /\ state' = target[c]
  /\ mu' = Nobody
  /\ Goto(c, IF target[c] = "halfOpen" THEN "run" ELSE "idle")
  /\ UNCHANGED <<counters, cooled, seen, target>>

-----------------------------------------------------------------------------
(* The timeout passes without a further failure.                           *)
TimePasses ==
  /\ ~cooled
  /\ cooled' = TRUE
  /\ UNCHANGED <<state, counters, mu, pc, seen, target>>

AllowRequest(c) == LoadState(c) \/ CheckTimer(c) \/ TakePermit(c)
RecordSuccess(c) == LoadAfterSuccess(c) \/ AddSuccess(c) \/ ClearFailures(c)
RecordFailure(c) == StampFailure(c) \/ LoadAfterFailure(c) \/ AddFailure(c)
TransitionTo(c) == ResetCounters(c) \/ StoreState(c)

Call(c) ==
  \/ Arrive(c) \/ AllowRequest(c) \/ Run(c)
  \/ RecordSuccess(c) \/ RecordFailure(c) \/ TransitionTo(c)

Next == (\E c \in Callers : Call(c)) \/ TimePasses

Spec == Init /\ [][Next]_vars

(* Requests keep coming, goroutines run, the mutex is fair and time passes. *)
Fairness ==
  /\ \A c \in Callers : WF_vars(Call(c)) /\ SF_vars(ResetCounters(c))
  /\ WF_vars(TimePasses)

FairSpec == Spec /\ Fairness

-----------------------------------------------------------------------------
Labels == {"idle", "allow", "timer", "permit", "run", "succeeded", "addSuccess",
           "clearFailures", "failed", "failedLoad", "addFailure", "lock", "store"}

(* Type correctness; the mutex is held exactly between reset and store.    *)
TypeOK ==
  /\ state \in States
  /\ failures \in 0..MaxFailures
  /\ successes \in 0..SuccessesToClose
  /\ halfOpenRequests \in 0..MaxRequests + 1
  /\ cooled \in BOOLEAN
  /\ mu \in Callers \cup {Nobody}
  /\ pc \in [Callers -> Labels]
  /\ \A c \in Callers : At(c, "store") <=> mu = c
  /\ seen \in [Callers -> States] /\ target \in [Callers -> States]

Recording == {"addSuccess", "addFailure", "lock", "store"}
AtRest == \A c \in Callers : pc[c] \notin Recording

(* No decision is ever lost in the races between the counters and the      *)
(* transitions: once nobody is in the middle of recording an outcome, the  *)
(* failures are below the opening threshold and the successes of a         *)
(* half-open circuit below the closing one (RecordSuccess, RecordFailure). *)
NothingOverdue ==
  AtRest => failures < MaxFailures /\ successes < SuccessesToClose

(* A circuit that opens is not open for ever: the next caller after the    *)
(* timeout makes it half-open (AllowRequest, "Time before attempting       *)
(* recovery").                                                             *)
OpenRecovers == state = "open" ~> state # "open"

(* A caller that is not overtaken moves the circuit as intended: from      *)
(* closed to open, from open to half-open, from half-open to either.  Only *)
(* a caller whose loaded state another one has changed since can do        *)
(* anything else (AllowRequest, RecordSuccess, RecordFailure: Load, then   *)
(* transitionTo).                                                          *)
LegalChange ==
  /\ state = "closed" => state' # "halfOpen"
  /\ state = "open" => state' # "closed"
Overtaken(c) == At(c, "store") /\ seen[c] # state
LegalTransitions == [][LegalChange \/ \E c \in Callers : Overtaken(c)]_vars

(* "Any failure in half-open state reopens the circuit": what a failed     *)
(* probe opened is not closed by another probe's success.                  *)
ReopenedStaysOpen == [][state = "open" => state' # "closed"]_vars

(* "Max requests in half-open state": of the requests let through because  *)
(* the circuit was not closed, at most MaxRequests run at a time.          *)
ProbesBounded ==
  Cardinality({c \in Callers : At(c, "run") /\ seen[c] # "closed"}) <= MaxRequests
=============================================================================

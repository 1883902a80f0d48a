------------------------ MODULE CircuitBreakerProofs ------------------------
(***************************************************************************)
(* Proofs about CircuitBreaker for any number of callers and any threshold:*)
(* type correctness, NothingOverdue and LegalTransitions.                  *)
(*                                                                         *)
(* NothingOverdue is not inductive: it says nothing about a counter that   *)
(* has reached its threshold while somebody is recording.  DecisionPending *)
(* does: the caller whose Add reached it is on its way to transitionTo.    *)
(* LegalTransitions needs to know what a caller loaded before it chose the *)
(* state it is about to store: TargetFollows.                              *)
(***************************************************************************)
EXTENDS CircuitBreaker, TLAPS

DecisionPending ==
  /\ failures = MaxFailures =>
       \E c \in Callers : pc[c] = "lock" /\ target[c] = "open"
  /\ successes = SuccessesToClose =>
       \E c \in Callers : pc[c] = "lock" /\ target[c] = "closed"

(* The thresholds are positive.                                            *)
LEMMA Thresholds ==
  /\ MaxFailures \in Nat \ {0}
  /\ MaxRequests \in Nat \ {0}
  /\ SuccessesToClose \in Nat \ {0}
BY BreakerAssumption, SMT DEF BreakerAssumption, MaxRequests, SuccessesToClose

(* A saturated counter stays within its limit and grows by at most one.    *)
LEMMA SaturatedRange ==
  ASSUME NEW limit \in Nat, NEW n \in 0..limit
  PROVE  Saturated(n, limit) \in 0..limit
BY SMT DEF Saturated

USE DEF At, Goto, CallTransition, States, counters

(* Every variable keeps its type, and the mutex is held exactly by the     *)
(* caller between the reset of the counters and the store of the state.    *)
LEMMA TypeStep == TypeOK /\ [Next]_vars => TypeOK'
<1> SUFFICES ASSUME TypeOK, [Next]_vars PROVE TypeOK'
  OBVIOUS
<1> USE DEF TypeOK, Labels
<1>1. ASSUME NEW c \in Callers, Arrive(c) PROVE TypeOK'
  BY <1>1, SMT DEF Arrive
<1>2. ASSUME NEW c \in Callers, LoadState(c) PROVE TypeOK'
  BY <1>2, SMT DEF LoadState
<1>3. ASSUME NEW c \in Callers, CheckTimer(c) PROVE TypeOK'
  BY <1>3, SMT DEF CheckTimer
<1>4. ASSUME NEW c \in Callers, TakePermit(c) PROVE TypeOK'
  <2>1. halfOpenRequests' \in 0..MaxRequests + 1
    BY <1>4, Thresholds, SaturatedRange DEF TakePermit
  <2> QED BY <1>4, <2>1, SMT DEF TakePermit
<1>5. ASSUME NEW c \in Callers, Run(c) PROVE TypeOK'
  BY <1>5, SMT DEF Run
<1>6. ASSUME NEW c \in Callers, LoadAfterSuccess(c) PROVE TypeOK'
  BY <1>6, SMT DEF LoadAfterSuccess
<1>7. ASSUME NEW c \in Callers, AddSuccess(c) PROVE TypeOK'
  <2>1. successes' \in 0..SuccessesToClose
    BY <1>7, Thresholds, SaturatedRange DEF AddSuccess
  <2> QED BY <1>7, <2>1, SMT DEF AddSuccess
<1>8. ASSUME NEW c \in Callers, ClearFailures(c) PROVE TypeOK'
  BY <1>8, Thresholds, SMT DEF ClearFailures
<1>9. ASSUME NEW c \in Callers, StampFailure(c) PROVE TypeOK'
  <2>1. cooled' \in BOOLEAN
    BY <1>9 DEF StampFailure
  <2>2. pc' \in [Callers -> Labels] /\ \A d \in Callers : (pc'[d] = "store") <=> (pc[d] = "store")
    BY <1>9, SMT DEF StampFailure
  <2> QED BY <1>9, <2>1, <2>2 DEF StampFailure
<1>10. ASSUME NEW c \in Callers, LoadAfterFailure(c) PROVE TypeOK'
  BY <1>10, SMT DEF LoadAfterFailure
<1>11. ASSUME NEW c \in Callers, AddFailure(c) PROVE TypeOK'
  <2>1. failures' \in 0..MaxFailures
    BY <1>11, Thresholds, SaturatedRange DEF AddFailure, TooMany
  <2> QED BY <1>11, <2>1, SMT DEF AddFailure, TooMany
<1>12. ASSUME NEW c \in Callers, ResetCounters(c) PROVE TypeOK'
  BY <1>12, Thresholds, BreakerAssumption, SMT DEF ResetCounters, BreakerAssumption
<1>13. ASSUME NEW c \in Callers, StoreState(c) PROVE TypeOK'
  BY <1>13, BreakerAssumption, SMT DEF StoreState, BreakerAssumption
<1>14. CASE TimePasses
  BY <1>14 DEF TimePasses
<1>15. CASE UNCHANGED vars
  BY <1>15 DEF vars
<1> QED
  BY <1>1, <1>2, <1>3, <1>4, <1>5, <1>6, <1>7, <1>8, <1>9, <1>10, <1>11, <1>12, <1>13,
     <1>14, <1>15
  DEF Next, Call, AllowRequest, RecordSuccess, RecordFailure, TransitionTo

(* Type correctness of the breaker.                                        *)
THEOREM TypeCorrect == Spec => []TypeOK
<1>1. Init => TypeOK
  BY Thresholds, BreakerAssumption, SMT DEF Init, TypeOK, Labels, BreakerAssumption
<1> QED BY <1>1, TypeStep, PTL DEF Spec

(* The witness of a pending decision leaves "lock" only by resetting the   *)
(* counter it was waiting to reset.                                        *)
LEMMA PendingStep == TypeOK /\ DecisionPending /\ [Next]_vars => DecisionPending'
<1> SUFFICES ASSUME TypeOK, DecisionPending, [Next]_vars PROVE DecisionPending'
  OBVIOUS
<1> USE DEF TypeOK, DecisionPending
<1>1. ASSUME NEW c \in Callers, Arrive(c) PROVE DecisionPending'
  BY <1>1, SMT DEF Arrive
<1>2. ASSUME NEW c \in Callers, LoadState(c) PROVE DecisionPending'
  BY <1>2, SMT DEF LoadState
<1>3. ASSUME NEW c \in Callers, CheckTimer(c) PROVE DecisionPending'
  BY <1>3, SMT DEF CheckTimer
<1>4. ASSUME NEW c \in Callers, TakePermit(c) PROVE DecisionPending'
  BY <1>4, SMT DEF TakePermit
<1>5. ASSUME NEW c \in Callers, Run(c) PROVE DecisionPending'
  BY <1>5, SMT DEF Run
<1>6. ASSUME NEW c \in Callers, LoadAfterSuccess(c) PROVE DecisionPending'
  BY <1>6, SMT DEF LoadAfterSuccess
<1>7. ASSUME NEW c \in Callers, AddSuccess(c) PROVE DecisionPending'
  BY <1>7, Thresholds, SMT DEF AddSuccess, EnoughSuccesses
<1>8. ASSUME NEW c \in Callers, ClearFailures(c) PROVE DecisionPending'
  BY <1>8, Thresholds, SMT DEF ClearFailures
<1>9. ASSUME NEW c \in Callers, StampFailure(c) PROVE DecisionPending'
  BY <1>9, SMT DEF StampFailure
<1>10. ASSUME NEW c \in Callers, LoadAfterFailure(c) PROVE DecisionPending'
  BY <1>10, SMT DEF LoadAfterFailure
<1>11. ASSUME NEW c \in Callers, AddFailure(c) PROVE DecisionPending'
  BY <1>11, Thresholds, SMT DEF AddFailure, TooMany
<1>12. ASSUME NEW c \in Callers, ResetCounters(c) PROVE DecisionPending'
  BY <1>12, Thresholds, SMT DEF ResetCounters
<1>13. ASSUME NEW c \in Callers, StoreState(c) PROVE DecisionPending'
  BY <1>13, SMT DEF StoreState
<1>14. CASE TimePasses
  BY <1>14 DEF TimePasses
<1>15. CASE UNCHANGED vars
  BY <1>15 DEF vars
<1> QED
  BY <1>1, <1>2, <1>3, <1>4, <1>5, <1>6, <1>7, <1>8, <1>9, <1>10, <1>11, <1>12, <1>13,
     <1>14, <1>15
  DEF Next, Call, AllowRequest, RecordSuccess, RecordFailure, TransitionTo

(* However many callers race, no decision to open or to close is lost: with*)
(* nobody recording, both counters are below their thresholds              *)
(* (RecordSuccess, RecordFailure, transitionTo).                           *)
THEOREM NoDecisionLost == Spec => []NothingOverdue
<1>1. Init => DecisionPending
  BY Thresholds, SMT DEF Init, DecisionPending
<1>2. TypeOK /\ DecisionPending => NothingOverdue
  BY Thresholds, SMT DEF TypeOK, DecisionPending, NothingOverdue, AtRest, Recording
<1> QED BY <1>1, <1>2, TypeCorrect, PendingStep, PTL DEF Spec

-----------------------------------------------------------------------------
(* A caller's next step, and the state it wants to store, follow from the  *)
(* state it loaded.                                                        *)
TargetFollows ==
  \A c \in Callers :
    /\ pc[c] = "timer" => seen[c] = "open"
    /\ pc[c] = "addSuccess" => seen[c] = "halfOpen"
    /\ pc[c] = "addFailure" => seen[c] = "closed"
    /\ pc[c] \in {"lock", "store"} =>
         /\ target[c] = "halfOpen" => seen[c] = "open"
         /\ target[c] = "closed" => seen[c] = "halfOpen"

LEMMA TargetStep == TypeOK /\ TargetFollows /\ [Next]_vars => TargetFollows'
<1> SUFFICES ASSUME TypeOK, TargetFollows, [Next]_vars PROVE TargetFollows'
  OBVIOUS
<1> USE DEF TypeOK, TargetFollows
<1>1. ASSUME NEW c \in Callers, Arrive(c) PROVE TargetFollows'
  BY <1>1, SMT DEF Arrive
<1>2. ASSUME NEW c \in Callers, AllowRequest(c) PROVE TargetFollows'
  BY <1>2, SMT DEF AllowRequest, LoadState, CheckTimer, TakePermit
<1>3. ASSUME NEW c \in Callers, Run(c) PROVE TargetFollows'
  BY <1>3, SMT DEF Run
<1>4. ASSUME NEW c \in Callers, RecordSuccess(c) PROVE TargetFollows'
  BY <1>4, SMT DEF RecordSuccess, LoadAfterSuccess, AddSuccess, ClearFailures
<1>5. ASSUME NEW c \in Callers, RecordFailure(c) PROVE TargetFollows'
  BY <1>5, SMT DEF RecordFailure, StampFailure, LoadAfterFailure, AddFailure
<1>6. ASSUME NEW c \in Callers, TransitionTo(c) PROVE TargetFollows'
  BY <1>6, SMT DEF TransitionTo, ResetCounters, StoreState
<1>7. CASE TimePasses \/ UNCHANGED vars
  BY <1>7 DEF TimePasses, vars
<1> QED BY <1>1, <1>2, <1>3, <1>4, <1>5, <1>6, <1>7 DEF Next, Call

(* Only a store changes the state.                                         *)
LEMMA StateStep ==
  ASSUME TypeOK, TargetFollows, [Next]_vars
  PROVE  [LegalChange \/ \E c \in Callers : Overtaken(c)]_vars
<1>1. CASE UNCHANGED state
  BY <1>1 DEF LegalChange
<1>2. ASSUME NEW c \in Callers, StoreState(c), ~Overtaken(c) PROVE LegalChange
  <2>1. pc[c] = "store" /\ seen[c] = state /\ state' = target[c]
    BY <1>2 DEF StoreState, Overtaken
  <2> QED BY <2>1 DEF LegalChange, TargetFollows
<1>3. state' = state \/ \E c \in Callers : StoreState(c)
  BY DEF Next, Call, AllowRequest, RecordSuccess, RecordFailure, TransitionTo, Arrive,
         LoadState, CheckTimer, TakePermit, Run, LoadAfterSuccess, AddSuccess, ClearFailures,
         StampFailure, LoadAfterFailure, AddFailure, ResetCounters, TimePasses, vars
<1> QED BY <1>1, <1>2, <1>3

(* Unless another caller has changed the state since it was loaded, the    *)
(* circuit goes from closed to open, from open to half-open, and from      *)
(* half-open to either (AllowRequest, RecordSuccess, RecordFailure).       *)
THEOREM TransitionsLegal == Spec => LegalTransitions
<1>1. Init => TargetFollows
  BY DEF Init, TargetFollows
<1> QED BY <1>1, TypeCorrect, TargetStep, StateStep, PTL DEF Spec, LegalTransitions
=============================================================================

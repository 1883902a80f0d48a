---------------------------- MODULE AdaptiveLimits ----------------------------
(***************************************************************************)
(* The gateway's adaptive controller: handlers record successes and, at    *)
(* their end, latencies in the current slot of a window; every second the  *)
(* next slot begins and the two limits move with what the window holds.    *)
(* Handlers ask for the rate limit; nothing but the status page asks for   *)
(* the queue size.                                                         *)
(***************************************************************************)
EXTENDS Integers, FiniteSets, FiniteSetsExt

CONSTANTS
  WindowSize,
  MinLimit, MaxLimit,   (* the same for both limits in the gateway         *)
  Increase, Decrease,   (* rates in tenths: 11 and 8                       *)
  Target,               (* latency; the model has one above it and 1       *)
  MaxSuccesses          (* bound: more in a slot are not told apart        *)

AdaptiveLimitsAssumption ==
  /\ WindowSize \in Nat \ {0} /\ MinLimit \in Nat \ {0} /\ MaxLimit \in Nat
  /\ MinLimit <= MaxLimit /\ Increase \in Nat /\ Increase > 10 /\ Decrease \in 1..9
  /\ (MinLimit * Increase) \div 10 > MinLimit   \* an increase is one
  /\ Target \in Nat /\ Target > 2 /\ MaxSuccesses \in Nat \ {0}

VARIABLES
  latencies,     (* slot -> the latency recorded last, 0 for none or < 1ms *)
  successes,     (* slot -> successes counted, not their share             *)
  index,
  rateLimit, queueSize,
  missed         (* history: slot -> a request failed in it                *)

vars == <<latencies, successes, index, rateLimit, queueSize, missed>>

Slots == 0..WindowSize - 1
Slow == Target + 1
Smaller(m, n) == IF m < n THEN m ELSE n
Larger(m, n)  == IF m > n THEN m ELSE n

Init ==
  /\ latencies = [i \in Slots |-> 0] /\ successes = [i \in Slots |-> 0] /\ index = 0
  /\ rateLimit = (MinLimit + MaxLimit) \div 2 /\ queueSize = rateLimit
  /\ missed = [i \in Slots |-> FALSE]

-----------------------------------------------------------------------------
RecordSuccess(success) ==
  /\ IF success
     THEN /\ successes' = [successes EXCEPT ![index] = Smaller(MaxSuccesses, @ + 1)]
          /\ UNCHANGED missed
     ELSE UNCHANGED successes /\ missed' = [missed EXCEPT ![index] = TRUE]
  /\ UNCHANGED <<latencies, index, rateLimit, queueSize>>

RecordLatency ==
  /\ \E ms \in {0, 1, Slow} : latencies' = [latencies EXCEPT ![index] = ms]
  /\ UNCHANGED <<successes, index, rateLimit, queueSize, missed>>

Next1 == (index + 1) % WindowSize
Measured == {i \in Slots : latencies[i] > 0}
TotalLatency == MapThenSumSet(LAMBDA i : latencies[i], Measured)
TotalSuccess == MapThenSumSet(LAMBDA i : successes[i], Measured)
n == Cardinality(Measured)


(* On average, by integer division; of successes one in each slot is what  *)
(* the code takes for a hundred percent.                                   *)
TooSlow   == TotalLatency \div n > Target \/ TotalSuccess < n
WellBelow == TotalLatency \div n < (Target * 8) \div 10 /\ TotalSuccess >= n

Shrunk(limit) == Larger(MinLimit, (limit * Decrease) \div 10)
Uncapped(limit) == (limit * Increase) \div 10   \* mutant
Grown(limit) == Smaller(MaxLimit, (limit * Increase) \div 10)

(* adjust looks at the slot it enters before it clears it.  Two limits are *)
(* two stores, of which nobody reads both.                                 *)
adjust ==
  /\ index' = Next1
  /\ latencies' = [latencies EXCEPT ![Next1] = 0]
  /\ successes' = [successes EXCEPT ![Next1] = 0]
  /\ missed' = [missed EXCEPT ![Next1] = FALSE]
  /\ IF n > 0 /\ TooSlow THEN rateLimit' = Shrunk(rateLimit) /\ queueSize' = Shrunk(queueSize)
     ELSE IF n > 0 /\ WellBelow THEN rateLimit' = Grown(rateLimit) /\ queueSize' = Grown(queueSize)
     ELSE UNCHANGED <<rateLimit, queueSize>>

Next == RecordLatency \/ (\E success \in BOOLEAN : RecordSuccess(success)) \/ adjust

Spec == Init /\ [][Next]_vars

-----------------------------------------------------------------------------
(* Type correctness: whatever the window holds, also nothing, both limits  *)
(* keep to their bounds (adjust).                                          *)
TypeOK ==
  /\ latencies \in [Slots -> {0, 1, Slow}] /\ successes \in [Slots -> 0..MaxSuccesses]
  /\ index \in Slots /\ missed \in [Slots -> BOOLEAN]
  /\ rateLimit \in MinLimit..MaxLimit /\ queueSize \in MinLimit..MaxLimit

(* Refuted: the limits do not grow while half of the requests fail.  The   *)
(* mean of what is counted in the slots is taken for a rate                *)
(* (adaptive.go:109).                                                      *)
FailuresNoticed == [][rateLimit' > rateLimit => \E i \in Slots : ~missed[i]]_vars

(* Refuted: the limits shrink only for slow or failed requests.  Those     *)
(* that were shed or rate limited record a latency, and no success         *)
(* (handler_backpressure.go:97).                                           *)
ShrinksForCause ==
  [][rateLimit' < rateLimit => \E i \in Slots : missed[i] \/ latencies[i] = Slow]_vars
=============================================================================

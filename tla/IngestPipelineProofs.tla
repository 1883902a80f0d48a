------------------------ MODULE IngestPipelineProofs ------------------------
(***************************************************************************)
(* Proofs about IngestPipeline for any events, workers, capacities and     *)
(* numbers of faults: type correctness, that the hot tier counts no event  *)
(* twice, that the committed offset stays behind the hand-over, that every *)
(* loss has a failure that explains it, and that the pipeline implements   *)
(* EventLedger.                                                            *)
(*                                                                         *)
(* NoDoubleCount is not inductive.  AppliedOnce adds what LoadOrStore      *)
(* gives: a call that is about to write an event is the only one that is,  *)
(* has the event in the index, and finds it not yet in the buffers.        *)
(* LossExplained is not either: Accounted, below, says where every event   *)
(* of the log is and what the two indexes know of it.  The refinement then *)
(* needs to know of each action which offsets it lets go of.               *)
(***************************************************************************)
EXTENDS IngestPipeline, FiniteSetTheorems, TLAPS

AppliedOnce ==
  /\ \A c \in calls : c.applying =>
       c.records # <<>> /\ FirstEvent(c) \in hotDedup /\ applied[FirstEvent(c)] = 0
  /\ \A c, d \in calls : c.applying /\ d.applying /\ FirstEvent(c) = FirstEvent(d) => c = d
  /\ \A e \in Events : applied[e] <= 1 /\ (applied[e] > 0 => e \in hotDedup)

-----------------------------------------------------------------------------
(* A sequence over a set is one over every larger set.                     *)
LEMMA SeqMonotone ==
  ASSUME NEW S, NEW T, S \subseteq T, NEW s \in Seq(S)
  PROVE  s \in Seq(T)
BY SMT

(* What is at some offsets of the log are events.                          *)
LEMMA EventsAtOffsets ==
  ASSUME log \in Seq(Events), NEW S \in SUBSET Offsets
  PROVE  EventsAt(S) \subseteq Events
BY SMT DEF EventsAt, Offsets

(* The elements of a sequence of offsets are offsets.                      *)
LEMMA ElementsOffsets ==
  ASSUME NEW s \in Seq(Offsets)
  PROVE  Elements(s) \subseteq Offsets
BY SMT DEF Elements

(* The conjuncts of TypeOK an action leaves alone.                         *)
LEMMA Frame ==
  /\ LogOK /\ UNCHANGED <<log, committed>> => LogOK'
  /\ ConsumerOK /\ UNCHANGED <<log, process, consumer, marked, messages>> => ConsumerOK'
  /\ WorkersOK /\ UNCHANGED <<log, wpc, leaving, batch, out, call>> => WorkersOK'
  /\ CallsOK /\ UNCHANGED <<log, calls, lastCall>> => CallsOK'
  /\ IndexesOK /\ UNCHANGED <<dedup, hotDedup, applied, excused, misjudged>> => IndexesOK'
  /\ BoundsOK /\ UNCHANGED <<faults, stops, expiries>> => BoundsOK'
<1>1. LogOK /\ UNCHANGED <<log, committed>> => LogOK'
  BY DEF LogOK, Offsets
<1>2. ConsumerOK /\ UNCHANGED <<log, process, consumer, marked, messages>> => ConsumerOK'
  BY DEF ConsumerOK, Offsets
<1>3. WorkersOK /\ UNCHANGED <<log, wpc, leaving, batch, out, call>> => WorkersOK'
  BY DEF WorkersOK, Offsets
<1>4. CallsOK /\ UNCHANGED <<log, calls, lastCall>> => CallsOK'
  BY DEF CallsOK, Call, Offsets
<1>5. IndexesOK /\ UNCHANGED <<dedup, hotDedup, applied, excused, misjudged>> => IndexesOK'
  BY DEF IndexesOK
<1>6. BoundsOK /\ UNCHANGED <<faults, stops, expiries>> => BoundsOK'
  BY DEF BoundsOK
<1> QED BY <1>1, <1>2, <1>3, <1>4, <1>5, <1>6

(* What the ingester and the calls hold are offsets of the log.            *)
LEMMA HeldOffsets == TypeOK => InProcess \subseteq Offsets /\ InCalls \subseteq Offsets
<1> SUFFICES ASSUME TypeOK PROVE InProcess \subseteq Offsets /\ InCalls \subseteq Offsets
  OBVIOUS
<1>1. Unsent \subseteq Offsets
  BY DEF Unsent, TypeOK, ConsumerOK
<1>2. Elements(messages) \subseteq Offsets
  BY ElementsOffsets DEF TypeOK, ConsumerOK
<1>3. \A w \in Workers : HeldBy(w) \subseteq Offsets
  BY ElementsOffsets DEF HeldBy, TypeOK, WorkersOK
<1>4. \A c \in calls : Elements(c.records) \subseteq Offsets
  BY ElementsOffsets DEF Call, TypeOK, CallsOK
<1> QED BY <1>1, <1>2, <1>3, <1>4 DEF InProcess, InCalls

USE DEF kafkaVars, consumerVars, workerVars, hotVars, callVars, boundVars, historyVars

(* Kafka and the consumer goroutine.                                       *)
LEMMA ConsumerTypeStep ==
  ASSUME TypeOK,
         (\E e \in Events : Produce(e)) \/ ConsumerStep \/ FlushCommit
  PROVE  TypeOK'
<1> USE DEF TypeOK
<1>1. ASSUME NEW e \in Events, Produce(e) PROVE TypeOK'
  <2>1. log' \in Seq(Events) /\ Len(log') = Len(log) + 1 /\ Len(log') <= MaxLog
    BY <1>1, ConstantsAssumption, SMT DEF Produce, LogOK, ConstantsAssumption
  <2>2. Offsets \subseteq Offsets'
    BY <2>1, SMT DEF Offsets, LogOK
  <2>3. Seq(Offsets) \subseteq Seq(Offsets')
    BY <2>2, SeqMonotone
  <2>4. LogOK'
    BY <1>1, <2>1, <2>2 DEF Produce, LogOK
  <2>5. ConsumerOK'
    BY <1>1, <2>2, <2>3 DEF Produce, ConsumerOK
  <2>6. WorkersOK'
    BY <1>1, <2>3, SMT DEF Produce, WorkersOK
  <2>7. CallsOK'
    BY <1>1, <2>3, SMT DEF Produce, CallsOK, Call
  <2> QED BY <1>1, <2>4, <2>5, <2>6, <2>7, Frame DEF Produce
<1>2. CASE Fetch
  <2>1. consumer.next + 1 \in Offsets
    BY <1>2, SMT DEF Fetch, ConsumerOK, LogOK, Offsets
  <2>2. ConsumerOK'
    BY <1>2, <2>1, SMT DEF Fetch, ConsumerOK, Offsets
  <2> QED BY <1>2, <2>2, Frame DEF Fetch
<1>3. CASE HandOver
  <2>1. consumer.next \in Offsets /\ consumer' = [pc |-> "commit", next |-> consumer.next]
    BY <1>3, SMT DEF HandOver, ConsumerOK
  <2>2. messages' \in Seq(Offsets)
    BY <1>3, <2>1, SMT DEF HandOver, ConsumerOK
  <2>3. ConsumerOK'
    BY <1>3, <2>1, <2>2, SMT DEF HandOver, ConsumerOK, Offsets
  <2> QED BY <1>3, <2>3, Frame DEF HandOver
<1>4. CASE CommitMessages
  <2>1. consumer.next \in Offsets /\ consumer' = [pc |-> "fetch", next |-> consumer.next]
    BY <1>4, SMT DEF CommitMessages, ConsumerOK
  <2>2. ConsumerOK'
    BY <1>4, <2>1, SMT DEF CommitMessages, ConsumerOK, Offsets
  <2> QED BY <1>4, <2>2, Frame DEF CommitMessages
<1>5. CASE FlushCommit
  <2>1. LogOK'
    BY <1>5, SMT DEF FlushCommit, LogOK, ConsumerOK, Offsets
  <2> QED BY <1>5, <2>1, Frame DEF FlushCommit
<1> QED BY <1>1, <1>2, <1>3, <1>4, <1>5 DEF ConsumerStep

(* A worker.                                                               *)
LEMMA WorkerTypeStep ==
  ASSUME TypeOK, NEW w \in Workers, WorkerStep(w)
  PROVE  TypeOK'
<1> USE DEF TypeOK, WorkerSteps
<1>1. CASE Receive(w)
  <2>1. Head(messages) \in Offsets /\ messages' \in Seq(Offsets)
    BY <1>1, SMT DEF Receive, ConsumerOK
  <2>2. ConsumerOK'
    BY <1>1, <2>1, SMT DEF Receive, ConsumerOK, Offsets
  <2>3. WorkersOK'
    BY <1>1, <2>1, SMT DEF Receive, WorkersOK, Offsets
  <2> QED BY <1>1, <2>2, <2>3, Frame DEF Receive
<1>2. CASE TickerFlush(w)
  <2>1. WorkersOK'
    BY <1>2, SMT DEF TickerFlush, WorkersOK, Offsets
  <2> QED BY <1>2, <2>1, Frame DEF TickerFlush
<1>3. CASE Cancelled(w)
  <2>1. leaving' \in [Workers -> BOOLEAN]
    BY <1>3 DEF Cancelled, WorkersOK
  <2>2. WorkersOK'
    BY <1>3, <2>1, SMT DEF Cancelled, CancelledBatch, WorkersOK, Offsets
  <2> QED BY <1>3, <2>2, Frame DEF Cancelled
<1>4. CASE LookUp(w)
  <2>1. Head(batch[w]) \in Offsets /\ Tail(batch[w]) \in Seq(Offsets)
    BY <1>4, SMT DEF LookUp, WorkersOK
  <2>2. log[Head(batch[w])] \in Events
    BY <2>1, SMT DEF LogOK, Offsets
  <2>3. misjudged' \in SUBSET Events
    BY <1>4, <2>2, SMT DEF LookUp, IndexesOK
  <2>4. IndexesOK'
    BY <1>4, <2>3 DEF LookUp, IndexesOK
  <2>5. WorkersOK'
    <3>1. CASE log[Head(batch[w])] \in dedup
      <4>1. /\ batch' = [batch EXCEPT ![w] = Tail(@)] /\ wpc' = wpc
            /\ UNCHANGED <<log, leaving, out, call>>
        BY <1>4, <3>1 DEF LookUp
      <4>2. wpc[w] = "dedup"
        BY <1>4 DEF LookUp
      <4> QED BY <2>1, <4>1, <4>2, SMT DEF WorkersOK, Offsets
    <3>2. CASE log[Head(batch[w])] \notin dedup
      <4>1. /\ wpc' = [wpc EXCEPT ![w] = "store"] /\ batch[w] # <<>>
            /\ UNCHANGED <<log, leaving, batch, out, call>>
        BY <1>4, <3>2 DEF LookUp
      <4> QED BY <4>1, SMT DEF WorkersOK, Offsets
    <3> QED BY <3>1, <3>2
  <2> QED BY <1>4, <2>4, <2>5, Frame DEF LookUp
<1>5. CASE StoreKey(w)
  <2>1. Head(batch[w]) \in Offsets /\ Tail(batch[w]) \in Seq(Offsets)
    BY <1>5, SMT DEF StoreKey, WorkersOK
  <2>2. log[Head(batch[w])] \in Events
    BY <2>1, SMT DEF LogOK, Offsets
  <2>3. IndexesOK'
    BY <1>5, <2>2, SMT DEF StoreKey, IndexesOK
  <2>4. WorkersOK'
    BY <1>5, <2>1, SMT DEF StoreKey, WorkersOK, Offsets
  <2> QED BY <1>5, <2>3, <2>4, Frame DEF StoreKey
<1>6. CASE WriteBatch(w)
  <2>1. CASE out[w] = <<>>
    <3>1. Done(w) \in WorkerSteps
      BY DEF Done
    <3>2. WorkersOK'
      <4>1. /\ wpc' = [wpc EXCEPT ![w] = Done(w)] /\ Done(w) # "store"
            /\ UNCHANGED <<log, leaving, batch, out, call>>
        BY <1>6, <2>1 DEF WriteBatch, Done
      <4> QED BY <3>1, <4>1, SMT DEF WorkersOK, Offsets
    <3> QED BY <1>6, <2>1, <3>2, Frame DEF WriteBatch
  <2>2. CASE out[w] # <<>>
    <3>1. out[w] \in Seq(Offsets) /\ lastCall + 1 \in Nat
      BY SMT DEF WorkersOK, CallsOK
    <3>2. WorkersOK'
      <4>1. /\ wpc' = [wpc EXCEPT ![w] = "wait"] /\ out' = [out EXCEPT ![w] = <<>>]
            /\ call' = [call EXCEPT ![w] = lastCall + 1]
            /\ UNCHANGED <<log, leaving, batch>>
        BY <1>6, <2>2 DEF WriteBatch
      <4> QED BY <3>1, <4>1, SMT DEF WorkersOK, Offsets
    <3>3. [id |-> lastCall + 1, records |-> out[w], begun |-> FALSE, applying |-> FALSE] \in Call
      BY <3>1 DEF Call
    <3>4. log' = log
      BY <1>6 DEF WriteBatch
    <3>5. CallsOK'
      BY <1>6, <2>2, <3>1, <3>3, <3>4 DEF WriteBatch, CallsOK, Call, Offsets
    <3> QED BY <1>6, <3>2, <3>5, Frame DEF WriteBatch
  <2> QED BY <2>1, <2>2
<1> QED BY <1>1, <1>2, <1>3, <1>4, <1>5, <1>6 DEF WorkerStep

(* A call that skips or marks its first record is still a call.            *)
LEMMA RewrittenCall ==
  ASSUME TypeOK, NEW c \in calls, c.records # <<>>
  PROVE  Skipped(c) \in Call /\ Marked(c) \in Call /\ FirstEvent(c) \in Events
<1>1. c \in Call /\ c.records \in Seq(Offsets)
  BY DEF TypeOK, CallsOK, Call
<1>2. Tail(c.records) \in Seq(Offsets) /\ Head(c.records) \in Offsets
  BY <1>1, SMT
<1>3. Skipped(c) \in Call
  BY <1>1, <1>2 DEF Skipped, Call
<1>4. Marked(c) \in Call
  BY <1>1 DEF Marked, Call
<1>5. FirstEvent(c) \in Events
  BY <1>2, SMT DEF FirstEvent, TypeOK, LogOK, Offsets
<1> QED BY <1>3, <1>4, <1>5

(* The hot tier's handler.                                                 *)
LEMMA HotTierTypeStep ==
  ASSUME TypeOK, HotTierStep
  PROVE  TypeOK'
<1> USE DEF TypeOK, WorkerSteps
<1>1. ASSUME NEW c \in calls, LoadOrStore(c) PROVE TypeOK'
  <2>1. CallsOK'
    BY <1>1, RewrittenCall DEF LoadOrStore, Replace, CallsOK, Call, Offsets
  <2>2. IndexesOK'
    BY <1>1, RewrittenCall DEF LoadOrStore, IndexesOK
  <2> QED BY <1>1, <2>1, <2>2, Frame DEF LoadOrStore
<1>2. ASSUME NEW c \in calls, WriteBuffers(c) PROVE TypeOK'
  <2>1. CallsOK'
    BY <1>2, RewrittenCall DEF WriteBuffers, Replace, CallsOK, Call, Offsets
  <2>2. IndexesOK'
    BY <1>2, RewrittenCall, SMT DEF WriteBuffers, IndexesOK
  <2> QED BY <1>2, <2>1, <2>2, Frame DEF WriteBuffers
<1>3. ASSUME NEW c \in calls, Respond(c) PROVE TypeOK'
  <2>1. WorkersOK'
    BY <1>3, SMT DEF Respond, Returned, Done, WorkersOK, Offsets
  <2>2. CallsOK'
    BY <1>3 DEF Respond, CallsOK, Call, Offsets
  <2> QED BY <1>3, <2>1, <2>2, Frame DEF Respond
<1> QED BY <1>1, <1>2, <1>3 DEF HotTierStep

(* The ingester's memory is reset; the offset it leaves committed is one   *)
(* of the log's.                                                           *)
LEMMA ForgetTypes ==
  ASSUME TypeOK, UNCHANGED log, UNCHANGED hotVars, UNCHANGED misjudged,
         NEW final \in Offsets \cup {NoOffset}, Forget(final)
  PROVE  LogOK' /\ ConsumerOK' /\ WorkersOK' /\ IndexesOK'
<1> USE DEF TypeOK, WorkerSteps
<1>1. LogOK'
  BY DEF Forget, LogOK, Offsets
<1>2. ConsumerOK'
  BY SMT DEF Forget, ConsumerOK, Offsets
<1>3. WorkersOK'
  <2>1. leaving' \in [Workers -> BOOLEAN]
    BY DEF Forget
  <2> QED BY <2>1, SMT DEF Forget, WorkersOK, Offsets
<1>4. EventsAt({o \in InProcess : o <= final}) \subseteq Events
  BY HeldOffsets, EventsAtOffsets DEF LogOK
<1>5. IndexesOK'
  BY <1>4 DEF Forget, IndexesOK
<1> QED BY <1>1, <1>2, <1>3, <1>5

(* Failures.                                                               *)
LEMMA FaultTypeStep ==
  ASSUME TypeOK, FaultStep
  PROVE  TypeOK'
<1> USE DEF TypeOK, WorkerSteps
<1>1. Fault => BoundsOK' \/ ~UNCHANGED <<stops, expiries>>
  BY ConstantsAssumption, SMT DEF Fault, BoundsOK, ConstantsAssumption
<1>2. ASSUME NEW c \in calls, LoseCall(c) PROVE TypeOK'
  <2>1. WorkersOK'
    BY <1>2, SMT DEF LoseCall, Returned, Done, WorkersOK, Offsets
  <2>2. CallsOK'
    BY <1>2 DEF LoseCall, CallsOK, Call, Offsets
  <2>3. Elements(c.records) \subseteq Offsets
    BY HeldOffsets DEF InCalls
  <2>4. EventsAt(Elements(c.records)) \subseteq Events
    BY <2>3, EventsAtOffsets DEF LogOK
  <2>5. IndexesOK'
    BY <1>2, <2>4 DEF LoseCall, IndexesOK
  <2> QED BY <1>1, <1>2, <2>1, <2>2, <2>5, Frame DEF LoseCall
<1>3. ASSUME NEW w \in Workers, CallTimeout(w) PROVE TypeOK'
  <2>1. WorkersOK'
    BY <1>3, SMT DEF CallTimeout, Done, WorkersOK, Offsets
  <2> QED BY <1>1, <1>3, <2>1, Frame DEF CallTimeout
<1>4. CASE HotTierRestart
  <2>1. WorkersOK'
    BY <1>4, SMT DEF HotTierRestart, Done, WorkersOK, Offsets
  <2>2. CallsOK'
    BY <1>4 DEF HotTierRestart, CallsOK
  <2>3. EventsAt(InCalls) \subseteq Events
    BY HeldOffsets, EventsAtOffsets DEF LogOK
  <2>4. IndexesOK'
    BY <1>4, <2>3, SMT DEF HotTierRestart, IndexesOK
  <2> QED BY <1>1, <1>4, <2>1, <2>2, <2>4, Frame DEF HotTierRestart
<1>5. CASE Crash
  <2>1. UNCHANGED log /\ committed \in Offsets \cup {NoOffset}
    BY <1>5 DEF Crash, LogOK
  <2> QED BY <1>1, <1>5, <2>1, ForgetTypes, Frame DEF Crash, CallsOK
<1> QED BY <1>2, <1>3, <1>4, <1>5 DEF FaultStep

LEMMA BoundTypeStep ==
  ASSUME TypeOK,
         \/ Stop \/ CloseConsumer \/ Start
         \/ \E e \in Events : IngesterExpiry(e) \/ HotTierExpiry(e)
  PROVE  TypeOK'
<1> USE DEF TypeOK
<1>1. CASE Stop
  <2>1. BoundsOK'
    BY <1>1, ConstantsAssumption, SMT DEF Stop, BoundsOK, ConstantsAssumption
  <2>2. ConsumerOK'
    BY <1>1 DEF Stop, ConsumerOK, Offsets
  <2> QED BY <1>1, <2>1, <2>2, Frame DEF Stop
<1>2. CASE CloseConsumer
  <2>1. PICK final \in FinalOffsets : Forget(final)
    BY <1>2 DEF CloseConsumer
  <2>2. final \in Offsets \cup {NoOffset}
    BY SMT DEF FinalOffsets, LogOK, ConsumerOK
  <2> QED BY <1>2, <2>1, <2>2, ForgetTypes, Frame DEF CloseConsumer
<1>3. CASE Start
  <2>1. (IF committed = NoOffset THEN Len(log) ELSE committed) \in Offsets \cup {0}
    BY SMT DEF LogOK, Offsets
  <2>2. ConsumerOK'
    BY <1>3, <2>1, SMT DEF Start, ConsumerOK, Offsets
  <2>3. EventsAt(Offsets) \subseteq Events
    BY EventsAtOffsets DEF LogOK
  <2>4. IndexesOK'
    BY <1>3, <2>3 DEF Start, IndexesOK
  <2> QED BY <1>3, <2>2, <2>4, Frame DEF Start
<1>4. ASSUME NEW e \in Events, IngesterExpiry(e) PROVE TypeOK'
  <2>1. BoundsOK'
    BY <1>4, ConstantsAssumption, SMT DEF IngesterExpiry, BoundsOK, ConstantsAssumption
  <2>2. IndexesOK'
    BY <1>4 DEF IngesterExpiry, IndexesOK
  <2> QED BY <1>4, <2>1, <2>2, Frame DEF IngesterExpiry
<1>5. ASSUME NEW e \in Events, HotTierExpiry(e) PROVE TypeOK'
  <2>1. BoundsOK'
    BY <1>5, ConstantsAssumption, SMT DEF HotTierExpiry, BoundsOK, ConstantsAssumption
  <2>2. IndexesOK'
    BY <1>5, SMT DEF HotTierExpiry, IndexesOK
  <2> QED BY <1>5, <2>1, <2>2, Frame DEF HotTierExpiry
<1> QED BY <1>1, <1>2, <1>3, <1>4, <1>5

LEMMA TypeStep == TypeOK /\ [Next]_vars => TypeOK'
<1>1. TypeOK /\ UNCHANGED vars => TypeOK'
  BY Frame DEF vars, TypeOK
<1> QED
  BY <1>1, ConsumerTypeStep, WorkerTypeStep, HotTierTypeStep, FaultTypeStep, BoundTypeStep
  DEF Next

(* Type correctness of the pipeline.                                       *)
THEOREM TypeCorrect == Spec => []TypeOK
<1>1. Init => TypeOK
  BY ConstantsAssumption, SMT
  DEF Init, TypeOK, LogOK, ConsumerOK, WorkersOK, CallsOK, IndexesOK, BoundsOK,
      ConstantsAssumption, Offsets, WorkerSteps
<1> QED BY <1>1, TypeStep, PTL DEF Spec

-----------------------------------------------------------------------------
(* What no action but the hot tier's touches.                              *)
LEMMA AppliedFrame ==
  ASSUME AppliedOnce, UNCHANGED <<calls, hotDedup, applied>>,
         \A c \in calls : c.applying => FirstEvent(c)' = FirstEvent(c)
  PROVE  AppliedOnce'
BY DEF AppliedOnce, FirstEvent

(* Removing calls disturbs nothing.                                        *)
LEMMA FewerCalls ==
  ASSUME AppliedOnce, UNCHANGED <<log, hotDedup, applied>>, calls' \subseteq calls
  PROVE  AppliedOnce'
BY DEF AppliedOnce, FirstEvent

(* Adding a call that applies nothing disturbs nothing either.             *)
LEMMA OneMoreCall ==
  ASSUME AppliedOnce, UNCHANGED <<log, hotDedup, applied>>,
         NEW d, ~d.applying, calls' \subseteq calls \cup {d}
  PROVE  AppliedOnce'
BY DEF AppliedOnce, FirstEvent

LEMMA AppliedStep == TypeOK /\ AppliedOnce /\ [Next]_vars => AppliedOnce'
<1> SUFFICES ASSUME TypeOK, AppliedOnce, [Next]_vars PROVE AppliedOnce'
  OBVIOUS
<1>0. UNCHANGED <<log, calls, hotDedup, applied>> => AppliedOnce'
  BY AppliedFrame DEF FirstEvent
<1>1. ASSUME NEW e \in Events, Produce(e) PROVE AppliedOnce'
  <2>1. ASSUME NEW c \in calls, c.applying PROVE FirstEvent(c)' = FirstEvent(c)
    <3>1. c.records # <<>> /\ c.records \in Seq(Offsets)
      BY <2>1 DEF AppliedOnce, TypeOK, CallsOK, Call
    <3>2. Head(c.records) \in 1..Len(log)
      BY <3>1, SMT DEF Offsets
    <3> QED BY <1>1, <3>2, SMT DEF FirstEvent, Produce, TypeOK, LogOK
  <2> QED BY <1>1, <2>1, AppliedFrame DEF Produce
<1>2. ASSUME NEW w \in Workers, WriteBatch(w) PROVE AppliedOnce'
  <2>1. CASE out[w] = <<>>
    BY <1>0, <1>2, <2>1 DEF WriteBatch
  <2>2. CASE out[w] # <<>>
    <3> DEFINE d == [id |-> lastCall + 1, records |-> out[w], begun |-> FALSE, applying |-> FALSE]
    <3>1. calls' = calls \cup {d} /\ UNCHANGED <<log, hotDedup, applied>>
      BY <1>2, <2>2 DEF WriteBatch
    <3>2. ~d.applying
      OBVIOUS
    <3> HIDE DEF d
    <3> QED BY <3>1, <3>2, OneMoreCall
  <2> QED BY <2>1, <2>2
<1>3. ASSUME NEW c \in calls, LoadOrStore(c) PROVE AppliedOnce'
  <2>1. c.records # <<>> /\ ~c.applying /\ UNCHANGED <<log, applied>>
    BY <1>3 DEF LoadOrStore
  <2>2. CASE FirstEvent(c) \in hotDedup
    <3>1. calls' = (calls \ {c}) \cup {Skipped(c)} /\ UNCHANGED hotDedup
      BY <1>3, <2>2 DEF LoadOrStore, Known, Replace
    <3>2. ~Skipped(c).applying
      BY DEF Skipped
    <3> QED BY <2>1, <3>1, <3>2, OneMoreCall
  <2>3. CASE FirstEvent(c) \notin hotDedup
    <3>1. /\ calls' = (calls \ {c}) \cup {Marked(c)}
          /\ hotDedup' = hotDedup \cup {FirstEvent(c)}
      BY <1>3, <2>3 DEF LoadOrStore, Known, Replace
    <3>2. applied[FirstEvent(c)] = 0
      <4>1. FirstEvent(c) \in Events
        BY <2>1, RewrittenCall
      <4> QED BY <2>3, <4>1, SMT DEF AppliedOnce, TypeOK, IndexesOK
    <3>3. \A d \in calls : d.applying => FirstEvent(d) # FirstEvent(c)
      BY <2>3 DEF AppliedOnce
    <3>4. Marked(c).applying /\ Marked(c).records = c.records
      BY DEF Marked
    <3>5. \A d : FirstEvent(d)' = FirstEvent(d)
      BY <2>1 DEF FirstEvent
    <3>6. FirstEvent(Marked(c)) = FirstEvent(c)
      BY <3>4 DEF FirstEvent
    <3> QED BY <2>1, <3>1, <3>2, <3>3, <3>4, <3>5, <3>6 DEF AppliedOnce
  <2> QED BY <2>2, <2>3
<1>4. ASSUME NEW c \in calls, WriteBuffers(c) PROVE AppliedOnce'
  <2>1. /\ c.applying /\ c.records # <<>> /\ UNCHANGED <<log, hotDedup>>
        /\ applied' = [applied EXCEPT ![FirstEvent(c)] = @ + 1]
        /\ calls' = (calls \ {c}) \cup {Skipped(c)} /\ ~Skipped(c).applying
    BY <1>4 DEF WriteBuffers, Replace, Skipped
  <2>2. FirstEvent(c) \in Events /\ applied[FirstEvent(c)] = 0 /\ FirstEvent(c) \in hotDedup
    BY <2>1, RewrittenCall DEF AppliedOnce
  <2>3. \A d \in calls' : d.applying => d \in calls /\ FirstEvent(d) # FirstEvent(c)
    BY <2>1 DEF AppliedOnce
  <2>4. \A e \in Events : applied'[e] = IF e = FirstEvent(c) THEN 1 ELSE applied[e]
    BY <2>1, <2>2, SMT DEF TypeOK, IndexesOK
  <2>5. \A d \in calls' : d.applying => FirstEvent(d) \in Events
    BY <2>1, <2>3, RewrittenCall DEF AppliedOnce
  <2>6. \A d : FirstEvent(d)' = FirstEvent(d)
    BY <2>1 DEF FirstEvent
  <2> QED BY <2>1, <2>2, <2>3, <2>4, <2>5, <2>6, SMT DEF AppliedOnce
<1>5. ASSUME NEW c \in calls, Respond(c) \/ LoseCall(c) PROVE AppliedOnce'
  BY <1>5, FewerCalls DEF Respond, LoseCall
<1>6. CASE HotTierRestart
  BY <1>6, SMT DEF HotTierRestart, AppliedOnce
<1>7. ASSUME NEW e \in Events, HotTierExpiry(e) PROVE AppliedOnce'
  <2>1. /\ UNCHANGED <<log, calls>> /\ hotDedup' = hotDedup \ {e}
        /\ applied' = [applied EXCEPT ![e] = 0]
        /\ \A c \in calls : c.applying => FirstEvent(c) # e
    BY <1>7 DEF HotTierExpiry
  <2>2. \A d : FirstEvent(d)' = FirstEvent(d)
    BY <2>1 DEF FirstEvent
  <2>3. \A d \in Events : applied'[d] = IF d = e THEN 0 ELSE applied[d]
    BY <2>1 DEF TypeOK, IndexesOK
  <2>4. \A c \in calls : c.applying => FirstEvent(c) \in Events
    BY RewrittenCall DEF AppliedOnce
  <2> QED BY <2>1, <2>2, <2>3, <2>4, SMT DEF AppliedOnce
<1>8. CASE UNCHANGED vars
  BY <1>0, <1>8 DEF vars
<1>9. CASE ConsumerStep \/ FlushCommit
  BY <1>0, <1>9 DEF ConsumerStep, Fetch, HandOver, CommitMessages, FlushCommit
<1>10. ASSUME NEW w \in Workers,
              Receive(w) \/ TickerFlush(w) \/ Cancelled(w) \/ LookUp(w) \/ StoreKey(w)
       PROVE AppliedOnce'
  BY <1>0, <1>10 DEF Receive, TickerFlush, Cancelled, LookUp, StoreKey
<1>11. ASSUME NEW w \in Workers, CallTimeout(w) PROVE AppliedOnce'
  BY <1>0, <1>11 DEF CallTimeout
<1>12. CASE Crash \/ Stop \/ CloseConsumer \/ Start
  BY <1>0, <1>12 DEF Crash, Stop, CloseConsumer, Start
<1>13. ASSUME NEW e \in Events, IngesterExpiry(e) PROVE AppliedOnce'
  BY <1>0, <1>13 DEF IngesterExpiry
<1> QED
  BY <1>1, <1>2, <1>3, <1>4, <1>5, <1>6, <1>7, <1>8, <1>9, <1>10, <1>11, <1>12, <1>13
  DEF Next, WorkerStep, HotTierStep, FaultStep

(* However the log repeats events and whatever crashes, is redelivered or  *)
(* answered late, the hot tier adds an event to its buffers at most once   *)
(* while it remembers it (ApplyBatch).                                     *)
THEOREM CountedOnce == Spec => []NoDoubleCount
<1>1. Init => AppliedOnce
  BY SMT DEF Init, AppliedOnce
<1>2. AppliedOnce => NoDoubleCount
  BY DEF AppliedOnce, NoDoubleCount
<1> QED BY <1>1, <1>2, TypeCorrect, AppliedStep, PTL DEF Spec

-----------------------------------------------------------------------------
(* The offsets on their way to the broker are behind the consumer too.     *)
OffsetsBehind ==
  /\ process = "down" => consumer.pc = "fetch" /\ marked = NoOffset
  /\ process # "down" =>
       committed <= consumer.next - Cardinality(Unsent) /\ marked <= consumer.next - Cardinality(Unsent)

(* The message not yet handed over, if any, counts for one.                *)
LEMMA UnsentCount ==
  /\ Cardinality(Unsent) = IF consumer.pc = "send" THEN 1 ELSE 0
  /\ Cardinality(Unsent') = IF consumer'.pc = "send" THEN 1 ELSE 0
BY FS_EmptySet, FS_Singleton DEF Unsent

LEMMA OffsetsStep == TypeOK /\ TypeOK' /\ OffsetsBehind /\ [Next]_vars => OffsetsBehind'
<1> SUFFICES ASSUME TypeOK, TypeOK', OffsetsBehind, [Next]_vars PROVE OffsetsBehind'
  OBVIOUS
<1>0. UNCHANGED <<process, consumer, marked, committed>> => OffsetsBehind'
  BY UnsentCount DEF OffsetsBehind, NoOffset
<1>1. CASE Fetch
  BY <1>1, UnsentCount, SMT DEF Fetch, OffsetsBehind, NoOffset, TypeOK, LogOK, ConsumerOK, Offsets
<1>2. CASE HandOver
  BY <1>2, UnsentCount, SMT DEF HandOver, OffsetsBehind, NoOffset, TypeOK, LogOK, ConsumerOK, Offsets
<1>3. CASE CommitMessages
  BY <1>3, UnsentCount, SMT
  DEF CommitMessages, OffsetsBehind, NoOffset, TypeOK, LogOK, ConsumerOK, Offsets
<1>4. CASE FlushCommit
  BY <1>4, UnsentCount, SMT
  DEF FlushCommit, OffsetsBehind, NoOffset, TypeOK, LogOK, ConsumerOK, Offsets
<1>5. CASE Stop
  BY <1>5, UnsentCount DEF Stop, OffsetsBehind, NoOffset
<1>6. CASE Crash \/ CloseConsumer
  BY <1>6 DEF Crash, CloseConsumer, Forget, OffsetsBehind
<1>7. CASE Start
  BY <1>7, UnsentCount, SMT DEF Start, OffsetsBehind, NoOffset, TypeOK, LogOK, Offsets
<1>8. CASE UNCHANGED vars
  BY <1>0, <1>8 DEF vars
<1>9. ASSUME NEW w \in Workers, WorkerStep(w) \/ CallTimeout(w) PROVE OffsetsBehind'
  BY <1>0, <1>9
  DEF WorkerStep, Receive, TickerFlush, Cancelled, LookUp, StoreKey, WriteBatch, CallTimeout
<1>10. CASE HotTierStep \/ HotTierRestart \/ \E c \in calls : LoseCall(c)
  BY <1>0, <1>10 DEF HotTierStep, LoadOrStore, WriteBuffers, Respond, HotTierRestart, LoseCall
<1>11. ASSUME NEW e \in Events, Produce(e) \/ IngesterExpiry(e) \/ HotTierExpiry(e)
       PROVE OffsetsBehind'
  BY <1>0, <1>11 DEF Produce, IngesterExpiry, HotTierExpiry
<1> QED
  BY <1>1, <1>2, <1>3, <1>4, <1>5, <1>6, <1>7, <1>8, <1>9, <1>10, <1>11
  DEF Next, ConsumerStep, FaultStep

(* The group's committed offset never covers a message that has not been   *)
(* handed to the channel (consume).                                        *)
THEOREM CommittedBehind == Spec => []CommitFollowsHandOver
<1>1. Init => OffsetsBehind
  BY UnsentCount, SMT DEF Init, OffsetsBehind, NoOffset
<1>2. OffsetsBehind => CommitFollowsHandOver
  BY DEF OffsetsBehind, CommitFollowsHandOver
<1>3. Spec => []OffsetsBehind
  BY <1>1, OffsetsStep, TypeCorrect, PTL DEF Spec
<1> QED BY <1>2, <1>3, PTL

-----------------------------------------------------------------------------
(* Where an event may be.                                                  *)
Passed   == (UNION {Elements(out[w]) : w \in Workers}) \cup InCalls
Settled  == {e \in Events : applied[e] > 0} \cup excused

(* LossExplained is not inductive: it says nothing while the process is    *)
(* down, and nothing of what the two indexes know.  Of every event in the  *)
(* log there is a copy on its way or to be read, or it is settled; what    *)
(* the ingester calls a duplicate has a copy that has passed it; what the  *)
(* hot tier calls one is in the buffers or about to be written by a call   *)
(* that can no longer be lost alone.                                       *)
Placed     == EventsAt(Offsets) \subseteq Settled \cup EventsAt(InFlight \cup Ahead)
Remembered == dedup \subseteq Settled \cup EventsAt(Passed)
Indexed ==
  /\ \A e \in hotDedup : applied[e] > 0 \/ \E c \in calls : c.applying /\ FirstEvent(c) = e
  /\ \A c \in calls : c.applying => c.begun
Accounted == Placed /\ Remembered /\ Indexed

(* Sequences and what they hold.                                           *)
LEMMA ElementsAppend ==
  ASSUME NEW S, NEW s \in Seq(S), NEW x
  PROVE  Elements(Append(s, x)) = Elements(s) \cup {x}
<1>1. ASSUME NEW y \in Elements(Append(s, x)) PROVE y \in Elements(s) \cup {x}
  BY <1>1, SMT DEF Elements
<1>2. ASSUME NEW y \in Elements(s) PROVE y \in Elements(Append(s, x))
  <2>1. PICK i \in 1..Len(s) : y = s[i]
    BY <1>2 DEF Elements
  <2>2. i \in 1..Len(Append(s, x)) /\ Append(s, x)[i] = s[i]
    BY SMT
  <2> QED BY <2>1, <2>2 DEF Elements
<1>3. x \in Elements(Append(s, x))
  <2>1. Len(s) + 1 \in 1..Len(Append(s, x)) /\ Append(s, x)[Len(s) + 1] = x
    BY SMT
  <2> QED BY <2>1 DEF Elements
<1> QED BY <1>1, <1>2, <1>3

LEMMA ElementsTail ==
  ASSUME NEW S, NEW s \in Seq(S), s # <<>>
  PROVE  Elements(s) = {Head(s)} \cup Elements(Tail(s))
<1>1. ASSUME NEW y \in Elements(s) PROVE y \in {Head(s)} \cup Elements(Tail(s))
  <2>1. PICK i \in 1..Len(s) : y = s[i]
    BY <1>1 DEF Elements
  <2>2. CASE i = 1
    BY <2>1, <2>2, SMT
  <2>3. CASE i # 1
    <3>1. i - 1 \in 1..Len(Tail(s)) /\ Tail(s)[i - 1] = s[i]
      BY <2>3, SMT
    <3> QED BY <2>1, <3>1 DEF Elements
  <2> QED BY <2>2, <2>3
<1>2. ASSUME NEW y \in Elements(Tail(s)) PROVE y \in Elements(s)
  <2>1. PICK i \in 1..Len(Tail(s)) : y = Tail(s)[i]
    BY <1>2 DEF Elements
  <2>2. i + 1 \in 1..Len(s) /\ s[i + 1] = Tail(s)[i]
    BY SMT
  <2> QED BY <2>1, <2>2 DEF Elements
<1>3. Head(s) \in Elements(s)
  <2>1. 1 \in 1..Len(s) /\ Head(s) = s[1]
    BY SMT
  <2> QED BY <2>1 DEF Elements
<1> QED BY <1>1, <1>2, <1>3

LEMMA ElementsEmpty == Elements(<<>>) = {}
BY SMT DEF Elements

(* Somebody holds an offset, or a call carries it.                         *)
HasPassed(o) ==
  \/ \E w \in Workers : o \in Elements(out[w])
  \/ \E c \in calls : o \in Elements(c.records)
IsHeld(o) ==
  \/ o \in Unsent \/ o \in Elements(messages)
  \/ \E w \in Workers : o \in Elements(batch[w])
  \/ HasPassed(o)

Located ==
  /\ \A o : o \in InFlight <=> IsHeld(o)
  /\ \A o : o \in Passed <=> HasPassed(o)

LEMMA Whereabouts == Located /\ Located'
<1>1. \A o : o \in InCalls <=> \E c \in calls : o \in Elements(c.records)
  BY DEF InCalls
<1>2. \A o : o \in Passed <=> HasPassed(o)
  BY <1>1 DEF Passed, HasPassed
<1>3. \A o : o \in InFlight <=> IsHeld(o)
  <2>1. \A o : o \in UNION {HeldBy(w) : w \in Workers} <=>
          \E w \in Workers : o \in Elements(batch[w]) \/ o \in Elements(out[w])
    BY DEF HeldBy
  <2> QED BY <1>1, <2>1 DEF InFlight, InProcess, IsHeld, HasPassed
<1>4. Located
  BY <1>2, <1>3 DEF Located
<1> QED BY <1>4, PTL

(* What a step has to show for Placed: whoever was on the way still is, or *)
(* is settled or has a copy that is.                                       *)
LEMMA PlacedStep ==
  ASSUME Placed, UNCHANGED log, Settled \subseteq Settled',
         \A o \in InFlight \cup Ahead :
           log[o] \in Settled' \/ \E p \in InFlight' \cup Ahead' : log[p] = log[o]
  PROVE  Placed'
<1>1. Offsets' = Offsets /\ \A S : EventsAt(S)' = EventsAt(S)
  BY DEF Offsets, EventsAt
<1>2. EventsAt(InFlight \cup Ahead) \subseteq Settled' \cup EventsAt(InFlight' \cup Ahead')
  BY DEF EventsAt
<1> QED BY <1>1, <1>2 DEF Placed, EventsAt

(* And for Remembered.                                                     *)
LEMMA RememberedStep ==
  ASSUME Remembered, UNCHANGED log, Settled \subseteq Settled', dedup' \subseteq dedup,
         \A o \in Passed :
           log[o] \in Settled' \/ \E p \in Passed' : log[p] = log[o]
  PROVE  Remembered'
<1>1. EventsAt(Passed) \subseteq Settled' \cup EventsAt(Passed)'
  BY DEF EventsAt
<1> QED BY <1>1 DEF Remembered

(* The consumer goroutine.                                                 *)
LEMMA ConsumerPlaced ==
  ASSUME TypeOK, Accounted, ConsumerStep \/ FlushCommit
  PROVE  Accounted'
<1>1. UNCHANGED <<log, process, batch, out, calls, dedup, hotDedup, applied, excused>>
  BY DEF ConsumerStep, Fetch, HandOver, CommitMessages, FlushCommit
<1>2. Settled' = Settled /\ Passed' = Passed /\ Remembered' /\ Indexed'
  BY <1>1 DEF Accounted, Settled, Passed, InCalls, Remembered, Indexed, EventsAt, FirstEvent
<1>3. ASSUME NEW o \in InFlight \cup Ahead PROVE o \in InFlight' \cup Ahead'
  <2>1. CASE Fetch
    <3>1. /\ messages' = messages /\ process # "down" /\ process' # "down"
          /\ consumer.pc = "fetch" /\ consumer.next + 1 \in Nat
          /\ consumer'.pc = "send" /\ consumer'.next = consumer.next + 1
      BY <1>1, <2>1, SMT DEF Fetch, TypeOK, ConsumerOK, Offsets
    <3>2. o = consumer.next + 1 => o \in Unsent'
      BY <3>1 DEF Unsent
    <3>3. o \in Ahead /\ o # consumer.next + 1 => o \in Ahead'
      BY <1>1, <3>1, SMT DEF Ahead, ReadUpTo, Offsets, TypeOK, LogOK, ConsumerOK
    <3>4. o \notin Unsent
      BY <3>1 DEF Unsent
    <3> QED BY <1>1, <3>1, <3>2, <3>3, <3>4, Whereabouts DEF Located, IsHeld, HasPassed
  <2>2. CASE HandOver
    <3>1. /\ messages' = Append(messages, consumer.next) /\ messages \in Seq(Offsets)
          /\ consumer.pc = "send" /\ consumer'.next = consumer.next
      BY <2>2 DEF HandOver, TypeOK, ConsumerOK
    <3>2. Elements(messages') = Elements(messages) \cup Unsent
      BY <3>1, ElementsAppend DEF Unsent
    <3>3. Ahead' = Ahead
      BY <1>1, <3>1, <2>2 DEF Ahead, ReadUpTo, Offsets, HandOver
    <3> QED BY <1>1, <3>2, <3>3, Whereabouts DEF Located, IsHeld, HasPassed
  <2>3. CASE CommitMessages
    <3>1. /\ messages' = messages /\ Unsent = {} /\ consumer'.next = consumer.next
      BY <2>3 DEF CommitMessages, Unsent, TypeOK, ConsumerOK
    <3>2. Ahead' = Ahead
      BY <1>1, <3>1, <2>3 DEF Ahead, ReadUpTo, Offsets, CommitMessages
    <3> QED BY <1>1, <3>1, <3>2, Whereabouts DEF Located, IsHeld, HasPassed
  <2>4. CASE FlushCommit
    <3>1. Ahead' = Ahead /\ InFlight' = InFlight
      BY <1>1, <2>4 DEF FlushCommit, Ahead, ReadUpTo, Offsets, InFlight, InProcess, InCalls,
                        Unsent, HeldBy
    <3> QED BY <3>1
  <2> QED BY <2>1, <2>2, <2>3, <2>4 DEF ConsumerStep
<1>4. Placed'
  BY <1>1, <1>2, <1>3, PlacedStep DEF Accounted
<1> QED BY <1>2, <1>4 DEF Accounted

(* A worker.  What it drops as a duplicate has a copy that has passed.      *)
LEMMA WorkerPlaced ==
  ASSUME TypeOK, Accounted, NEW w \in Workers, WorkerStep(w)
  PROVE  Accounted'
<1>1. UNCHANGED <<log, process, consumer, hotDedup, applied, excused>>
  BY DEF WorkerStep, Receive, TickerFlush, Cancelled, LookUp, StoreKey, WriteBatch
<1>2. Settled' = Settled /\ Ahead' = Ahead /\ Unsent' = Unsent
  <2>1. Settled' = Settled
    BY <1>1 DEF Settled
  <2>2. Ahead' = Ahead
    <3>1. committed' = committed
      BY DEF WorkerStep, Receive, TickerFlush, Cancelled, LookUp, StoreKey, WriteBatch
    <3> QED BY <1>1, <3>1 DEF Ahead, ReadUpTo, Offsets
  <2>3. Unsent' = Unsent
    BY <1>1 DEF Unsent
  <2> QED BY <2>1, <2>2, <2>3
<1>3. UNCHANGED calls => Indexed'
  BY <1>1 DEF Accounted, Indexed, FirstEvent
<1>4. ASSUME dedup' \subseteq dedup, \A o \in Passed : o \in Passed' PROVE Remembered'
  BY <1>1, <1>2, <1>4, RememberedStep DEF Accounted
<1>5. ASSUME \A o \in InFlight : log[o] \in Settled' \/ \E p \in InFlight' : log[p] = log[o]
      PROVE  Placed'
  BY <1>1, <1>2, <1>5, PlacedStep DEF Accounted
<1>6. ASSUME UNCHANGED <<messages, batch, out, calls, dedup>> PROVE Accounted'
  <2>1. InFlight' = InFlight /\ Passed' = Passed
    BY <1>2, <1>6 DEF InFlight, InProcess, InCalls, HeldBy, Passed
  <2> QED BY <1>3, <1>4, <1>5, <1>6, <2>1 DEF Accounted
<1>7. CASE Receive(w)
  <2>1. /\ messages \in Seq(Offsets) /\ messages # <<>> /\ messages' = Tail(messages)
        /\ batch[w] \in Seq(Offsets)
        /\ batch' = [batch EXCEPT ![w] = Append(batch[w], Head(messages))]
        /\ UNCHANGED <<out, calls, dedup>>
    BY <1>7 DEF Receive, TypeOK, ConsumerOK, WorkersOK
  <2>2. Elements(messages) = {Head(messages)} \cup Elements(messages')
    BY <2>1, ElementsTail
  <2>3. Elements(batch'[w]) = Elements(batch[w]) \cup {Head(messages)}
    BY <2>1, ElementsAppend DEF TypeOK, WorkersOK
  <2>4. \A v \in Workers \ {w} : batch'[v] = batch[v]
    BY <2>1 DEF TypeOK, WorkersOK
  <2>5. Passed' = Passed
    BY <2>1 DEF Passed, InCalls
  <2>6. \A o \in InFlight : o \in InFlight'
    BY <1>2, <2>1, <2>2, <2>3, <2>4, Whereabouts DEF Located, IsHeld, HasPassed
  <2> QED BY <1>3, <1>4, <1>5, <2>1, <2>5, <2>6 DEF Accounted
<1>8. CASE TickerFlush(w) \/ Cancelled(w)
  <2>1. UNCHANGED <<messages, batch, out, calls, dedup>>
    BY <1>8 DEF TickerFlush, Cancelled, CancelledBatch, TypeOK, WorkersOK
  <2> QED BY <1>6, <2>1
<1>9. CASE LookUp(w)
  <2>1. CASE log[Head(batch[w])] \in dedup
    <3>1. /\ batch[w] \in Seq(Offsets) /\ batch[w] # <<>>
          /\ batch' = [batch EXCEPT ![w] = Tail(batch[w])]
          /\ UNCHANGED <<messages, out, calls, dedup>>
      BY <1>9, <2>1 DEF LookUp, TypeOK, WorkersOK
    <3>2. Elements(batch[w]) = {Head(batch[w])} \cup Elements(batch'[w])
      BY <3>1, ElementsTail DEF TypeOK, WorkersOK
    <3>3. \A v \in Workers \ {w} : batch'[v] = batch[v]
      BY <3>1 DEF TypeOK, WorkersOK
    <3>4. Passed' = Passed /\ Passed' \subseteq InFlight'
      BY <3>1, Whereabouts DEF Passed, InCalls, Located, IsHeld
    <3>5. \A o \in InFlight : o \in InFlight' \/ o = Head(batch[w])
      BY <1>2, <3>1, <3>2, <3>3, Whereabouts DEF Located, IsHeld, HasPassed
    <3>6. log[Head(batch[w])] \in Settled' \/ \E p \in InFlight' : log[p] = log[Head(batch[w])]
      BY <1>2, <2>1, <3>4 DEF Accounted, Remembered, EventsAt
    <3> QED BY <1>3, <1>4, <1>5, <3>1, <3>4, <3>5, <3>6 DEF Accounted
  <2>2. CASE log[Head(batch[w])] \notin dedup
    <3>1. UNCHANGED <<messages, batch, out, calls, dedup>>
      BY <1>9, <2>2 DEF LookUp
    <3> QED BY <1>6, <3>1
  <2> QED BY <2>1, <2>2
<1>10. CASE StoreKey(w)
  <2> DEFINE o0 == Head(batch[w])
  <2>1. /\ batch[w] \in Seq(Offsets) /\ batch[w] # <<>> /\ out[w] \in Seq(Offsets)
        /\ batch' = [batch EXCEPT ![w] = Tail(batch[w])]
        /\ out' = [out EXCEPT ![w] = Append(out[w], o0)]
        /\ dedup' = dedup \cup {log[o0]}
        /\ UNCHANGED <<messages, calls>>
    BY <1>10 DEF StoreKey, TypeOK, WorkersOK
  <2>2. Elements(batch[w]) = {o0} \cup Elements(batch'[w])
    BY <2>1, ElementsTail DEF TypeOK, WorkersOK
  <2>3. Elements(out'[w]) = Elements(out[w]) \cup {o0}
    BY <2>1, ElementsAppend DEF TypeOK, WorkersOK
  <2>4. \A v \in Workers \ {w} : batch'[v] = batch[v] /\ out'[v] = out[v]
    BY <2>1 DEF TypeOK, WorkersOK
  <2> HIDE DEF o0
  <2>5. Passed \subseteq Passed' /\ o0 \in Passed'
    BY <2>1, <2>3, <2>4, Whereabouts DEF Located, HasPassed
  <2>6. \A o \in InFlight : o \in InFlight'
    BY <1>2, <2>1, <2>2, <2>3, <2>4, Whereabouts DEF Located, IsHeld, HasPassed
  <2>7. Remembered'
    BY <1>1, <1>2, <2>1, <2>5 DEF Accounted, Remembered, EventsAt
  <2> QED BY <1>3, <1>5, <2>1, <2>6, <2>7 DEF Accounted
<1>11. CASE WriteBatch(w)
  <2>1. CASE out[w] = <<>>
    <3>1. UNCHANGED <<messages, batch, out, calls, dedup>>
      BY <1>11, <2>1 DEF WriteBatch
    <3> QED BY <1>6, <3>1
  <2>2. CASE out[w] # <<>>
    <3> DEFINE new == [id |-> lastCall + 1, records |-> out[w], begun |-> FALSE, applying |-> FALSE]
    <3>1. /\ calls' = calls \cup {new} /\ out' = [out EXCEPT ![w] = <<>>]
          /\ UNCHANGED <<messages, batch, dedup>>
      BY <1>11, <2>2 DEF WriteBatch
    <3>2. \A v \in Workers \ {w} : out'[v] = out[v]
      BY <3>1 DEF TypeOK, WorkersOK
    <3>3. new.records = out[w] /\ ~new.applying
      OBVIOUS
    <3> HIDE DEF new
    <3>4. Passed \subseteq Passed' 
      BY <3>1, <3>2, <3>3, Whereabouts DEF Located, HasPassed
    <3>5. \A o \in InFlight : o \in InFlight'
      BY <1>2, <3>1, <3>4, Whereabouts DEF Located, IsHeld
    <3>6. Indexed'
      BY <1>1, <3>1, <3>3 DEF Accounted, Indexed, FirstEvent
    <3> QED BY <1>4, <1>5, <3>1, <3>4, <3>5, <3>6 DEF Accounted
  <2> QED BY <2>1, <2>2
<1> QED BY <1>7, <1>8, <1>9, <1>10, <1>11 DEF WorkerStep

(* What a step of the hot tier has to show: every record of a call is      *)
(* settled or has a copy in a call.                                        *)
LEMMA CallsPlaced ==
  ASSUME Accounted, Settled \subseteq Settled',
         UNCHANGED <<log, committed, process, consumer, messages, batch, out, dedup>>,
         \A c \in calls : \A o \in Elements(c.records) :
           log[o] \in Settled' \/ \E d \in calls' : \E p \in Elements(d.records) : log[p] = log[o]
  PROVE  Placed' /\ Remembered'
<1>1. Ahead' = Ahead /\ Unsent' = Unsent
  BY DEF Ahead, ReadUpTo, Offsets, Unsent
<1>2. ASSUME NEW o, HasPassed(o)
      PROVE  log[o] \in Settled' \/ \E p : HasPassed(p)' /\ log[p] = log[o]
  BY <1>2 DEF HasPassed
<1>3. Placed'
  <2>1. ASSUME NEW o, IsHeld(o)
        PROVE  log[o] \in Settled' \/ \E p : IsHeld(p)' /\ log[p] = log[o]
    <3>1. CASE HasPassed(o)
      BY <1>2, <3>1 DEF IsHeld
    <3>2. CASE ~HasPassed(o)
      BY <1>1, <2>1, <3>2 DEF IsHeld
    <3> QED BY <3>1, <3>2
  <2> QED BY <1>1, <2>1, Whereabouts, PlacedStep DEF Accounted, Located
<1>4. Remembered'
  BY <1>2, Whereabouts, RememberedStep DEF Accounted, Located
<1> QED BY <1>3, <1>4

(* The hot tier's handler.  A record it skips is of an event in the        *)
(* buffers, or about to be written by another call.                        *)
LEMMA HotTierPlaced ==
  ASSUME TypeOK, AppliedOnce, Accounted, HotTierStep
  PROVE  Accounted'
<1>1. UNCHANGED <<log, committed, process, consumer, messages, batch, out, dedup, excused>>
  BY DEF HotTierStep, LoadOrStore, WriteBuffers, Respond
<1>2. ASSUME NEW c \in calls, c.records # <<>>
      PROVE  /\ Elements(c.records) = {Head(c.records)} \cup Elements(Skipped(c).records)
             /\ Marked(c).records = c.records /\ FirstEvent(Marked(c)) = FirstEvent(c)
             /\ FirstEvent(c) = log[Head(c.records)] /\ FirstEvent(c) \in Events
             /\ ~Skipped(c).applying /\ Marked(c).applying /\ Marked(c).begun
  <2>1. c.records \in Seq(Offsets)
    BY DEF TypeOK, CallsOK, Call
  <2> QED BY <1>2, <2>1, ElementsTail, RewrittenCall DEF Skipped, Marked, FirstEvent
<1>3. \A d \in calls : FirstEvent(d)' = FirstEvent(d)
  BY <1>1 DEF FirstEvent
<1>4. ASSUME NEW c \in calls, LoadOrStore(c) PROVE Accounted'
  <2>1. Settled' = Settled
    BY <1>1, <1>4 DEF Settled, LoadOrStore
  <2>2. CASE Known(FirstEvent(c))
    <3>1. calls' = (calls \ {c}) \cup {Skipped(c)} /\ UNCHANGED <<hotDedup, applied>>
      BY <1>4, <2>2 DEF LoadOrStore, Replace
    <3>2. \/ FirstEvent(c) \in Settled'
          \/ \E d \in calls' : \E p \in Elements(d.records) : log[p] = FirstEvent(c)
      <4>1. CASE applied[FirstEvent(c)] > 0
        BY <1>2, <1>4, <2>1, <4>1 DEF Settled, LoadOrStore
      <4>2. CASE ~(applied[FirstEvent(c)] > 0)
        <5>1. PICK d \in calls : d.applying /\ FirstEvent(d) = FirstEvent(c)
          BY <2>2, <4>2 DEF Accounted, Indexed, Known
        <5>2. d \in calls' /\ d.records # <<>>
          BY <1>4, <3>1, <5>1 DEF LoadOrStore, AppliedOnce
        <5> QED BY <1>2, <5>1, <5>2
      <4> QED BY <4>1, <4>2
    <3>3. Placed' /\ Remembered'
      BY <1>1, <1>2, <1>4, <2>1, <3>1, <3>2, CallsPlaced DEF LoadOrStore
    <3>4. Indexed'
      BY <1>2, <1>3, <1>4, <3>1 DEF Accounted, Indexed, LoadOrStore
    <3> QED BY <3>3, <3>4 DEF Accounted
  <2>3. CASE ~Known(FirstEvent(c))
    <3>1. /\ calls' = (calls \ {c}) \cup {Marked(c)} /\ UNCHANGED applied
          /\ hotDedup' = hotDedup \cup {FirstEvent(c)}
      BY <1>4, <2>3 DEF LoadOrStore, Replace
    <3>2. Placed' /\ Remembered'
      BY <1>1, <1>2, <1>4, <2>1, <3>1, CallsPlaced DEF LoadOrStore
    <3>3. FirstEvent(Marked(c))' = FirstEvent(c)
      BY <1>1, <1>2, <1>4 DEF LoadOrStore, FirstEvent
    <3>4. Indexed'
      BY <1>2, <1>3, <1>4, <3>1, <3>3 DEF Accounted, Indexed, LoadOrStore
    <3> QED BY <3>2, <3>4 DEF Accounted
  <2> QED BY <2>2, <2>3
<1>5. ASSUME NEW c \in calls, WriteBuffers(c) PROVE Accounted'
  <2>1. /\ c.records # <<>> /\ calls' = (calls \ {c}) \cup {Skipped(c)}
        /\ applied' = [applied EXCEPT ![FirstEvent(c)] = @ + 1]
        /\ UNCHANGED hotDedup
    BY <1>5 DEF WriteBuffers, Replace
  <2>2. \A e \in Events : applied'[e] > 0 <=> applied[e] > 0 \/ e = FirstEvent(c)
    BY <1>2, <2>1, SMT DEF TypeOK, IndexesOK
  <2>3. Settled' = Settled \cup {FirstEvent(c)}
    BY <1>1, <1>2, <2>1, <2>2 DEF Settled
  <2>4. Placed' /\ Remembered'
    BY <1>1, <1>2, <2>1, <2>3, CallsPlaced
  <2>5. Indexed'
    BY <1>2, <1>3, <2>1, <2>2 DEF Accounted, Indexed, TypeOK, IndexesOK
  <2> QED BY <2>4, <2>5 DEF Accounted
<1>6. ASSUME NEW c \in calls, Respond(c) PROVE Accounted'
  <2>1. c.records = <<>> /\ calls' = calls \ {c} /\ UNCHANGED <<hotDedup, applied>>
    BY <1>6 DEF Respond
  <2>2. Settled' = Settled
    BY <1>1, <2>1 DEF Settled
  <2>3. Placed' /\ Remembered'
    BY <1>1, <2>1, <2>2, ElementsEmpty, CallsPlaced
  <2>4. Indexed'
    BY <1>3, <2>1 DEF Accounted, Indexed, AppliedOnce
  <2> QED BY <2>3, <2>4 DEF Accounted
<1> QED BY <1>4, <1>5, <1>6 DEF HotTierStep

(* The ingester's memory is gone: what was committed is excused, the rest  *)
(* will be read again.                                                     *)
LEMMA ForgetPlaced ==
  ASSUME TypeOK, Accounted, process # "down",
         UNCHANGED <<log, calls, hotDedup, applied>>,
         NEW final \in Int, final <= consumer.next, Forget(final)
  PROVE  Accounted'
<1>1. Settled' = Settled \cup EventsAt({o \in InProcess : o <= final})
  BY DEF Settled, Forget
<1>2. dedup' = {} /\ InCalls' = InCalls
  BY DEF Forget, InCalls
<1>3. Remembered' /\ Indexed'
  BY <1>2 DEF Accounted, Remembered, Indexed, FirstEvent
<1>4. Ahead' = {o \in Offsets : o > final} /\ Ahead = {o \in Offsets : o > consumer.next}
  BY DEF Ahead, Offsets, ReadUpTo, Forget
<1>5. ASSUME NEW o \in InFlight \cup Ahead
      PROVE  log[o] \in Settled' \/ o \in InFlight' \cup Ahead'
  <2>1. CASE o \in InCalls
    BY <1>2, <2>1 DEF InFlight
  <2>2. CASE o \in InProcess
    <3>1. o \in Offsets
      BY <2>2, HeldOffsets
    <3>2. o <= final => log[o] \in Settled'
      BY <1>1, <2>2 DEF EventsAt
    <3>3. ~(o <= final) => o \in Ahead'
      BY <1>4, <3>1, SMT DEF Offsets
    <3> QED BY <3>2, <3>3
  <2>3. CASE o \in Ahead
    BY <1>4, <2>3, SMT DEF Offsets, TypeOK, ConsumerOK, LogOK
  <2> QED BY <1>5, <2>1, <2>2, <2>3 DEF InFlight
<1>6. Placed'
  BY <1>1, <1>5, PlacedStep DEF Accounted
<1> QED BY <1>3, <1>6 DEF Accounted

(* Failures: what a call loses, or the hot tier, is excused.               *)
LEMMA FaultPlaced ==
  ASSUME TypeOK, AppliedOnce, OffsetsBehind, Accounted, FaultStep
  PROVE  Accounted'
<1>1. ASSUME NEW c \in calls, LoseCall(c) PROVE Accounted'
  <2>1. /\ calls' = calls \ {c} /\ ~c.begun
        /\ excused' = excused \cup EventsAt(Elements(c.records))
        /\ UNCHANGED <<log, committed, process, consumer, messages, batch, out, dedup,
                       hotDedup, applied>>
    BY <1>1 DEF LoseCall
  <2>2. Settled' = Settled \cup EventsAt(Elements(c.records))
    BY <2>1 DEF Settled
  <2>3. Placed' /\ Remembered'
    BY <2>1, <2>2, CallsPlaced DEF EventsAt
  <2>4. Indexed'
    BY <2>1 DEF Accounted, Indexed, FirstEvent
  <2> QED BY <2>3, <2>4 DEF Accounted
<1>2. ASSUME NEW w \in Workers, CallTimeout(w) PROVE Accounted'
  <2>1. UNCHANGED <<log, committed, process, consumer, messages, batch, out, dedup, calls,
                    hotDedup, applied, excused>>
    BY <1>2 DEF CallTimeout
  <2>2. Settled' = Settled /\ Indexed'
    BY <2>1 DEF Settled, Accounted, Indexed, FirstEvent
  <2>3. Placed' /\ Remembered'
    BY <2>1, <2>2, CallsPlaced
  <2> QED BY <2>2, <2>3 DEF Accounted
<1>3. CASE HotTierRestart
  <2>1. /\ calls' = {} /\ hotDedup' = {}
        /\ excused' = excused \cup {e \in Events : applied[e] > 0} \cup EventsAt(InCalls)
        /\ UNCHANGED <<log, committed, process, consumer, messages, batch, out, dedup>>
    BY <1>3 DEF HotTierRestart
  <2>2. Settled \subseteq Settled' /\ EventsAt(InCalls) \subseteq Settled'
    BY <2>1 DEF Settled
  <2>3. \A c \in calls : \A o \in Elements(c.records) : log[o] \in Settled'
    BY <2>2 DEF InCalls, EventsAt
  <2>4. Placed' /\ Remembered'
    BY <2>1, <2>2, <2>3, CallsPlaced
  <2>5. Indexed'
    BY <2>1 DEF Indexed
  <2> QED BY <2>4, <2>5 DEF Accounted
<1>4. CASE Crash
  <2>1. committed \in Int /\ committed <= consumer.next
    BY <1>4, UnsentCount, SMT
    DEF Crash, OffsetsBehind, TypeOK, LogOK, ConsumerOK, Offsets, NoOffset
  <2> QED BY <1>4, <2>1, ForgetPlaced DEF Crash
<1> QED BY <1>1, <1>2, <1>3, <1>4 DEF FaultStep

(* Shutdown, start and the two expiries.                                   *)
LEMMA BoundPlaced ==
  ASSUME TypeOK, AppliedOnce, OffsetsBehind, Accounted,
         \/ Stop \/ CloseConsumer \/ Start
         \/ \E e \in Events : IngesterExpiry(e) \/ HotTierExpiry(e)
  PROVE  Accounted'
<1>1. CASE Stop
  <2>1. UNCHANGED <<log, committed, consumer, messages, batch, out, dedup, calls,
                    hotDedup, applied, excused>> /\ process # "down" /\ process' # "down"
    BY <1>1 DEF Stop
  <2>2. Settled' = Settled /\ Indexed'
    BY <2>1 DEF Settled, Accounted, Indexed, FirstEvent
  <2>3. Passed' = Passed /\ InFlight' = InFlight
    BY <2>1 DEF InFlight, InProcess, InCalls, Unsent, HeldBy, Passed
  <2>4. Ahead' = Ahead
    BY <2>1 DEF Ahead, ReadUpTo, Offsets
  <2>5. Placed' /\ Remembered'
    BY <2>1, <2>2, <2>3, <2>4, PlacedStep, RememberedStep DEF Accounted
  <2> QED BY <2>2, <2>5 DEF Accounted
<1>2. CASE CloseConsumer
  <2>1. PICK final \in FinalOffsets : Forget(final)
    BY <1>2 DEF CloseConsumer
  <2>2. final \in Int /\ final <= consumer.next
    BY <1>2, UnsentCount, SMT
    DEF CloseConsumer, FinalOffsets, OffsetsBehind, TypeOK, LogOK, ConsumerOK, Offsets, NoOffset
  <2> QED BY <1>2, <2>1, <2>2, ForgetPlaced DEF CloseConsumer
<1>3. CASE Start
  <2>1. /\ UNCHANGED <<log, messages, batch, out, dedup, calls, hotDedup, applied>>
        /\ process = "down" /\ process' = "running" /\ consumer'.pc = "fetch"
        /\ excused \subseteq excused'
    BY <1>3 DEF Start
  <2>2. Unsent = {} /\ Unsent' = {}
    BY <2>1 DEF OffsetsBehind, Unsent
  <2>3. InFlight' = InFlight /\ Passed' = Passed
    BY <2>1, <2>2 DEF InFlight, InProcess, InCalls, HeldBy, Passed
  <2>4. Settled \subseteq Settled' /\ Indexed'
    BY <2>1 DEF Settled, Accounted, Indexed, FirstEvent
  <2>5. Remembered'
    BY <2>1, <2>3, <2>4, RememberedStep DEF Accounted
  <2>6. CASE committed = NoOffset
    <3>1. EventsAt(Offsets)' \subseteq Settled'
      BY <1>3, <2>1, <2>6 DEF Start, Settled, EventsAt, Offsets
    <3> QED BY <2>4, <2>5, <3>1 DEF Accounted, Placed
  <2>7. CASE committed # NoOffset
    <3>1. Ahead' = Ahead
      BY <1>3, <2>1, <2>7 DEF Start, Ahead, ReadUpTo, Offsets
    <3>2. Placed'
      BY <2>1, <2>3, <2>4, <3>1, PlacedStep DEF Accounted
    <3> QED BY <2>4, <2>5, <3>2 DEF Accounted
  <2> QED BY <2>6, <2>7
<1>4. ASSUME NEW e \in Events, IngesterExpiry(e) \/ HotTierExpiry(e) PROVE Accounted'
  <2>1. /\ UNCHANGED <<log, committed, process, consumer, messages, batch, out, calls>>
        /\ dedup' \subseteq dedup
    BY <1>4 DEF IngesterExpiry, HotTierExpiry
  <2>2. Settled \subseteq Settled'
    <3>1. CASE IngesterExpiry(e)
      BY <3>1 DEF IngesterExpiry, Settled
    <3>2. CASE HotTierExpiry(e)
      BY <3>2 DEF HotTierExpiry, Settled, TypeOK, IndexesOK
    <3> QED BY <1>4, <3>1, <3>2
  <2>3. Passed' = Passed /\ InFlight' = InFlight
    BY <2>1 DEF InFlight, InProcess, InCalls, Unsent, HeldBy, Passed
  <2>4. Ahead' = Ahead
    BY <2>1 DEF Ahead, ReadUpTo, Offsets
  <2>5. Placed' /\ Remembered'
    BY <2>1, <2>2, <2>3, <2>4, PlacedStep, RememberedStep DEF Accounted
  <2>6. Indexed'
    <3>1. CASE IngesterExpiry(e)
      BY <3>1 DEF IngesterExpiry, Accounted, Indexed, FirstEvent
    <3>2. CASE HotTierExpiry(e)
      BY <2>1, <3>2 DEF HotTierExpiry, Accounted, Indexed, FirstEvent, TypeOK, IndexesOK
    <3> QED BY <1>4, <3>1, <3>2
  <2> QED BY <2>5, <2>6 DEF Accounted
<1> QED BY <1>1, <1>2, <1>3, <1>4

(* A produced event is one the consumer has not read yet.                  *)
LEMMA ProducePlaced ==
  ASSUME TypeOK, AppliedOnce, Accounted, NEW e \in Events, Produce(e)
  PROVE  Accounted'
<1>1. /\ log' = Append(log, e) /\ log \in Seq(Events)
      /\ UNCHANGED <<committed, process, consumer, messages, batch, out, calls, dedup,
                     hotDedup, applied, excused>>
  BY DEF Produce, TypeOK, LogOK
<1>2. /\ Offsets' = Offsets \cup {Len(log) + 1}
      /\ \A o \in Offsets : log'[o] = log[o]
      /\ log'[Len(log) + 1] = e
  BY <1>1, SMT DEF Offsets
<1>3. Settled' = Settled /\ InFlight' = InFlight /\ Passed' = Passed /\ ReadUpTo' = ReadUpTo
  BY <1>1 DEF Settled, InFlight, InProcess, InCalls, Unsent, HeldBy, Passed, ReadUpTo
<1>4. InFlight \subseteq Offsets /\ Passed \subseteq InFlight
  BY HeldOffsets, Whereabouts DEF InFlight, Located, IsHeld
<1>5. Ahead' = Ahead \cup {Len(log) + 1}
  <2>1. Len(log) + 1 > ReadUpTo
    BY SMT DEF ReadUpTo, TypeOK, LogOK, ConsumerOK, Offsets, NoOffset
  <2> QED BY <1>2, <1>3, <2>1 DEF Ahead
<1>6. Ahead \subseteq Offsets
  BY DEF Ahead
<1>7. Placed'
  <2>1. ASSUME NEW o \in Offsets'
        PROVE  log'[o] \in Settled' \cup EventsAt(InFlight \cup Ahead)'
    <3>1. CASE o = Len(log) + 1
      BY <1>5, <3>1 DEF EventsAt
    <3>2. CASE o \in Offsets
      BY <1>2, <1>3, <1>4, <1>5, <1>6, <3>2 DEF Accounted, Placed, EventsAt
    <3> QED BY <1>2, <3>1, <3>2
  <2> QED BY <2>1 DEF Placed, EventsAt
<1>8. Remembered'
  BY <1>1, <1>2, <1>3, <1>4 DEF Accounted, Remembered, EventsAt
<1>9. Indexed'
  <2>1. \A c \in calls : c.applying => Head(c.records) \in Offsets
    BY SMT DEF AppliedOnce, TypeOK, CallsOK, Call
  <2>2. \A c \in calls : c.applying => FirstEvent(c)' = FirstEvent(c)
    BY <1>2, <2>1 DEF FirstEvent
  <2> QED BY <1>1, <2>2 DEF Accounted, Indexed
<1> QED BY <1>7, <1>8, <1>9 DEF Accounted

LEMMA AccountedStep ==
  TypeOK /\ AppliedOnce /\ OffsetsBehind /\ Accounted /\ [Next]_vars => Accounted'
<1> SUFFICES ASSUME TypeOK, AppliedOnce, OffsetsBehind, Accounted, [Next]_vars
             PROVE  Accounted'
  OBVIOUS
<1>1. CASE UNCHANGED vars
  <2>1. UNCHANGED <<log, committed, process, consumer, messages, batch, out, dedup, calls,
                    hotDedup, applied, excused>>
    BY <1>1 DEF vars
  <2>2. Settled' = Settled /\ Indexed'
    BY <2>1 DEF Settled, Accounted, Indexed, FirstEvent
  <2>3. Placed' /\ Remembered'
    BY <2>1, <2>2, CallsPlaced
  <2> QED BY <2>2, <2>3 DEF Accounted
<1> QED
  BY <1>1, ConsumerPlaced, WorkerPlaced, HotTierPlaced, FaultPlaced, BoundPlaced, ProducePlaced
  DEF Next

(* Whatever fails, restarts or expires, an event the consumer has read is  *)
(* in the buffers, held by somebody, to be read again, or counted among    *)
(* those a failure dropped (worker, processBatch, ApplyBatch).             *)
THEOREM LossesExplained == Spec => []LossExplained
<1>1. Init => Accounted
  <2> SUFFICES ASSUME Init PROVE Accounted
    OBVIOUS
  <2>1. Offsets = {} /\ dedup = {} /\ hotDedup = {} /\ calls = {}
    BY SMT DEF Init, Offsets
  <2> QED BY <2>1 DEF Accounted, Placed, Remembered, Indexed, EventsAt
<1>2. TypeOK /\ Accounted => LossExplained
  <2> SUFFICES ASSUME TypeOK, Accounted, NEW o \in 1..consumer.next, process # "down"
               PROVE  \/ applied[log[o]] > 0
                      \/ log[o] \in EventsAt(InFlight \cup (consumer.next + 1)..Len(log))
                      \/ log[o] \in excused
    BY DEF LossExplained
  <2>1. o \in Offsets
    BY SMT DEF TypeOK, LogOK, ConsumerOK, Offsets
  <2>2. Ahead = (consumer.next + 1)..Len(log)
    BY SMT DEF Ahead, ReadUpTo, Offsets, TypeOK, LogOK, ConsumerOK
  <2>3. log[o] \in Settled \cup EventsAt(InFlight \cup Ahead)
    BY <2>1 DEF Accounted, Placed, EventsAt
  <2> QED BY <2>2, <2>3 DEF Settled
<1>3. Init => AppliedOnce /\ OffsetsBehind
  BY UnsentCount, SMT DEF Init, AppliedOnce, OffsetsBehind, NoOffset
<1> QED
  BY <1>1, <1>2, <1>3, AppliedStep, OffsetsStep, AccountedStep, TypeCorrect, PTL DEF Spec

-----------------------------------------------------------------------------
(* The refinement of EventLedger.  What is owed was sent.                  *)
LEMMA OwedIsSent == TypeOK => Owed \subseteq Sent /\ Sent \subseteq Events
<1> SUFFICES ASSUME TypeOK PROVE Owed \subseteq Sent /\ Sent \subseteq Events
  OBVIOUS
<1>1. InFlight \subseteq Offsets /\ Ahead \subseteq Offsets
  BY HeldOffsets DEF InFlight, Ahead
<1>2. Sent \subseteq Events
  BY EventsAtOffsets DEF Sent, TypeOK, LogOK
<1> QED BY <1>1, <1>2 DEF Owed, Sent, EventsAt

(* An event counted at all is counted once.                                *)
LEMMA SettledInLedger ==
  TypeOK /\ AppliedOnce =>
    /\ Ledger!Counted = {e \in Events : applied[e] > 0}
    /\ Ledger!Settled = Settled
<1> SUFFICES ASSUME TypeOK, AppliedOnce
             PROVE  Ledger!Counted = {e \in Events : applied[e] > 0}
  BY DEF Ledger!Settled, Settled
<1>1. \A e \in Events : applied[e] = 1 <=> applied[e] > 0
  BY SMT DEF TypeOK, IndexesOK, AppliedOnce
<1> QED BY <1>1 DEF Ledger!Counted

(* The same of the next state.                                             *)
LEMMA NextInLedger ==
  /\ TypeOK' => (Owed \subseteq Sent)'
  /\ TypeOK' /\ AppliedOnce' => (Ledger!Settled = Settled)'
<1>1. TypeOK => Owed \subseteq Sent
  BY OwedIsSent
<1>2. TypeOK /\ AppliedOnce => Ledger!Settled = Settled
  BY SettledInLedger
<1> QED BY <1>1, <1>2, PTL

(* Who holds the same offsets owes the same events.                        *)
LEMMA SameOwed ==
  ASSUME UNCHANGED log,
         \A o : o \in InFlight' \cup Ahead' <=> o \in InFlight \cup Ahead
  PROVE  Sent' = Sent /\ Owed' = Owed
<1>1. Sent' = Sent
  BY DEF Sent, EventsAt, Offsets
<1>2. InFlight' \cup Ahead' = InFlight \cup Ahead
  OBVIOUS
<1>3. Owed' = {log'[o] : o \in InFlight' \cup Ahead'}
  BY DEF Owed, EventsAt
<1>4. Owed = {log[o] : o \in InFlight \cup Ahead}
  BY DEF Owed, EventsAt
<1> QED BY <1>1, <1>2, <1>3, <1>4

(* Who lets go of one offset owes the same events, or all but its own.     *)
LEMMA LessOwed ==
  ASSUME UNCHANGED log, NEW o0 \in InFlight,
         \A o : o \in InFlight' \cup Ahead' => o \in InFlight \cup Ahead,
         \A o : o \in InFlight \cup Ahead => o \in InFlight' \cup Ahead' \/ o = o0
  PROVE  Sent' = Sent /\ log[o0] \in Owed /\ Owed' \in {Owed, Owed \ {log[o0]}}
<1>1. Sent' = Sent
  BY DEF Sent, EventsAt, Offsets
<1>2. Owed' = {log'[o] : o \in InFlight' \cup Ahead'}
  BY DEF Owed, EventsAt
<1>3. Owed = {log[o] : o \in InFlight \cup Ahead}
  BY DEF Owed, EventsAt
<1>4. Owed' \subseteq Owed /\ Owed \subseteq Owed' \cup {log[o0]} /\ log[o0] \in Owed
  BY <1>2, <1>3
<1> QED BY <1>1, <1>4

(* A copy of an event nobody needs any more may go.                        *)
LEMMA DropStep ==
  ASSUME TypeOK, AppliedOnce, Accounted', UNCHANGED <<applied, excused>>, Sent' = Sent,
         NEW e \in Owed, Owed' \in {Owed, Owed \ {e}}
  PROVE  [Ledger!Next]_(Ledger!vars)
<1>1. CASE Owed' = Owed
  BY <1>1 DEF Ledger!vars
<1>2. CASE Owed' # Owed
  <2>1. e \in Sent /\ e \in Events /\ e \notin Owed'
    BY <1>2, OwedIsSent
  <2>2. e \in Settled'
    BY <2>1 DEF Accounted, Placed, Sent, Owed
  <2>3. e \in Settled
    BY <2>2 DEF Settled
  <2>4. e \in Ledger!Settled
    BY <2>3, SettledInLedger
  <2>5. Ledger!Discard(e)
    BY <1>2, <2>4 DEF Ledger!Discard
  <2> QED BY <2>1, <2>5 DEF Ledger!Next
<1> QED BY <1>1, <1>2

(* A failure excuses what it loses; what it does not lose, somebody has.   *)
LEMMA FailStep ==
  ASSUME TypeOK, TypeOK', AppliedOnce, AppliedOnce', Accounted', Sent' = Sent,
         NEW lost, lost \subseteq Owed \cup {e \in Events : applied[e] > 0},
         excused' = excused \cup lost,
         NEW back \in SUBSET lost,
         applied' = [e \in Events |-> IF e \in back THEN 0 ELSE applied[e]]
  PROVE  [Ledger!Next]_(Ledger!vars)
<1>1. lost \in SUBSET (Owed \cup Ledger!Counted)
  BY SettledInLedger
<1>2. Owed \subseteq Sent /\ Owed' \in SUBSET Sent
  BY OwedIsSent, NextInLedger
<1>3. Ledger!Settled' = Settled'
  BY NextInLedger
<1>4. Owed \ Owed' \subseteq Ledger!Settled'
  BY <1>2, <1>3 DEF Accounted, Placed, Sent, Owed
<1>5. Ledger!Fail
  BY <1>1, <1>2, <1>4 DEF Ledger!Fail
<1> QED BY <1>5 DEF Ledger!Next

(* The consumer goroutine passes offsets on and drops none.                *)
LEMMA ConsumerOwes ==
  ASSUME TypeOK, ConsumerStep \/ FlushCommit
  PROVE  [Ledger!Next]_(Ledger!vars)
<1>1. UNCHANGED <<log, process, batch, out, calls, applied, excused>>
  BY DEF ConsumerStep, Fetch, HandOver, CommitMessages, FlushCommit
<1>2. \A o : o \in InFlight' \cup Ahead' <=> o \in InFlight \cup Ahead
  <2>1. CASE Fetch
    <3>1. /\ messages' = messages /\ process # "down" /\ process' # "down"
          /\ consumer.pc = "fetch" /\ consumer.next + 1 \in Nat
          /\ consumer'.pc = "send" /\ consumer'.next = consumer.next + 1
          /\ consumer.next < Len(log)
      BY <1>1, <2>1, SMT DEF Fetch, TypeOK, ConsumerOK, Offsets
    <3>2. Unsent' = {consumer.next + 1} /\ Unsent = {}
      BY <3>1 DEF Unsent
    <3>3. \A o : o \in Ahead <=> o \in Ahead' \/ o = consumer.next + 1
      BY <1>1, <3>1, SMT DEF Ahead, ReadUpTo, Offsets, TypeOK, LogOK, ConsumerOK
    <3> QED BY <1>1, <3>1, <3>2, <3>3, Whereabouts DEF Located, IsHeld, HasPassed
  <2>2. CASE HandOver
    <3>1. /\ messages' = Append(messages, consumer.next) /\ messages \in Seq(Offsets)
          /\ consumer.pc = "send" /\ consumer'.pc = "commit" /\ consumer'.next = consumer.next
      BY <2>2 DEF HandOver, TypeOK, ConsumerOK
    <3>2. Elements(messages') = Elements(messages) \cup Unsent /\ Unsent' = {}
      BY <3>1, ElementsAppend DEF Unsent
    <3>3. Ahead' = Ahead
      BY <1>1, <3>1, <2>2 DEF Ahead, ReadUpTo, Offsets, HandOver
    <3> QED BY <1>1, <3>2, <3>3, Whereabouts DEF Located, IsHeld, HasPassed
  <2>3. CASE CommitMessages
    <3>1. /\ messages' = messages /\ Unsent = {} /\ Unsent' = {} /\ consumer'.next = consumer.next
      BY <2>3 DEF CommitMessages, Unsent, TypeOK, ConsumerOK
    <3>2. Ahead' = Ahead
      BY <1>1, <3>1, <2>3 DEF Ahead, ReadUpTo, Offsets, CommitMessages
    <3> QED BY <1>1, <3>1, <3>2, Whereabouts DEF Located, IsHeld, HasPassed
  <2>4. CASE FlushCommit
    <3>1. Ahead' = Ahead /\ InFlight' = InFlight
      BY <1>1, <2>4 DEF FlushCommit, Ahead, ReadUpTo, Offsets, InFlight, InProcess, InCalls,
                        Unsent, HeldBy
    <3> QED BY <3>1
  <2> QED BY <2>1, <2>2, <2>3, <2>4 DEF ConsumerStep
<1>3. UNCHANGED Ledger!vars
  BY <1>1, <1>2, SameOwed DEF Ledger!vars
<1> QED BY <1>3

(* A worker lets go of one offset only when it calls its event a duplicate. *)
LEMMA WorkerOwes ==
  ASSUME TypeOK, AppliedOnce, Accounted', NEW w \in Workers, WorkerStep(w)
  PROVE  [Ledger!Next]_(Ledger!vars)
<1>1. UNCHANGED <<log, committed, process, consumer, applied, excused>>
  BY DEF WorkerStep, Receive, TickerFlush, Cancelled, LookUp, StoreKey, WriteBatch
<1>2. Ahead' = Ahead /\ Unsent' = Unsent
  BY <1>1 DEF Ahead, ReadUpTo, Offsets, Unsent
<1>3. ASSUME \A o : o \in InFlight' <=> o \in InFlight PROVE UNCHANGED Ledger!vars
  BY <1>1, <1>2, <1>3, SameOwed DEF Ledger!vars
<1>4. ASSUME UNCHANGED <<messages, batch, out, calls>> PROVE UNCHANGED Ledger!vars
  <2>1. InFlight' = InFlight
    BY <1>2, <1>4 DEF InFlight, InProcess, InCalls, HeldBy
  <2> QED BY <1>3, <2>1
<1>5. CASE Receive(w)
  <2>1. /\ messages \in Seq(Offsets) /\ messages # <<>> /\ messages' = Tail(messages)
        /\ batch[w] \in Seq(Offsets)
        /\ batch' = [batch EXCEPT ![w] = Append(batch[w], Head(messages))]
        /\ UNCHANGED <<out, calls>>
    BY <1>5 DEF Receive, TypeOK, ConsumerOK, WorkersOK
  <2>2. Elements(messages) = {Head(messages)} \cup Elements(messages')
    BY <2>1, ElementsTail
  <2>3. Elements(batch'[w]) = Elements(batch[w]) \cup {Head(messages)}
    BY <2>1, ElementsAppend DEF TypeOK, WorkersOK
  <2>4. \A v \in Workers \ {w} : batch'[v] = batch[v]
    BY <2>1 DEF TypeOK, WorkersOK
  <2>5. \A o : o \in InFlight' <=> o \in InFlight
    BY <1>2, <2>1, <2>2, <2>3, <2>4, Whereabouts DEF Located, IsHeld, HasPassed
  <2> QED BY <1>3, <2>5
<1>6. CASE TickerFlush(w) \/ Cancelled(w)
  <2>1. UNCHANGED <<messages, batch, out, calls>>
    BY <1>6 DEF TickerFlush, Cancelled, CancelledBatch, TypeOK, WorkersOK
  <2> QED BY <1>4, <2>1
<1>7. CASE LookUp(w)
  <2>1. CASE log[Head(batch[w])] \in dedup
    <3>1. /\ batch[w] \in Seq(Offsets) /\ batch[w] # <<>>
          /\ batch' = [batch EXCEPT ![w] = Tail(batch[w])]
          /\ UNCHANGED <<messages, out, calls>>
      BY <1>7, <2>1 DEF LookUp, TypeOK, WorkersOK
    <3>2. Elements(batch[w]) = {Head(batch[w])} \cup Elements(batch'[w])
      BY <3>1, ElementsTail DEF TypeOK, WorkersOK
    <3>3. \A v \in Workers \ {w} : batch'[v] = batch[v]
      BY <3>1 DEF TypeOK, WorkersOK
    <3>4. /\ Head(batch[w]) \in InFlight
          /\ \A o : o \in InFlight' => o \in InFlight
          /\ \A o : o \in InFlight => o \in InFlight' \/ o = Head(batch[w])
      BY <1>2, <3>1, <3>2, <3>3, Whereabouts DEF Located, IsHeld, HasPassed
    <3>5. /\ Sent' = Sent /\ log[Head(batch[w])] \in Owed
          /\ Owed' \in {Owed, Owed \ {log[Head(batch[w])]}}
      BY <1>1, <1>2, <3>4, LessOwed
    <3> QED BY <1>1, <3>5, DropStep
  <2>2. CASE log[Head(batch[w])] \notin dedup
    <3>1. UNCHANGED <<messages, batch, out, calls>>
      BY <1>7, <2>2 DEF LookUp
    <3> QED BY <1>4, <3>1
  <2> QED BY <2>1, <2>2
<1>8. CASE StoreKey(w)
  <2> DEFINE o0 == Head(batch[w])
  <2>1. /\ batch[w] \in Seq(Offsets) /\ batch[w] # <<>> /\ out[w] \in Seq(Offsets)
        /\ batch' = [batch EXCEPT ![w] = Tail(batch[w])]
        /\ out' = [out EXCEPT ![w] = Append(out[w], o0)]
        /\ UNCHANGED <<messages, calls>>
    BY <1>8 DEF StoreKey, TypeOK, WorkersOK
  <2>2. Elements(batch[w]) = {o0} \cup Elements(batch'[w])
    BY <2>1, ElementsTail DEF TypeOK, WorkersOK
  <2>3. Elements(out'[w]) = Elements(out[w]) \cup {o0}
    BY <2>1, ElementsAppend DEF TypeOK, WorkersOK
  <2>4. \A v \in Workers \ {w} : batch'[v] = batch[v] /\ out'[v] = out[v]
    BY <2>1 DEF TypeOK, WorkersOK
  <2> HIDE DEF o0
  <2>5. \A o : o \in InFlight' <=> o \in InFlight
    BY <1>2, <2>1, <2>2, <2>3, <2>4, Whereabouts DEF Located, IsHeld, HasPassed
  <2> QED BY <1>3, <2>5
<1>9. CASE WriteBatch(w)
  <2>1. CASE out[w] = <<>>
    <3>1. UNCHANGED <<messages, batch, out, calls>>
      BY <1>9, <2>1 DEF WriteBatch
    <3> QED BY <1>4, <3>1
  <2>2. CASE out[w] # <<>>
    <3> DEFINE new == [id |-> lastCall + 1, records |-> out[w], begun |-> FALSE, applying |-> FALSE]
    <3>1. /\ calls' = calls \cup {new} /\ out' = [out EXCEPT ![w] = <<>>]
          /\ UNCHANGED <<messages, batch>>
      BY <1>9, <2>2 DEF WriteBatch
    <3>2. /\ \A v \in Workers \ {w} : out'[v] = out[v]
          /\ Elements(out'[w]) = {} /\ new.records = out[w]
      BY <3>1, ElementsEmpty DEF TypeOK, WorkersOK
    <3> HIDE DEF new
    <3>3. \A o : o \in InFlight' <=> o \in InFlight
      BY <1>2, <3>1, <3>2, Whereabouts DEF Located, IsHeld, HasPassed
    <3> QED BY <1>3, <3>3
  <2> QED BY <2>1, <2>2
<1> QED BY <1>4, <1>5, <1>6, <1>7, <1>8, <1>9 DEF WorkerStep

(* A call skips a record of a counted event or counts it, and answers when *)
(* it has none left.                                                       *)
LEMMA HotTierOwes ==
  ASSUME TypeOK, AppliedOnce, Accounted', HotTierStep
  PROVE  [Ledger!Next]_(Ledger!vars)
<1>1. UNCHANGED <<log, committed, process, consumer, messages, batch, out, excused>>
  BY DEF HotTierStep, LoadOrStore, WriteBuffers, Respond
<1>2. Ahead' = Ahead /\ Unsent' = Unsent
  BY <1>1 DEF Ahead, ReadUpTo, Offsets, Unsent
<1>3. ASSUME NEW c \in calls, c.records # <<>>, calls' = (calls \ {c}) \cup {Skipped(c)}
      PROVE  /\ Sent' = Sent /\ FirstEvent(c) \in Owed /\ FirstEvent(c) \in Events
             /\ Owed' \in {Owed, Owed \ {FirstEvent(c)}}
  <2>1. c.records \in Seq(Offsets)
    BY DEF TypeOK, CallsOK, Call
  <2>2. Elements(c.records) = {Head(c.records)} \cup Elements(Skipped(c).records)
    BY <1>3, <2>1, ElementsTail DEF Skipped
  <2>3. /\ Head(c.records) \in InFlight
        /\ \A o : o \in InFlight' => o \in InFlight
        /\ \A o : o \in InFlight => o \in InFlight' \/ o = Head(c.records)
    BY <1>1, <1>2, <1>3, <2>2, Whereabouts DEF Located, IsHeld, HasPassed
  <2>4. /\ Sent' = Sent /\ log[Head(c.records)] \in Owed
        /\ Owed' \in {Owed, Owed \ {log[Head(c.records)]}}
    BY <1>1, <1>2, <2>3, LessOwed
  <2> QED BY <2>4, OwedIsSent DEF FirstEvent
<1>4. ASSUME NEW c \in calls, LoadOrStore(c) PROVE [Ledger!Next]_(Ledger!vars)
  <2>1. CASE Known(FirstEvent(c))
    <3>1. /\ c.records # <<>> /\ calls' = (calls \ {c}) \cup {Skipped(c)}
          /\ applied' = applied
      BY <1>4, <2>1 DEF LoadOrStore, Replace
    <3>2. /\ Sent' = Sent /\ FirstEvent(c) \in Owed
          /\ Owed' \in {Owed, Owed \ {FirstEvent(c)}}
      BY <1>3, <3>1
    <3> QED BY <1>1, <3>1, <3>2, DropStep
  <2>2. CASE ~Known(FirstEvent(c))
    <3>1. calls' = (calls \ {c}) \cup {Marked(c)} /\ applied' = applied
      BY <1>4, <2>2 DEF LoadOrStore, Replace
    <3>2. Marked(c).records = c.records
      BY DEF Marked
    <3>3. \A o : o \in InFlight' <=> o \in InFlight
      BY <1>1, <1>2, <3>1, <3>2, Whereabouts DEF Located, IsHeld, HasPassed
    <3> QED BY <1>1, <1>2, <3>1, <3>3, SameOwed DEF Ledger!vars
  <2> QED BY <2>1, <2>2
<1>5. ASSUME NEW c \in calls, WriteBuffers(c) PROVE [Ledger!Next]_(Ledger!vars)
  <2>1. /\ c.records # <<>> /\ c.applying /\ calls' = (calls \ {c}) \cup {Skipped(c)}
        /\ applied' = [applied EXCEPT ![FirstEvent(c)] = @ + 1]
    BY <1>5 DEF WriteBuffers, Replace
  <2>2. applied[FirstEvent(c)] = 0
    BY <2>1 DEF AppliedOnce
  <2>3. applied' = [applied EXCEPT ![FirstEvent(c)] = 1]
    BY <2>1, <2>2
  <2>4. /\ Sent' = Sent /\ FirstEvent(c) \in Owed /\ FirstEvent(c) \in Events
        /\ Owed' \in {Owed, Owed \ {FirstEvent(c)}}
    BY <1>3, <2>1
  <2>5. Ledger!Count(FirstEvent(c))
    BY <1>1, <2>2, <2>3, <2>4 DEF Ledger!Count
  <2> QED BY <2>4, <2>5 DEF Ledger!Next
<1>6. ASSUME NEW c \in calls, Respond(c) PROVE [Ledger!Next]_(Ledger!vars)
  <2>1. c.records = <<>> /\ calls' = calls \ {c} /\ applied' = applied
    BY <1>6 DEF Respond
  <2>2. \A o : o \in InFlight' <=> o \in InFlight
    BY <1>1, <1>2, <2>1, ElementsEmpty, Whereabouts DEF Located, IsHeld, HasPassed
  <2> QED BY <1>1, <1>2, <2>1, <2>2, SameOwed DEF Ledger!vars
<1> QED BY <1>4, <1>5, <1>6 DEF HotTierStep

(* A failure that takes nothing back from the buffers.                     *)
LEMMA LossStep ==
  ASSUME TypeOK, TypeOK', AppliedOnce, AppliedOnce', Accounted', UNCHANGED <<log, applied>>,
         NEW lost, lost \subseteq Owed, excused' = excused \cup lost
  PROVE  [Ledger!Next]_(Ledger!vars)
<1>1. Sent' = Sent
  BY DEF Sent, EventsAt, Offsets
<1>2. PICK back \in SUBSET lost : back = {}
  OBVIOUS
<1>3. applied' = [e \in Events |-> IF e \in back THEN 0 ELSE applied[e]]
  BY <1>2 DEF TypeOK, IndexesOK
<1> QED BY <1>1, <1>3, FailStep

(* The ingester's memory is gone: it excuses the committed part of it.     *)
LEMMA ForgetOwes ==
  ASSUME TypeOK, TypeOK', AppliedOnce, AppliedOnce', Accounted',
         UNCHANGED <<log, applied>>, NEW final, Forget(final)
  PROVE  [Ledger!Next]_(Ledger!vars)
<1>1. EventsAt({o \in InProcess : o <= final}) \subseteq Owed
  BY DEF EventsAt, Owed, InFlight
<1>2. excused' = excused \cup EventsAt({o \in InProcess : o <= final})
  BY DEF Forget
<1> QED BY <1>1, <1>2, LossStep

(* What a call loses, or a restart, is excused.                            *)
LEMMA FaultOwes ==
  ASSUME TypeOK, TypeOK', AppliedOnce, AppliedOnce', Accounted', FaultStep
  PROVE  [Ledger!Next]_(Ledger!vars)
<1>1. ASSUME NEW c \in calls, LoseCall(c) PROVE [Ledger!Next]_(Ledger!vars)
  <2>1. /\ excused' = excused \cup EventsAt(Elements(c.records))
        /\ UNCHANGED <<log, applied>>
    BY <1>1 DEF LoseCall
  <2>2. EventsAt(Elements(c.records)) \subseteq Owed
    BY DEF EventsAt, Owed, InFlight, InCalls
  <2> QED BY <2>1, <2>2, LossStep
<1>2. ASSUME NEW w \in Workers, CallTimeout(w) PROVE [Ledger!Next]_(Ledger!vars)
  <2>1. UNCHANGED <<log, committed, process, consumer, messages, batch, out, calls,
                    applied, excused>>
    BY <1>2 DEF CallTimeout
  <2>2. Ahead' = Ahead /\ InFlight' = InFlight
    BY <2>1 DEF Ahead, ReadUpTo, Offsets, InFlight, InProcess, InCalls, Unsent, HeldBy
  <2> QED BY <2>1, <2>2, SameOwed DEF Ledger!vars
<1>3. CASE HotTierRestart
  <2> DEFINE back == {e \in Events : applied[e] > 0}
             lost == back \cup EventsAt(InCalls)
  <2>1. /\ excused' = excused \cup lost /\ UNCHANGED log
        /\ applied' = [e \in Events |-> 0]
    BY <1>3 DEF HotTierRestart
  <2>2. lost \subseteq Owed \cup {e \in Events : applied[e] > 0}
    BY DEF EventsAt, Owed, InFlight
  <2>3. applied' = [e \in Events |-> IF e \in back THEN 0 ELSE applied[e]]
    <3>1. \A e \in Events : applied[e] > 0 \/ applied[e] = 0
      BY SMT DEF TypeOK, IndexesOK
    <3> QED BY <2>1, <3>1
  <2>4. Sent' = Sent
    BY <2>1 DEF Sent, EventsAt, Offsets
  <2>5. back \in SUBSET lost
    OBVIOUS
  <2> HIDE DEF back, lost
  <2> QED BY <2>1, <2>2, <2>3, <2>4, <2>5, FailStep
<1>4. CASE Crash
  BY <1>4, ForgetOwes DEF Crash
<1> QED BY <1>1, <1>2, <1>3, <1>4 DEF FaultStep

(* A start without a committed offset excuses the whole log; an expired    *)
(* entry of the hot tier was that of a counted event.                      *)
LEMMA BoundOwes ==
  ASSUME TypeOK, TypeOK', AppliedOnce, AppliedOnce', OffsetsBehind, Accounted, Accounted',
         \/ Stop \/ CloseConsumer \/ Start
         \/ \E e \in Events : IngesterExpiry(e) \/ HotTierExpiry(e)
  PROVE  [Ledger!Next]_(Ledger!vars)
<1>1. ASSUME UNCHANGED <<log, consumer, messages, batch, out, calls, applied, excused>>,
             Ahead' = Ahead
      PROVE  [Ledger!Next]_(Ledger!vars)
  <2>1. InFlight' = InFlight
    BY <1>1 DEF InFlight, InProcess, InCalls, Unsent, HeldBy
  <2> QED BY <1>1, <2>1, SameOwed DEF Ledger!vars
<1>2. CASE Stop
  <2>1. Ahead' = Ahead
    BY <1>2 DEF Stop, Ahead, ReadUpTo, Offsets
  <2> QED BY <1>1, <1>2, <2>1 DEF Stop
<1>3. CASE CloseConsumer
  BY <1>3, ForgetOwes DEF CloseConsumer
<1>4. CASE Start
  <2>1. /\ UNCHANGED <<log, committed, messages, batch, out, calls, applied>>
        /\ process = "down" /\ process' = "running" /\ consumer'.pc = "fetch"
    BY <1>4 DEF Start
  <2>2. CASE committed = NoOffset
    <3>1. Ahead = Offsets
      BY <2>1, <2>2, SMT DEF Ahead, ReadUpTo, Offsets, NoOffset
    <3>2. EventsAt(Offsets) \subseteq Owed /\ excused' = excused \cup EventsAt(Offsets)
      BY <1>4, <2>2, <3>1 DEF Start, Owed, EventsAt
    <3> QED BY <2>1, <3>2, LossStep
  <2>3. CASE committed # NoOffset
    <3>1. Ahead' = Ahead /\ excused' = excused
      BY <1>4, <2>1, <2>3 DEF Start, Ahead, ReadUpTo, Offsets
    <3>2. Unsent' = {} /\ Unsent = {}
      BY <2>1 DEF OffsetsBehind, Unsent
    <3>3. InFlight' = InFlight
      BY <2>1, <3>2 DEF InFlight, InProcess, InCalls, HeldBy
    <3> QED BY <2>1, <3>1, <3>3, SameOwed DEF Ledger!vars
  <2> QED BY <2>2, <2>3
<1>5. ASSUME NEW e \in Events, IngesterExpiry(e) PROVE [Ledger!Next]_(Ledger!vars)
  <2>1. Ahead' = Ahead
    BY <1>5 DEF IngesterExpiry, Ahead, ReadUpTo, Offsets
  <2> QED BY <1>1, <1>5, <2>1 DEF IngesterExpiry
<1>6. ASSUME NEW e \in Events, HotTierExpiry(e) PROVE [Ledger!Next]_(Ledger!vars)
  <2>1. /\ excused' = excused \cup {e} /\ UNCHANGED log
        /\ applied' = [applied EXCEPT ![e] = 0]
    BY <1>6 DEF HotTierExpiry
  <2>2. applied[e] > 0
    BY <1>6 DEF HotTierExpiry, Accounted, Indexed
  <2>3. {e} \subseteq Owed \cup {d \in Events : applied[d] > 0} /\ {e} \in SUBSET {e}
    BY <2>2
  <2>4. applied' = [d \in Events |-> IF d \in {e} THEN 0 ELSE applied[d]]
    BY <2>1 DEF TypeOK, IndexesOK
  <2>5. Sent' = Sent
    BY <2>1 DEF Sent, EventsAt, Offsets
  <2> QED BY <2>1, <2>3, <2>4, <2>5, FailStep
<1> QED BY <1>2, <1>3, <1>4, <1>5, <1>6

(* A produced event is sent and owed.                                      *)
LEMMA ProduceOwes ==
  ASSUME TypeOK, NEW e \in Events, Produce(e)
  PROVE  [Ledger!Next]_(Ledger!vars)
<1>1. /\ log' = Append(log, e) /\ log \in Seq(Events)
      /\ UNCHANGED <<committed, process, consumer, messages, batch, out, calls,
                     applied, excused>>
  BY DEF Produce, TypeOK, LogOK
<1>2. /\ Offsets' = Offsets \cup {Len(log) + 1}
      /\ \A o \in Offsets : log'[o] = log[o]
      /\ log'[Len(log) + 1] = e
  BY <1>1, SMT DEF Offsets
<1>3. InFlight' = InFlight /\ ReadUpTo' = ReadUpTo
  BY <1>1 DEF InFlight, InProcess, InCalls, Unsent, HeldBy, ReadUpTo
<1>4. InFlight \cup Ahead \subseteq Offsets
  BY HeldOffsets DEF InFlight, Ahead
<1>5. Ahead' = Ahead \cup {Len(log) + 1}
  <2>1. Len(log) + 1 > ReadUpTo
    BY SMT DEF ReadUpTo, TypeOK, LogOK, ConsumerOK, Offsets, NoOffset
  <2> QED BY <1>2, <1>3, <2>1 DEF Ahead
<1>6. ASSUME NEW S \in SUBSET Offsets
      PROVE  {log'[o] : o \in S \cup {Len(log) + 1}} = {log[o] : o \in S} \cup {e}
  BY <1>2
<1>7. Sent' = Sent \cup {e}
  BY <1>2, <1>6 DEF Sent, EventsAt
<1>8. Owed' = Owed \cup {e}
  <2>1. InFlight' \cup Ahead' = (InFlight \cup Ahead) \cup {Len(log) + 1}
    BY <1>3, <1>5
  <2>2. Owed' = {log'[o] : o \in (InFlight \cup Ahead) \cup {Len(log) + 1}}
    BY <2>1 DEF Owed, EventsAt
  <2> QED BY <1>4, <1>6, <2>2 DEF Owed, EventsAt
<1> QED BY <1>1, <1>7, <1>8 DEF Ledger!Next, Ledger!Send

LEMMA LedgerStep ==
  /\ TypeOK /\ AppliedOnce /\ OffsetsBehind /\ Accounted
  /\ TypeOK' /\ AppliedOnce' /\ Accounted'
  /\ [Next]_vars
  => [Ledger!Next]_(Ledger!vars)
<1> SUFFICES ASSUME TypeOK, AppliedOnce, OffsetsBehind, Accounted,
                    TypeOK', AppliedOnce', Accounted', [Next]_vars
             PROVE  [Ledger!Next]_(Ledger!vars)
  OBVIOUS
<1>1. CASE UNCHANGED vars
  <2>1. UNCHANGED <<log, committed, process, consumer, messages, batch, out, calls,
                    applied, excused>>
    BY <1>1 DEF vars
  <2>2. Ahead' = Ahead /\ InFlight' = InFlight
    BY <2>1 DEF Ahead, ReadUpTo, Offsets, InFlight, InProcess, InCalls, Unsent, HeldBy
  <2> QED BY <2>1, <2>2, SameOwed DEF Ledger!vars
<1> QED
  BY <1>1, ConsumerOwes, WorkerOwes, HotTierOwes, FaultOwes, BoundOwes, ProduceOwes DEF Next

(* Whatever is duplicated, redelivered, lost or restarted, the pipeline is *)
(* the ledger: it owes every event sent until the event is counted or a    *)
(* failure has excused it, counts it only while it owes it and only once,  *)
(* and takes back a count only with an excuse (consume, worker,            *)
(* processBatch, ApplyBatch).                                              *)
THEOREM PipelineImplementsLedger == Spec => LedgerSpec
<1>1. Init => Ledger!Init /\ AppliedOnce /\ OffsetsBehind /\ Accounted
  <2> SUFFICES ASSUME Init PROVE Ledger!Init /\ AppliedOnce /\ OffsetsBehind /\ Accounted
    OBVIOUS
  <2>1. /\ Offsets = {} /\ dedup = {} /\ hotDedup = {} /\ calls = {} /\ excused = {}
        /\ applied = [e \in Events |-> 0]
    BY SMT DEF Init, Offsets
  <2>2. AppliedOnce /\ OffsetsBehind
    BY UnsentCount, SMT DEF Init, AppliedOnce, OffsetsBehind, NoOffset
  <2>3. Accounted
    BY <2>1 DEF Accounted, Placed, Remembered, Indexed, EventsAt
  <2>4. Sent = {} /\ Owed = {}
    <3>1. /\ Elements(messages) = {} /\ Unsent = {}
          /\ \A w \in Workers : HeldBy(w) = {}
      BY ElementsEmpty DEF Init, Unsent, HeldBy
    <3>2. InFlight = {} /\ Ahead = {}
      BY <2>1, <3>1 DEF InFlight, InProcess, InCalls, Ahead
    <3> QED BY <2>1, <3>2 DEF Sent, Owed, EventsAt
  <2> QED BY <2>1, <2>2, <2>3, <2>4 DEF Ledger!Init
<1> QED
  BY <1>1, AppliedStep, OffsetsStep, AccountedStep, LedgerStep, TypeCorrect, PTL
  DEF Spec, LedgerSpec, Ledger!Spec

=============================================================================

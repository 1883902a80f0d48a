--------------------------- MODULE IngestPipeline ---------------------------
(***************************************************************************)
(* The path of an event from the Kafka topic "events" into the buffers of  *)
(* a hot-tier node:                                                        *)
(*                                                                         *)
(*   log --fetch--> consumer goroutine --channel--> workers --dedup-->     *)
(*       --ApplyBatch RPC--> hot tier (dedup index, buffers)               *)
(*                                                                         *)
(* One stream-ingester process (one consumer goroutine, a pool of workers  *)
(* sharing one deduplication index) and one hot-tier node, as the two main *)
(* functions configure them.  Messages are offsets into the log; the event *)
(* at offset o is log[o].  The same event may be in the log several times: *)
(* the gateway's producer retries writes and clients resend requests.      *)
(*                                                                         *)
(* Atomicity follows the code: the ingester's isDuplicate is a Load and a  *)
(* separate Store, the hot tier marks an event with one LoadOrStore and    *)
(* only then writes the buffers, the offset is committed after the message *)
(* is put in the channel and flushed to the broker by a 1s timer.          *)
(***************************************************************************)
EXTENDS Integers, Sequences, FiniteSets

CONSTANTS
  Events,     (* the event identifiers clients send                        *)
  Workers,    (* the workers of the ingester (NumWorkers = 10)             *)
  ChanCap,    (* capacity of the message channel (10000)                   *)
  BatchCap,   (* a worker's batch is full at this size (1000)              *)
  MaxLog,     (* bound: length of the Kafka log                            *)
  MaxFaults,  (* bound: crashes, lost calls, call timeouts                 *)
  MaxStops,   (* bound: graceful shutdowns                                 *)
  MaxExpiries (* bound: deduplication entries that outlive their 24 hours  *)

ASSUME ConstantsAssumption ==
  /\ ChanCap \in Nat \ {0} /\ BatchCap \in Nat \ {0}
  /\ MaxLog \in Nat /\ MaxFaults \in Nat /\ MaxStops \in Nat /\ MaxExpiries \in Nat

VARIABLES
  log,        (* Kafka: the partition, a sequence of events                *)
  committed,  (* Kafka: the group's committed offset, NoOffset before any  *)
  process,    (* the ingester: "running", "stopping" or "down"             *)
  consumer,   (* consumer goroutine: [pc, next]; next = last fetched offset *)
  marked,     (* offset CommitMessages recorded, flushed by the timer      *)
  messages,   (* channel of offsets                                        *)
  wpc,        (* worker -> "poll", "dedup", "store", "wait" or "done"      *)
  leaving,    (* worker -> has it seen ctx.Done()                          *)
  batch,      (* worker -> offsets received, not yet deduplicated          *)
  out,        (* worker -> offsets that passed deduplication               *)
  call,       (* worker -> identifier of the call it waits for, 0 if none  *)
  dedup,      (* ingester index: events seen within the last 24 hours      *)
  calls,      (* ApplyBatch calls sent and not answered, see Call           *)
  lastCall,   (* the last call identifier used                             *)
  hotDedup,   (* hot-tier index                                            *)
  applied,    (* event -> times added to the buffers since last indexed    *)
  faults, stops, expiries, (* counters of the bounds                       *)
  excused,    (* history: events a failure has dropped                     *)
  misjudged   (* history: events called duplicate though nobody had them   *)

kafkaVars    == <<log, committed>>
consumerVars == <<consumer, marked>>
workerVars   == <<wpc, leaving, batch, out, call>>
hotVars      == <<hotDedup, applied>>
callVars     == <<calls, lastCall>>
boundVars    == <<faults, stops, expiries>>
historyVars  == <<excused, misjudged>>
vars == <<kafkaVars, process, consumerVars, messages, workerVars, dedup,
          callVars, hotVars, boundVars, historyVars>>

NoOffset == -1
Offsets  == 1..Len(log)
Elements(s) == {s[i] : i \in 1..Len(s)}
EventsAt(S) == {log[o] : o \in S}

-----------------------------------------------------------------------------
(* Offsets the ingester or a call still holds.                             *)

WithConsumer == IF consumer.pc \in {"send", "commit"} THEN {consumer.next} ELSE {}
Unsent       == IF consumer.pc = "send" THEN {consumer.next} ELSE {}
HeldBy(w)    == Elements(batch[w]) \cup Elements(out[w])
InCalls      == UNION {Elements(c.records) : c \in calls}
InProcess    == Unsent \cup Elements(messages) \cup UNION {HeldBy(w) : w \in Workers}
InFlight     == InProcess \cup InCalls

Done(w) == IF leaving[w] THEN "done" ELSE "poll"

-----------------------------------------------------------------------------
Init ==
  /\ log = <<>> /\ committed = NoOffset
  /\ process = "running"
  /\ consumer = [pc |-> "fetch", next |-> 0] /\ marked = NoOffset
  /\ messages = <<>>
  /\ wpc = [w \in Workers |-> "poll"]
  /\ leaving = [w \in Workers |-> FALSE]
  /\ batch = [w \in Workers |-> <<>>]
  /\ out = [w \in Workers |-> <<>>]
  /\ call = [w \in Workers |-> 0]
  /\ dedup = {} /\ calls = {} /\ lastCall = 0
  /\ hotDedup = {} /\ applied = [e \in Events |-> 0]
  /\ faults = 0 /\ stops = 0 /\ expiries = 0
  /\ excused = {} /\ misjudged = {}

(* The gateway's producer appends an event, for the first time or again.   *)
Produce(e) ==
  /\ Len(log) < MaxLog
  /\ log' = Append(log, e)
  /\ UNCHANGED <<committed, process, consumerVars, messages, workerVars, dedup,
                 callVars, hotVars, boundVars, historyVars>>

-----------------------------------------------------------------------------
(* The consumer goroutine: fetch, hand over to the channel, commit.        *)

FetchAndMark ==   \* mutant: the offset is marked when the message is read
  /\ process # "down" /\ consumer.pc = "fetch"
  /\ consumer.next < Len(log)
  /\ consumer' = [pc |-> "send", next |-> consumer.next + 1]
  /\ marked' = consumer.next + 1
  /\ UNCHANGED <<kafkaVars, process, messages, workerVars, dedup,
                 callVars, hotVars, boundVars, historyVars>>

Fetch ==
  /\ process # "down" /\ consumer.pc = "fetch"
  /\ consumer.next < Len(log)
  /\ consumer' = [pc |-> "send", next |-> consumer.next + 1]
  /\ UNCHANGED <<kafkaVars, process, marked, messages, workerVars, dedup,
                 callVars, hotVars, boundVars, historyVars>>

HandOver ==
  /\ process # "down" /\ consumer.pc = "send"
  /\ Len(messages) < ChanCap
  /\ messages' = Append(messages, consumer.next)
  /\ consumer' = [consumer EXCEPT !.pc = "commit"]
  /\ UNCHANGED <<kafkaVars, process, marked, workerVars, dedup,
                 callVars, hotVars, boundVars, historyVars>>

CommitMessages ==
  /\ process # "down" /\ consumer.pc = "commit"
  /\ marked' = consumer.next
  /\ consumer' = [consumer EXCEPT !.pc = "fetch"]
  /\ UNCHANGED <<kafkaVars, process, messages, workerVars, dedup,
                 callVars, hotVars, boundVars, historyVars>>

(* CommitInterval: the client library sends the marked offset every second. *)
FlushCommit ==
  /\ process # "down" /\ marked > committed
  /\ committed' = marked
  /\ UNCHANGED <<log, process, consumerVars, messages, workerVars, dedup,
                 callVars, hotVars, boundVars, historyVars>>

-----------------------------------------------------------------------------
(* A worker: the select loop, then processBatch.                           *)

BatchFull(b) == Len(b) >= BatchCap

Receive(w) ==
  /\ process # "down" /\ wpc[w] = "poll" /\ messages # <<>>
  /\ messages' = Tail(messages)
  /\ batch' = [batch EXCEPT ![w] = Append(@, Head(messages))]
  /\ wpc' = [wpc EXCEPT ![w] = IF BatchFull(batch'[w]) THEN "dedup" ELSE "poll"]
  /\ UNCHANGED <<kafkaVars, process, consumerVars, leaving, out, call, dedup,
                 callVars, hotVars, boundVars, historyVars>>

TickerFlushFull(w) ==   \* mutant: the ticker flushes only full batches
  /\ process # "down" /\ wpc[w] = "poll" /\ BatchFull(batch[w])
  /\ wpc' = [wpc EXCEPT ![w] = "dedup"]
  /\ UNCHANGED <<kafkaVars, process, consumerVars, messages, leaving, batch, out,
                 call, dedup, callVars, hotVars, boundVars, historyVars>>

TickerFlush(w) ==
  /\ process # "down" /\ wpc[w] = "poll" /\ batch[w] # <<>>
  /\ wpc' = [wpc EXCEPT ![w] = "dedup"]
  /\ UNCHANGED <<kafkaVars, process, consumerVars, messages, leaving, batch, out,
                 call, dedup, callVars, hotVars, boundVars, historyVars>>

(* ctx.Done(): the last batch is flushed, then the worker returns.         *)
DroppedBatch(w) == <<>>   \* mutant: no flush on cancellation
CancelledBatch(w) == batch[w]

Cancelled(w) ==
  /\ process = "stopping" /\ wpc[w] = "poll"
  /\ leaving' = [leaving EXCEPT ![w] = TRUE]
  /\ batch' = [batch EXCEPT ![w] = CancelledBatch(w)]
  /\ wpc' = [wpc EXCEPT ![w] = IF CancelledBatch(w) = <<>> THEN "done" ELSE "dedup"]
  /\ UNCHANGED <<kafkaVars, process, consumerVars, messages, out, call, dedup,
                 callVars, hotVars, boundVars, historyVars>>

(* isDuplicate, the Load: a known event is skipped.                        *)
LookUp(w) ==
  /\ process # "down" /\ wpc[w] = "dedup" /\ batch[w] # <<>>
  /\ LET e == log[Head(batch[w])]
         rest == [batch EXCEPT ![w] = Tail(@)]
         elsewhere == (UNION {HeldBy(v) : v \in Workers \ {w}}) \cup InCalls
                        \cup Elements(out[w]) \cup Elements(messages)
     IN IF e \in dedup
          THEN /\ batch' = rest
               /\ UNCHANGED wpc
               /\ misjudged' = IF applied[e] > 0 \/ e \in EventsAt(elsewhere)
                                 THEN misjudged ELSE misjudged \cup {e}
          ELSE /\ wpc' = [wpc EXCEPT ![w] = "store"]
               /\ UNCHANGED <<batch, misjudged>>
  /\ UNCHANGED <<kafkaVars, process, consumerVars, messages, leaving, out, call,
                 dedup, callVars, hotVars, boundVars, excused>>

(* isDuplicate, the Store, and the event goes on to the writer.            *)
StoreKey(w) ==
  /\ process # "down" /\ wpc[w] = "store"
  /\ dedup' = dedup \cup {log[Head(batch[w])]}
  /\ out' = [out EXCEPT ![w] = Append(@, Head(batch[w]))]
  /\ batch' = [batch EXCEPT ![w] = Tail(@)]
  /\ wpc' = [wpc EXCEPT ![w] = "dedup"]
  /\ UNCHANGED <<kafkaVars, process, consumerVars, messages, leaving, call,
                 callVars, hotVars, boundVars, historyVars>>

(* WriteBatch: nothing to write returns at once, else the call is sent.    *)
WriteBatch(w) ==
  /\ process # "down" /\ wpc[w] = "dedup" /\ batch[w] = <<>>
  /\ IF out[w] = <<>>
       THEN /\ wpc' = [wpc EXCEPT ![w] = Done(w)]
            /\ UNCHANGED <<out, call, callVars>>
       ELSE /\ lastCall' = lastCall + 1
            /\ calls' = calls \cup {[id |-> lastCall + 1, records |-> out[w],
                                    begun |-> FALSE, applying |-> FALSE]}
            /\ call' = [call EXCEPT ![w] = lastCall + 1]
            /\ out' = [out EXCEPT ![w] = <<>>]
            /\ wpc' = [wpc EXCEPT ![w] = "wait"]
  /\ UNCHANGED <<kafkaVars, process, consumerVars, messages, leaving, batch, dedup,
                 hotVars, boundVars, historyVars>>

-----------------------------------------------------------------------------
(* The hot tier: Aggregator.ApplyBatch, one record at a time.              *)

FirstEvent(c) == log[Head(c.records)]
SkippedAll(c) ==   \* mutant: return for continue
  [id |-> c.id, records |-> <<>>, begun |-> TRUE, applying |-> FALSE]
Skipped(c)  == [id |-> c.id, records |-> Tail(c.records), begun |-> TRUE, applying |-> FALSE]
Marked(c)   == [id |-> c.id, records |-> c.records, begun |-> TRUE, applying |-> TRUE]
Replace(c, d) == calls' = (calls \ {c}) \cup {d}
KnownWhenWritten(e) == applied[e] > 0   \* mutant: looked up, stored after the writes
Known(e) == e \in hotDedup

(* dedupIndex.LoadOrStore: skip a known record, mark a new one.            *)
LoadOrStore(c) ==
  /\ c.records # <<>> /\ ~c.applying
  /\ IF Known(FirstEvent(c))
       THEN Replace(c, Skipped(c)) /\ UNCHANGED hotDedup
       ELSE Replace(c, Marked(c)) /\ hotDedup' = hotDedup \cup {FirstEvent(c)}
  /\ UNCHANGED <<kafkaVars, process, consumerVars, messages, workerVars, dedup,
                 lastCall, applied, boundVars, historyVars>>

(* The writes to the three buffers.                                        *)
WriteBuffers(c) ==
  /\ c.records # <<>> /\ c.applying
  /\ applied' = [applied EXCEPT ![FirstEvent(c)] = @ + 1]
  /\ Replace(c, Skipped(c))
  /\ UNCHANGED <<kafkaVars, process, consumerVars, messages, workerVars, dedup,
                 lastCall, hotDedup, boundVars, historyVars>>

(* The response, to a worker that may have given up waiting.               *)
Returned(i) ==
  /\ wpc' = [w \in Workers |-> IF wpc[w] = "wait" /\ call[w] = i THEN Done(w) ELSE wpc[w]]
  /\ call' = [w \in Workers |-> IF call[w] = i THEN 0 ELSE call[w]]

Respond(c) ==
  /\ c.records = <<>>
  /\ calls' = calls \ {c}
  /\ Returned(c.id)
  /\ UNCHANGED <<kafkaVars, process, consumerVars, messages, leaving, batch, out,
                 dedup, lastCall, hotVars, boundVars, historyVars>>

-----------------------------------------------------------------------------
(* Failures.  A failed write is logged; the worker drops the batch.        *)

Fault == faults < MaxFaults /\ faults' = faults + 1

(* The connection fails before the handler starts.                         *)
LoseCall(c) ==
  /\ Fault
  /\ ~c.begun
  /\ calls' = calls \ {c}
  /\ Returned(c.id)
  /\ excused' = excused \cup EventsAt(Elements(c.records))
  /\ UNCHANGED <<kafkaVars, process, consumerVars, messages, leaving, batch, out,
                 dedup, lastCall, hotVars, stops, expiries, misjudged>>

(* The 5s deadline passes; the handler ignores its context and goes on.    *)
CallTimeout(w) ==
  /\ Fault
  /\ process # "down" /\ wpc[w] = "wait"
  /\ wpc' = [wpc EXCEPT ![w] = Done(w)]
  /\ call' = [call EXCEPT ![w] = 0]
  /\ UNCHANGED <<kafkaVars, process, consumerVars, messages, leaving, batch, out,
                 dedup, callVars, hotVars, stops, expiries, historyVars>>

(* The hot tier restarts empty: snapshots hold counters and nothing loads  *)
(* them; calls in progress fail.                                           *)
HotTierRestart ==
  /\ Fault
  /\ excused' = excused \cup {e \in Events : applied[e] > 0} \cup EventsAt(InCalls)
  /\ hotDedup' = {} /\ applied' = [e \in Events |-> 0]
  /\ calls' = {}
  /\ wpc' = [w \in Workers |-> IF wpc[w] = "wait" THEN Done(w) ELSE wpc[w]]
  /\ call' = [w \in Workers |-> 0]
  /\ UNCHANGED <<kafkaVars, process, consumerVars, messages, leaving, batch, out,
                 dedup, lastCall, stops, expiries, misjudged>>

(* The ingester's memory is gone.  What the broker has not committed will  *)
(* be delivered again; the rest of what it held is lost.                   *)
Forget(final) ==
  /\ process' = "down"
  /\ committed' = final
  /\ excused' = excused \cup EventsAt({o \in InProcess : o <= final})
  /\ consumer' = [pc |-> "fetch", next |-> 0] /\ marked' = NoOffset
  /\ messages' = <<>> /\ dedup' = {}
  /\ wpc' = [w \in Workers |-> "poll"]
  /\ leaving' = [w \in Workers |-> FALSE]
  /\ batch' = [w \in Workers |-> <<>>]
  /\ out' = [w \in Workers |-> <<>>]
  /\ call' = [w \in Workers |-> 0]

Crash ==
  /\ Fault
  /\ process # "down"
  /\ Forget(committed)
  /\ UNCHANGED <<log, callVars, hotVars, stops, expiries, misjudged>>

-----------------------------------------------------------------------------
(* main: SIGTERM, wait for the workers, close the consumer; start again.   *)

Stop ==
  /\ process = "running" /\ stops < MaxStops
  /\ stops' = stops + 1
  /\ process' = "stopping"
  /\ UNCHANGED <<kafkaVars, consumerVars, messages, workerVars, dedup,
                 callVars, hotVars, faults, expiries, historyVars>>

(* Close cancels the goroutine, which may still hand over and commit the   *)
(* message it holds, and closing the reader flushes the marked offset.     *)
FinalOffsetsPlusOne ==   \* mutant: commits the next offset to read
  {IF marked > committed THEN marked + 1 ELSE committed}

FinalOffsets ==
  {IF marked > committed THEN marked ELSE committed}
    \cup (IF consumer.pc = "commit" \/ (consumer.pc = "send" /\ Len(messages) < ChanCap)
            THEN {consumer.next} ELSE {})

CloseConsumer ==
  /\ process = "stopping"
  /\ \A w \in Workers : wpc[w] = "done"
  /\ \E final \in FinalOffsets : Forget(final)
  /\ UNCHANGED <<log, callVars, hotVars, boundVars, misjudged>>

(* Without a committed offset the group starts at the end (LastOffset).    *)
Start ==
  /\ process = "down"
  /\ process' = "running"
  /\ LET first == IF committed = NoOffset THEN Len(log) ELSE committed
     IN /\ consumer' = [pc |-> "fetch", next |-> first]
        /\ excused' = IF committed = NoOffset THEN excused \cup EventsAt(Offsets) ELSE excused
  /\ UNCHANGED <<kafkaVars, marked, messages, workerVars, dedup,
                 callVars, hotVars, boundVars, misjudged>>

-----------------------------------------------------------------------------
(* The 24 hour window.  The ingester ignores an older entry; the hot tier  *)
(* keeps obeying it until cleanupLoop deletes it.  No call lasts 24 hours. *)

IngesterExpiry(e) ==
  /\ expiries < MaxExpiries /\ e \in dedup
  /\ expiries' = expiries + 1
  /\ dedup' = dedup \ {e}
  /\ UNCHANGED <<kafkaVars, process, consumerVars, messages, workerVars,
                 callVars, hotVars, faults, stops, historyVars>>

HotTierExpiry(e) ==
  /\ expiries < MaxExpiries /\ e \in hotDedup
  /\ \A c \in calls : c.applying => FirstEvent(c) # e
  /\ expiries' = expiries + 1
  /\ hotDedup' = hotDedup \ {e}
  /\ applied' = [applied EXCEPT ![e] = 0]
  /\ excused' = excused \cup {e}
  /\ UNCHANGED <<kafkaVars, process, consumerVars, messages, workerVars, dedup,
                 callVars, faults, stops, misjudged>>

-----------------------------------------------------------------------------
ConsumerStep == Fetch \/ HandOver \/ CommitMessages
WorkerStep(w) ==
  \/ Receive(w) \/ TickerFlush(w) \/ Cancelled(w)
  \/ LookUp(w) \/ StoreKey(w) \/ WriteBatch(w)
HotTierStep == \E c \in calls : LoadOrStore(c) \/ WriteBuffers(c) \/ Respond(c)
FaultStep ==
  \/ \E c \in calls : LoseCall(c)
  \/ \E w \in Workers : CallTimeout(w)
  \/ HotTierRestart \/ Crash

Next ==
  \/ \E e \in Events : Produce(e)
  \/ ConsumerStep \/ FlushCommit
  \/ \E w \in Workers : WorkerStep(w)
  \/ HotTierStep
  \/ FaultStep
  \/ Stop \/ CloseConsumer \/ Start
  \/ \E e \in Events : IngesterExpiry(e) \/ HotTierExpiry(e)

Spec == Init /\ [][Next]_vars

(* The goroutines run, gRPC handlers finish and main closes the consumer   *)
(* when the workers are done; nothing makes a client send, a process start *)
(* or stop, or a fault happen.                                             *)
Fairness ==
  /\ WF_vars(ConsumerStep)
  /\ \A w \in Workers : WF_vars(WorkerStep(w))
  /\ WF_vars(HotTierStep)
  /\ WF_vars(CloseConsumer)

FairSpec == Spec /\ Fairness

-----------------------------------------------------------------------------
Call == [id : Nat, records : Seq(Offsets), begun : BOOLEAN, applying : BOOLEAN]
WorkerSteps == {"poll", "dedup", "store", "wait", "done"}

LogOK ==
  /\ log \in Seq(Events) /\ Len(log) <= MaxLog
  /\ committed \in Offsets \cup {NoOffset}
ConsumerOK ==
  /\ process \in {"running", "stopping", "down"}
  /\ consumer \in [pc : {"fetch", "send", "commit"}, next : Offsets \cup {0}]
  /\ consumer.pc # "fetch" => consumer.next \in Offsets
  /\ marked \in Offsets \cup {NoOffset}
  /\ messages \in Seq(Offsets)
WorkersOK ==
  /\ wpc \in [Workers -> WorkerSteps]
  /\ leaving \in [Workers -> BOOLEAN]
  /\ batch \in [Workers -> Seq(Offsets)] /\ out \in [Workers -> Seq(Offsets)]
  /\ \A w \in Workers : wpc[w] = "store" => batch[w] # <<>>
  /\ call \in [Workers -> Nat]
CallsOK == calls \subseteq Call /\ lastCall \in Nat
IndexesOK ==
  /\ dedup \in SUBSET Events
  /\ hotDedup \in SUBSET Events /\ applied \in [Events -> Nat]
  /\ excused \in SUBSET Events /\ misjudged \in SUBSET Events
BoundsOK == faults \in 0..MaxFaults /\ stops \in 0..MaxStops /\ expiries \in 0..MaxExpiries

(* Type correctness of every variable; a worker stores a key only while    *)
(* its batch still has that key's message.                                 *)
TypeOK == LogOK /\ ConsumerOK /\ WorkersOK /\ CallsOK /\ IndexesOK /\ BoundsOK

(* An event is added to the buffers at most once while the hot tier        *)
(* remembers it, whatever is produced twice, redelivered after a crash,    *)
(* let through by two workers at once or answered after the deadline       *)
(* (aggregator.go, ApplyBatch: LoadOrStore before the writes).             *)
NoDoubleCount == \A e \in Events : applied[e] <= 1

(* An event the consumer has read is in the buffers, or somebody still     *)
(* holds it, or it will be read again, or a failure dropped it: there is   *)
(* no other place where the pipeline loses an event (worker, processBatch, *)
(* ApplyBatch).                                                            *)
LossExplained ==
  \A o \in 1..consumer.next :
    process # "down" =>
      \/ applied[log[o]] > 0
      \/ log[o] \in EventsAt(InFlight \cup (consumer.next + 1)..Len(log))
      \/ log[o] \in excused

(* The path is a ledger: what is owed is what somebody holds and what the  *)
(* ingester has not read, or will read again after a restart.  An event    *)
(* leaves it only counted or excused, it is counted once, and a count is   *)
(* taken back only by a failure that excuses the event (processBatch,      *)
(* ApplyBatch, cleanupLoop).                                               *)
ReadUpTo == IF process = "down" THEN committed ELSE consumer.next
Ahead    == {o \in Offsets : o > ReadUpTo}
Sent     == EventsAt(Offsets)
Owed     == EventsAt(InFlight \cup Ahead)
Ledger   == INSTANCE EventLedger WITH sent <- Sent, owed <- Owed, count <- applied
LedgerSpec == Ledger!Spec

(* The offset the group has committed is never ahead of what was read from *)
(* the log and handed to the channel (consume: send, then commit).         *)
CommitFollowsHandOver ==
  process # "down" => committed <= consumer.next - Cardinality(Unsent)

(* Every produced event reaches the buffers, unless a failure, a shutdown  *)
(* or the expiry of its entry excuses it, also when its batch never fills. *)
EventuallyApplied ==
  \A e \in Events :
    e \in EventsAt(1..Len(log)) ~> applied[e] > 0 \/ e \in excused \/ process = "down"

(* isDuplicate "checks if event is a duplicate": an event the ingester     *)
(* drops as one is in the buffers or on its way there.                     *)
DuplicatesWereSeen == misjudged = {}
=============================================================================

---------------------------- MODULE HotTierRing ----------------------------
(***************************************************************************)
(* The ring buffer of a hot-tier node (RingBuffer.Write, ReadRange) and    *)
(* the two callers that matter: Aggregator.ApplyBatch, which calls Write   *)
(* from the gRPC handler of every client, and Aggregator.Query.            *)
(*                                                                         *)
(* One action per shared access of the code: head is advanced before the   *)
(* slot is touched, the tail is moved by a Load and a CompareAndSwap, and  *)
(* the slot's timestamp and map are plain fields.  A write is named by the *)
(* position it claimed, which stands for its timestamp and its value; a    *)
(* group aggregate is the set of writes summed and the set counted (Min    *)
(* and Max are updated after Count and behave like it).  A group object is *)
(* named by the write that created it, so that a writer holding a pointer  *)
(* to a group that was replaced or cleared updates nothing visible.  The   *)
(* fields of a slot's groups are copied in one step; Read (one position)   *)
(* is a ReadRange of length one and BatchWrite has no caller.              *)
(***************************************************************************)
EXTENDS Integers, FiniteSets

CONSTANTS
  Writers,    (* threads inside Write                                      *)
  Readers,    (* threads inside Query                                      *)
  Groups,     (* group keys                                                *)
  Capacity,   (* number of slots, a power of two                           *)
  QueryLimit, (* a query reads at most this many positions (1000)          *)
  WordSize,   (* positions are unsigned words: arithmetic modulo WordSize  *)
  MaxWrites   (* bound: number of Write calls                              *)

ASSUME RingAssumption ==
  /\ Capacity \in Nat \ {0} /\ QueryLimit \in 1..Capacity
  /\ MaxWrites \in Nat /\ WordSize \in Nat /\ MaxWrites < WordSize
  /\ Groups # {}

VARIABLES
  head, tail, (* the two atomics                                           *)
  slots,      (* index -> [stamp, groups]                                  *)
  groupOf,    (* history: position -> group key of the write               *)
  writer,     (* writer -> [pc, pos, old, target]                          *)
  reader,     (* reader -> [pc, from, to, stamp]                           *)
  copies      (* reader -> slots copied so far                             *)

vars == <<head, tail, slots, groupOf, writer, reader, copies>>

Positions == 0..MaxWrites - 1
Nobody == -1     (* no stamp, no creator                                   *)
NoGroup == [by |-> Nobody, sum |-> {}, count |-> {}]
EmptySlot == [stamp |-> Nobody, groups |-> [g \in Groups |-> NoGroup]]
Index(p) == p % Capacity
Minus(a, b) == IF a >= b THEN a - b ELSE a - b + WordSize   (* uint64      *)

Active(w) == writer[w].pc # "idle"
InProgress == {writer[w].pos : w \in {v \in Writers : Active(v)}}

Init ==
  /\ head = 0 /\ tail = 0
  /\ slots = [i \in 0..Capacity - 1 |-> EmptySlot]
  /\ groupOf = [p \in Positions |-> CHOOSE g \in Groups : TRUE]
  /\ writer = [w \in Writers |-> [pc |-> "idle", pos |-> 0, old |-> 0, target |-> Nobody]]
  /\ reader = [r \in Readers |-> [pc |-> "idle", from |-> 0, to |-> 0, stamp |-> Nobody]]
  /\ copies = [r \in Readers |-> {}]

-----------------------------------------------------------------------------
(* RingBuffer.Write.                                                       *)

WriterAt(w, pc) == writer[w].pc = pc
MoveWriter(w, pc) == writer' = [writer EXCEPT ![w].pc = pc]
SlotOf(w) == Index(writer[w].pos)
GroupOf(w) == slots[SlotOf(w)].groups[groupOf[writer[w].pos]]

AfterClaim(p) == IF p >= Capacity THEN "loadTail" ELSE "stamp"

ClaimNext(w, g) ==   \* mutant: head.Add(1), the - 1 forgotten
  /\ WriterAt(w, "idle") /\ head < MaxWrites
  /\ head' = head + 1
  /\ groupOf' = [groupOf EXCEPT ![head] = g]
  /\ writer' = [writer EXCEPT ![w] =
                  [pc |-> AfterClaim(head + 1), pos |-> head + 1, old |-> 0, target |-> Nobody]]
  /\ UNCHANGED <<tail, slots, reader, copies>>

(* head.Add(1) - 1.                                                        *)
Claim(w, g) ==
  /\ WriterAt(w, "idle") /\ head < MaxWrites
  /\ head' = head + 1
  /\ groupOf' = [groupOf EXCEPT ![head] = g]
  /\ writer' = [writer EXCEPT ![w] =
                  [pc |-> AfterClaim(head), pos |-> head, old |-> 0, target |-> Nobody]]
  /\ UNCHANGED <<tail, slots, reader, copies>>

FullOffByOne(p, t) == Minus(p, t) > Capacity   \* mutant: > for >=
Full(p, t) == Minus(p, t) >= Capacity

LoadTail(w) ==
  /\ WriterAt(w, "loadTail")
  /\ writer' = [writer EXCEPT ![w] = [@ EXCEPT
                  !.pc = IF Full(writer[w].pos, tail) THEN "swap" ELSE "stamp",
                  !.old = tail]]
  /\ UNCHANGED <<head, tail, slots, groupOf, reader, copies>>

NewTailShort(p) == p - Capacity   \* mutant: the overwritten position stays readable
NewTail(p) == p - Capacity + 1

SwapTail(w) ==
  /\ WriterAt(w, "swap")
  /\ tail' = IF tail = writer[w].old THEN NewTail(writer[w].pos) ELSE tail
  /\ MoveWriter(w, "clear")
  /\ UNCHANGED <<head, slots, groupOf, reader, copies>>

KeptGroups(i) == slots[i].groups   \* mutant: the old groups are not dropped
ClearedGroups(i) == [g \in Groups |-> NoGroup]

Clear(w) ==
  /\ WriterAt(w, "clear")
  /\ slots' = [slots EXCEPT ![SlotOf(w)].groups = ClearedGroups(SlotOf(w))]
  /\ MoveWriter(w, "stamp")
  /\ UNCHANGED <<head, tail, groupOf, reader, copies>>

Stamp(w) ==
  /\ WriterAt(w, "stamp")
  /\ slots' = [slots EXCEPT ![SlotOf(w)].stamp = writer[w].pos]
  /\ MoveWriter(w, "group")
  /\ UNCHANGED <<head, tail, groupOf, reader, copies>>

(* Find the group or put an empty one in the map.                          *)
FindGroup(w) ==
  /\ WriterAt(w, "group")
  /\ LET mine == [NoGroup EXCEPT !.by = writer[w].pos]
     IN IF GroupOf(w) = NoGroup
          THEN /\ slots' = [slots EXCEPT ![SlotOf(w)].groups[groupOf[writer[w].pos]] = mine]
               /\ writer' = [writer EXCEPT ![w] = [@ EXCEPT !.pc = "sum", !.target = writer[w].pos]]
          ELSE /\ UNCHANGED slots
               /\ writer' = [writer EXCEPT ![w] = [@ EXCEPT !.pc = "sum", !.target = GroupOf(w).by]]
  /\ UNCHANGED <<head, tail, groupOf, reader, copies>>

(* Store for the creator, Add for the others, on the object found.         *)
Added(w, S) ==
  IF writer[w].target = writer[w].pos THEN {writer[w].pos} ELSE S \cup {writer[w].pos}

AddSum(w) ==
  /\ WriterAt(w, "sum")
  /\ slots' = IF GroupOf(w).by = writer[w].target
                THEN [slots EXCEPT ![SlotOf(w)].groups[groupOf[writer[w].pos]].sum = Added(w, @)]
                ELSE slots
  /\ MoveWriter(w, "count")
  /\ UNCHANGED <<head, tail, groupOf, reader, copies>>

AddCount(w) ==
  /\ WriterAt(w, "count")
  /\ slots' = IF GroupOf(w).by = writer[w].target
                THEN [slots EXCEPT ![SlotOf(w)].groups[groupOf[writer[w].pos]].count = Added(w, @)]
                ELSE slots
  /\ MoveWriter(w, "idle")
  /\ UNCHANGED <<head, tail, groupOf, reader, copies>>

-----------------------------------------------------------------------------
(* Aggregator.Query and RingBuffer.ReadRange, copySlot.                    *)

ReaderAt(r, pc) == reader[r].pc = pc

GetHead(r) ==
  /\ ReaderAt(r, "idle")
  /\ reader' = [reader EXCEPT ![r] = [pc |-> "getTail", from |-> 0, to |-> head, stamp |-> Nobody]]
  /\ copies' = [copies EXCEPT ![r] = {}]
  /\ UNCHANGED <<head, tail, slots, groupOf, writer>>

StartUnlimited(to, t) == t   \* mutant: the query reads the whole window
Start(to, t) == IF Minus(to, t) > QueryLimit THEN Minus(to, QueryLimit) ELSE t

GetTail(r) ==
  /\ ReaderAt(r, "getTail")
  /\ reader' = [reader EXCEPT ![r] = [@ EXCEPT !.pc = "range", !.from = Start(reader[r].to, tail)]]
  /\ UNCHANGED <<head, tail, slots, groupOf, writer, copies>>

(* ReadRange loads both again and narrows the range.                       *)
LowerBound(from, t) == IF from < t THEN t ELSE from

LoadHeadInRange(r) ==
  /\ ReaderAt(r, "range")
  /\ LET to == reader[r].to
     IN reader' = [reader EXCEPT ![r] = [@ EXCEPT !.pc = "rangeTail",
                                                  !.to = IF to > head THEN head ELSE to]]
  /\ UNCHANGED <<head, tail, slots, groupOf, writer, copies>>

LoadTailInRange(r) ==
  /\ ReaderAt(r, "rangeTail")
  /\ LET from == LowerBound(reader[r].from, tail)
     IN reader' = [reader EXCEPT ![r] = [@ EXCEPT
                     !.pc = IF from < reader[r].to THEN "copy" ELSE "idle",
                     !.from = from]]
  /\ UNCHANGED <<head, tail, slots, groupOf, writer, copies>>

CopyStamp(r) ==
  /\ ReaderAt(r, "copy")
  /\ LET stamp == slots[Index(reader[r].from)].stamp
     IN reader' = [reader EXCEPT ![r] = [@ EXCEPT !.pc = "copyGroups", !.stamp = stamp]]
  /\ UNCHANGED <<head, tail, slots, groupOf, writer, copies>>

CopyGroups(r) ==
  /\ ReaderAt(r, "copyGroups")
  /\ LET p == reader[r].from
         slot == [pos |-> p, stamp |-> reader[r].stamp, groups |-> slots[Index(p)].groups]
     IN /\ copies' = [copies EXCEPT ![r] = @ \cup {slot}]
        /\ reader' = [reader EXCEPT ![r] = [@ EXCEPT
                        !.pc = IF p + 1 < reader[r].to THEN "copy" ELSE "idle",
                        !.from = p + 1]]
  /\ UNCHANGED <<head, tail, slots, groupOf, writer>>

-----------------------------------------------------------------------------
Write(w) ==
  \/ \E g \in Groups : Claim(w, g)
  \/ LoadTail(w) \/ SwapTail(w) \/ Clear(w)
  \/ Stamp(w) \/ FindGroup(w) \/ AddSum(w) \/ AddCount(w)

Query(r) ==
  \/ GetHead(r) \/ GetTail(r) \/ LoadHeadInRange(r) \/ LoadTailInRange(r)
  \/ CopyStamp(r) \/ CopyGroups(r)

Next == (\E w \in Writers : Write(w)) \/ (\E r \in Readers : Query(r))

Spec == Init /\ [][Next]_vars

-----------------------------------------------------------------------------
Group == [by : Positions \cup {Nobody}, sum : SUBSET Positions, count : SUBSET Positions]
Slot == [stamp : Positions \cup {Nobody}, groups : [Groups -> Group]]
WriterState == [pc : {"idle", "loadTail", "swap", "clear", "stamp", "group", "sum", "count"},
                pos : Nat, old : Nat, target : Positions \cup {Nobody}]
ReaderState == [pc : {"idle", "getTail", "range", "rangeTail", "copy", "copyGroups"},
                from : Nat, to : Nat, stamp : Positions \cup {Nobody}]

(* Type correctness; a position never leaves the range of the head.        *)
TypeOK ==
  /\ head \in 0..MaxWrites /\ tail \in 0..MaxWrites
  /\ slots \in [0..Capacity - 1 -> Slot]
  /\ groupOf \in [Positions -> Groups]
  /\ writer \in [Writers -> WriterState]
  /\ \A w \in Writers : Active(w) => writer[w].pos < head
  /\ reader \in [Readers -> ReaderState]

(* The slots in use never outnumber the capacity by more than the writes   *)
(* in progress (Write: head is advanced first, the tail after).            *)
Occupancy == head - tail <= Capacity + Cardinality({w \in Writers : Active(w)})

(* A readable position whose write is finished holds that write and        *)
(* nothing else: its own timestamp, its own group, no aggregate left from  *)
(* an earlier lap of the ring (Write: "Clear old slot data").              *)
SettledSlots ==
  \A p \in Positions :
    tail <= p /\ p < head /\ p \notin InProgress =>
      LET slot == slots[Index(p)]
      IN /\ slot.stamp = p
         /\ \A g \in Groups :
              slot.groups[g] = IF g = groupOf[p]
                                 THEN [by |-> p, sum |-> {p}, count |-> {p}]
                                 ELSE NoGroup

(* A slot at rest sums the write whose timestamp it carries and no other   *)
(* (Write: "Clear old slot data"; "single writer").                        *)
SlotsNotMixed ==
  \A i \in 0..Capacity - 1 :
    (\A p \in InProgress : Index(p) # i) =>
      \A g \in Groups : slots[i].groups[g].sum \subseteq {slots[i].stamp}

(* A query that reads position p gets data of p's slot no older than the   *)
(* lap before p: head was already beyond p and the previous owner of the   *)
(* slot was the position one lap earlier (ReadRange, copySlot).            *)
CopiesAreRecent ==
  \A r \in Readers : \A c \in copies[r] :
    \A q \in {c.stamp} \cup UNION {c.groups[g].sum \cup c.groups[g].count : g \in Groups} :
      q # Nobody => /\ Index(q) = Index(c.pos)
                    /\ q >= c.pos - Capacity

(* A query counts no write twice, although for a moment the readable       *)
(* window is one slot longer than the ring: it never reads that far back   *)
(* (Query: "Read up to 1000 recent slots").                                *)
QueryCountsOnce ==
  \A r \in Readers : \A c, d \in copies[r] : \A g \in Groups :
    c.pos # d.pos => c.groups[g].sum \cap d.groups[g].sum = {}

(* The ring never holds more than its slots and the writes in progress,    *)
(* and a slot at rest holds exactly one write (lockfree.go:105, :115).     *)
SlotsRight == Occupancy /\ SettledSlots

(* A query copies slots of its range and no write twice (lockfree.go:257,  *)
(* aggregator.go:135).                                                     *)
ReadsRight == CopiesAreRecent /\ QueryCountsOnce

(* The ring implements the sliding window: the next published position is  *)
(* the head minus the write in progress.                                   *)
Window == INSTANCE SlidingWindow
            WITH oldest <- tail, next <- head - Cardinality({w \in Writers : Active(w)})
WindowSpec == Window!Spec

(* copySlot "creates a snapshot copy of a slot": the aggregates of a copy  *)
(* belong to the write whose timestamp it carries.                         *)
CopiesAreSnapshots ==
  \A r \in Readers : \A c \in copies[r] : \A g \in Groups :
    c.groups[g].sum \subseteq {c.stamp}

(* Readers are "wait-free" next to the writer: nobody ranges over the map  *)
(* of a slot while a writer inserts into that map, which the Go runtime    *)
(* answers by ending the process.                                          *)
NoMapConflict ==
  \A r \in Readers, w \in Writers :
    ~ /\ ReaderAt(r, "copyGroups") /\ WriterAt(w, "group")
      /\ Index(reader[r].from) = SlotOf(w) /\ GroupOf(w) = NoGroup
=============================================================================

-------------------------- MODULE HotTierRingProofs --------------------------
(***************************************************************************)
(* Proofs about HotTierRing for any capacity, groups, readers and number   *)
(* of writes.  Type correctness and QueryCountsOnce hold however many      *)
(* writers there are.  The rest holds for one writer, as the comment of    *)
(* the code demands ("single writer"): the slots hold what they should, a  *)
(* query reads no data older than a lap, and the ring implements the       *)
(* sliding window.                                                         *)
(*                                                                         *)
(* None of these is inductive.  InPlace says which data of a slot a query  *)
(* may copy; TailFollows and SlotsFollow say where tail is and what the    *)
(* slot being written holds at every step of Write.                        *)
(***************************************************************************)
EXTENDS HotTierRing, FiniteSetTheorems, TLAPS

(* The writes whose data a slot, or a copy of one, holds; Nobody too.      *)
Held(s) == {s.stamp} \cup UNION {s.groups[g].sum \cup s.groups[g].count : g \in Groups}

-----------------------------------------------------------------------------
(* Arithmetic of the slots' indices.                                       *)
LEMMA Quotient ==
  ASSUME NEW p \in Nat
  PROVE  /\ p \div Capacity \in Int /\ p % Capacity \in 0..Capacity - 1
         /\ p = Capacity * (p \div Capacity) + (p % Capacity)
BY RingAssumption, SMT DEF RingAssumption

LEMMA Multiples ==
  ASSUME NEW k \in Int
  PROVE  /\ Capacity * k \in Int
         /\ k >= 1 => Capacity * k >= Capacity
         /\ k <= 0 => Capacity * k <= 0
         /\ \A l \in Int : Capacity * k - Capacity * l = Capacity * (k - l)
BY RingAssumption, SMT DEF RingAssumption

(* Every position has a slot, the first lap's in order.                    *)
LEMMA IndexRange ==
  ASSUME NEW p \in Nat
  PROVE  Index(p) \in 0..Capacity - 1 /\ (p < Capacity => Index(p) = p)
BY RingAssumption, SMT DEF RingAssumption, Index

(* Positions less than a lap apart have different slots.                   *)
LEMMA IndexApart ==
  ASSUME NEW p \in Nat, NEW q \in Nat, q < p, p - q < Capacity
  PROVE  Index(p) # Index(q)
<1> SUFFICES ASSUME p % Capacity = (q % Capacity) PROVE FALSE
  BY DEF Index
<1> DEFINE a == p \div Capacity
           b == q \div Capacity
<1>1. /\ a \in Int /\ b \in Int /\ p % Capacity \in Int
      /\ p = Capacity * a + (p % Capacity) /\ q = Capacity * b + (q % Capacity)
  BY Quotient
<1> HIDE DEF a, b
<1> DEFINE d == Capacity * (a - b)
<1>2. a - b \in Int /\ Capacity * a \in Int /\ Capacity * b \in Int
      /\ Capacity * a - Capacity * b = d
  BY <1>1, Multiples
<1>3. d \in Int /\ (a - b >= 1 => d >= Capacity) /\ (a - b <= 0 => d <= 0)
  BY <1>2, Multiples
<1> HIDE DEF d
<1>4. p - q = d
  BY <1>1, <1>2, SMT
<1> QED BY <1>1, <1>3, <1>4, RingAssumption, SMT DEF RingAssumption

(* A position and the one a lap earlier share their slot.                  *)
LEMMA IndexLap ==
  ASSUME NEW p \in Nat, p >= Capacity
  PROVE  p - Capacity \in Nat /\ Index(p - Capacity) = Index(p)
<1>1. p - Capacity \in Nat
  BY RingAssumption, SMT DEF RingAssumption
<1> DEFINE a == p \div Capacity
           b == (p - Capacity) \div Capacity
           r == p % Capacity
           s == (p - Capacity) % Capacity
<1>2. /\ a \in Int /\ b \in Int /\ r \in 0..Capacity - 1 /\ s \in 0..Capacity - 1
      /\ p = Capacity * a + r /\ p - Capacity = Capacity * b + s
  BY <1>1, Quotient
<1> SUFFICES r = s
  BY <1>1 DEF Index
<1> HIDE DEF a, b, r, s
<1> DEFINE k == (a - b) - 1
<1>3. Capacity * a - Capacity * b = Capacity * (a - b) /\ Capacity * a \in Int /\ Capacity * b \in Int
  BY <1>2, Multiples
<1>4. Capacity * k = s - r /\ Capacity * (0 - k) = r - s
  BY <1>2, <1>3, RingAssumption, SMT DEF RingAssumption
<1>5. k \in Int /\ 0 - k \in Int
  BY <1>2
<1> HIDE DEF k
<1>6. ~(k >= 1) /\ ~(0 - k >= 1)
  BY <1>2, <1>4, <1>5, Multiples, RingAssumption, SMT DEF RingAssumption
<1>7. k = 0
  BY <1>5, <1>6, SMT
<1> QED BY <1>2, <1>4, <1>7, RingAssumption, SMT DEF RingAssumption

-----------------------------------------------------------------------------
(* Types.  A writer that is to move the tail is beyond the first lap.      *)
Copy == [pos : Nat, stamp : Positions \cup {Nobody}, groups : [Groups -> Group]]
Typed ==
  /\ TypeOK
  /\ copies \in [Readers -> SUBSET Copy]
  /\ \A w \in Writers : writer[w].pc \in {"loadTail", "swap"} => writer[w].pos >= Capacity

USE DEF WriterAt, MoveWriter, ReaderAt

(* The slot a writer works on, and its group there.                        *)
LEMMA WriterSlot ==
  ASSUME Typed, NEW w \in Writers, Active(w)
  PROVE  /\ writer[w].pos \in Positions /\ writer[w].pos \in Nat
         /\ SlotOf(w) \in 0..Capacity - 1 /\ slots[SlotOf(w)] \in Slot
         /\ groupOf[writer[w].pos] \in Groups /\ GroupOf(w) \in Group
<1>1. writer[w].pos \in Positions /\ writer[w].pos \in Nat
  BY RingAssumption, SMT DEF RingAssumption, Typed, TypeOK, WriterState, Positions
<1>2. SlotOf(w) \in 0..Capacity - 1
  BY <1>1, IndexRange DEF SlotOf
<1> QED BY <1>1, <1>2 DEF Typed, TypeOK, Slot, GroupOf, SlotOf

(* A write into a slot leaves the others alone and brings in no data but   *)
(* its own.                                                                *)
WriteInSlot(w) == Clear(w) \/ Stamp(w) \/ FindGroup(w) \/ AddSum(w) \/ AddCount(w)

LEMMA SlotStep ==
  ASSUME Typed, NEW w \in Writers, WriteInSlot(w)
  PROVE  /\ Active(w) /\ slots' \in [0..Capacity - 1 -> Slot]
         /\ \A i \in 0..Capacity - 1 : i # SlotOf(w) => slots'[i] = slots[i]
         /\ Held(slots'[SlotOf(w)]) \subseteq Held(slots[SlotOf(w)]) \cup {writer[w].pos, Nobody}
<1> DEFINE i == SlotOf(w)
           p == writer[w].pos
           g == groupOf[p]
<1>1. Active(w)
  BY DEF WriteInSlot, Clear, Stamp, FindGroup, AddSum, AddCount, Active
<1>2. /\ p \in Positions /\ i \in 0..Capacity - 1 /\ slots[i] \in Slot
      /\ g \in Groups /\ slots[i].groups[g] \in Group /\ GroupOf(w) = slots[i].groups[g]
  BY <1>1, WriterSlot DEF GroupOf
<1>3. slots \in [0..Capacity - 1 -> Slot]
  BY DEF Typed, TypeOK
<1>4. NoGroup \in Group
  BY DEF NoGroup, Group
<1> HIDE DEF i, p, g
<1>5. ASSUME NEW s \in Slot, slots' = [slots EXCEPT ![i] = s],
             Held(s) \subseteq Held(slots[i]) \cup {p, Nobody}
      PROVE  /\ slots' \in [0..Capacity - 1 -> Slot]
             /\ \A j \in 0..Capacity - 1 : j # i => slots'[j] = slots[j]
             /\ Held(slots'[i]) \subseteq Held(slots[i]) \cup {p, Nobody}
  BY <1>2, <1>3, <1>5
<1>6. ASSUME NEW h \in Group,
             slots' = [slots EXCEPT ![i] = [slots[i] EXCEPT !.groups = [slots[i].groups EXCEPT ![g] = h]]],
             h.sum \cup h.count \subseteq slots[i].groups[g].sum \cup slots[i].groups[g].count \cup {p}
      PROVE  /\ slots' \in [0..Capacity - 1 -> Slot]
             /\ \A j \in 0..Capacity - 1 : j # i => slots'[j] = slots[j]
             /\ Held(slots'[i]) \subseteq Held(slots[i]) \cup {p, Nobody}
  <2> DEFINE s == [slots[i] EXCEPT !.groups = [slots[i].groups EXCEPT ![g] = h]]
  <2>1. s \in Slot /\ s.stamp = slots[i].stamp /\ s.groups = [slots[i].groups EXCEPT ![g] = h]
    BY <1>2, <1>6 DEF Slot
  <2>2. \A k \in Groups : s.groups[k] = IF k = g THEN h ELSE slots[i].groups[k]
    BY <1>2, <2>1 DEF Slot
  <2> HIDE DEF s
  <2>3. Held(s) \subseteq Held(slots[i]) \cup {p, Nobody}
    BY <1>2, <1>6, <2>1, <2>2 DEF Held
  <2> QED BY <1>5, <1>6, <2>1, <2>3 DEF s
<1>7. CASE Clear(w)
  <2> DEFINE s == [slots[i] EXCEPT !.groups = [k \in Groups |-> NoGroup]]
  <2>1. s \in Slot /\ s.stamp = slots[i].stamp /\ s.groups = [k \in Groups |-> NoGroup]
    BY <1>2, <1>4 DEF Slot
  <2>2. slots' = [slots EXCEPT ![i] = s]
    BY <1>7 DEF Clear, ClearedGroups, i
  <2> HIDE DEF s
  <2>3. Held(s) \subseteq Held(slots[i]) \cup {p, Nobody}
    BY <2>1 DEF Held, NoGroup
  <2> QED BY <1>1, <1>5, <2>1, <2>2, <2>3 DEF i, p
<1>8. CASE Stamp(w)
  <2> DEFINE s == [slots[i] EXCEPT !.stamp = p]
  <2>1. s \in Slot /\ s.stamp = p /\ s.groups = slots[i].groups
    BY <1>2 DEF Slot
  <2>2. slots' = [slots EXCEPT ![i] = s]
    BY <1>8 DEF Stamp, i, p
  <2> HIDE DEF s
  <2>3. Held(s) \subseteq Held(slots[i]) \cup {p, Nobody}
    BY <2>1 DEF Held
  <2> QED BY <1>1, <1>5, <2>1, <2>2, <2>3 DEF i, p
<1>9. CASE FindGroup(w)
  <2>1. CASE GroupOf(w) = NoGroup
    <3> DEFINE h == [NoGroup EXCEPT !.by = p]
    <3>1. h \in Group /\ h.sum = {} /\ h.count = {}
      BY <1>2, <1>4 DEF NoGroup, Group
    <3>2. slots' = [slots EXCEPT ![i] = [slots[i] EXCEPT !.groups = [slots[i].groups EXCEPT ![g] = h]]]
      BY <1>2, <1>3, <1>9, <2>1 DEF FindGroup, i, p, g
    <3> QED BY <1>1, <1>6, <3>1, <3>2 DEF i, p
  <2>2. CASE GroupOf(w) # NoGroup
    BY <1>1, <1>3, <1>9, <2>2 DEF FindGroup, i
  <2> QED BY <2>1, <2>2
<1>10. CASE AddSum(w)
  <2>1. CASE GroupOf(w).by = writer[w].target
    <3> DEFINE h == [slots[i].groups[g] EXCEPT !.sum = Added(w, slots[i].groups[g].sum)]
    <3>1. Added(w, slots[i].groups[g].sum) \subseteq slots[i].groups[g].sum \cup {p}
      BY DEF Added, p
    <3>2. h \in Group /\ h.sum = Added(w, slots[i].groups[g].sum) /\ h.count = slots[i].groups[g].count
      BY <1>2, <3>1 DEF Group
    <3>3. slots' = [slots EXCEPT ![i] = [slots[i] EXCEPT !.groups = [slots[i].groups EXCEPT ![g] = h]]]
      BY <1>2, <1>3, <1>10, <2>1 DEF AddSum, i, p, g
    <3> HIDE DEF h
    <3>4. h.sum \cup h.count \subseteq slots[i].groups[g].sum \cup slots[i].groups[g].count \cup {p}
      BY <3>1, <3>2
    <3> QED BY <1>1, <1>6, <3>2, <3>3, <3>4 DEF i, p
  <2>2. CASE GroupOf(w).by # writer[w].target
    BY <1>1, <1>3, <1>10, <2>2 DEF AddSum, i
  <2> QED BY <2>1, <2>2
<1>11. CASE AddCount(w)
  <2>1. CASE GroupOf(w).by = writer[w].target
    <3> DEFINE h == [slots[i].groups[g] EXCEPT !.count = Added(w, slots[i].groups[g].count)]
    <3>1. Added(w, slots[i].groups[g].count) \subseteq slots[i].groups[g].count \cup {p}
      BY DEF Added, p
    <3>2. h \in Group /\ h.count = Added(w, slots[i].groups[g].count) /\ h.sum = slots[i].groups[g].sum
      BY <1>2, <3>1 DEF Group
    <3>3. slots' = [slots EXCEPT ![i] = [slots[i] EXCEPT !.groups = [slots[i].groups EXCEPT ![g] = h]]]
      BY <1>2, <1>3, <1>11, <2>1 DEF AddCount, i, p, g
    <3> HIDE DEF h
    <3>4. h.sum \cup h.count \subseteq slots[i].groups[g].sum \cup slots[i].groups[g].count \cup {p}
      BY <3>1, <3>2
    <3> QED BY <1>1, <1>6, <3>2, <3>3, <3>4 DEF i, p
  <2>2. CASE GroupOf(w).by # writer[w].target
    BY <1>1, <1>3, <1>11, <2>2 DEF AddCount, i
  <2> QED BY <2>1, <2>2
<1> QED BY <1>7, <1>8, <1>9, <1>10, <1>11 DEF WriteInSlot

(* What a step does to the state of a writer, and of a reader.             *)
WriterMoved(w, pc, old, target) ==
  /\ writer' \in [Writers -> WriterState]
  /\ \A v \in Writers : v # w => writer'[v] = writer[v]
  /\ writer'[w] = [pc |-> pc, pos |-> writer[w].pos, old |-> old, target |-> target]

LEMMA WriterMove ==
  ASSUME Typed, NEW w \in Writers
  PROVE  /\ LoadTail(w) =>
              WriterMoved(w, IF Full(writer[w].pos, tail) THEN "swap" ELSE "stamp",
                          tail, writer[w].target)
         /\ SwapTail(w) => WriterMoved(w, "clear", writer[w].old, writer[w].target)
         /\ Clear(w) => WriterMoved(w, "stamp", writer[w].old, writer[w].target)
         /\ Stamp(w) => WriterMoved(w, "group", writer[w].old, writer[w].target)
         /\ FindGroup(w) =>
              WriterMoved(w, "sum", writer[w].old,
                          IF GroupOf(w) = NoGroup THEN writer[w].pos ELSE GroupOf(w).by)
         /\ AddSum(w) => WriterMoved(w, "count", writer[w].old, writer[w].target)
         /\ AddCount(w) => WriterMoved(w, "idle", writer[w].old, writer[w].target)
<1> DEFINE To(pc, old, target) ==
             [pc |-> pc, pos |-> writer[w].pos, old |-> old, target |-> target]
<1>1. writer \in [Writers -> WriterState] /\ writer[w] \in WriterState /\ tail \in Nat
  BY DEF Typed, TypeOK
<1>2. \A pc, old, target :
        To(pc, old, target) \in WriterState /\ writer' = [writer EXCEPT ![w] = To(pc, old, target)]
          => WriterMoved(w, pc, old, target)
  BY <1>1 DEF WriterMoved
<1>3. ASSUME NEW pc \in {"swap", "clear", "stamp", "group", "sum", "count", "idle"}
      PROVE  /\ [writer[w] EXCEPT !.pc = pc] = To(pc, writer[w].old, writer[w].target)
             /\ \A x : [writer[w] EXCEPT !.pc = pc, !.old = x] = To(pc, x, writer[w].target)
             /\ \A x : [writer[w] EXCEPT !.pc = pc, !.target = x] = To(pc, writer[w].old, x)
             /\ \A x \in Nat : \A y \in Positions \cup {Nobody} : To(pc, x, y) \in WriterState
             /\ writer[w].old \in Nat /\ writer[w].target \in Positions \cup {Nobody}
  <2> DEFINE t == [writer[w] EXCEPT !.pc = pc]
  <2>1. t = To(pc, writer[w].old, writer[w].target)
    BY <1>1, SMT DEF WriterState
  <2> HIDE DEF t
  <2>2. \A x : [t EXCEPT !.old = x] = To(pc, x, writer[w].target)
    BY <2>1, SMT
  <2>3. \A x : [t EXCEPT !.target = x] = To(pc, writer[w].old, x)
    BY <2>1, SMT
  <2>4. /\ \A x \in Nat : \A y \in Positions \cup {Nobody} : To(pc, x, y) \in WriterState
        /\ writer[w].old \in Nat /\ writer[w].target \in Positions \cup {Nobody}
    BY <1>1, SMT DEF WriterState
  <2> QED BY <2>1, <2>2, <2>3, <2>4 DEF t
<1>4. LoadTail(w) => WriterMoved(w, IF Full(writer[w].pos, tail) THEN "swap" ELSE "stamp",
                                 tail, writer[w].target)
  <2> SUFFICES ASSUME LoadTail(w), NEW pc, pc = IF Full(writer[w].pos, tail) THEN "swap" ELSE "stamp"
               PROVE  WriterMoved(w, pc, tail, writer[w].target)
    OBVIOUS
  <2>1. writer' = [writer EXCEPT ![w] = [writer[w] EXCEPT !.pc = pc, !.old = tail]]
    BY DEF LoadTail
  <2> QED BY <1>1, <1>2, <1>3, <2>1
<1>5. FindGroup(w) =>
        WriterMoved(w, "sum", writer[w].old,
                    IF GroupOf(w) = NoGroup THEN writer[w].pos ELSE GroupOf(w).by)
  <2> SUFFICES ASSUME FindGroup(w), NEW t,
                      t = IF GroupOf(w) = NoGroup THEN writer[w].pos ELSE GroupOf(w).by
               PROVE  WriterMoved(w, "sum", writer[w].old, t)
    OBVIOUS
  <2>1. t \in Positions \cup {Nobody}
    BY WriterSlot DEF FindGroup, Active, Group
  <2>2. writer' = [writer EXCEPT ![w] = [writer[w] EXCEPT !.pc = "sum", !.target = t]]
    BY DEF FindGroup
  <2> QED BY <1>2, <1>3, <2>1, <2>2
<1> QED BY <1>2, <1>3, <1>4, <1>5 DEF SwapTail, Clear, Stamp, AddSum, AddCount

ReaderMoved(r, pc, from, to, stamp) ==
  /\ reader' \in [Readers -> ReaderState]
  /\ \A s \in Readers : s # r => reader'[s] = reader[s]
  /\ reader'[r] = [pc |-> pc, from |-> from, to |-> to, stamp |-> stamp]

(* The arithmetic of a query's first position.                             *)
LEMMA StartRange ==
  ASSUME NEW to \in Nat, NEW t \in 0..MaxWrites
  PROVE  Start(to, t) \in Nat /\ Start(to, t) >= to - QueryLimit
BY RingAssumption, SMT DEF RingAssumption, Start, Minus

LEMMA ReaderMove ==
  ASSUME Typed, NEW r \in Readers
  PROVE  LET from == reader[r].from
             to == reader[r].to
             stamp == reader[r].stamp
         IN /\ GetHead(r) => ReaderMoved(r, "getTail", 0, head, Nobody)
            /\ GetTail(r) => ReaderMoved(r, "range", Start(to, tail), to, stamp)
            /\ LoadHeadInRange(r) =>
                 ReaderMoved(r, "rangeTail", from, IF to > head THEN head ELSE to, stamp)
            /\ LoadTailInRange(r) =>
                 ReaderMoved(r, IF LowerBound(from, tail) < to THEN "copy" ELSE "idle",
                             LowerBound(from, tail), to, stamp)
            /\ CopyStamp(r) => ReaderMoved(r, "copyGroups", from, to, slots[Index(from)].stamp)
            /\ CopyGroups(r) =>
                 ReaderMoved(r, IF from + 1 < to THEN "copy" ELSE "idle", from + 1, to, stamp)
<1> DEFINE To(pc, from, to, stamp) == [pc |-> pc, from |-> from, to |-> to, stamp |-> stamp]
<1>1. /\ reader \in [Readers -> ReaderState] /\ reader[r] \in ReaderState
      /\ head \in Nat /\ tail \in 0..MaxWrites
      /\ reader[r].from \in Nat /\ reader[r].to \in Nat /\ reader[r].stamp \in Positions \cup {Nobody}
  BY DEF Typed, TypeOK, ReaderState
<1>2. \A pc, from, to, stamp :
        To(pc, from, to, stamp) \in ReaderState /\ reader' = [reader EXCEPT ![r] = To(pc, from, to, stamp)]
          => ReaderMoved(r, pc, from, to, stamp)
  BY <1>1 DEF ReaderMoved
<1>3. ASSUME NEW pc \in {"range", "rangeTail", "copy", "copyGroups", "idle"}
      PROVE  /\ \A x \in Nat : [reader[r] EXCEPT !.pc = pc, !.from = x] = To(pc, x, reader[r].to, reader[r].stamp)
             /\ \A x \in Nat : [reader[r] EXCEPT !.pc = pc, !.to = x] = To(pc, reader[r].from, x, reader[r].stamp)
             /\ \A x : [reader[r] EXCEPT !.pc = pc, !.stamp = x] = To(pc, reader[r].from, reader[r].to, x)
             /\ \A x, y \in Nat : \A z \in Positions \cup {Nobody} : To(pc, x, y, z) \in ReaderState
  <2> DEFINE t == [reader[r] EXCEPT !.pc = pc]
  <2>1. t = To(pc, reader[r].from, reader[r].to, reader[r].stamp)
    BY <1>1, SMT DEF ReaderState
  <2> HIDE DEF t
  <2>2. \A x : [t EXCEPT !.from = x] = To(pc, x, reader[r].to, reader[r].stamp)
    BY <2>1, SMT
  <2>3. \A x : [t EXCEPT !.to = x] = To(pc, reader[r].from, x, reader[r].stamp)
    BY <2>1, SMT
  <2>4. \A x : [t EXCEPT !.stamp = x] = To(pc, reader[r].from, reader[r].to, x)
    BY <2>1, SMT
  <2>5. \A x, y \in Nat : \A z \in Positions \cup {Nobody} : To(pc, x, y, z) \in ReaderState
    BY <1>1, SMT DEF ReaderState
  <2> QED BY <2>1, <2>2, <2>3, <2>4, <2>5 DEF t
<1>4. GetHead(r) => ReaderMoved(r, "getTail", 0, head, Nobody)
  <2>1. To("getTail", 0, head, Nobody) \in ReaderState
    BY <1>1 DEF ReaderState
  <2> QED BY <1>2, <2>1 DEF GetHead
<1>5. GetTail(r) => ReaderMoved(r, "range", Start(reader[r].to, tail), reader[r].to, reader[r].stamp)
  <2>1. Start(reader[r].to, tail) \in Nat
    BY <1>1, StartRange
  <2> DEFINE from == Start(reader[r].to, tail)
             new == To("range", from, reader[r].to, reader[r].stamp)
  <2>2. [reader[r] EXCEPT !.pc = "range", !.from = from] = new /\ new \in ReaderState
    BY <1>1, <1>3, <2>1
  <2>3. GetTail(r) => reader' = [reader EXCEPT ![r] = new]
    <3> SUFFICES ASSUME GetTail(r) PROVE reader' = [reader EXCEPT ![r] = new]
      OBVIOUS
    <3>1. reader' = [reader EXCEPT ![r] = [@ EXCEPT !.pc = "range", !.from = from]]
      BY DEF GetTail
    <3> QED BY <2>2, <3>1
  <2> QED BY <1>2, <2>2, <2>3
<1>6. LoadHeadInRange(r) =>
        ReaderMoved(r, "rangeTail", reader[r].from,
                    IF reader[r].to > head THEN head ELSE reader[r].to, reader[r].stamp)
  <2>1. (IF reader[r].to > head THEN head ELSE reader[r].to) \in Nat
    BY <1>1
  <2> DEFINE to == IF reader[r].to > head THEN head ELSE reader[r].to
             new == To("rangeTail", reader[r].from, to, reader[r].stamp)
  <2>2. [reader[r] EXCEPT !.pc = "rangeTail", !.to = to] = new /\ new \in ReaderState
    BY <1>1, <1>3, <2>1
  <2>3. LoadHeadInRange(r) => reader' = [reader EXCEPT ![r] = new]
    <3> SUFFICES ASSUME LoadHeadInRange(r) PROVE reader' = [reader EXCEPT ![r] = new]
      OBVIOUS
    <3>1. reader' = [reader EXCEPT ![r] = [@ EXCEPT !.pc = "rangeTail", !.to = to]]
      BY DEF LoadHeadInRange
    <3> QED BY <2>2, <3>1
  <2> QED BY <1>2, <2>2, <2>3
<1>7. LoadTailInRange(r) =>
        ReaderMoved(r, IF LowerBound(reader[r].from, tail) < reader[r].to THEN "copy" ELSE "idle",
                    LowerBound(reader[r].from, tail), reader[r].to, reader[r].stamp)
  <2>1. LowerBound(reader[r].from, tail) \in Nat
    BY <1>1 DEF LowerBound
  <2> QED BY <1>1, <1>2, <1>3, <2>1 DEF LoadTailInRange
<1>8. CopyStamp(r) =>
        ReaderMoved(r, "copyGroups", reader[r].from, reader[r].to, slots[Index(reader[r].from)].stamp)
  <2>1. slots[Index(reader[r].from)].stamp \in Positions \cup {Nobody}
    BY <1>1, IndexRange DEF Typed, TypeOK, Slot
  <2> QED BY <1>1, <1>2, <1>3, <2>1 DEF CopyStamp
<1>9. CopyGroups(r) =>
        ReaderMoved(r, IF reader[r].from + 1 < reader[r].to THEN "copy" ELSE "idle",
                    reader[r].from + 1, reader[r].to, reader[r].stamp)
  <2>1. reader[r].from + 1 \in Nat
    BY <1>1
  <2> QED BY <1>1, <1>2, <1>3, <2>1 DEF CopyGroups
<1> QED BY <1>4, <1>5, <1>6, <1>7, <1>8, <1>9

LEMMA TypedStep == Typed /\ [Next]_vars => Typed'
<1> SUFFICES ASSUME Typed, [Next]_vars PROVE Typed'
  OBVIOUS
<1>0. ASSUME NEW w \in Writers, Active(w), NEW pc, NEW old, NEW target,
             WriterMoved(w, pc, old, target),
             pc \in {"loadTail", "swap"} => writer[w].pos >= Capacity,
             UNCHANGED <<head, groupOf, reader, copies>>,
             tail' \in 0..MaxWrites, slots' \in [0..Capacity - 1 -> Slot]
      PROVE  Typed'
  <2>1. \A v \in Writers : writer'[v].pos = writer[v].pos /\ (Active(v)' => Active(v))
    BY <1>0 DEF WriterMoved, Active
  <2>2. \A v \in Writers : writer'[v].pc \in {"loadTail", "swap"} => writer'[v].pos >= Capacity
    BY <1>0, <2>1 DEF WriterMoved, Typed
  <2> QED BY <1>0, <2>1, <2>2 DEF Typed, TypeOK, WriterMoved
<1>1. ASSUME NEW w \in Writers, WriteInSlot(w) PROVE Typed'
  <2>1. UNCHANGED <<head, tail, groupOf, reader, copies>>
    BY <1>1 DEF WriteInSlot, Clear, Stamp, FindGroup, AddSum, AddCount
  <2>2. /\ Active(w) /\ slots' \in [0..Capacity - 1 -> Slot] /\ tail \in 0..MaxWrites
    BY <1>1, SlotStep DEF Typed, TypeOK
  <2>3. \E pc \in {"stamp", "group", "sum", "count", "idle"} : \E old, target : WriterMoved(w, pc, old, target)
    BY <1>1, WriterMove DEF WriteInSlot
  <2> QED BY <1>0, <2>1, <2>2, <2>3
<1>2. ASSUME NEW w \in Writers, NEW g \in Groups, Claim(w, g) PROVE Typed'
  <2>1. head + 1 \in 0..MaxWrites /\ head \in Positions /\ head \in Nat
    BY <1>2, RingAssumption, SMT DEF Claim, Positions, RingAssumption, Typed, TypeOK
  <2>2. groupOf' \in [Positions -> Groups]
    BY <1>2, <2>1 DEF Claim, Typed, TypeOK
  <2> DEFINE s == [pc |-> AfterClaim(head), pos |-> head, old |-> 0, target |-> Nobody]
  <2>3. /\ writer' = [writer EXCEPT ![w] = s]
        /\ head' = head + 1
        /\ UNCHANGED <<tail, slots, reader, copies>>
    BY <1>2 DEF Claim
  <2>4. /\ s \in WriterState /\ s.pos = head
        /\ s.pc \in {"loadTail", "swap"} => s.pos >= Capacity
    BY <2>1 DEF WriterState, AfterClaim
  <2> HIDE DEF s
  <2>5. writer' \in [Writers -> WriterState]
        /\ \A v \in Writers : writer'[v] = IF v = w THEN s ELSE writer[v]
    BY <2>3, <2>4 DEF Typed, TypeOK
  <2>6. \A v \in Writers : Active(v)' => writer'[v].pos < head'
    BY <2>1, <2>3, <2>4, <2>5, SMT DEF Active, Typed, TypeOK, WriterState
  <2>7. \A v \in Writers : writer'[v].pc \in {"loadTail", "swap"} => writer'[v].pos >= Capacity
    BY <2>4, <2>5 DEF Typed
  <2> QED BY <2>1, <2>2, <2>3, <2>5, <2>6, <2>7 DEF Typed, TypeOK
<1>3. ASSUME NEW w \in Writers, LoadTail(w) PROVE Typed'
  <2>1. /\ Active(w) /\ writer[w].pos >= Capacity /\ UNCHANGED <<head, tail, slots, groupOf, reader, copies>>
    BY <1>3 DEF LoadTail, Typed, Active
  <2> QED BY <1>0, <1>3, <2>1, WriterMove DEF Typed, TypeOK
<1>4. ASSUME NEW w \in Writers, SwapTail(w) PROVE Typed'
  <2>1. Active(w) /\ writer[w].pos >= Capacity /\ UNCHANGED <<head, slots, groupOf, reader, copies>>
    BY <1>4 DEF SwapTail, Typed, Active
  <2>2. writer[w].pos \in 0..MaxWrites - 1 /\ tail \in 0..MaxWrites
    BY <2>1, WriterSlot DEF Positions, Typed, TypeOK
  <2>3. tail' \in 0..MaxWrites
    BY <1>4, <2>1, <2>2, RingAssumption, SMT DEF SwapTail, NewTail, RingAssumption
  <2> QED BY <1>0, <1>4, <2>1, <2>3, WriterMove DEF Typed, TypeOK
<1>5. ASSUME NEW r \in Readers, Query(r) PROVE Typed'
  <2>1. UNCHANGED <<head, tail, slots, groupOf, writer>>
    BY <1>5 DEF Query, GetHead, GetTail, LoadHeadInRange, LoadTailInRange, CopyStamp, CopyGroups
  <2>2. reader' \in [Readers -> ReaderState]
    BY <1>5, ReaderMove DEF Query, ReaderMoved
  <2>3. copies' \in [Readers -> SUBSET Copy]
    <3>1. CASE CopyGroups(r)
      <4> DEFINE c == [pos |-> reader[r].from, stamp |-> reader[r].stamp,
                       groups |-> slots[Index(reader[r].from)].groups]
      <4>1. c \in Copy
        BY IndexRange DEF Copy, Slot, ReaderState, Typed, TypeOK
      <4>2. copies' = [copies EXCEPT ![r] = @ \cup {c}]
        BY <3>1 DEF CopyGroups
      <4> HIDE DEF c
      <4> QED BY <4>1, <4>2 DEF Typed
    <3>2. CASE ~CopyGroups(r)
      BY <1>5, <3>2 DEF Query, GetHead, GetTail, LoadHeadInRange, LoadTailInRange, CopyStamp, Typed
    <3> QED BY <3>1, <3>2
  <2> QED BY <2>1, <2>2, <2>3 DEF Typed, TypeOK, Active
<1>6. CASE UNCHANGED vars
  BY <1>6 DEF vars, Active, Typed, TypeOK
<1> QED BY <1>1, <1>2, <1>3, <1>4, <1>5, <1>6 DEF Next, Write, WriteInSlot

LEMMA InitTyped == Init => Typed
<1> SUFFICES ASSUME Init PROVE Typed
  OBVIOUS
<1>1. slots \in [0..Capacity - 1 -> Slot]
  BY DEF Init, EmptySlot, NoGroup, Slot, Group
<1>2. groupOf \in [Positions -> Groups]
  BY RingAssumption DEF Init, Positions, RingAssumption
<1>3. writer \in [Writers -> WriterState] /\ \A w \in Writers : writer[w].pc = "idle"
  BY DEF Init, WriterState
<1>4. reader \in [Readers -> ReaderState]
  BY DEF Init, ReaderState
<1>5. head \in 0..MaxWrites /\ tail \in 0..MaxWrites
  BY RingAssumption, SMT DEF RingAssumption, Init
<1>6. copies \in [Readers -> SUBSET Copy]
  BY DEF Init
<1> QED BY <1>1, <1>2, <1>3, <1>4, <1>5, <1>6 DEF Typed, TypeOK, Active

(* Type correctness of the ring, its writers and its readers.              *)
THEOREM TypeCorrect == Spec => []TypeOK
<1>1. Typed => TypeOK
  BY DEF Typed
<1> QED BY <1>1, InitTyped, TypedStep, PTL DEF Spec

-----------------------------------------------------------------------------
(* A slot holds writes to positions that are its own, and so does a copy,  *)
(* of a position in the range of its query.                                *)
SlotsInPlace ==
  \A i \in 0..Capacity - 1 : \A q \in Held(slots[i]) : q # Nobody => Index(q) = i

ReaderInRange(r) ==
  /\ reader[r].to <= head
  /\ reader[r].pc \in {"range", "rangeTail", "copy", "copyGroups"} =>
       reader[r].from >= reader[r].to - QueryLimit
  /\ reader[r].pc \in {"copy", "copyGroups"} => reader[r].from < reader[r].to
  /\ reader[r].pc = "copyGroups" /\ reader[r].stamp # Nobody =>
       Index(reader[r].stamp) = Index(reader[r].from)

CopyInPlace(r, c) ==
  /\ c.pos \in reader[r].to - QueryLimit..reader[r].to - 1
  /\ \A q \in Held(c) : q # Nobody => Index(q) = Index(c.pos)

InPlace ==
  /\ SlotsInPlace
  /\ \A r \in Readers : ReaderInRange(r) /\ \A c \in copies[r] : CopyInPlace(r, c)

LEMMA SlotsInPlaceStep == Typed /\ SlotsInPlace /\ [Next]_vars => SlotsInPlace'
<1> SUFFICES ASSUME Typed, SlotsInPlace, [Next]_vars PROVE SlotsInPlace'
  OBVIOUS
<1>1. ASSUME NEW w \in Writers, WriteInSlot(w) PROVE SlotsInPlace'
  BY <1>1, SlotStep DEF SlotsInPlace, SlotOf
<1>2. CASE UNCHANGED slots
  BY <1>2 DEF SlotsInPlace
<1>3. slots' = slots \/ \E w \in Writers : WriteInSlot(w)
  BY DEF Next, Write, Claim, LoadTail, SwapTail, WriteInSlot, Query, GetHead, GetTail,
         LoadHeadInRange, LoadTailInRange, CopyStamp, CopyGroups, vars
<1> QED BY <1>1, <1>2, <1>3

LEMMA InPlaceStep == Typed /\ Typed' /\ InPlace /\ [Next]_vars => InPlace'
<1> SUFFICES ASSUME Typed, Typed', InPlace, [Next]_vars PROVE InPlace'
  OBVIOUS
<1>1. SlotsInPlace'
  BY SlotsInPlaceStep DEF InPlace
<1>2. ASSUME UNCHANGED <<reader, copies>>, head' \in Nat, head' >= head PROVE InPlace'
  <2>1. \A r \in Readers : reader[r].to \in Nat /\ head \in Nat
    BY DEF Typed, TypeOK, ReaderState
  <2>2. \A r \in Readers : ReaderInRange(r)'
    BY <1>2, <2>1, SMT DEF InPlace, ReaderInRange
  <2>3. \A r \in Readers : \A c \in copies[r]' : CopyInPlace(r, c)'
    BY <1>2 DEF InPlace, CopyInPlace
  <2> QED BY <1>1, <1>2, <2>2, <2>3 DEF InPlace
<1>3. ASSUME NEW w \in Writers, Write(w) PROVE InPlace'
  <2>1. UNCHANGED <<reader, copies>> /\ (head' = head \/ head' = head + 1)
    BY <1>3 DEF Write, Claim, LoadTail, SwapTail, Clear, Stamp, FindGroup, AddSum, AddCount
  <2>2. head \in Nat
    BY DEF Typed, TypeOK
  <2>3. head' \in Nat /\ head' >= head
    BY <2>1, <2>2, SMT
  <2> QED BY <1>2, <2>1, <2>3
<1>4. ASSUME NEW r \in Readers, Query(r) PROVE InPlace'
  <2>1. /\ UNCHANGED <<head, tail, slots>>
        /\ \A s \in Readers \ {r} : reader'[s] = reader[s] /\ copies'[s] = copies[s]
    <3>1. \A s \in Readers \ {r} : reader'[s] = reader[s]
      BY <1>4, ReaderMove DEF Query, ReaderMoved
    <3>2. \A s \in Readers \ {r} : copies'[s] = copies[s]
      BY <1>4 DEF Typed, Query, GetHead, GetTail, LoadHeadInRange, LoadTailInRange, CopyStamp, CopyGroups
    <3> QED BY <1>4, <3>1, <3>2
            DEF Query, GetHead, GetTail, LoadHeadInRange, LoadTailInRange, CopyStamp, CopyGroups
  <2>2. \A s \in Readers \ {r} : ReaderInRange(s)' /\ \A c \in copies'[s] : CopyInPlace(s, c)'
    BY <2>1 DEF InPlace, ReaderInRange, CopyInPlace
  <2>3. ReaderInRange(r)' /\ \A c \in copies'[r] : CopyInPlace(r, c)'
    <3> DEFINE from == reader[r].from
               to == reader[r].to
    <3>1. /\ head' = head /\ head \in Nat /\ tail \in 0..MaxWrites /\ from \in Nat /\ to \in Nat /\ QueryLimit \in Nat
          /\ ReaderInRange(r) /\ \A c \in copies[r] : CopyInPlace(r, c)
          /\ Index(from) \in 0..Capacity - 1
      BY <2>1, IndexRange, RingAssumption, SMT DEF Typed, TypeOK, ReaderState, InPlace, RingAssumption
    <3>2. CASE GetHead(r)
      <4>1. copies'[r] = {}
        BY <3>2 DEF GetHead, Typed
      <4>2. reader'[r].pc = "getTail" /\ reader'[r].to = head
        <5>1. ReaderMoved(r, "getTail", 0, head, Nobody)
          BY <3>2, ReaderMove
        <5> QED BY <5>1 DEF ReaderMoved
      <4>3. ReaderInRange(r)'
        BY <3>1, <4>2, SMT DEF ReaderInRange
      <4> QED BY <4>1, <4>3
    <3>3. CASE GetTail(r)
      <4>1. copies' = copies
        BY <3>3 DEF GetTail
      <4>2. reader'[r].pc = "range" /\ reader'[r].to = to /\ reader'[r].from = Start(to, tail)
        <5>1. ReaderMoved(r, "range", Start(to, tail), to, reader[r].stamp)
          BY <3>3, ReaderMove
        <5> QED BY <5>1 DEF ReaderMoved
      <4>3. Start(to, tail) >= to - QueryLimit
        BY <3>1, StartRange
      <4>4. ReaderInRange(r)'
        BY <3>1, <4>1, <4>2, <4>3, SMT DEF ReaderInRange
      <4>5. reader'[r].to = to
        BY <4>2, <4>3
      <4> QED BY <3>1, <4>1, <4>4, <4>5 DEF CopyInPlace
    <3>4. CASE LoadHeadInRange(r)
      <4>1. copies' = copies /\ reader[r].pc = "range"
        BY <3>4 DEF LoadHeadInRange
      <4>2. reader'[r].pc = "rangeTail" /\ reader'[r].to = (IF to > head THEN head ELSE to)
            /\ reader'[r].from = from
        <5>1. ReaderMoved(r, "rangeTail", from, IF to > head THEN head ELSE to, reader[r].stamp)
          BY <3>4, ReaderMove
        <5> QED BY <5>1 DEF ReaderMoved
      <4>3. ~(to > head)
        BY <3>1, SMT DEF ReaderInRange
      <4>4. ReaderInRange(r)'
        BY <3>1, <4>1, <4>2, <4>3, SMT DEF ReaderInRange
      <4>5. reader'[r].to = to
        BY <4>2, <4>3
      <4> QED BY <3>1, <4>1, <4>4, <4>5 DEF CopyInPlace
    <3>5. CASE LoadTailInRange(r)
      <4>1. copies' = copies /\ reader[r].pc = "rangeTail"
        BY <3>5 DEF LoadTailInRange
      <4>2. /\ reader'[r].pc = IF LowerBound(from, tail) < to THEN "copy" ELSE "idle"
            /\ reader'[r].to = to /\ reader'[r].from = LowerBound(from, tail)
        <5>1. ReaderMoved(r, IF LowerBound(from, tail) < to THEN "copy" ELSE "idle",
                              LowerBound(from, tail), to, reader[r].stamp)
          BY <3>5, ReaderMove
        <5> QED BY <5>1 DEF ReaderMoved
      <4>3. LowerBound(from, tail) >= to - QueryLimit
        BY <3>1, <4>1, SMT DEF ReaderInRange, LowerBound
      <4>4. ReaderInRange(r)'
        BY <3>1, <4>1, <4>2, <4>3, SMT DEF ReaderInRange
      <4>5. reader'[r].to = to
        BY <4>2, <4>3
      <4> QED BY <3>1, <4>1, <4>4, <4>5 DEF CopyInPlace
    <3>6. CASE CopyStamp(r)
      <4>1. copies' = copies /\ reader[r].pc = "copy"
        BY <3>6 DEF CopyStamp
      <4>2. /\ reader'[r].pc = "copyGroups" /\ reader'[r].to = to /\ reader'[r].from = from
            /\ reader'[r].stamp = slots[Index(from)].stamp
        <5>1. ReaderMoved(r, "copyGroups", from, to, slots[Index(from)].stamp)
          BY <3>6, ReaderMove
        <5> QED BY <5>1 DEF ReaderMoved
      <4>3. slots[Index(from)].stamp # Nobody => Index(slots[Index(from)].stamp) = Index(from)
        BY <3>1 DEF InPlace, SlotsInPlace, Held
      <4>4. ReaderInRange(r)'
        BY <3>1, <4>1, <4>2, <4>3, SMT DEF ReaderInRange
      <4>5. reader'[r].to = to
        BY <4>2, <4>3
      <4> QED BY <3>1, <4>1, <4>4, <4>5 DEF CopyInPlace
    <3>7. CASE CopyGroups(r)
      <4> DEFINE c == [pos |-> from, stamp |-> reader[r].stamp, groups |-> slots[Index(from)].groups]
      <4>1. copies'[r] = copies[r] \cup {c} /\ reader[r].pc = "copyGroups"
        BY <3>7 DEF CopyGroups, Typed
      <4>2. /\ reader'[r].pc = IF from + 1 < to THEN "copy" ELSE "idle"
            /\ reader'[r].to = to /\ reader'[r].from = from + 1
        <5>1. ReaderMoved(r, IF from + 1 < to THEN "copy" ELSE "idle", from + 1, to, reader[r].stamp)
          BY <3>7, ReaderMove
        <5> QED BY <5>1 DEF ReaderMoved
      <4>3. from + 1 >= to - QueryLimit /\ from \in to - QueryLimit..to - 1
        BY <3>1, <4>1, SMT DEF ReaderInRange
      <4>4. \A q \in Held(c) : q # Nobody => Index(q) = Index(from)
        <5>1. \A q \in Held(slots[Index(from)]) : q # Nobody => Index(q) = Index(from)
          BY <3>1 DEF InPlace, SlotsInPlace
        <5>2. reader[r].stamp # Nobody => Index(reader[r].stamp) = Index(from)
          BY <3>1, <4>1 DEF ReaderInRange
        <5>3. Held(c) \subseteq {reader[r].stamp} \cup Held(slots[Index(from)])
          BY DEF Held
        <5> QED BY <5>1, <5>2, <5>3
      <4>5. c.pos = from
        OBVIOUS
      <4> HIDE DEF c
      <4>6. ASSUME NEW d \in copies'[r] PROVE CopyInPlace(r, d)'
        <5>1. CASE d \in copies[r]
          BY <3>1, <4>2, <5>1 DEF CopyInPlace
        <5>2. CASE d = c
          BY <4>2, <4>3, <4>4, <4>5, <5>2 DEF CopyInPlace
        <5> QED BY <4>1, <5>1, <5>2
      <4>7. ReaderInRange(r)'
        BY <3>1, <4>1, <4>2, <4>3, SMT DEF ReaderInRange
      <4> QED BY <4>6, <4>7
    <3> QED BY <1>4, <3>2, <3>3, <3>4, <3>5, <3>6, <3>7 DEF Query
  <2> QED BY <1>1, <2>2, <2>3 DEF InPlace
<1>5. CASE UNCHANGED vars
  <2>1. UNCHANGED <<reader, copies, head>> /\ head \in Nat
    BY <1>5 DEF vars, Typed, TypeOK
  <2>2. head' >= head
    BY <2>1, SMT
  <2> QED BY <1>2, <2>1, <2>2
<1> QED BY <1>3, <1>4, <1>5 DEF Next

LEMMA InPlaceAlways == Spec => [](Typed /\ InPlace)
<1>1. Init => InPlace
  <2> SUFFICES ASSUME Init PROVE InPlace
    OBVIOUS
  <2>1. ASSUME NEW i \in 0..Capacity - 1 PROVE Held(slots[i]) = {Nobody}
    BY DEF Init, EmptySlot, NoGroup, Held
  <2>2. SlotsInPlace
    BY <2>1 DEF SlotsInPlace
  <2>3. \A r \in Readers : ReaderInRange(r) /\ copies[r] = {}
    BY SMT DEF Init, ReaderInRange
  <2> QED BY <2>2, <2>3 DEF InPlace
<1> QED BY <1>1, InitTyped, TypedStep, InPlaceStep, PTL DEF Spec

(* It reads positions less than a lap apart, and the slot of a position    *)
(* holds writes of that slot only.                                         *)
LEMMA InPlaceCounts == Typed /\ InPlace => QueryCountsOnce
<1> SUFFICES ASSUME Typed, InPlace, NEW r \in Readers, NEW c \in copies[r], NEW d \in copies[r],
                    NEW g \in Groups, c.pos # d.pos,
                    NEW q \in c.groups[g].sum \cap d.groups[g].sum
             PROVE  FALSE
  BY DEF QueryCountsOnce
<1>1. CopyInPlace(r, c) /\ CopyInPlace(r, d) /\ c \in Copy /\ d \in Copy
  BY DEF InPlace, Typed
<1>2. q \in Positions
  BY <1>1 DEF Copy, Group
<1>3. q # Nobody /\ q \in Held(c) /\ q \in Held(d)
  BY <1>2, SMT DEF Positions, Nobody, Held
<1>4. Index(c.pos) = Index(d.pos)
  BY <1>1, <1>3 DEF CopyInPlace
<1>5. /\ c.pos \in Nat /\ d.pos \in Nat /\ reader[r].to \in Nat /\ QueryLimit \in 1..Capacity
      /\ c.pos \in reader[r].to - QueryLimit..reader[r].to - 1
      /\ d.pos \in reader[r].to - QueryLimit..reader[r].to - 1
  BY <1>1, RingAssumption DEF Copy, CopyInPlace, Typed, TypeOK, ReaderState, RingAssumption
<1>6. \/ c.pos < d.pos /\ d.pos - c.pos < Capacity
      \/ d.pos < c.pos /\ c.pos - d.pos < Capacity
  BY <1>5, RingAssumption, SMT DEF RingAssumption
<1> QED BY <1>4, <1>5, <1>6, IndexApart

(* However many writers there are, a query counts no write twice (Query:   *)
(* "Read up to 1000 recent slots").                                        *)
THEOREM CountedOnce == Spec => []QueryCountsOnce
BY InPlaceCounts, InPlaceAlways, PTL

-----------------------------------------------------------------------------
(* One writer.                                                             *)
Oldest(n) == IF n > Capacity THEN n - Capacity ELSE 0

TailFollows(w) ==
  /\ Active(w) => writer[w].pos = head - 1
  /\ writer[w].pc \in {"loadTail", "swap", "clear"} => writer[w].pos >= Capacity
  /\ tail = IF writer[w].pc \in {"loadTail", "swap"} THEN writer[w].pos - Capacity ELSE Oldest(head)
  /\ writer[w].pc = "swap" => writer[w].old = tail

NewGroup(p, S) == [by |-> p, sum |-> S, count |-> {}]
Whole(p) == [by |-> p, sum |-> {p}, count |-> {p}]
NoGroups(slot) == \A g \in Groups : slot.groups[g] = NoGroup
OnlyGroup(slot, p, h) == \A g \in Groups : slot.groups[g] = IF g = groupOf[p] THEN h ELSE NoGroup

SlotFollows(w) ==
  LET p == writer[w].pos
      slot == slots[SlotOf(w)]
  IN /\ writer[w].pc \in {"stamp", "group"} => NoGroups(slot)
     /\ writer[w].pc \in {"group", "sum", "count"} => slot.stamp = p
     /\ writer[w].pc = "sum" => writer[w].target = p /\ OnlyGroup(slot, p, NewGroup(p, {}))
     /\ writer[w].pc = "count" => writer[w].target = p /\ OnlyGroup(slot, p, NewGroup(p, {p}))

Unused == \A i \in 0..Capacity - 1 : i >= head => slots[i] = EmptySlot

Settled(p) == slots[Index(p)].stamp = p /\ OnlyGroup(slots[Index(p)], p, Whole(p))

RingInOrder(w) ==
  /\ TailFollows(w) /\ SlotFollows(w) /\ Unused
  /\ \A p \in Positions :
       tail <= p /\ p < head /\ ~(Active(w) /\ p = writer[w].pos) => Settled(p)

(* What the writes into a slot leave there.                                *)
LEMMA SlotContents ==
  ASSUME Typed, NEW w \in Writers
  PROVE  LET p == writer[w].pos
             g == groupOf[p]
             old == slots[SlotOf(w)]
             new == slots'[SlotOf(w)]
             Put(h) == /\ new.stamp = old.stamp
                       /\ \A k \in Groups : new.groups[k] = IF k = g THEN h ELSE old.groups[k]
         IN /\ Clear(w) => NoGroups(new)
            /\ Stamp(w) => new.stamp = p /\ new.groups = old.groups
            /\ FindGroup(w) /\ GroupOf(w) = NoGroup => Put(NewGroup(p, {}))
            /\ AddSum(w) /\ writer[w].target = p /\ GroupOf(w) = NewGroup(p, {}) =>
                 Put(NewGroup(p, {p}))
            /\ AddCount(w) /\ writer[w].target = p /\ GroupOf(w) = NewGroup(p, {p}) =>
                 Put(Whole(p))
<1> DEFINE p == writer[w].pos
           i == SlotOf(w)
           g == groupOf[p]
           new == slots'[i]
           Put(h) == /\ new.stamp = slots[i].stamp
                     /\ \A k \in Groups : new.groups[k] = IF k = g THEN h ELSE slots[i].groups[k]
<1>1. /\ slots \in [0..Capacity - 1 -> Slot]
      /\ Active(w) => i \in 0..Capacity - 1 /\ slots[i] \in Slot /\ g \in Groups
                      /\ GroupOf(w) = slots[i].groups[g]
  BY WriterSlot DEF Typed, TypeOK, GroupOf
<1> HIDE DEF i, g, p
<1>2. ASSUME Active(w), NEW h,
             slots' = [slots EXCEPT ![i] = [slots[i] EXCEPT !.groups = [slots[i].groups EXCEPT ![g] = h]]]
      PROVE  Put(h)
  <2>1. new = [slots[i] EXCEPT !.groups = [slots[i].groups EXCEPT ![g] = h]]
    BY <1>1, <1>2
  <2>2. new.stamp = slots[i].stamp /\ new.groups = [slots[i].groups EXCEPT ![g] = h]
    BY <1>1, <1>2, <2>1 DEF Slot
  <2> QED BY <1>1, <1>2, <2>2 DEF Slot
<1>3. Clear(w) => NoGroups(new)
  <2> SUFFICES ASSUME Clear(w) PROVE NoGroups(new)
    OBVIOUS
  <2>1. Active(w) /\ new = [slots[i] EXCEPT !.groups = [k \in Groups |-> NoGroup]]
    BY <1>1 DEF Clear, ClearedGroups, Active, i
  <2> QED BY <1>1, <2>1 DEF Slot, NoGroups
<1>4. Stamp(w) => new.stamp = p /\ new.groups = slots[i].groups
  <2> SUFFICES ASSUME Stamp(w) PROVE new.stamp = p /\ new.groups = slots[i].groups
    OBVIOUS
  <2>1. Active(w) /\ new = [slots[i] EXCEPT !.stamp = p]
    BY <1>1 DEF Stamp, Active, i, p
  <2> QED BY <1>1, <2>1 DEF Slot
<1>5. FindGroup(w) /\ GroupOf(w) = NoGroup => Put(NewGroup(p, {}))
  <2> SUFFICES ASSUME FindGroup(w), GroupOf(w) = NoGroup PROVE Put(NewGroup(p, {}))
    OBVIOUS
  <2> DEFINE h == [NoGroup EXCEPT !.by = p]
  <2>1. h = NewGroup(p, {})
    BY DEF NoGroup, NewGroup
  <2>2. /\ Active(w)
        /\ slots' = [slots EXCEPT ![i] = [slots[i] EXCEPT !.groups = [slots[i].groups EXCEPT ![g] = h]]]
    BY <1>1 DEF FindGroup, Active, i, p, g
  <2> QED BY <1>2, <2>1, <2>2
<1>6. AddSum(w) /\ writer[w].target = p /\ GroupOf(w) = NewGroup(p, {}) => Put(NewGroup(p, {p}))
  <2> SUFFICES ASSUME AddSum(w), writer[w].target = p, GroupOf(w) = NewGroup(p, {})
               PROVE  Put(NewGroup(p, {p}))
    OBVIOUS
  <2> DEFINE h == [slots[i].groups[g] EXCEPT !.sum = Added(w, slots[i].groups[g].sum)]
  <2>1. Active(w)
    BY DEF AddSum, Active
  <2>2. h = NewGroup(p, {p})
    <3>1. slots[i].groups[g] = NewGroup(p, {}) /\ NewGroup(p, {}).sum = {}
      BY <1>1, <2>1 DEF NewGroup
    <3>2. Added(w, {}) = {p}
      BY DEF Added, p
    <3>3. [NewGroup(p, {}) EXCEPT !.sum = {p}] = NewGroup(p, {p})
      BY DEF NewGroup
    <3> QED BY <3>1, <3>2, <3>3
  <2>3. slots' = [slots EXCEPT ![i] = [slots[i] EXCEPT !.groups = [slots[i].groups EXCEPT ![g] = h]]]
    <3>1. GroupOf(w).by = writer[w].target
      BY DEF NewGroup
    <3>2. slots' = [slots EXCEPT ![SlotOf(w)].groups[groupOf[writer[w].pos]].sum = Added(w, @)]
      BY <3>1 DEF AddSum
    <3> QED BY <3>2 DEF i, p, g
  <2> QED BY <1>2, <2>1, <2>2, <2>3
<1>7. AddCount(w) /\ writer[w].target = p /\ GroupOf(w) = NewGroup(p, {p}) => Put(Whole(p))
  <2> SUFFICES ASSUME AddCount(w), writer[w].target = p, GroupOf(w) = NewGroup(p, {p})
               PROVE  Put(Whole(p))
    OBVIOUS
  <2> DEFINE h == [slots[i].groups[g] EXCEPT !.count = Added(w, slots[i].groups[g].count)]
  <2>1. Active(w)
    BY DEF AddCount, Active
  <2>2. h = Whole(p)
    <3>1. slots[i].groups[g] = NewGroup(p, {p}) /\ NewGroup(p, {p}).count = {}
      BY <1>1, <2>1 DEF NewGroup
    <3>2. Added(w, {}) = {p}
      BY DEF Added, p
    <3>3. [NewGroup(p, {p}) EXCEPT !.count = {p}] = Whole(p)
      BY DEF NewGroup, Whole
    <3> QED BY <3>1, <3>2, <3>3
  <2>3. slots' = [slots EXCEPT ![i] = [slots[i] EXCEPT !.groups = [slots[i].groups EXCEPT ![g] = h]]]
    <3>1. GroupOf(w).by = writer[w].target
      BY DEF NewGroup
    <3>2. slots' = [slots EXCEPT ![SlotOf(w)].groups[groupOf[writer[w].pos]].count = Added(w, @)]
      BY <3>1 DEF AddCount
    <3> QED BY <3>2 DEF i, p, g
  <2> QED BY <1>2, <2>1, <2>2, <2>3
<1> QED BY <1>3, <1>4, <1>5, <1>6, <1>7 DEF i, p, g

(* The writer's step numbers, where they decide about the tail.            *)
LEMMA OneWriterRange ==
  ASSUME NEW w \in Writers, Typed, TailFollows(w)
  PROVE  /\ head \in Nat /\ tail \in Nat /\ Capacity \in Nat \ {0}
         /\ writer[w].pos \in Nat
         /\ \A p \in Positions : p \in Nat /\ Index(p) \in 0..Capacity - 1
         /\ Oldest(head) \in Nat
BY IndexRange, RingAssumption, SMT
DEF RingAssumption, Typed, TypeOK, WriterState, Positions, Oldest

(* A write into the slot keeps the finished positions as they are.         *)
LEMMA OthersKept ==
  ASSUME NEW w \in Writers, Typed, RingInOrder(w), WriteInSlot(w), writer[w].pc # "loadTail",
         UNCHANGED <<head, tail, groupOf>>
  PROVE  /\ Unused'
         /\ \A p \in Positions : tail <= p /\ p < head /\ p # writer[w].pos => Settled(p)'
<1>1. /\ head \in Nat /\ tail \in Nat /\ Capacity \in Nat \ {0}
      /\ writer[w].pos \in Nat
      /\ \A p \in Positions : p \in Nat /\ Index(p) \in 0..Capacity - 1
  BY OneWriterRange DEF RingInOrder
<1>2. Active(w) /\ writer[w].pos = head - 1 /\ writer[w].pc # "swap"
  BY SlotStep DEF RingInOrder, TailFollows, WriteInSlot, Clear, Stamp, FindGroup, AddSum, AddCount
<1>3. tail = Oldest(head)
  BY <1>2 DEF RingInOrder, TailFollows
<1>4. \A i \in 0..Capacity - 1 : i # SlotOf(w) => slots'[i] = slots[i]
  BY SlotStep
<1>5. Unused'
  <2> SUFFICES ASSUME NEW i \in 0..Capacity - 1, i >= head PROVE slots'[i] = EmptySlot
    BY DEF Unused, EmptySlot
  <2>1. writer[w].pos < Capacity /\ i # writer[w].pos
    BY <1>1, <1>2, SMT
  <2>2. SlotOf(w) = writer[w].pos
    BY <1>1, <2>1, IndexRange DEF SlotOf
  <2> QED BY <1>4, <2>1, <2>2 DEF RingInOrder, Unused
<1>6. ASSUME NEW p \in Positions, tail <= p, p < head, p # writer[w].pos PROVE Settled(p)'
  <2>1. p < writer[w].pos /\ writer[w].pos - p < Capacity
    BY <1>1, <1>2, <1>3, <1>6, SMT DEF Oldest
  <2>2. Index(p) # SlotOf(w)
    BY <1>1, <2>1, IndexApart DEF SlotOf
  <2>3. slots'[Index(p)] = slots[Index(p)]
    BY <1>1, <1>4, <2>2
  <2>4. Settled(p)
    BY <1>6 DEF RingInOrder
  <2> QED BY <2>3, <2>4 DEF Settled, OnlyGroup
<1> QED BY <1>5, <1>6

LEMMA RingStep ==
  ASSUME NEW w, Writers = {w}, Typed, Typed', RingInOrder(w), [Next]_vars
  PROVE  RingInOrder(w)'
<1>0. w \in Writers
  OBVIOUS
<1>1. /\ head \in Nat /\ tail \in Nat /\ Capacity \in Nat \ {0}
      /\ writer[w].pos \in Nat
      /\ \A p \in Positions : p \in Nat /\ Index(p) \in 0..Capacity - 1
      /\ TailFollows(w) /\ SlotFollows(w) /\ Unused
  BY <1>0, OneWriterRange DEF RingInOrder
<1>2. ASSUME UNCHANGED <<head, tail, groupOf, slots, writer>> PROVE RingInOrder(w)'
  BY <1>2 DEF RingInOrder, TailFollows, SlotFollows, SlotOf, Unused, Settled, OnlyGroup, NoGroups,
              Active
<1>3. ASSUME NEW g \in Groups, Claim(w, g) PROVE RingInOrder(w)'
  <2>1. /\ ~Active(w) /\ tail = Oldest(head) /\ head < MaxWrites
        /\ head' = head + 1 /\ groupOf' = [groupOf EXCEPT ![head] = g]
        /\ UNCHANGED <<tail, slots>>
        /\ writer'[w] = [pc |-> AfterClaim(head), pos |-> head, old |-> 0, target |-> Nobody]
    BY <1>0, <1>1, <1>3 DEF Claim, Active, TailFollows, Typed, TypeOK
  <2>2. /\ writer'[w].pc = AfterClaim(head) /\ writer'[w].pos = head
        /\ writer'[w].pc \in {"loadTail", "stamp"}
        /\ writer'[w].pc = "loadTail" <=> head >= Capacity
    BY <2>1 DEF AfterClaim
  <2>3. TailFollows(w)'
    BY <1>1, <2>1, <2>2, SMT DEF TailFollows, Oldest, Active
  <2>4. SlotFollows(w)'
    <3>1. CASE head >= Capacity
      BY <2>2, <3>1 DEF SlotFollows
    <3>2. CASE ~(head >= Capacity)
      <4>1. Index(head) = head /\ head \in 0..Capacity - 1 /\ head >= head
        BY <1>1, <3>2, IndexRange
      <4>2. slots'[Index(head)] = EmptySlot
        BY <1>1, <2>1, <4>1 DEF Unused
      <4> QED BY <2>2, <4>2 DEF SlotFollows, SlotOf, NoGroups, EmptySlot
    <3> QED BY <3>1, <3>2
  <2>5. Unused'
    BY <1>1, <2>1, SMT DEF Unused, EmptySlot
  <2>6. ASSUME NEW p \in Positions, tail' <= p, p < head', p # head PROVE Settled(p)'
    <3>1. p < head
      BY <1>1, <2>1, <2>6, SMT
    <3>2. Settled(p)
      BY <2>1, <2>6, <3>1 DEF RingInOrder
    <3>3. groupOf'[p] = groupOf[p]
      BY <2>1, <2>6 DEF Typed, TypeOK
    <3> QED BY <2>1, <3>2, <3>3 DEF Settled, OnlyGroup
  <2>7. Active(w)' /\ writer'[w].pos = head
    BY <2>2 DEF Active
  <2> QED BY <2>3, <2>4, <2>5, <2>6, <2>7 DEF RingInOrder
<1>4. CASE LoadTail(w)
  <2>1. WriterMoved(w, IF Full(writer[w].pos, tail) THEN "swap" ELSE "stamp", tail, writer[w].target)
    BY <1>0, <1>4, WriterMove
  <2>2. /\ UNCHANGED <<head, tail, slots, groupOf>> /\ writer[w].pc = "loadTail" /\ Active(w)
        /\ tail = writer[w].pos - Capacity
    BY <1>1, <1>4 DEF LoadTail, Active, TailFollows
  <2>3. Full(writer[w].pos, tail)
    BY <1>1, <2>2, SMT DEF Full, Minus
  <2>4. writer'[w].pc = "swap" /\ writer'[w].pos = writer[w].pos /\ writer'[w].old = tail
    BY <2>1, <2>3 DEF WriterMoved
  <2>5. TailFollows(w)' /\ SlotFollows(w)' /\ Active(w)'
    BY <1>1, <2>2, <2>4 DEF TailFollows, SlotFollows, Active
  <2>6. Unused' /\ \A p \in Positions : Settled(p)' <=> Settled(p)
    BY <1>1, <2>2 DEF Unused, Settled, OnlyGroup, EmptySlot
  <2> QED BY <2>2, <2>4, <2>5, <2>6 DEF RingInOrder
<1>5. CASE SwapTail(w)
  <2>1. WriterMoved(w, "clear", writer[w].old, writer[w].target)
    BY <1>0, <1>5, WriterMove
  <2>2. /\ UNCHANGED <<head, slots, groupOf>> /\ writer[w].pc = "swap" /\ Active(w)
        /\ tail = writer[w].pos - Capacity /\ writer[w].pos >= Capacity /\ writer[w].pos = head - 1
        /\ tail' = writer[w].pos - Capacity + 1
    BY <1>1, <1>5 DEF SwapTail, NewTail, Active, TailFollows
  <2>3. writer'[w].pc = "clear" /\ writer'[w].pos = writer[w].pos
    BY <2>1 DEF WriterMoved
  <2>4. tail' = Oldest(head')
    BY <1>1, <2>2, SMT DEF Oldest
  <2>5. TailFollows(w)' /\ SlotFollows(w)' /\ Active(w)'
    BY <1>1, <2>2, <2>3, <2>4 DEF TailFollows, SlotFollows, Active
  <2>6. Unused' /\ \A p \in Positions : Settled(p)' <=> Settled(p)
    BY <1>1, <2>2 DEF Unused, Settled, OnlyGroup, EmptySlot
  <2>7. \A p \in Positions : tail' <= p => tail <= p
    BY <1>1, <2>2, SMT
  <2> QED BY <2>2, <2>3, <2>5, <2>6, <2>7 DEF RingInOrder
<1>6. CASE WriteInSlot(w)
  <2> DEFINE p0 == writer[w].pos
             i == SlotOf(w)
  <2>1. /\ UNCHANGED <<head, tail, groupOf>> /\ Active(w) /\ p0 = head - 1 /\ tail = Oldest(head)
        /\ writer[w].pc \in {"clear", "stamp", "group", "sum", "count"}
    BY <1>1, <1>6
    DEF WriteInSlot, Clear, Stamp, FindGroup, AddSum, AddCount, Active, TailFollows
  <2>2. Unused' /\ \A p \in Positions : tail <= p /\ p < head /\ p # p0 => Settled(p)'
    BY <1>0, <1>6, <2>1, OthersKept
  <2>3. p0 \in Positions /\ groupOf[p0] \in Groups /\ GroupOf(w) = slots[i].groups[groupOf[p0]]
    BY <1>0, <2>1, WriterSlot DEF GroupOf
  <2>4. ASSUME NEW pc \in {"stamp", "group", "sum", "count", "idle"}, NEW target,
               WriterMoved(w, pc, writer[w].old, target)
        PROVE  /\ TailFollows(w)' /\ SlotOf(w)' = i
               /\ writer'[w].pc = pc /\ writer'[w].pos = p0 /\ writer'[w].target = target
               /\ groupOf'[p0] = groupOf[p0]
    <3>1. writer'[w].pc = pc /\ writer'[w].pos = p0 /\ writer'[w].target = target
      BY <2>4 DEF WriterMoved
    <3> QED BY <2>1, <3>1 DEF TailFollows, SlotOf, Active, Oldest
  <2>5. ASSUME TailFollows(w)', SlotFollows(w)', writer'[w].pos = p0,
               Active(w)' \/ Settled(p0)'
        PROVE  RingInOrder(w)'
    BY <2>1, <2>2, <2>5 DEF RingInOrder
  <2>6. CASE Clear(w)
    <3>1. WriterMoved(w, "stamp", writer[w].old, writer[w].target) /\ NoGroups(slots'[i])
      BY <1>0, <2>6, WriterMove, SlotContents
    <3>2. SlotFollows(w)' /\ Active(w)'
      BY <2>4, <3>1 DEF SlotFollows, NoGroups, Active
    <3> QED BY <2>4, <2>5, <3>1, <3>2
  <2>7. CASE Stamp(w)
    <3>1. /\ WriterMoved(w, "group", writer[w].old, writer[w].target)
          /\ slots'[i].stamp = p0 /\ slots'[i].groups = slots[i].groups
      BY <1>0, <2>7, WriterMove, SlotContents
    <3>2. NoGroups(slots[i])
      BY <1>1, <2>7 DEF SlotFollows, Stamp
    <3>3. SlotFollows(w)' /\ Active(w)'
      BY <2>4, <3>1, <3>2 DEF SlotFollows, NoGroups, Active
    <3> QED BY <2>4, <2>5, <3>1, <3>3
  <2>8. CASE FindGroup(w)
    <3>1. NoGroups(slots[i]) /\ slots[i].stamp = p0
      BY <1>1, <2>8 DEF SlotFollows, FindGroup
    <3>2. GroupOf(w) = NoGroup
      BY <2>3, <3>1 DEF NoGroups
    <3>3. /\ WriterMoved(w, "sum", writer[w].old, p0)
          /\ slots'[i].stamp = slots[i].stamp
          /\ \A k \in Groups :
               slots'[i].groups[k] = IF k = groupOf[p0] THEN NewGroup(p0, {}) ELSE slots[i].groups[k]
      <4>1. WriterMoved(w, "sum", writer[w].old,
                        IF GroupOf(w) = NoGroup THEN writer[w].pos ELSE GroupOf(w).by)
        BY <1>0, <2>8, WriterMove, Zenon
      <4>2. /\ slots'[i].stamp = slots[i].stamp
            /\ \A k \in Groups :
                 slots'[i].groups[k] = IF k = groupOf[p0] THEN NewGroup(p0, {}) ELSE slots[i].groups[k]
        BY <1>0, <2>8, <3>2, SlotContents, Zenon
      <4> QED BY <3>2, <4>1, <4>2, Zenon
    <3>4. SlotFollows(w)' /\ Active(w)'
      <4>1. /\ SlotOf(w)' = i /\ groupOf'[p0] = groupOf[p0]
            /\ writer'[w].pc = "sum" /\ writer'[w].pos = p0 /\ writer'[w].target = p0
        BY <2>4, <3>3
      <4>2. OnlyGroup(slots[i], p0, NewGroup(p0, {}))'
        <5>1. \A k \in Groups :
                slots'[i].groups[k] = IF k = groupOf'[p0] THEN NewGroup(p0, {}) ELSE NoGroup
          BY <3>1, <3>3, <4>1 DEF NoGroups
        <5> QED BY <4>1, <5>1 DEF OnlyGroup, NewGroup
      <4>3. slots'[i].stamp = p0
        BY <3>1, <3>3
      <4> QED BY <4>1, <4>2, <4>3 DEF SlotFollows, Active
    <3> QED BY <2>4, <2>5, <3>3, <3>4
  <2>9. CASE AddSum(w)
    <3>1. slots[i].stamp = p0 /\ writer[w].target = p0 /\ OnlyGroup(slots[i], p0, NewGroup(p0, {}))
      BY <1>1, <2>9 DEF SlotFollows, AddSum
    <3>2. GroupOf(w) = NewGroup(p0, {})
      BY <2>3, <3>1 DEF OnlyGroup
    <3>3. /\ WriterMoved(w, "count", writer[w].old, writer[w].target)
          /\ slots'[i].stamp = slots[i].stamp
          /\ \A k \in Groups :
               slots'[i].groups[k] = IF k = groupOf[p0] THEN NewGroup(p0, {p0}) ELSE slots[i].groups[k]
      BY <1>0, <2>9, <3>1, <3>2, WriterMove, SlotContents
    <3>4. SlotFollows(w)' /\ Active(w)'
      BY <2>4, <3>1, <3>3 DEF SlotFollows, OnlyGroup, Active, NewGroup
    <3> QED BY <2>4, <2>5, <3>3, <3>4
  <2>10. CASE AddCount(w)
    <3>1. slots[i].stamp = p0 /\ writer[w].target = p0 /\ OnlyGroup(slots[i], p0, NewGroup(p0, {p0}))
      BY <1>1, <2>10 DEF SlotFollows, AddCount
    <3>2. GroupOf(w) = NewGroup(p0, {p0})
      BY <2>3, <3>1 DEF OnlyGroup
    <3>3. /\ WriterMoved(w, "idle", writer[w].old, writer[w].target)
          /\ slots'[i].stamp = slots[i].stamp
          /\ \A k \in Groups :
               slots'[i].groups[k] = IF k = groupOf[p0] THEN Whole(p0) ELSE slots[i].groups[k]
      BY <1>0, <2>10, <3>1, <3>2, WriterMove, SlotContents
    <3>4. SlotFollows(w)'
      BY <2>4, <3>3 DEF SlotFollows
    <3>5. Settled(p0)'
      BY <2>4, <3>1, <3>3 DEF Settled, OnlyGroup, SlotOf, Whole
    <3> QED BY <2>4, <2>5, <3>3, <3>4, <3>5
  <2> QED BY <1>6, <2>6, <2>7, <2>8, <2>9, <2>10 DEF WriteInSlot
<1>7. ASSUME NEW r \in Readers, Query(r) PROVE RingInOrder(w)'
  BY <1>2, <1>7 DEF Query, GetHead, GetTail, LoadHeadInRange, LoadTailInRange, CopyStamp, CopyGroups
<1>8. CASE UNCHANGED vars
  BY <1>2, <1>8 DEF vars
<1> QED BY <1>3, <1>4, <1>5, <1>6, <1>7, <1>8 DEF Next, Write, WriteInSlot

LEMMA RingStart ==
  ASSUME NEW w, Writers = {w}, Init
  PROVE  RingInOrder(w)
<1>1. head = 0 /\ tail = 0 /\ writer[w].pc = "idle"
  BY DEF Init
<1>2. TailFollows(w) /\ SlotFollows(w)
  BY <1>1, RingAssumption, SMT DEF TailFollows, SlotFollows, Active, Oldest, RingAssumption
<1>3. Unused
  BY DEF Init, Unused
<1>4. \A p \in Positions : ~(p < head)
  BY <1>1, SMT DEF Positions
<1> QED BY <1>2, <1>3, <1>4 DEF RingInOrder

(* A write in progress counts for one.                                     *)
LEMMA ActiveCount ==
  ASSUME NEW w, Writers = {w}
  PROVE  /\ Cardinality({v \in Writers : Active(v)}) = IF Active(w) THEN 1 ELSE 0
         /\ Cardinality({v \in Writers : Active(v)})' = IF Active(w)' THEN 1 ELSE 0
<1>1. {v \in Writers : Active(v)} = IF Active(w) THEN {w} ELSE {}
  OBVIOUS
<1>2. {v \in Writers : Active(v)}' = IF Active(w)' THEN {w} ELSE {}
  OBVIOUS
<1> QED BY <1>1, <1>2, FS_EmptySet, FS_Singleton

(* With one writer the ring never holds more than its slots and the write  *)
(* in progress, and a readable position at rest holds its write and        *)
(* nothing else, however often the ring has gone round (Write).            *)
THEOREM SlotsCorrect ==
  ASSUME NEW w, Writers = {w}
  PROVE  Spec => []SlotsRight
<1>1. Typed /\ RingInOrder(w) => SlotsRight
  <2> SUFFICES ASSUME Typed, RingInOrder(w) PROVE SlotsRight
    OBVIOUS
  <2>0. /\ head \in Nat /\ tail \in Nat /\ Capacity \in Nat \ {0} /\ writer[w].pos \in Nat
        /\ TailFollows(w)
    BY OneWriterRange DEF RingInOrder
  <2>1. Occupancy
    <3>1. head - tail <= Capacity + (IF Active(w) THEN 1 ELSE 0)
      <4>1. CASE writer[w].pc \in {"loadTail", "swap"}
        <5>1. Active(w) /\ tail = writer[w].pos - Capacity /\ writer[w].pos = head - 1
          BY <2>0, <4>1 DEF TailFollows, Active
        <5> QED BY <2>0, <5>1, SMT
      <4>2. CASE writer[w].pc \notin {"loadTail", "swap"}
        <5>1. tail = Oldest(head)
          BY <2>0, <4>2 DEF TailFollows
        <5>2. head - tail <= Capacity
          BY <2>0, <5>1, SMT DEF Oldest
        <5> QED BY <2>0, <5>2, SMT
      <4> QED BY <4>1, <4>2
    <3> QED BY <3>1, ActiveCount DEF Occupancy
  <2>2. SettledSlots
    <3>1. InProgress = IF Active(w) THEN {writer[w].pos} ELSE {}
      BY DEF InProgress
    <3>2. \A p \in Positions : tail <= p /\ p < head /\ p \notin InProgress => Settled(p)
      BY <3>1 DEF RingInOrder
    <3> QED BY <3>2 DEF SettledSlots, Settled, OnlyGroup, Whole
  <2> QED BY <2>1, <2>2 DEF SlotsRight
<1>2. Init => RingInOrder(w)
  BY RingStart
<1>3. Typed /\ Typed' /\ RingInOrder(w) /\ [Next]_vars => RingInOrder(w)'
  BY RingStep
<1> QED BY <1>1, <1>2, <1>3, InitTyped, TypedStep, PTL DEF Spec

(* With one writer the ring is the sliding window its readers rely on: a   *)
(* finished write publishes the next position, and a position is given up  *)
(* only by the write that needs its slot (Write, Head, Tail).              *)
THEOREM RingImplementsWindow ==
  ASSUME NEW u, Writers = {u}
  PROVE  Spec => WindowSpec
<1> DEFINE next == head - Cardinality({w \in Writers : Active(w)})
<1>1. Init => Window!Init
  <2> SUFFICES ASSUME Init PROVE Window!Init
    OBVIOUS
  <2>1. head = 0 /\ tail = 0 /\ ~Active(u)
    BY DEF Init, Active
  <2>2. next = 0
    BY <2>1, ActiveCount, SMT
  <2> QED BY <2>1, <2>2 DEF Window!Init
<1>2. Typed /\ Typed' /\ RingInOrder(u) /\ RingInOrder(u)' /\ [Next]_vars
        => [Window!Next]_(Window!vars)
  <2> SUFFICES ASSUME Typed, Typed', RingInOrder(u), RingInOrder(u)', [Next]_vars
               PROVE  [Window!Next]_<<tail, next>>
    BY DEF Window!vars
  <2>1. /\ next = head - (IF Active(u) THEN 1 ELSE 0)
        /\ next' = head' - (IF Active(u)' THEN 1 ELSE 0)
    BY ActiveCount
  <2>2. /\ head \in Nat /\ tail \in Nat /\ Capacity \in Nat \ {0} /\ writer[u].pos \in Nat
        /\ TailFollows(u) /\ u \in Writers
    BY OneWriterRange DEF RingInOrder
  <2> HIDE DEF next
  <2>3. CASE UNCHANGED <<head, tail>> /\ (Active(u)' <=> Active(u))
    BY <2>1, <2>3
  <2>4. ASSUME NEW g \in Groups, Claim(u, g) PROVE UNCHANGED <<tail, next>>
    <3>1. /\ head' = head + 1 /\ tail' = tail /\ ~Active(u)
          /\ writer'[u] = [pc |-> AfterClaim(head), pos |-> head, old |-> 0, target |-> Nobody]
      BY <2>4 DEF Claim, Active, Typed, TypeOK
    <3>2. writer'[u].pc = AfterClaim(head)
      BY <3>1
    <3>3. Active(u)'
      BY <3>2 DEF AfterClaim, Active
    <3> QED BY <2>1, <2>2, <3>1, <3>3, SMT
  <2>5. CASE LoadTail(u)
    <3>1. WriterMoved(u, IF Full(writer[u].pos, tail) THEN "swap" ELSE "stamp", tail, writer[u].target)
      BY <2>2, <2>5, WriterMove
    <3>2. Active(u) /\ Active(u)' /\ UNCHANGED <<head, tail>>
      BY <2>5, <3>1 DEF LoadTail, WriterMoved, Active
    <3> QED BY <2>3, <3>2
  <2>6. CASE SwapTail(u)
    <3>1. WriterMoved(u, "clear", writer[u].old, writer[u].target)
      BY <2>2, <2>6, WriterMove
    <3>2. Active(u) /\ Active(u)' /\ UNCHANGED head
      BY <2>6, <3>1 DEF SwapTail, WriterMoved, Active
    <3>3. /\ tail = writer[u].pos - Capacity /\ writer[u].pos = head - 1
          /\ tail' = writer[u].pos - Capacity + 1
      BY <2>2, <2>6, <3>2 DEF SwapTail, NewTail, TailFollows
    <3>4. next - tail = Capacity /\ tail' = tail + 1 /\ next' = next
      BY <2>1, <2>2, <3>2, <3>3, SMT
    <3> QED BY <3>4 DEF Window!Next, Window!Evict, next
  <2>7. CASE WriteInSlot(u) /\ ~AddCount(u)
    <3>1. \E pc \in {"stamp", "group", "sum", "count"} : \E target :
            WriterMoved(u, pc, writer[u].old, target)
      BY <2>2, <2>7, WriterMove DEF WriteInSlot
    <3>2. Active(u) /\ Active(u)' /\ UNCHANGED <<head, tail>>
      <4>1. Active(u)
        BY <2>2, <2>7, SlotStep
      <4>2. UNCHANGED <<head, tail>>
        BY <2>7, Zenon DEF WriteInSlot, Clear, Stamp, FindGroup, AddSum
      <4>3. PICK pc \in {"stamp", "group", "sum", "count"} : writer'[u].pc = pc
        <5>1. PICK pc \in {"stamp", "group", "sum", "count"} :
                \E target : WriterMoved(u, pc, writer[u].old, target)
          BY <3>1, Zenon
        <5>2. PICK target : WriterMoved(u, pc, writer[u].old, target)
          BY <5>1, Zenon
        <5>3. writer'[u] = [pc |-> pc, pos |-> writer[u].pos, old |-> writer[u].old,
                            target |-> target]
          BY <5>2, Zenon DEF WriterMoved
        <5>4. writer'[u].pc = pc
          BY <5>3
        <5> QED BY <5>4
      <4>4. Active(u)'
        BY <4>3 DEF Active
      <4> QED BY <4>1, <4>2, <4>4
    <3> QED BY <2>3, <3>2
  <2>8. CASE AddCount(u)
    <3>1. WriterMoved(u, "idle", writer[u].old, writer[u].target)
      BY <2>2, <2>8, WriterMove
    <3>2. Active(u) /\ ~Active(u)' /\ UNCHANGED <<head, tail>>
      BY <2>8, <3>1 DEF AddCount, WriterMoved, Active
    <3>3. tail = Oldest(head) /\ writer[u].pos = head - 1
      BY <2>2, <2>8, <3>2 DEF AddCount, TailFollows
    <3>4. next - tail < Capacity /\ next' = next + 1
      BY <2>1, <2>2, <3>2, <3>3, SMT DEF Oldest
    <3> QED BY <3>2, <3>4 DEF Window!Next, Window!Publish, next
  <2>9. CASE (\E r \in Readers : Query(r)) \/ UNCHANGED vars
    <3>1. UNCHANGED <<head, tail, writer>>
      BY <2>9 DEF Query, GetHead, GetTail, LoadHeadInRange, LoadTailInRange, CopyStamp,
                  CopyGroups, vars
    <3>2. Active(u)' <=> Active(u)
      BY <3>1 DEF Active
    <3> QED BY <2>3, <3>1, <3>2
  <2> QED BY <2>4, <2>5, <2>6, <2>7, <2>8, <2>9 DEF Next, Write, WriteInSlot
<1>3. Init => RingInOrder(u)
  BY RingStart
<1>4. Typed /\ Typed' /\ RingInOrder(u) /\ [Next]_vars => RingInOrder(u)'
  BY RingStep
<1> QED
  BY <1>1, <1>2, <1>3, <1>4, InitTyped, TypedStep, InPlaceAlways, PTL DEF Spec, WindowSpec, Window!Spec

-----------------------------------------------------------------------------
(* One writer: how old the data of a slot can be, and of a copy of it.     *)
(* Only the slot being written holds data from before the last lap.        *)
RecentSlots(w) ==
  \A i \in 0..Capacity - 1 : \A q \in Held(slots[i]) :
    q # Nobody => \/ q >= head - Capacity
                  \/ Active(w) /\ i = SlotOf(w) /\ q >= head - 1 - Capacity

RecentCopies ==
  \A r \in Readers :
    /\ reader[r].pc = "copyGroups" /\ reader[r].stamp # Nobody =>
         reader[r].stamp >= reader[r].from - Capacity
    /\ \A c \in copies[r] : \A q \in Held(c) : q # Nobody => q >= c.pos - Capacity

Recent(w) == RecentSlots(w) /\ RecentCopies

LEMMA HeldInPositions ==
  ASSUME NEW s, s.stamp \in Positions \cup {Nobody}, s.groups \in [Groups -> Group]
  PROVE  Held(s) \subseteq Positions \cup {Nobody}
BY DEF Held, Group

LEMMA RecentSlotsStep ==
  ASSUME NEW w, Writers = {w}, Typed, Typed', SlotsInPlace, RingInOrder(w), RingInOrder(w)',
         RecentSlots(w), [Next]_vars
  PROVE  RecentSlots(w)'
<1>1. /\ w \in Writers /\ head \in Nat /\ Capacity \in Nat \ {0} /\ writer[w].pos \in Nat
      /\ TailFollows(w) /\ tail \in Nat
  BY OneWriterRange DEF RingInOrder
<1>2. \A i \in 0..Capacity - 1 : Held(slots[i]) \subseteq Positions \cup {Nobody}
  BY HeldInPositions DEF Typed, TypeOK, Slot
<1>3. Positions \subseteq Nat /\ Nobody \in Int
  BY SMT DEF Positions, Nobody
<1>4. ASSUME NEW g \in Groups, Claim(w, g) PROVE RecentSlots(w)'
  <2>1. /\ ~Active(w) /\ head' = head + 1 /\ slots' = slots
        /\ writer'[w] = [pc |-> AfterClaim(head), pos |-> head, old |-> 0, target |-> Nobody]
    BY <1>1, <1>4 DEF Claim, Active, Typed, TypeOK
  <2>2. /\ writer'[w].pc = AfterClaim(head) /\ writer'[w].pos = head
    BY <2>1
  <2>3. Active(w)' /\ SlotOf(w)' = Index(head)
    BY <2>2 DEF Active, AfterClaim, SlotOf
  <2> SUFFICES ASSUME NEW i \in 0..Capacity - 1, NEW q \in Held(slots[i]), q # Nobody
               PROVE  \/ q >= head + 1 - Capacity
                      \/ i = Index(head) /\ q >= head - Capacity
    BY <1>1, <2>1, <2>3, SMT DEF RecentSlots
  <2>4. q \in Nat /\ q >= head - Capacity /\ Index(q) = i
    BY <1>2, <1>3, <2>1 DEF RecentSlots, SlotsInPlace
  <2>5. CASE q = head - Capacity
    <3>1. head >= Capacity
      BY <1>1, <2>4, <2>5, SMT
    <3> QED BY <1>1, <2>4, <2>5, <3>1, IndexLap
  <2>6. CASE q # head - Capacity
    BY <1>1, <2>4, <2>6, SMT
  <2> QED BY <2>5, <2>6
<1>5. ASSUME UNCHANGED <<head, slots>>, SlotOf(w)' = SlotOf(w), Active(w)' <=> Active(w)
      PROVE  RecentSlots(w)'
  BY <1>5 DEF RecentSlots
<1>6. CASE LoadTail(w) \/ SwapTail(w)
  <2>1. \E pc \in {"swap", "stamp", "clear"} : \E old : WriterMoved(w, pc, old, writer[w].target)
    BY <1>1, <1>6, WriterMove
  <2>2. UNCHANGED <<head, slots>> /\ Active(w)
    BY <1>6 DEF LoadTail, SwapTail, Active
  <2>3. Active(w)' /\ SlotOf(w)' = SlotOf(w)
    BY <2>1 DEF WriterMoved, Active, SlotOf
  <2> QED BY <1>5, <2>2, <2>3
<1>7. CASE WriteInSlot(w)
  <2>1. \E pc, target : WriterMoved(w, pc, writer[w].old, target)
    BY <1>1, <1>7, WriterMove DEF WriteInSlot
  <2>2. /\ Active(w) /\ head' = head /\ tail' = tail
        /\ writer[w].pc \notin {"loadTail", "swap"} /\ writer[w].pos = head - 1 /\ tail = Oldest(head)
    BY <1>1, <1>7
    DEF WriteInSlot, Clear, Stamp, FindGroup, AddSum, AddCount, Active, TailFollows
  <2>3. /\ SlotOf(w)' = SlotOf(w) /\ writer'[w].pos = writer[w].pos
        /\ SlotOf(w) = Index(writer[w].pos) /\ SlotOf(w) \in 0..Capacity - 1
    BY <1>1, <2>1, IndexRange DEF WriterMoved, SlotOf
  <2>4. /\ \A i \in 0..Capacity - 1 : i # SlotOf(w) => slots'[i] = slots[i]
        /\ Held(slots'[SlotOf(w)]) \subseteq Held(slots[SlotOf(w)]) \cup {writer[w].pos, Nobody}
    BY <1>1, <1>7, SlotStep
  <2>5. head - 1 >= head - Capacity
    BY <1>1, SMT
  <2>6. CASE Active(w)'
    BY <2>2, <2>3, <2>4, <2>5, <2>6 DEF RecentSlots
  <2>7. CASE ~Active(w)'
    <3>1. writer[w].pos \in Positions
      BY <1>1, <2>2, WriterSlot
    <3>2. tail <= writer[w].pos /\ writer[w].pos < head
      BY <1>1, <2>2, SMT DEF Oldest
    <3>3. Settled(writer[w].pos)'
      BY <2>2, <2>3, <2>7, <3>1, <3>2 DEF RingInOrder
    <3>4. \A q \in Held(slots'[SlotOf(w)]) : q = writer[w].pos
      <4> DEFINE slot == slots'[SlotOf(w)]
                 p == writer[w].pos
      <4>1. slot.stamp = p /\ \A g \in Groups : slot.groups[g] \in {Whole(p), NoGroup}
        BY <2>3, <3>3 DEF Settled, OnlyGroup, Whole
      <4>2. Whole(p).sum \cup Whole(p).count = {p} /\ NoGroup.sum \cup NoGroup.count = {}
        BY DEF Whole, NoGroup
      <4> HIDE DEF slot, p
      <4>3. \A g \in Groups : slot.groups[g].sum \cup slot.groups[g].count \subseteq {p}
        BY <4>1, <4>2
      <4>4. \A q \in Held(slot) : q = p
        BY <4>1, <4>3 DEF Held
      <4> QED BY <4>4 DEF slot, p
    <3> QED BY <2>2, <2>4, <2>5, <3>4 DEF RecentSlots
  <2> QED BY <2>6, <2>7
<1>8. CASE (\E r \in Readers : Query(r)) \/ UNCHANGED vars
  <2>1. UNCHANGED <<head, slots, writer>>
    BY <1>8 DEF Query, GetHead, GetTail, LoadHeadInRange, LoadTailInRange, CopyStamp,
                CopyGroups, vars
  <2> QED BY <1>5, <2>1 DEF SlotOf, Active
<1> QED BY <1>4, <1>6, <1>7, <1>8 DEF Next, Write, WriteInSlot

LEMMA RecentCopiesStep ==
  ASSUME NEW w, Writers = {w}, Typed, Typed', InPlace, RecentSlots(w), RecentCopies, [Next]_vars
  PROVE  RecentCopies'
<1>1. ASSUME UNCHANGED <<reader, copies>> PROVE RecentCopies'
  BY <1>1 DEF RecentCopies
<1>2. ASSUME NEW r \in Readers, Query(r) PROVE RecentCopies'
  <2> DEFINE from == reader[r].from
  <2>1. \A s \in Readers \ {r} : reader'[s] = reader[s] /\ copies'[s] = copies[s]
    <3>1. \A s \in Readers \ {r} : reader'[s] = reader[s]
      BY <1>2, ReaderMove DEF Query, ReaderMoved
    <3>2. \A s \in Readers \ {r} : copies'[s] = copies[s]
      BY <1>2 DEF Typed, Query, GetHead, GetTail, LoadHeadInRange, LoadTailInRange, CopyStamp, CopyGroups
    <3> QED BY <3>1, <3>2
  <2>2. ASSUME /\ reader'[r].pc = "copyGroups" /\ reader'[r].stamp # Nobody =>
                    reader'[r].stamp >= reader'[r].from - Capacity,
               \A c \in copies'[r] : \A q \in Held(c) : q # Nobody => q >= c.pos - Capacity
        PROVE  RecentCopies'
    <3>1. ASSUME NEW s \in Readers
          PROVE  /\ reader'[s].pc = "copyGroups" /\ reader'[s].stamp # Nobody =>
                      reader'[s].stamp >= reader'[s].from - Capacity
                 /\ \A c \in copies'[s] : \A q \in Held(c) : q # Nobody => q >= c.pos - Capacity
      <4>1. CASE s = r
        BY <2>2, <4>1
      <4>2. CASE s # r
        <5>1. reader'[s] = reader[s] /\ copies'[s] = copies[s]
          BY <2>1, <4>2
        <5> QED BY <5>1 DEF RecentCopies
      <4> QED BY <4>1, <4>2
    <3> QED BY <3>1 DEF RecentCopies
  <2>3. \A c \in copies[r] : \A q \in Held(c) : q # Nobody => q >= c.pos - Capacity
    BY DEF RecentCopies
  <2>4. /\ head \in Nat /\ Capacity \in Nat \ {0} /\ from \in Nat /\ reader[r].to \in Nat
        /\ Index(from) \in 0..Capacity - 1 /\ ReaderInRange(r)
    BY IndexRange, RingAssumption DEF Typed, TypeOK, ReaderState, InPlace, RingAssumption
  <2>5. reader[r].pc \in {"copy", "copyGroups"} =>
          \A q \in Held(slots[Index(from)]) : q # Nobody => q >= from - Capacity
    <3> SUFFICES ASSUME reader[r].pc \in {"copy", "copyGroups"},
                        NEW q \in Held(slots[Index(from)]), q # Nobody
                 PROVE  q >= from - Capacity
      OBVIOUS
    <3>1. from <= head - 1
      BY <2>4, SMT DEF ReaderInRange
    <3>2. q \in Int
      <4>1. q \in Positions \cup {Nobody}
        BY <2>4, HeldInPositions DEF Typed, TypeOK, Slot
      <4> QED BY <4>1, SMT DEF Positions, Nobody
    <3>3. q >= head - Capacity \/ q >= head - 1 - Capacity
      BY <2>4 DEF RecentSlots
    <3> QED BY <2>4, <3>1, <3>2, <3>3, SMT
  <2>6. CASE GetHead(r)
    <3>1. copies'[r] = {} /\ ReaderMoved(r, "getTail", 0, head, Nobody)
      BY <2>6, ReaderMove DEF GetHead, Typed
    <3> QED BY <2>2, <3>1 DEF ReaderMoved
  <2>7. CASE GetTail(r) \/ LoadHeadInRange(r) \/ LoadTailInRange(r)
    <3>1. \E pc \in {"range", "rangeTail", "copy", "idle"} : \E f, t, s : ReaderMoved(r, pc, f, t, s)
      <4>1. CASE GetTail(r)
        BY <4>1, ReaderMove
      <4>2. CASE LoadHeadInRange(r)
        BY <4>2, ReaderMove
      <4>3. CASE LoadTailInRange(r)
        BY <4>3, ReaderMove
      <4> QED BY <2>7, <4>1, <4>2, <4>3
    <3>2. reader'[r].pc # "copyGroups"
      BY <3>1 DEF ReaderMoved
    <3>3. copies' = copies
      BY <2>7 DEF GetTail, LoadHeadInRange, LoadTailInRange
    <3> QED BY <2>2, <2>3, <3>2, <3>3
  <2>8. CASE CopyStamp(r)
    <3>1. copies' = copies /\ reader[r].pc = "copy"
      BY <2>8 DEF CopyStamp
    <3>2. ReaderMoved(r, "copyGroups", from, reader[r].to, slots[Index(from)].stamp)
      BY <2>8, ReaderMove
    <3>3. reader'[r].from = from /\ reader'[r].stamp = slots[Index(from)].stamp
      BY <3>2 DEF ReaderMoved
    <3>4. slots[Index(from)].stamp \in Held(slots[Index(from)])
      BY DEF Held
    <3> QED BY <2>2, <2>3, <2>5, <3>1, <3>3, <3>4
  <2>9. CASE CopyGroups(r)
    <3> DEFINE c == [pos |-> from, stamp |-> reader[r].stamp, groups |-> slots[Index(from)].groups]
    <3>1. copies'[r] = copies[r] \cup {c} /\ reader[r].pc = "copyGroups"
      BY <2>9 DEF CopyGroups, Typed
    <3>2. ReaderMoved(r, IF from + 1 < reader[r].to THEN "copy" ELSE "idle", from + 1, reader[r].to,
                      reader[r].stamp)
      BY <2>9, ReaderMove
    <3>3. reader'[r].pc # "copyGroups"
      BY <3>2 DEF ReaderMoved
    <3>4. reader[r].stamp # Nobody => reader[r].stamp >= from - Capacity
      BY <3>1 DEF RecentCopies
    <3>5. \A q \in Held(c) : q # Nobody => q >= from - Capacity
      BY <2>5, <3>1, <3>4 DEF Held
    <3>6. c.pos = from
      OBVIOUS
    <3> HIDE DEF c
    <3> QED BY <2>2, <2>3, <3>1, <3>3, <3>5, <3>6
  <2> QED BY <1>2, <2>6, <2>7, <2>8, <2>9 DEF Query
<1>3. ASSUME NEW v \in Writers, Write(v) PROVE RecentCopies'
  BY <1>1, <1>3 DEF Write, Claim, LoadTail, SwapTail, Clear, Stamp, FindGroup, AddSum, AddCount
<1>4. CASE UNCHANGED vars
  BY <1>1, <1>4 DEF vars
<1> QED BY <1>2, <1>3, <1>4 DEF Next

(* With one writer a query gets, for every position it reads, data of that *)
(* position's slot no more than a lap old, and counts no write twice       *)
(* (ReadRange, copySlot, Query).                                           *)
THEOREM ReadsCorrect ==
  ASSUME NEW w, Writers = {w}
  PROVE  Spec => []ReadsRight
<1>1. Init => Recent(w)
  <2> SUFFICES ASSUME Init PROVE Recent(w)
    OBVIOUS
  <2>1. ASSUME NEW i \in 0..Capacity - 1 PROVE Held(slots[i]) = {Nobody}
    BY DEF Init, EmptySlot, NoGroup, Held
  <2>2. \A r \in Readers : copies[r] = {} /\ reader[r].pc = "idle"
    BY DEF Init
  <2> QED BY <2>1, <2>2 DEF Recent, RecentSlots, RecentCopies
<1>2. Typed /\ Typed' /\ InPlace /\ RingInOrder(w) /\ RingInOrder(w)' /\ Recent(w) /\ [Next]_vars
        => Recent(w)'
  <2> SUFFICES ASSUME Typed, Typed', InPlace, RingInOrder(w), RingInOrder(w)', Recent(w), [Next]_vars
               PROVE  Recent(w)'
    OBVIOUS
  <2>1. SlotsInPlace /\ RecentSlots(w) /\ RecentCopies
    BY DEF Recent, InPlace
  <2>2. RecentSlots(w)'
    BY <2>1, RecentSlotsStep
  <2>3. RecentCopies'
    BY <2>1, RecentCopiesStep
  <2> QED BY <2>2, <2>3 DEF Recent
<1>3. Typed /\ InPlace /\ Recent(w) => ReadsRight
  <2> SUFFICES ASSUME Typed, InPlace, Recent(w) PROVE CopiesAreRecent
    BY InPlaceCounts DEF ReadsRight
  <2>1. ASSUME NEW r \in Readers, NEW c \in copies[r], NEW q \in Held(c), q # Nobody
        PROVE  Index(q) = Index(c.pos) /\ q >= c.pos - Capacity
    BY <2>1 DEF InPlace, CopyInPlace, Recent, RecentCopies
  <2> QED BY <2>1 DEF CopiesAreRecent, Held
<1>4. Init => RingInOrder(w)
  BY RingStart
<1>5. Typed /\ Typed' /\ RingInOrder(w) /\ [Next]_vars => RingInOrder(w)'
  BY RingStep
<1> QED
  BY <1>1, <1>2, <1>3, <1>4, <1>5, InitTyped, TypedStep, InPlaceAlways, PTL DEF Spec

=============================================================================

------------------------------ MODULE MaglevTable ------------------------------
(***************************************************************************)
(* The rebalancer's Maglev table: every backend has an order of preference *)
(* over the slots, offset + i * skip, and the backends take slots in turn. *)
(* No code of the repository calls it.                                     *)
(*                                                                         *)
(* A step is one look at a slot, of the two nested loops of generate.  The *)
(* hashes behind the orders are free.                                      *)
(***************************************************************************)
EXTENDS Integers, FiniteSets

CONSTANTS
  Backends,   (* how many                                                  *)
  TableSize   (* nextPrime has made it a prime                             *)

isPrime(n) == n > 1 /\ \A d \in 2..n - 1 : n % d # 0

MaglevAssumption == Backends \in Nat \ {0} /\ TableSize \in Nat /\ isPrime(TableSize)

Slots == 0..TableSize - 1
Empty == -1

VARIABLES
  skip,    (* backend -> distance of the slots it tries                    *)
  next,    (* backend -> slot it tries next                                *)
  entry,   (* slot -> its backend                                          *)
  turn,    (* the backend to choose                                        *)
  taken,   (* slots taken                                                  *)
  tries    (* history: looks at a slot                                     *)

vars == <<skip, next, entry, turn, taken, tries>>

WithZero == Slots               \* mutant: a skip of zero is possible
Skips == {(h % (TableSize - 1)) + 1 : h \in 0..TableSize}

Init ==
  /\ next \in [0..Backends - 1 -> Slots]
  /\ skip \in [0..Backends - 1 -> Skips]
  /\ entry = [i \in Slots |-> Empty]
  /\ turn = 0 /\ taken = 0 /\ tries = 0

(* Taken or not, the turn passes on.                                       *)
Try ==
  LET idx == next[turn] IN
  /\ taken < TableSize
  /\ IF entry[idx] = Empty
     THEN entry' = [entry EXCEPT ![idx] = turn] /\ taken' = taken + 1
     ELSE UNCHANGED <<entry, taken>>
  /\ next' = [next EXCEPT ![turn] = (@ + skip[turn]) % TableSize]
  /\ turn' = (turn + 1) % Backends
  /\ tries' = tries + 1
  /\ UNCHANGED skip

Spec == Init /\ [][Try]_vars

-----------------------------------------------------------------------------
TypeOK ==
  /\ skip \in [0..Backends - 1 -> Slots] /\ next \in [0..Backends - 1 -> Slots]
  /\ entry \in [Slots -> {Empty} \cup 0..Backends - 1]
  /\ turn \in 0..Backends - 1 /\ taken \in 0..TableSize /\ tries \in Nat

Of(b) == Cardinality({i \in Slots : entry[i] = b})

(* The table is full after every backend has tried every slot at most      *)
(* once, for all offsets and skips: as the size is a prime no order of     *)
(* preference leaves a slot out (hasher.go:420, :432).                     *)
FillsInTime ==
  /\ taken = Cardinality({i \in Slots : entry[i] # Empty})
  /\ tries >= Backends * TableSize => taken = TableSize

(* Refuted: "excellent distribution" (hasher.go:385): no two backends      *)
(* differ by more than one slot.  A backend that finds a slot taken loses  *)
(* its turn (hasher.go:444).                                               *)
Balanced == taken = TableSize =>
  \A a, b \in 0..Backends - 1 : Of(a) <= Of(b) + 1
=============================================================================

----------------------------- MODULE EventLedger -----------------------------
(***************************************************************************)
(* What the path of an event promises whoever sends it: an event is owed   *)
(* until it is counted or a failure has excused it, it is counted only     *)
(* while it is owed and only once, and what was counted is taken back only *)
(* by a failure that excuses it.                                           *)
(***************************************************************************)
EXTENDS Integers

CONSTANT Events

VARIABLES
  sent,     (* events sent at least once                                   *)
  owed,     (* of these, the ones the path still has or will read again    *)
  count,    (* event -> times it is in the buffers                         *)
  excused   (* events a failure has dropped                                *)

vars == <<sent, owed, count, excused>>

Counted == {e \in Events : count[e] = 1}
Settled == Counted \cup excused

Init == sent = {} /\ owed = {} /\ count = [e \in Events |-> 0] /\ excused = {}

Send(e) ==
  /\ sent' = sent \cup {e} /\ owed' = owed \cup {e}
  /\ UNCHANGED <<count, excused>>

(* Another copy of the event may be owed still.                            *)
Count(e) ==
  /\ e \in owed /\ count[e] = 0
  /\ count' = [count EXCEPT ![e] = 1]
  /\ owed' \in {owed, owed \ {e}}
  /\ UNCHANGED <<sent, excused>>

(* The last copy of an event that needs none.                              *)
Discard(e) ==
  /\ e \in owed \cap Settled
  /\ owed' = owed \ {e}
  /\ UNCHANGED <<sent, count, excused>>

(* A crash, a lost call, a restart or an expired entry loses some of what  *)
(* is owed or counted and excuses it; what is not excused is counted or    *)
(* owed again.                                                             *)
Fail ==
  \E lost \in SUBSET (owed \cup Counted), again \in SUBSET sent :
    /\ excused' = excused \cup lost
    /\ \E back \in SUBSET lost : count' = [e \in Events |-> IF e \in back THEN 0 ELSE count[e]]
    /\ owed' = again /\ owed \ again \subseteq Settled'
    /\ UNCHANGED sent

Next == Fail \/ \E e \in Events : Send(e) \/ Count(e) \/ Discard(e)

Spec == Init /\ [][Next]_vars
=============================================================================

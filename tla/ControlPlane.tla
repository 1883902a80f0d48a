---------------------------- MODULE ControlPlane ----------------------------
(***************************************************************************)
(* The control plane's writes: creating a namespace and creating a table   *)
(* in one, with the audit entry the middleware adds, by concurrent         *)
(* handlers that may die with their process while the database lives on.   *)
(*                                                                         *)
(* A statement runs in a transaction of its own: it may fail, be refused   *)
(* by a UNIQUE constraint, or be committed although its handler sees an    *)
(* error, because the connection broke.  What a handler writes reaches the *)
(* client when the outermost middleware has returned.  Nothing in the      *)
(* service deletes a row; the reading handlers are single queries.  The    *)
(* optimized pool and the cache of this service have no caller.            *)
(***************************************************************************)
EXTENDS Naturals

CONSTANTS Requests, Namespaces, Tables, NoTable

PlaneAssumption == NoTable \notin Tables

VARIABLES
  step,     (* request -> what its handler does next                       *)
  target,   (* request -> [ns, table], table = NoTable: a namespace        *)
  status,   (* request -> HTTP status its handler has written, 0 for none  *)
  rows,     (* [ns, table] -> requests whose INSERT made a row             *)
  audits,   (* requests with an audit entry                                *)
  unlogged  (* requests whose audit entry failed                           *)

vars == <<step, target, status, rows, audits, unlogged>>

Targets == [ns : Namespaces, table : Tables \cup {NoTable}]
Namespace(n) == [ns |-> n, table |-> NoTable]

Init ==
  /\ step = [r \in Requests |-> "new"]
  /\ target \in [Requests -> Targets]
  /\ status = [r \in Requests |-> 0]
  /\ rows = [x \in Targets |-> {}]
  /\ audits = {} /\ unlogged = {}

-----------------------------------------------------------------------------
Goto(r, s) == step' = [step EXCEPT ![r] = s]
Write(r, code) == status' = [status EXCEPT ![r] = code]

(* A body that cannot be decoded is answered 400.                          *)
Receive(r) ==
  /\ step[r] = "new"
  /\ \/ Goto(r, IF target[r].table = NoTable THEN "insert" ELSE "lookup") /\ UNCHANGED status
     \/ Goto(r, "audit") /\ Write(r, 400)
  /\ UNCHANGED <<target, rows, audits, unlogged>>

(* The namespace of a new table; any error is a 404.                       *)
LookUpNamespace(r) ==
  /\ step[r] = "lookup"
  /\ \/ /\ rows[Namespace(target[r].ns)] # {}
        /\ Goto(r, "insert") /\ UNCHANGED status
     \/ Goto(r, "audit") /\ Write(r, 404)
  /\ UNCHANGED <<target, rows, audits, unlogged>>

NotUnique(x) == TRUE      \* mutant: no constraint
Free(x) == rows[x] = {}   \* UNIQUE (name) and UNIQUE (namespace_id, name)

Insert(r) ==
  /\ step[r] = "insert"
  /\ \/ /\ Free(target[r])
        /\ rows' = [rows EXCEPT ![target[r]] = @ \cup {r}]
        /\ \E code \in {201, 500} : Write(r, code)
     \/ Write(r, 500) /\ UNCHANGED rows
  /\ Goto(r, "audit")
  /\ UNCHANGED <<target, audits, unlogged>>

AuditedAlways(r) == TRUE   \* mutant: the status is not looked at
Audited(r) == status[r] < 400

Audit(r) ==
  /\ step[r] = "audit"
  /\ IF Audited(r)
     THEN \/ audits' = audits \cup {r} /\ UNCHANGED unlogged
          \/ unlogged' = unlogged \cup {r} /\ UNCHANGED audits
     ELSE UNCHANGED <<audits, unlogged>>
  /\ Goto(r, "flush")
  /\ UNCHANGED <<target, status, rows>>

AnswerFirst == {"audit", "flush"}   \* mutant: the client is answered before the entry
AuditFirst == {"flush"}

Respond(r) ==
  /\ step[r] \in AuditFirst
  /\ Goto(r, "answered")
  /\ UNCHANGED <<target, status, rows, audits, unlogged>>

(* The process is killed, or Shutdown gives up after five seconds: what is *)
(* in the handlers is gone, what the database committed stays.             *)
Crash ==
  /\ step' = [r \in Requests |-> IF step[r] \in {"new", "answered"} THEN step[r] ELSE "lost"]
  /\ UNCHANGED <<target, status, rows, audits, unlogged>>

Next ==
  \/ \E r \in Requests :
       Receive(r) \/ LookUpNamespace(r) \/ Insert(r) \/ Audit(r) \/ Respond(r)
  \/ Crash

Spec == Init /\ [][Next]_vars

-----------------------------------------------------------------------------
TypeOK ==
  /\ step \in [Requests -> {"new", "lookup", "insert", "audit", "flush", "answered", "lost"}]
  /\ target \in [Requests -> Targets]
  /\ status \in [Requests -> {0, 201, 400, 404, 500}]
  /\ rows \in [Targets -> SUBSET Requests]
  /\ audits \subseteq Requests /\ unlogged \subseteq Requests

Acknowledged == {r \in Requests : step[r] = "answered" /\ status[r] = 201}

(* Of all requests for one name only one is told that it has created it,   *)
(* the row is its own, and a table's namespace is there                    *)
(* (main.go:229, :334), through crashes and lost connections.              *)
CreatedOnce ==
  \A r \in Acknowledged :
    /\ rows[target[r]] = {r}
    /\ rows[Namespace(target[r].ns)] # {}

(* The audit trail names writes that happened, and every acknowledged one  *)
(* unless its own entry failed: a crash is no excuse, as the answer leaves *)
(* after the entry (audit.go:98, :114).                                    *)
AuditComplete ==
  /\ \A r \in audits : r \in rows[target[r]]
  /\ Acknowledged \subseteq audits \cup unlogged

(* Both: what was written is acknowledged and recorded.                    *)
WritesRecorded == CreatedOnce /\ AuditComplete

(* Refuted: a request that is answered with an error has done nothing.     *)
ErrorsChangeNothing ==
  \A r \in Requests : step[r] = "answered" /\ status[r] >= 400 => r \notin rows[target[r]]

(* Refuted: every row has its audit entry.                                 *)
RowsAudited == \A x \in Targets : rows[x] \subseteq audits
=============================================================================

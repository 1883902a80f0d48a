--------------------------- MODULE WatermarkStore ---------------------------
(***************************************************************************)
(* The watermark service's store: what every service has seen, what that   *)
(* makes of every table, and which tables break their freshness objective. *)
(*                                                                         *)
(* Every operation is one step: it holds the store's lock from its first   *)
(* read to its last write (WatermarkService is about the lock itself).     *)
(* The clock is abstracted to whether a service's last update is older     *)
(* than maxAge (10 min).  An update makes its service healthy when it is   *)
(* less than 30 s old and reports no backlog: free, as the counts are left *)
(* out.  Medians, rates and the other percentiles follow the same path as  *)
(* those kept here.                                                        *)
(* Names have no dot (splitTableKey would not find their table again).     *)
(***************************************************************************)
EXTENDS Integers, FiniteSets

CONSTANTS
  Services, Tables,
  EventTimes,     (* watermarks a service may report, 0 for none yet            *)
  ProcessingTimes,
  Objectives,     (* [target, critical] an operator may configure               *)
  DefaultObjective

Objective == [target : Nat, critical : Nat]

StoreAssumption ==
  /\ IsFiniteSet(Services) /\ IsFiniteSet(Tables) /\ Tables # {}
  /\ EventTimes \subseteq Nat /\ ProcessingTimes \subseteq Nat
  /\ Objectives \subseteq Objective /\ DefaultObjective \in Objective

VARIABLES
  registered,  (* services that have a watermark                           *)
  service,     (* service -> [table, high, processed, expired, healthy]        *)
  tracked,     (* tables that have a watermark                             *)
  table,       (* table -> [min, max, p99, active, healthy]                *)
  objective,   (* table -> its freshness objective                         *)
  violation,   (* table -> severity of its violation                       *)
  outdated     (* history: tables whose figures wait for the next rebuild: *)
               (* the objective or a service's watermark has changed since *)

vars == <<registered, service, tracked, table, objective, violation, outdated>>

Unknown == [table |-> CHOOSE t \in Tables : TRUE, high |-> 0, processed |-> 0,
            expired |-> FALSE, healthy |-> FALSE]
EmptyTable == [min |-> 0, max |-> 0, p99 |-> 0, active |-> 0, healthy |-> 0]

Init ==
  /\ registered = {} /\ service = [s \in Services |-> Unknown]
  /\ tracked = {} /\ table = [t \in Tables |-> EmptyTable]
  /\ objective = [t \in Tables |-> DefaultObjective]
  /\ violation = [t \in Tables |-> "none"]
  /\ outdated = {}

-----------------------------------------------------------------------------
(* Order statistics.                                                       *)

(* The k-th smallest, from 0, of the values f has on S.                    *)
KthSmallest(f, S, k) ==
  CHOOSE v \in {f[s] : s \in S} :
    /\ Cardinality({s \in S : f[s] < v}) <= k
    /\ k < Cardinality({s \in S : f[s] <= v})

Percentile(f, S, p) == KthSmallest(f, S, ((Cardinality(S) - 1) * p) \div 100)

-----------------------------------------------------------------------------
(* Tables.  reg and svc are the services after the step.                   *)

Members(reg, svc, t) == {s \in reg : svc[s].table = t}

Highs(svc) == [s \in Services |-> svc[s].high]
Freshness(svc) == [s \in Services |-> svc[s].processed - svc[s].high]
BehindAny(svc, S) == S   \* mutant: freshness is not looked at
Behind(svc, S) == {s \in S : Freshness(svc)[s] > 0}

NewerOf(old, new) == new   \* mutant: the last report counts, not the newest event
MaxOf(old, new) == IF new > old THEN new ELSE old

(* Percentiles keep their value when no service is behind.                 *)
Summary(svc, S, old) ==
  [min |-> KthSmallest(Highs(svc), S, 0),
   max |-> KthSmallest(Highs(svc), S, Cardinality(S) - 1),
   p99 |-> IF Behind(svc, S) = {} THEN old.p99
           ELSE Percentile(Freshness(svc), Behind(svc, S), 99),
   active |-> Cardinality(S),
   healthy |-> Cardinality({s \in S : svc[s].healthy})]

Severity(p99, o) ==
  IF p99 <= o.target THEN "none"
  ELSE IF p99 > o.critical THEN "critical" ELSE "warning"

(* updateTableWatermark of the tables ts: one that has no services (any    *)
(* longer) is left as it is.                                               *)
Rebuild(reg, svc, ts) ==
  LET filled == {t \in ts : Members(reg, svc, t) # {}}
      new == [t \in Tables |->
                IF t \in filled THEN Summary(svc, Members(reg, svc, t), table[t]) ELSE table[t]]
  IN /\ tracked' = tracked \cup ts
     /\ table' = new
     /\ violation' = [t \in Tables |->
          IF t \in filled THEN Severity(new[t].p99, objective[t]) ELSE violation[t]]

-----------------------------------------------------------------------------
(* Operations.                                                             *)

(* A service belongs to the table of its first update.                     *)
Updated(s, t, event, processed, expired, healthy) ==
  [table |-> IF s \in registered THEN service[s].table ELSE t,
   high |-> MaxOf(service[s].high, event),
   processed |-> processed,
   expired |-> expired,
   healthy |-> healthy /\ ~expired]

UpdateServiceWatermark(s, t) ==
  \E event \in EventTimes, processed \in ProcessingTimes, expired, healthy \in BOOLEAN :
    LET new == Updated(s, t, event, processed, expired, healthy)
    IN /\ service' = [service EXCEPT ![s] = new]
       /\ registered' = registered \cup {s}
       /\ Rebuild(registered', service', {t})
       /\ outdated' = (outdated \cup {new.table}) \ {t}
  /\ UNCHANGED objective

(* A configured objective counts from the table's next rebuild on.         *)
SetFreshnessConfig(t) ==
  /\ \E o \in Objectives : objective' = [objective EXCEPT ![t] = o]
  /\ outdated' = outdated \cup {t}
  /\ UNCHANGED <<registered, service, tracked, table, violation>>

Removed == {s \in registered : service[s].expired}
RebuiltNone == {}   \* mutant: tables are not rebuilt
RebuiltTables == tracked

CleanupStale ==
  /\ registered' = registered \ Removed
  /\ service' = [s \in Services |-> IF s \in Removed THEN Unknown ELSE service[s]]
  /\ Rebuild(registered', service', RebuiltTables)
  /\ outdated' = outdated \ {t \in tracked : Members(registered', service', t) # {}}
  /\ UNCHANGED objective

(* maxAge goes by without an update of s.                                  *)
Expire(s) ==
  /\ s \in registered /\ ~service[s].expired
  /\ service' = [service EXCEPT ![s].expired = TRUE]
  /\ UNCHANGED <<registered, tracked, table, objective, violation, outdated>>

Next ==
  \/ \E s \in Services, t \in Tables : UpdateServiceWatermark(s, t)
  \/ \E t \in Tables : SetFreshnessConfig(t)
  \/ CleanupStale
  \/ \E s \in Services : Expire(s)

Spec == Init /\ [][Next]_vars

-----------------------------------------------------------------------------
(* What the store answers.                                                 *)

(* GetSystemWatermark: the smallest minimum of all tables.                 *)
SystemMinimum == KthSmallest([t \in Tables |-> table[t].min], tracked, 0)

-----------------------------------------------------------------------------
(* Properties.                                                             *)

Watermarks == Nat
TypeOK ==
  /\ registered \subseteq Services
  /\ service \in [Services -> [table : Tables, high : Watermarks, processed : Nat,
                               expired : BOOLEAN, healthy : BOOLEAN]]
  /\ tracked \subseteq Tables
  /\ table \in [Tables -> [min : Watermarks, max : Watermarks, p99 : Nat,
                           active : Nat, healthy : Nat]]
  /\ objective \in [Tables -> Objective]
  /\ violation \in [Tables -> {"none", "warning", "critical"}]
  /\ outdated \subseteq Tables

FiguresCurrent(t) ==
  LET S == Members(registered, service, t)
  IN S # {} =>
     /\ table[t].min = KthSmallest(Highs(service), S, 0)
     /\ table[t].max = KthSmallest(Highs(service), S, Cardinality(S) - 1)
     /\ table[t].active = Cardinality(S)
     /\ table[t].healthy = Cardinality({s \in S : service[s].healthy})
     /\ violation[t] = Severity(table[t].p99, objective[t])

(* A table's figures are those of its services and its violation is that   *)
(* of its figures, through every order of updates, removals and changes of *)
(* the objective: only a service that also reports for another table       *)
(* (store.go:122, :149) or a new objective (store.go:430) leaves them      *)
(* behind, until the next update of the table.                             *)
AggregatesCurrent == \A t \in tracked \ outdated : FiguresCurrent(t)

(* The system's minimal watermark is never ahead of any service: whatever  *)
(* is older than it has been seen by all of them (store.go:335).  Figures  *)
(* left behind are safe, because no service's watermark goes back.         *)
SafeMinimum ==
  \A s \in registered : SystemMinimum <= service[s].high

(* Tables of watermarks, and the system's, agree with the services' own.   *)
WatermarksAgree == AggregatesCurrent /\ SafeMinimum

(* A table's minimum goes back only when a service joins the table: late,  *)
(* repeated or reordered reports cannot do it (store.go:135).              *)
NeverBack ==
  [][\A t \in tracked : table[t].active > 0 /\ table'[t].min < table[t].min =>
       Members(registered', service', t) \ Members(registered, service, t) # {}]_vars

(* Refuted: a table without services has no violation; CleanupStale takes  *)
(* its services away and updateTableWatermark returns before it looks at   *)
(* the violation (store.go:198), although the violation should be cleared  *)
(* "if freshness is back to normal" (store.go:287).                        *)
ViolationsHaveServices ==
  \A t \in Tables : violation[t] # "none" => Members(registered, service, t) # {}

(* Refuted: a service far behind breaks its table's objective.  With fewer *)
(* than a hundred services the index of percentile (store.go:481) is below *)
(* the last, so that the worst service of two never counts.                *)
WorstServiceCounts ==
  \A t \in tracked \ outdated : \A s \in Members(registered, service, t) :
    Freshness(service)[s] > objective[t].target => violation[t] # "none"
=============================================================================

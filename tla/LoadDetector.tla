----------------------------- MODULE LoadDetector -----------------------------
(***************************************************************************)
(* The rebalancer's hotspot detector: the load reports of every shard, the *)
(* moving average and the pattern flags kept with them, the distribution   *)
(* worked out of the latest reports, and its readers: the handlers of the  *)
(* HTTP and gRPC servers, the alerts of a stream and the worker that looks *)
(* for something to do and logs it.                                        *)
(*                                                                         *)
(* A report is one step under the detector's lock, an analysis another     *)
(* under its read lock.  (AnalyzeDistribution also stores its result under *)
(* the read lock, a data race on two fields nothing reads.)  Loads are     *)
(* integers; averages are fixed-point numbers of 1/Unit, rounded down.     *)
(* Bursts and volatility are written and never read, the prediction made   *)
(* from the trend has no caller.                                           *)
(***************************************************************************)
EXTENDS Integers, Sequences, SequencesExt, FiniteSetsExt, Sorting

CONSTANTS
  Shards, Handlers,
  Samples,      (* reports: [rps, salted, many]; salted: hot keys make     *)
                (* more than half of it; many: keys above MaxShardSize     *)
  HistorySize,  (* reports kept (60)                                       *)
  PatternFrom,  (* reports before the flags are set (10)                   *)
  Window,       (* latest reports looked at for the flag (12)              *)
  Needed,       (* hot ones among them (10)                                *)
  Cooldown,     (* ticks of the worker between two actions (10)            *)
  Unit,
  MaxReports    (* bound                                                   *)

DetectorAssumption ==
  /\ IsFiniteSet(Shards)
  /\ Samples \subseteq [rps : Nat, salted : BOOLEAN, many : BOOLEAN]
  /\ {HistorySize, PatternFrom, Window, Needed, Cooldown, Unit, MaxReports} \subseteq Nat \ {0}

VARIABLES
  history,    (* shard -> its latest reports                               *)
  average,    (* shard -> moving average                                   *)
  sustained,  (* shard -> flag SustainedHot                                *)
  seen,       (* handler -> the distribution it answers from, with the     *)
              (* hot shards it has yet to look up                          *)
  alert,      (* the last alert sent: [rps, total, count]                  *)
  since,      (* ticks since the worker's last action                      *)
  reports

detector == <<history, average, sustained>>
vars == <<detector, seen, alert, since, reports>>

NothingSeen == [total |-> 0, count |-> 0, hot |-> {}]
NoAlert == [rps |-> 0, total |-> 0, count |-> 0]

Init ==
  /\ history = [s \in Shards |-> <<>>]
  /\ average = [s \in Shards |-> 0]
  /\ sustained = [s \in Shards |-> FALSE]
  /\ seen = [h \in Handlers |-> NothingSeen]
  /\ alert = NoAlert
  /\ since = 0
  /\ reports = 0

-----------------------------------------------------------------------------
(* HotShardThreshold 1.5, ColdShardThreshold 0.5, ImbalanceThreshold 0.3.  *)

AboveHot(load, mean, n) == 2 * load * n > 3 * mean
BelowCold(load, mean, n) == 2 * load * n < mean

(* The weight of a new report is 0.2.                                      *)
Updated(list, old, rps) == IF list = <<>> THEN rps * Unit ELSE (4 * old + rps * Unit) \div 5

Latest(list, n) == SubSeq(list, (IF Len(list) > n THEN Len(list) - n ELSE 0) + 1, Len(list))

(* Enough of the latest reports are hot by the shard's own average.        *)
IsSustained(list, mean) ==
  LET recent == Latest(list, Window)
  IN Cardinality({i \in DOMAIN recent : AboveHot(recent[i].rps * Unit, mean, 1)}) >= Needed

UpdateMetrics(s, sample) ==
  LET list == Latest(Append(history[s], sample), HistorySize)
      mean == Updated(history[s], average[s], sample.rps)
  IN /\ reports < MaxReports
     /\ history' = [history EXCEPT ![s] = list]
     /\ average' = [average EXCEPT ![s] = mean]
     /\ sustained' = [sustained EXCEPT ![s] =
                        IF Len(list) < PatternFrom THEN @ ELSE IsSustained(list, mean)]
     /\ reports' = reports + 1
     /\ UNCHANGED <<seen, alert, since>>

-----------------------------------------------------------------------------
(* AnalyzeDistribution.                                                    *)

Reporting == {s \in Shards : history[s] # <<>>}
Report(s) == history[s][Len(history[s])]
Rps(s) == Report(s).rps
TotalRPS == MapThenSumSet(Rps, Reporting)
Count == Cardinality(Reporting)

(* Without any load the ratios are not numbers and compare as false.       *)
HotShards == {s \in Reporting : AboveHot(Rps(s), TotalRPS, Count)}
ColdShards == {s \in Reporting : BelowCold(Rps(s), TotalRPS, Count)}

Loads == [i \in 1..Count |-> Rps(SetToSeq(Reporting)[i])]

(* Twice the sum of the running sums of the sorted loads, less n + 1 times *)
(* their sum: the Gini coefficient's numerator over n * TotalRPS.          *)
Abs(n) == IF n < 0 THEN 0 - n ELSE n
calculateGiniCoefficient ==
  LET v == Sorted(Loads)
      weighted == MapThenSumSet(LAMBDA i : (Count + 1 - i) * v[i], 1..Count)
  IN IF TotalRPS = 0 THEN 0 ELSE Abs(2 * weighted - (Count + 1) * TotalRPS)
Imbalanced == 10 * calculateGiniCoefficient > 3 * Count * TotalRPS

DoubleLoad(s) == Rps(s) * Count > 2 * TotalRPS
recommendActionForHotShard(s) ==
  IF Report(s).salted THEN "add_salt"
  ELSE IF Report(s).many \/ sustained[s]
       THEN IF sustained[s] /\ DoubleLoad(s) THEN "split, high risk" ELSE "split"
       ELSE "migrate"

-----------------------------------------------------------------------------
(* Readers.                                                                *)

Distribution == [total |-> TotalRPS, count |-> Count, hot |-> HotShards]

(* A handler, or a tick of a stream, analyses the distribution ...         *)
Analyze(h) ==
  /\ seen[h].hot = {}
  /\ seen' = [seen EXCEPT ![h] = Distribution]
  /\ UNCHANGED <<detector, alert, since, reports>>

(* ... and looks every hot shard up again, with the lock taken anew.       *)
SendAlert(h) ==
  \E s \in seen[h].hot :
    /\ alert' = [rps |-> Rps(s), total |-> seen[h].total, count |-> seen[h].count]
    /\ seen' = [seen EXCEPT ![h].hot = @ \ {s}]
    /\ UNCHANGED <<detector, since, reports>>

(* The answer fails or its client has gone.                                *)
Abandon(h) ==
  /\ seen[h].hot # {}
  /\ seen' = [seen EXCEPT ![h].hot = {}]
  /\ UNCHANGED <<detector, alert, since, reports>>

(* A split of high risk has an impact above one half exactly when the load *)
(* is more than double.                                                    *)
Urgent == {s \in HotShards : recommendActionForHotShard(s) = "split, high risk"}

rebalanceWorker ==
  /\ since' = IF since < Cooldown THEN since + 1
              ELSE IF Imbalanced /\ Urgent # {} THEN 0 ELSE since
  /\ UNCHANGED <<detector, seen, alert, reports>>

Next ==
  \/ \E s \in Shards, sample \in Samples : UpdateMetrics(s, sample)
  \/ \E h \in Handlers : Analyze(h) \/ SendAlert(h) \/ Abandon(h)
  \/ rebalanceWorker

Spec == Init /\ [][Next]_vars

-----------------------------------------------------------------------------
(* Properties.                                                             *)

TypeOK ==
  /\ \A s \in Shards : Len(history[s]) <= HistorySize /\ \A i \in DOMAIN history[s] : history[s][i] \in Samples
  /\ average \in [Shards -> Nat] /\ sustained \in [Shards -> BOOLEAN]
  /\ seen \in [Handlers -> [total : Nat, count : Nat, hot : SUBSET Shards]]
  /\ alert \in [rps : Nat, total : Nat, count : Nat]
  /\ since \in 0..Cooldown /\ reports \in 0..MaxReports

(* The coefficient is half the mean difference of any two loads over their *)
(* mean, whatever the order of the map the loads are read from             *)
(* (detector.go:396); hot and cold shards are told apart by the same mean: *)
(* no shard is both, and never all of them are hot.                        *)
DistributionRight ==
  /\ 2 * calculateGiniCoefficient =
       MapThenSumSet(LAMBDA p : Abs(Rps(p[1]) - Rps(p[2])), Reporting \X Reporting)
  /\ HotShards \cap ColdShards = {}
  /\ Reporting # {} => HotShards # Reporting
  /\ HotShards # {} => \E s \in Reporting : Rps(s) * Count < TotalRPS

(* Refuted: a shard that has been hot without a break, by the mean of all  *)
(* shards, is flagged: "True if consistently hot" (detector.go:37).  The   *)
(* flag compares with the shard's own average (detector.go:373), which a   *)
(* steady load never exceeds: it needs a dip.                              *)
SteadyIsSustained ==
  \A s \in HotShards :
    /\ Len(history[s]) >= PatternFrom
    /\ \A i \in DOMAIN history[s] : history[s][i].rps = Rps(s)
    => sustained[s]

(* Refuted: an alert's load is above the alert's own threshold.  The load  *)
(* is read after the distribution (server.go:122, :126).                   *)
AlertAboveThreshold == alert # NoAlert => AboveHot(alert.rps, alert.total, alert.count)
=============================================================================

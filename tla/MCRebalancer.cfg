CONSTANTS
  v1 = v1
  v2 = v2
  v3 = v3
  v4 = v4
  v5 = v5
  Operators = {o1, o2}
  Virtual = {v1, v2, v3, v4, v5}
  InitialShards <- TwoShards
  SplitCounts = {2, 3}
  MaxShard = 4
  MaxEpoch = 4
  Observed = {s1, s2, s3}
  Handlers = {handler}
  Samples <- Reports
  HistorySize = 4
  PatternFrom = 2
  Window = 3
  Needed = 2
  Cooldown = 1
  Unit = 10
  MaxReports = 5
  RingShards = {1, 2, 3}
  MaxHash = 3
  VirtualNodes = 2
  Physical = {p1, p2}
  Amounts = {0, 1, 20}
  VirtualCount = 3
  Remainder <- NoRemainder
  Backends = 3
  TableSize = 5
SPECIFICATION RebalancerSpec
SYMMETRY Symmetry
INVARIANTS AllTypes EpochValid SharesRight TablesServe
PROPERTIES KeepsAssigned AtomicTransitions MinimalMove
CHECK_DEADLOCK FALSE

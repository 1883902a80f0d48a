CONSTANTS
  Callers = {h1, h2, h3}
  MaxFailures = 4
  Requests = {r1, r2}
  Metered = {t1}
  GlobalLimit = 1
  TenantLimit = 2
  Adaptive = {3}
  Second = 2
  MaxClock = 2
  Tenants = {t1, t2}
  Contexts = {c1, c2}
  Objects = {e1, e2, e3}
  ParallelFrom = 2
  Loads = {25, 92}
  Workers = {worker}
  MaxSize = 2
  Capacity <- OneEach
  WindowSize = 2
  MinLimit = 10
  MaxLimit = 14
  Increase = 11
  Decrease = 8
  TargetLatency = 3
  MaxSuccesses = 2
  Instances = {r1, r2}
  Watchers = {watcher}
  Routed = {t1}
  ChannelSize = 1
  FailureLimit = 1
  None = absent
SPECIFICATION GatewaySpec
SYMMETRY Symmetry
INVARIANTS AllTypes NothingOverdue BucketsSound LimitsRestored SendsItsOwn QueueCounted DiscoveryFollows
PROPERTY LegalTransitions
CHECK_DEADLOCK FALSE

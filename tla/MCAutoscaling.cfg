CONSTANTS
  Subjects = {"scaler", "policy", "backpressure"}
  Services = {"gateway", "stream-ingester"}
  Least <- OneOfEach
  Most <- UpToTwo
  Rules <- ChainOfServices
  MaxLive = 4
  Reporting = {"gateway", "stream-ingester"}
  Gateway = "gateway"
  FullScale = 2
  WindowSize = 3
  Requests = {r1}
  MaxChanges = 2
  MaxDead = 2
  MinInstances = 1
  MaxInstances = 2
  OutStep = 1
  InStep = 1
  MaxPort = 3
  MaxStarts = 3
  MaxCrashes = 1
SPECIFICATION AutoscalingSpec
INVARIANTS AllTypes NothingLeaks NoPanic LevelSmoothed
PROPERTY OutNeverStops
CHECK_DEADLOCK FALSE

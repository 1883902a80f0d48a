CONSTANTS
  Subjects = {"scaler", "policy"}
  Services = {"gateway", "stream-ingester", "hot-tier"}
  Least <- OneOfEach
  Most <- UpToTwo
  Rules <- ChainOfServices
  MaxLive = 4
  Reporting = {"gateway", "stream-ingester"}
  Gateway = "gateway"
  FullScale = 2
  WindowSize = 3
  Requests = {r1}
  MaxChanges = 2
  MaxDead = 0
  MinInstances = 1
  MaxInstances = 2
  OutStep = 1
  InStep = 1
  MaxPort = 2
  MaxStarts = 2
  MaxCrashes = 1
SPECIFICATION FairAutoscalingSpec
PROPERTIES DeadForgotten CascadesSettle
CHECK_DEADLOCK FALSE

CONSTANTS
  Writers = {w1}
  Readers = {r1}
  Groups = {g1, g2}
  Capacity = 2
  QueryLimit = 2
  WordSize = 64
  MaxWrites = 6
  Services = {a1, a2}
  Tables = {o1, o2}
  EventTimes = {1, 3}
  ProcessingTimes = {2}
  Objectives <- OneObjective
  DefaultObjective <- StrictObjective
  Endpoints = {endpoint}
  Callers = {a1, a2}
  Cleaner = cleaner
  Clients = {o1, o2}
  ClientIDs = {1}
  ChannelCap = 1
  Versions = 2
  Absent = absent
  Queriers = {a1, a2}
  Queries = {q1, q2}
  TTL = 2
  CallTimeout = 1
  RedisTimeout = 1
  Grace = 1
  Requests = {a1, a2, a3}
  Namespaces = {o1, o2}
  TableNames = {"events"}
  NoTable = ""
SPECIFICATION ReadSideSpec
SYMMETRY Symmetry
INVARIANTS AllTypes SlotsRight ReadsRight  LocksRight AnswersRight WritesRecorded
PROPERTIES WindowSpec NeverBack
CHECK_DEADLOCK FALSE

CONSTANTS
  Endpoints = {e1}
  Callers = {c1}
  Cleaner = cleaner
  Clients = {s1}
  ClientIDs = {1}
  ChannelCap = 1
  Versions = 2
  Nobody = nobody
SPECIFICATION FairSpec
PROPERTY ReadyAnswered
CHECK_DEADLOCK FALSE

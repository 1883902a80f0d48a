CONSTANTS
  Events = {e1, e2}
  Workers = {w1, w2}
  ChanCap = 1
  BatchCap = 2
  MaxLog = 2
  MaxFaults = 1
  MaxStops = 1
  MaxExpiries = 1
SPECIFICATION FairSpec
PROPERTY EventuallyApplied
CHECK_DEADLOCK FALSE

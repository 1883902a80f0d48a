CONSTANTS
  Events = {e1, e2}
  Workers = {w1, w2}
  ChanCap = 1
  BatchCap = 2
  MaxLog = 2
  MaxFaults = 1
  MaxStops = 0
  MaxExpiries = 0
SPECIFICATION Spec
INVARIANT DuplicatesWereSeen
CHECK_DEADLOCK FALSE

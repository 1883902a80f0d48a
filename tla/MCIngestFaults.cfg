CONSTANTS
  Events = {e1, e2}
  Workers = {w1, w2}
  ChanCap = 1
  BatchCap = 2
  MaxLog = 3
  MaxFaults = 1
  MaxStops = 1
  MaxExpiries = 0
SPECIFICATION Spec
SYMMETRY Symmetry
INVARIANTS TypeOK NoDoubleCount  CommitFollowsHandOver
PROPERTIES LedgerSpec
CHECK_DEADLOCK FALSE

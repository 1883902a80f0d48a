CONSTANTS
  Writers = {w1, w2}
  Readers = {}
  Groups = {g1, g2}
  Capacity = 2
  QueryLimit = 2
  WordSize = 64
  MaxWrites = 4
SPECIFICATION Spec
CONSTRAINT NobodyLapped
INVARIANT SlotsNotMixed
CHECK_DEADLOCK FALSE

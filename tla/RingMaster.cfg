CONSTANTS
  Readers = {r1, r2, r3}
  w1 = w1
  w2 = w2
  WorkerSets <- MCWorkerSets
  Filters = {0, 2}
  MaxTime = 3
  MaxMessages = 3
SPECIFICATION Spec
SYMMETRY Symmetry
CHECK_DEADLOCK FALSE
INVARIANTS
  Spaced
  FilterExact
  InOrder
PROPERTIES
  EveryReader

CONSTANTS
  t1 = t1
  t2 = t2
  t3 = t3
  b1 = b1
  b2 = b2
  Readers = {r1, r2}
  Writers = {w1}
  Topics = {t1, t2, t3}
  BusTopics = {b1, b2}
  BusOf <- SharedBus
  Types = {A, B}
  None = None
  CounterMod = 65536
  MayOverlap = FALSE
SPECIFICATION Spec
CHECK_DEADLOCK FALSE
INVARIANT CastSafe

CONSTANTS
  Topics = {t1, t2}
  Readers = {r1, r2, r3}
  None = None
  CounterMod = 65536
  MayOverlap = {}
SPECIFICATION Spec
CHECK_DEADLOCK FALSE
INVARIANTS
  TypeOK
  Ready
  NoDuplicates
  ChannelSurvives
  NothingLeft
PROPERTIES
  CloseReachesAll
  ImplementsService

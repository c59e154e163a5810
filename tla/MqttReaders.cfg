CONSTANTS
  Topics = {t1, t2}
  Readers = {r1, r2, r3}
  None = None
  CounterMod = 65536
  MayOverlap = {}
SPECIFICATION FairSpec
CHECK_DEADLOCK FALSE
INVARIANTS
  TypeOK
  Prepared
  CountMatches
  NothingLeft
  NoGhostSender
  NoPanicWhileUp
PROPERTIES
  StopReachesAll
  CallsReturn
  BrokerFollows
  ImplementsService

CONSTANTS
  Topics = {t1}
  Readers = {r1, r2, r3}
  None = None
  CounterMod = 65536
  MayOverlap = {"drop"}
SPECIFICATION Spec
CHECK_DEADLOCK FALSE
SYMMETRY Symmetry
INVARIANT ChannelSurvives

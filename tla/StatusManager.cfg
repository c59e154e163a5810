CONSTANTS
  conn = conn
  chan = chan
  Setters = {conn, chan}
  SetTo <- AmqpCallbacks
  Listeners = {l1, l2}
SPECIFICATION FairSpec
CHECK_DEADLOCK FALSE
INVARIANTS
  NeverMissed
PROPERTY EventuallyTold

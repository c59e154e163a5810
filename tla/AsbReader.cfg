CONSTANTS
  Clients = {c1}
  Listeners = {l1, l2}
  Threads = {t1, t2}
  Capacity = 2
  HasExpiration = TRUE
  MaxSent = 3
SPECIFICATION FairSpec
CHECK_DEADLOCK FALSE
INVARIANTS
  TypeOK
  RingKeepsNewest
  ModeTracksListeners
  NoDeafReader
  RemovedIsSilent
PROPERTIES
  ThreadsStop
  CallbackDrains

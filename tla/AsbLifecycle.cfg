SPECIFICATION FairSpec
CONSTANTS
  None = None
  Err = Err
  Panic = Panic
  MaxU64 = 30000
  Files <- MCFiles
  Service = "me"
  Topics = {"t1", "t2"}
  Writers = {w1, w2}
  w1 = w1
  w2 = w2
INVARIANT EventLoopNeverPanics
INVARIANT MostSpecificWins
PROPERTY FailedRefusesWrites
PROPERTY CallsReturn
PROPERTY NothingRuns
CHECK_DEADLOCK FALSE

SPECIFICATION WorkerSpec
CONSTANTS
  l1 = l1
  l2 = l2
  f1 = f1
  f2 = f2
  f3 = f3
  g1 = g1
  NoId = NoId
  Loops <- TwoLoops
  Ids <- FourIds
  Threaded <- ThreeFunctions
  Threads = 2
  PoolSizes = {2, 3}
CHECK_DEADLOCK FALSE
INVARIANTS
  PermitsExact
  PrefetchBounded
  NothingLostWhileRunning
  OverrunsAreThreads
  StarvedByOverruns
PROPERTIES
  
  HeartbeatsGoOn
  EveryCallEnds

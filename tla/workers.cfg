SPECIFICATION FairSpec
CONSTANTS
  w1 = w1
  w2 = w2
  r1 = r1
  Processes <- TwoProcesses
  Remotes <- OneRemote
  MaxFaults = 2
CHECK_DEADLOCK FALSE
INVARIANTS PoolIsRegistered KeysExpire
PROPERTY LiveWorkersAreCounted

SPECIFICATION FairSpec
CONSTANTS
  Owners = {o1, o2, o3}
  NoOwner = NoOwner
  MaxLapses = 2
  MaxFaults = 2
INVARIANTS LeadersBounded LateOnce
PROPERTY Failover

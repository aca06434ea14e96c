SPECIFICATION LiveSpec
CONSTANTS
  Tasks = {t1, t2}
  Clients = {c1}
  Slots = {w1, w2}
  Schedulers = {s1}
  NoTask = NoTask
  NoSession = NoSession
  Sessions <- AllSessions
  MaxRetries <- MixedRetries
  Retries = 1
  Priority <- MixedPriority
  PriorityLevels = 2
  BatchSize = 2
  StartTimes = {"now", "future"}
  MaxReplays = 0
  MaxFaults = 0
INVARIANTS
  DeliveriesAreAskedFor
  MarkersAreOwned
PROPERTIES
  ExecutionIsAccounted

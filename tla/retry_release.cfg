SPECIFICATION LiveSpec
CONSTANTS
  Tasks = {t1}
  Clients = {c1}
  Slots = {w1}
  Schedulers = {s1}
  NoTask = NoTask
  NoSession = NoSession
  Sessions <- AllSessions
  MaxRetries <- SameRetries
  Retries = 2
  Priority <- SamePriority
  PriorityLevels = 1
  BatchSize = 1
  StartTimes = {"now"}
  MaxReplays = 0
  MaxFaults = 0
PROPERTY RetryIsReleased

SPECIFICATION Spec
CONSTANTS
  Tasks = {t1}
  Clients = {c1, c2, c3}
  Slots = {w1, w2}
  Schedulers = {s1}
  NoTask = NoTask
  NoSession = NoSession
  Sessions <- AllSessions
  MaxRetries <- SameRetries
  Retries = 1
  Priority <- SamePriority
  PriorityLevels = 1
  BatchSize = 1
  StartTimes = {"now", "future"}
  MaxReplays = 2
  MaxFaults = 1
SYMMETRY Symmetry
INVARIANTS
  IInv
  ExecutionExclusive
  DeadLetterListed
  DeliveriesAreAskedFor
PROPERTIES
  SettledIsFinal
  ImplementsTaskRows

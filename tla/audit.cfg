SPECIFICATION AuditSpec
CONSTANTS
  Tasks = {t1}
  Clients = {c1, c2}
  Slots = {w1, w2}
  Schedulers = {s1}
  NoTask = NoTask
  NoSession = NoSession
  Sessions <- AllSessions
  MaxRetries <- SameRetries
  Retries = 1
  Priority <- SamePriority
  PriorityLevels = 1
  BatchSize = 1
  StartTimes = {"now", "future"}
  MaxReplays = 1
  MaxFaults = 1
SYMMETRY Symmetry
INVARIANTS
  TrailIsGrounded
  StartedHasOutcome
PROPERTY ChangesAreAudited

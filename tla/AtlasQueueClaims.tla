-------------------------- MODULE AtlasQueueClaims --------------------------
(***************************************************************************)
(* What the repository's documents and tests say of the queue, and the     *)
(* code does not do.  Each definition is refuted by a run of its own.      *)
(***************************************************************************)
EXTENDS AtlasQueueInv

\* Without a fault no submission is refused, with or without a start time:
\* README.md:33, "Scheduled tasks (ZSET + leader-elected scheduler)".
FutureStartIsAccepted ==
  faults = 0 => \A c \in Clients : pc[c] # "raise"

\* A queued row whose id is in no structure and in nobody's hands.
Stuck(t) ==
  /\ row[t].status = "queued"
  /\ ReadyCopies(t) = 0
  /\ t \notin scheduled
  /\ \A s \in Schedulers : t \notin batch[s]
  /\ Holders(t) = {}

\* A stuck task is put back: docs/architecture.md:23, "Inflight TTL +
\* reconciler requeues stuck tasks".
StuckTaskIsRequeued == \A t \in Tasks : Stuck(t) ~> ~ Stuck(t)

\* A failed task with budget left is delivered again once its delay is over:
\* README.md:34, "Retry with fixed/exponential backoff".
RetryIsReleased ==
  \A t \in Tasks :
    row[t].status = "queued" /\ row[t].attempts > 0
      ~> row[t].status # "queued" \/ \E w \in Slots : Executes(w, t)

\* A submission that fails on Redis leaves its row in ENQUEUE_FAILED for the
\* reconciler: docs/architecture.md:19.
EnqueueFailureIsKept ==
  [][\A c \in Clients :
       pc[c] = "raise" /\ faults' = faults => row'[job[c]].status = "enqueue_failed"]_vars

\* COMPLETED and CANCELLED are final: domain/entities/task.py:145-146 gives
\* them no outgoing transition.
FinalStatusesStay ==
  [][\A t \in Tasks : row[t].status \in Settled => row'[t].status = row[t].status]_vars

\* An execution that a crash cuts off is not lost: README.md:145, "Workers
\* may redeliver after crashes between dequeue and ack".
CrashedExecutionIsRequeued ==
  \A t \in Tasks :
    (\E w \in Slots : Executes(w, t))
      ~> \/ row[t].status \in {"dead_letter"} \cup Settled
         \/ t \in scheduled \/ ReadyCopies(t) > 0

\* A replay that leaves the task queued leaves it a fresh budget:
\* docs/adr/004-failure-handler.md:28, "Manual DLQ replay resets attempts to
\* give operators a clean retry budget".
ReplayIsClean ==
  [][\A c \in Clients :
       /\ pc[c] = "commit" /\ mem[c] = [status |-> "queued", attempts |-> 0]
       /\ row'[job[c]].status = "queued" /\ faults' = faults
       => row'[job[c]].attempts = 0]_vars

\* The dead-letter list holds the tasks that are dead-lettered:
\* infrastructure/observability/metrics.py:29, "Current queue depth".
DlqDepthIsCurrent ==
  \A t \in Tasks :
    Holders(t) = {} => dlq[t] = IF row[t].status = "dead_letter" THEN 1 ELSE 0
=============================================================================

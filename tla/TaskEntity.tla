----------------------------- MODULE TaskEntity -----------------------------
(***************************************************************************)
(* The task entity of the domain layer: its statuses, the transitions that *)
(* Task.transition_to accepts, and the retry budget.                       *)
(* A table row that does not exist has the status "none".                  *)
(***************************************************************************)
EXTENDS Integers

CONSTANTS
  Tasks,        \* the task ids that may be generated
  MaxRetries    \* max_retries of the request that creates each task

ASSUME MaxRetriesAssumption == MaxRetries \in [Tasks -> Nat]

Statuses == {"pending", "scheduled", "queued", "running", "completed",
             "failed", "cancelled", "dead_letter", "enqueue_failed"}

Row == [status : Statuses \cup {"none"}, attempts : Nat]

NoRow == [status |-> "none", attempts |-> 0]

\* The dictionary of Task.transition_to: completed and cancelled have no
\* outgoing transition.
Transitions ==
  ({"pending"} \X {"queued", "enqueue_failed", "cancelled"})
    \cup ({"scheduled"} \X {"queued", "cancelled", "enqueue_failed"})
    \cup ({"queued"} \X {"running", "cancelled"})
    \cup ({"running"} \X {"completed", "failed", "cancelled", "queued", "dead_letter"})
    \cup ({"failed"} \X {"queued", "dead_letter"})
    \cup ({"enqueue_failed"} \X {"queued", "scheduled"})
    \cup ({"dead_letter"} \X {"queued"})

CanTransition(from, to) == <<from, to>> \in Transitions

\* Task.create: a start time ahead of the clock makes a scheduled task.
Created(start) ==
  [status |-> IF start = "future" THEN "scheduled" ELSE "pending", attempts |-> 0]

WithStatus(r, s) == [r EXCEPT !.status = s]

\* handle_execution_failure and handle_timeout: the failure is counted first,
\* then Task.can_retry compares the new count with max_retries.
CanRetry(t, r) == r.attempts < MaxRetries[t]

AfterFailure(t, r) ==
  LET counted == [r EXCEPT !.attempts = @ + 1]
  IN  WithStatus(counted, IF CanRetry(t, counted) THEN "queued" ELSE "dead_letter")
=============================================================================

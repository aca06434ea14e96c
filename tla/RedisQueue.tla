----------------------------- MODULE RedisQueue -----------------------------
(***************************************************************************)
(* The Redis side of the queue (RedisQueueBackend): one list per priority  *)
(* level, the sorted set of delayed tasks, the dead-letter list, the set   *)
(* of cancellation flags and the in-flight markers.  Every operator below  *)
(* is one Redis command, hence atomic; it constrains the next value of the *)
(* structure it touches and leaves the others to its caller.               *)
(*                                                                         *)
(* A ready list is kept oldest entry first: LPUSH appends, BRPOP takes the *)
(* head.  The sorted set is kept without its scores: when a member is due  *)
(* is left open.  Nothing consumes the dead-letter list, so it is kept as  *)
(* the number of entries of each task.                                     *)
(***************************************************************************)
EXTENDS TaskEntity, Sequences, FiniteSets

CONSTANTS
  PriorityLevels,   \* settings.priority_levels
  Priority,         \* priority of the request that creates each task
  BatchSize         \* settings.scheduler_batch_size

ASSUME PriorityAssumption ==
  /\ PriorityLevels \in Nat \ {0}
  /\ Priority \in [Tasks -> Nat]
  /\ BatchSize \in Nat \ {0}

VARIABLES
  ready,           \* queue:ready:<level>
  scheduled,       \* queue:scheduled
  dlq,             \* queue:dlq
  cancelPending,   \* cancel:pending
  inflight         \* queue:inflight:<id>

redisVars == <<ready, scheduled, dlq, cancelPending, inflight>>

Levels == 0 .. PriorityLevels - 1

\* enqueue_ready clamps a priority beyond the last level.
Level(t) == IF Priority[t] < PriorityLevels THEN Priority[t] ELSE PriorityLevels - 1

RedisTypeOK ==
  /\ ready \in [Levels -> Seq(Tasks)]
  /\ scheduled \in SUBSET Tasks
  /\ dlq \in [Tasks -> Nat]
  /\ cancelPending \in SUBSET Tasks
  /\ inflight \in SUBSET Tasks

RedisInit ==
  /\ ready = [l \in Levels |-> <<>>]
  /\ scheduled = {}
  /\ dlq = [t \in Tasks |-> 0]
  /\ cancelPending = {}
  /\ inflight = {}

EnqueueReady(t) == ready' = [ready EXCEPT ![Level(t)] = Append(@, t)]

EnqueueScheduled(t) == scheduled' = scheduled \cup {t}

EnqueueDlq(t) == dlq' = [dlq EXCEPT ![t] = @ + 1]

\* BRPOP over the lists in the order of their levels.
DequeueReady(t) ==
  \E l \in Levels :
    /\ ready[l] # <<>>
    /\ \A k \in Levels : k < l => ready[k] = <<>>
    /\ t = Head(ready[l])
    /\ ready' = [ready EXCEPT ![l] = Tail(@)]

\* The script of claim_due_scheduled: it reads and removes in one step.
ClaimDue(claimed) ==
  /\ claimed \subseteq scheduled
  /\ Cardinality(claimed) <= BatchSize
  /\ scheduled' = scheduled \ claimed

\* Entries of t in the ready lists.
ReadyCopies(t) ==
  Cardinality({i \in 1 .. Len(ready[Level(t)]) : ready[Level(t)][i] = t})
=============================================================================

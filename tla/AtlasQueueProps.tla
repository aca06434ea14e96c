-------------------------- MODULE AtlasQueueProps --------------------------
(***************************************************************************)
(* What the queue of AtlasQueue.tla keeps to, what it leads to under the   *)
(* scheduling of the code, and what the repository says of it.             *)
(***************************************************************************)
EXTENDS AtlasQueue

Settled == {"completed", "cancelled"}

\* The processes that have task t in hand.
Holders(t) == {p \in Sessions : job[p] = t}

\* The handler of t runs in slot w, on an open transaction.
Executes(w, t) == job[w] = t /\ pc[w] = "exec"

-----------------------------------------------------------------------------
(* Safety *)

\* Other sessions never see a task in RUNNING, PENDING, SCHEDULED, FAILED or
\* ENQUEUE_FAILED: execute_task and submit pass through these within one
\* transaction.  So the tests for SCHEDULED, RUNNING and ENQUEUE_FAILED in
\* process_due_tasks, reconcile and reconcile_enqueue_failed never succeed.
SettledStatuses ==
  \A t \in Tasks :
    row[t].status \in {"none", "queued", "dead_letter"} \cup Settled

\* Two slots never run the handler of one task at once while their database
\* connections hold, although nothing in the code claims the task: its
\* duplicates wait for the row lock of the uncommitted UPDATE to RUNNING.
ExecutionExclusive ==
  \A t \in Tasks : \A v, w \in Slots :
    Executes(v, t) /\ Executes(w, t) => v = w

\* A row in DEAD_LETTER has its entry in queue:dlq, whatever was rolled back,
\* overwritten or lost: _move_to_dead_letter pushes before it saves.
DeadLetterListed ==
  \A t \in Tasks : row[t].status = "dead_letter" => dlq[t] > 0

\* Without faults an in-flight marker belongs to a slot that is executing its
\* task: neither the finally clause of a duplicate nor a dropped delivery
\* leaves one behind.
MarkersAreOwned ==
  faults = 0 =>
    \A t \in inflight : \E w \in Slots :
      job[w] = t /\ pc[w] \in {"exec", "clear", "refused"}

\* Slots with t in hand that have not made a dead letter of it.
Deciding(t) == {w \in Holders(t) \cap Slots : mem[w].status # "dead_letter"}

\* For its submission and for every retry_task an id is in one place at most:
\* in a ready list, in the hands of a slot, or as an entry of queue:dlq, which
\* nothing takes out again.  No crash, failed execution, scheduler tick or
\* concurrent request adds a delivery or a dead letter.
DeliveriesAreAskedFor ==
  \A t \in Tasks :
    ReadyCopies(t) + Cardinality(Deciding(t)) + dlq[t] <= 1 + replays[t]

-----------------------------------------------------------------------------
(* Steps *)

\* A completed or cancelled row of which no process holds an older object.
QuietlySettled(t) ==
  /\ row[t].status \in Settled
  /\ \A p \in Holders(t) : mem[p] = NoRow \/ mem[p].status = row[t].status

\* Such a row is final: no request, late delivery or tick takes the task up
\* again, and its status stays.
SettledIsFinal ==
  [][\A t \in Tasks :
       QuietlySettled(t) => QuietlySettled(t)' /\ row'[t].status = row[t].status]_vars

-----------------------------------------------------------------------------
(* Liveness.  Requests come as they like and nothing is ever forced to      *)
(* fail.  Whoever has begun goes on: an event loop resumes every await, the *)
(* handler ends by wait_for, and PostgreSQL grants a row lock in the order  *)
(* of the requests, which is strong fairness of the save that waits.  The   *)
(* consume loops pop again and again, and the leader's ticks claim due ids  *)
(* in the order of their scores.                                            *)

Fairness ==
  /\ \A c \in Clients : SF_vars(ClientStep(c))
  /\ \A w \in Slots : SF_vars(SlotStep(w))
  /\ \A s \in Schedulers : WF_vars(TickStep(s))
  /\ \A p \in Sessions : WF_vars(SelectBeforeSave(p) \/ Commit(p))
  /\ WF_vars(\E w \in Slots : Dequeue(w))
  /\ \A t \in Tasks :
       SF_vars(\E s \in Schedulers, due \in SUBSET Tasks : t \in due /\ Claim(s, due))
  /\ WF_vars(\E s \in Schedulers, due \in SUBSET Tasks : Claim(s, due))

LiveSpec == Spec /\ Fairness

\* No request, delivery or tick waits for ever: the row locks that one
\* transaction holds over a handler's execution are always given back.
EverySessionEnds ==
  \A p \in Sessions : pc[p] # "idle" ~> pc[p] = "idle"

\* Only faults, and what the failure handler itself raises, can lose a started
\* execution: otherwise its row ends up decided, or its id comes into the
\* delayed set for another attempt.
ExecutionIsAccounted ==
  \A t \in Tasks : \A n \in 0 .. MaxFaults :
    (\E w \in Slots : Executes(w, t)) /\ faults = n
      ~> \/ row[t].status \in {"dead_letter"} \cup Settled
         \/ t \in scheduled
         \/ faults > n
         \/ \E w \in Slots : job[w] = t /\ pc[w] = "refused"

\* A marker never stays: the slot removes it, or a tick when the slot died, also
\* if it died between HSET and EXPIRE, so that no expiry helps.
MarkersEnd ==
  \A t \in Tasks : t \in inflight ~> t \notin inflight
=============================================================================

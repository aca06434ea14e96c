----------------------------- MODULE AtlasQueue -----------------------------
(***************************************************************************)
(* The task queue as a whole: API requests, worker slots and scheduler     *)
(* ticks that share the tasks table and the Redis structures.              *)
(*                                                                         *)
(* A process is whoever runs one block `async with container.session()`:   *)
(* a request handler, a slot of a worker pool (the processing of one id    *)
(* taken from a ready list), a scheduler tick.  pc names the await it is   *)
(* at.  One action is one await on PostgreSQL or Redis, with the           *)
(* synchronous code around it; whatever other processes do may come        *)
(* between two of them.                                                    *)
(*                                                                         *)
(* Faults (MaxFaults bounds them): an await raises, the process crashes,   *)
(* or a slot loses its database connection while its handler runs.  What   *)
(* the code itself raises for what it was given is no fault: SCHEDULED for *)
(* a scheduled task, a delay beyond the calendar, a result or a message    *)
(* that PostgreSQL cannot store.                                           *)
(***************************************************************************)
EXTENDS RedisQueue, SqlSession

CONSTANTS
  Clients,      \* concurrent API requests
  Slots,        \* concurrent executions, over all workers
  Schedulers,   \* processes that believe they lead
  NoTask,
  StartTimes,   \* scheduled_at of submissions: "now" (absent or past), "future"
  MaxReplays,   \* bound: retry_task requests per task
  MaxFaults     \* bound: faults

ASSUME ProcessAssumption ==
  /\ Sessions = Clients \cup Slots \cup Schedulers
  /\ Clients \cap Slots = {}
  /\ Clients \cap Schedulers = {}
  /\ Slots \cap Schedulers = {}
  /\ NoTask \notin Tasks
  /\ StartTimes \subseteq {"now", "future"}
  /\ MaxReplays \in Nat
  /\ MaxFaults \in Nat

ASSUME FinitelyMany == IsFiniteSet(Clients) /\ IsFiniteSet(Slots)

VARIABLES
  pc,       \* the await each process is at
  job,      \* the task of each request and slot
  batch,    \* ids a tick has yet to look at
  issued,   \* ids that TaskId.generate has returned
  replays,  \* retry_task requests so far
  faults    \* faults so far

procVars == <<pc, job, batch, issued, replays, faults>>

vars == <<redisVars, sqlVars, procVars>>

SavePoints == {"cancelSave", "retrySave", "dropSave", "start"}

Awaits == SavePoints \cup
  {"idle", "enqueue", "raise", "cancelMark", "retryPush", "load", "check", "unflag",
   "mark", "exec", "clear", "refused", "lost", "release", "inspect", "commit"}

TypeOK ==
  /\ RedisTypeOK
  /\ SqlTypeOK
  /\ pc \in [Sessions -> Awaits]
  /\ job \in [Sessions -> Tasks \cup {NoTask}]
  /\ batch \in [Schedulers -> SUBSET Tasks]
  /\ issued \in SUBSET Tasks
  /\ replays \in [Tasks -> Nat]
  /\ faults \in Nat

Init ==
  /\ RedisInit
  /\ SqlInit
  /\ pc = [p \in Sessions |-> "idle"]
  /\ job = [p \in Sessions |-> NoTask]
  /\ batch = [s \in Schedulers |-> {}]
  /\ issued = {}
  /\ replays = [t \in Tasks |-> 0]
  /\ faults = 0

-----------------------------------------------------------------------------
(* Shorthands for the frames of the actions. *)

Goto(p, await) == pc' = [pc EXCEPT ![p] = await]

At(p, await) == pc[p] = await

\* The process takes up task t, or none.
Take(p, await, t) ==
  /\ Goto(p, await)
  /\ job' = [job EXCEPT ![p] = t]

KeepCounts == UNCHANGED <<issued, replays, faults>>

\* p moves on with the task it has.
Proceed(p, await) ==
  /\ Goto(p, await)
  /\ UNCHANGED <<job, batch>>
  /\ KeepCounts

Fault ==
  /\ faults < MaxFaults
  /\ faults' = faults + 1
  /\ UNCHANGED <<issued, replays>>

-----------------------------------------------------------------------------
(* QueueManager.submit *)

SubmitSave(c, t, start) ==
  /\ At(c, "idle")
  /\ t \notin issued
  /\ issued' = issued \cup {t}
  /\ Insert(c, t, Created(start))
  /\ Take(c, "enqueue", t)
  /\ UNCHANGED <<redisVars, batch, replays, faults>>

\* _enqueue of a task that starts now, or whose start time has come.
EnqueueNow(c) ==
  /\ At(c, "enqueue")
  /\ EnqueueReady(job[c])
  /\ SaveAgain(c, job[c], WithStatus(mem[c], "queued"))
  /\ Proceed(c, "commit")
  /\ UNCHANGED <<scheduled, dlq, cancelPending, inflight>>

\* _enqueue of a task whose start time is ahead: the transition after the
\* ZADD decides between the rest of _enqueue and the except branch.
EnqueueLater(c) ==
  /\ At(c, "enqueue")
  /\ mem[c].status = "scheduled"
  /\ EnqueueScheduled(job[c])
  /\ IF CanTransition(mem[c].status, "scheduled")
     THEN /\ SaveAgain(c, job[c], WithStatus(mem[c], "scheduled"))
          /\ Proceed(c, "commit")
     ELSE /\ SaveAgain(c, job[c], WithStatus(mem[c], "enqueue_failed"))
          /\ Proceed(c, "raise")
  /\ UNCHANGED <<ready, dlq, cancelPending, inflight>>

\* The Redis call of _enqueue raises, having been applied or not.
EnqueueFails(c) ==
  /\ At(c, "enqueue")
  /\ Fault
  /\ \/ UNCHANGED <<ready, scheduled>>
     \/ EnqueueReady(job[c]) /\ UNCHANGED scheduled
     \/ /\ mem[c].status = "scheduled"
        /\ EnqueueScheduled(job[c])
        /\ UNCHANGED ready
  /\ SaveAgain(c, job[c], WithStatus(mem[c], "enqueue_failed"))
  /\ Goto(c, "raise")
  /\ UNCHANGED <<dlq, cancelPending, inflight, job, batch>>

\* Mutant: Container.session() commits in the except branch.
RaiseCommits(p) ==
  /\ At(p, "raise")
  /\ CommitSession(p)
  /\ Take(p, "idle", NoTask)
  /\ KeepCounts
  /\ UNCHANGED <<redisVars, batch>>

\* The exception of a request or of a delivery reaches Container.session().
Raise(p) ==
  /\ At(p, "raise")
  /\ RollbackSession(p)
  /\ Take(p, "idle", NoTask)
  /\ KeepCounts
  /\ UNCHANGED <<redisVars, batch>>

-----------------------------------------------------------------------------
(* CancellationService.cancel *)

CancelLoad(c, t) ==
  /\ At(c, "idle")
  /\ Exists(t)
  /\ row[t].status \notin {"completed", "cancelled", "dead_letter"}
  /\ Load(c, t)
  /\ Take(c, "cancelMark", t)
  /\ KeepCounts
  /\ UNCHANGED <<redisVars, batch>>

CancelMark(c) ==
  /\ At(c, "cancelMark")
  /\ cancelPending' = cancelPending \cup {job[c]}
  /\ scheduled' = IF mem[c].status = "scheduled" THEN scheduled \ {job[c]} ELSE scheduled
  /\ Proceed(c, IF CanTransition(mem[c].status, "cancelled") THEN "cancelSave" ELSE "raise")
  /\ UNCHANGED <<ready, dlq, inflight, sqlVars>>

CancelSave(c) ==
  /\ At(c, "cancelSave")
  /\ FirstSave(c, job[c], WithStatus(mem[c], "cancelled"))
  /\ Proceed(c, "commit")
  /\ UNCHANGED redisVars

-----------------------------------------------------------------------------
(* QueueManager.retry_task *)

RetryLoad(c, t) ==
  /\ At(c, "idle")
  /\ row[t].status \in {"dead_letter", "failed"}
  /\ replays[t] < MaxReplays
  /\ replays' = [replays EXCEPT ![t] = @ + 1]
  /\ Load(c, t)
  /\ Take(c, "retryPush", t)
  /\ UNCHANGED <<redisVars, batch, issued, faults>>

RetryPush(c) ==
  /\ At(c, "retryPush")
  /\ EnqueueReady(job[c])
  /\ Proceed(c, "retrySave")
  /\ UNCHANGED <<scheduled, dlq, cancelPending, inflight, sqlVars>>

\* Mutant: the id is pushed before and after the save.
RetrySavePushes(c) ==
  /\ At(c, "retrySave")
  /\ FirstSave(c, job[c], [status |-> "queued", attempts |-> 0])
  /\ EnqueueReady(job[c])
  /\ Proceed(c, "commit")
  /\ UNCHANGED <<scheduled, dlq, cancelPending, inflight>>

RetrySave(c) ==
  /\ At(c, "retrySave")
  /\ FirstSave(c, job[c], [status |-> "queued", attempts |-> 0])
  /\ Proceed(c, "commit")
  /\ UNCHANGED redisVars

-----------------------------------------------------------------------------
(* A slot of WorkerPool: _consume_loop takes an id, _process_task loads it *)
(* and calls TaskExecutorService.execute_task.                             *)

Dequeue(w) ==
  /\ At(w, "idle")
  /\ \E t \in Tasks : DequeueReady(t) /\ Take(w, "load", t)
  /\ KeepCounts
  /\ UNCHANGED <<scheduled, dlq, cancelPending, inflight, sqlVars, batch>>

\* Mutant: the status of the row is not tested.
LoadTaskUnchecked(w) ==
  /\ At(w, "load")
  /\ Exists(job[w])
  /\ Load(w, job[w])
  /\ Take(w, "check", job[w])
  /\ KeepCounts
  /\ UNCHANGED <<redisVars, batch>>

\* An id whose row is not there or not queued is dropped.
LoadTask(w) ==
  /\ At(w, "load")
  /\ IF row[job[w]].status = "queued"
     THEN /\ Load(w, job[w])
          /\ Take(w, "check", job[w])
     ELSE /\ Take(w, "idle", NoTask)
          /\ UNCHANGED sqlVars
  /\ KeepCounts
  /\ UNCHANGED <<redisVars, batch>>

CheckCancelled(w) ==
  /\ At(w, "check")
  /\ Proceed(w, IF job[w] \in cancelPending THEN "dropSave" ELSE "start")
  /\ UNCHANGED <<redisVars, sqlVars>>

CancelDelivered(w) ==
  /\ At(w, "dropSave")
  /\ FirstSave(w, job[w], WithStatus(mem[w], "cancelled"))
  /\ Proceed(w, "unflag")
  /\ UNCHANGED redisVars

ClearCancelled(w) ==
  /\ At(w, "unflag")
  /\ cancelPending' = cancelPending \ {job[w]}
  /\ Proceed(w, "commit")
  /\ UNCHANGED <<ready, scheduled, dlq, inflight, sqlVars>>

Start(w) ==
  /\ At(w, "start")
  /\ FirstSave(w, job[w], WithStatus(mem[w], "running"))
  /\ Proceed(w, "mark")
  /\ UNCHANGED redisVars

MarkInflight(w) ==
  /\ At(w, "mark")
  /\ inflight' = inflight \cup {job[w]}
  /\ Proceed(w, "exec")
  /\ UNCHANGED <<ready, scheduled, dlq, cancelPending, sqlVars>>

\* Mutant: the result is not saved.
CompleteUnsaved(w) ==
  /\ At(w, "exec")
  /\ Proceed(w, "clear")
  /\ UNCHANGED <<redisVars, sqlVars>>

\* The handler returns within timeout_seconds.
Complete(w) ==
  /\ At(w, "exec")
  /\ SaveAgain(w, job[w], WithStatus(mem[w], "completed"))
  /\ Proceed(w, "clear")
  /\ UNCHANGED redisVars

\* Mutant: the ZADD of a retry is forgotten.
PushFailedNoRetry(t, r) ==
  /\ IF r.status = "queued" THEN UNCHANGED dlq ELSE EnqueueDlq(t)
  /\ UNCHANGED <<ready, scheduled, cancelPending>>

\* Mutant: every failed task goes to the delayed set.
PushFailedDelayed(t, r) ==
  /\ EnqueueScheduled(t)
  /\ UNCHANGED <<ready, dlq, cancelPending>>

\* The Redis call of handle_execution_failure, before its save.
PushFailed(t, r) ==
  /\ IF r.status = "queued"
     THEN EnqueueScheduled(t) /\ UNCHANGED dlq
     ELSE EnqueueDlq(t) /\ UNCHANGED scheduled
  /\ UNCHANGED <<ready, cancelPending>>

\* The handler raises or wait_for times out.
Fail(w) ==
  /\ At(w, "exec")
  /\ PushFailed(job[w], AfterFailure(job[w], mem[w]))
  /\ SaveAgain(w, job[w], AfterFailure(job[w], mem[w]))
  /\ Proceed(w, "clear")
  /\ UNCHANGED inflight

\* The execution ends in an exception that the failure handler lets through:
\* the delay of a retry is out of range (Backoff); the result cannot be
\* stored, and the handler refuses the completed object; or the message
\* cannot be stored, which the save after the push finds out.
FailRaises(w) ==
  LET failed == AfterFailure(job[w], mem[w])
  IN  /\ At(w, "exec")
      /\ \/ /\ failed.status = "queued"
            /\ mem' = [mem EXCEPT ![w] = failed]
            /\ UNCHANGED <<row, lock, draft, fetched, ready, scheduled, dlq, cancelPending>>
         \/ /\ SaveRaises(w, WithStatus(failed, "completed"))
            /\ UNCHANGED <<ready, scheduled, dlq, cancelPending>>
         \/ /\ PushFailed(job[w], failed)
            /\ SaveRaises(w, failed)
      /\ Proceed(w, "refused")
      /\ UNCHANGED inflight

\* Mutant: the marker is left to its expiry.
ClearInflightSkipped(w) ==
  /\ pc[w] \in {"clear", "refused"}
  /\ Proceed(w, IF At(w, "clear") THEN "commit" ELSE "raise")
  /\ UNCHANGED <<redisVars, sqlVars>>

\* The finally clause of execute_task; an exception goes on from there.
ClearInflight(w) ==
  /\ pc[w] \in {"clear", "refused"}
  /\ inflight' = inflight \ {job[w]}
  /\ Proceed(w, IF At(w, "clear") THEN "commit" ELSE "raise")
  /\ UNCHANGED <<ready, scheduled, dlq, cancelPending, sqlVars>>

-----------------------------------------------------------------------------
(* A scheduler tick: process_due_tasks, then InflightReconciler.reconcile,  *)
(* then reconcile_enqueue_failed, in one session.                           *)
(* The branches of the tick that save a task test for a status that no      *)
(* commit leaves behind (see SettledStatuses); each of them, a load, a      *)
(* push and a save, is kept in the one step that tests the status.          *)

TickSave(t, s, r) ==
  /\ lock[t] \in {NoSession, s}
  /\ lock' = [lock EXCEPT ![t] = s]
  /\ draft' = [draft EXCEPT ![t] = r]
  /\ UNCHANGED <<row, mem, fetched>>

Claim(s, due) ==
  /\ At(s, "idle")
  /\ ClaimDue(due)
  /\ batch' = [batch EXCEPT ![s] = due]
  /\ Goto(s, "release")
  /\ KeepCounts
  /\ UNCHANGED <<ready, dlq, cancelPending, inflight, sqlVars, job>>

ReleaseDue(s, t) ==
  /\ At(s, "release")
  /\ t \in batch[s]
  /\ batch' = [batch EXCEPT ![s] = @ \ {t}]
  /\ IF View(s, t).status = "scheduled"
     THEN EnqueueReady(t) /\ TickSave(t, s, WithStatus(View(s, t), "queued"))
     ELSE UNCHANGED <<ready, sqlVars>>
  /\ KeepCounts
  /\ UNCHANGED <<scheduled, dlq, cancelPending, inflight, pc, job>>

ListInflight(s) ==
  /\ At(s, "release")
  /\ batch[s] = {}
  /\ batch' = [batch EXCEPT ![s] = inflight]
  /\ Goto(s, "inspect")
  /\ KeepCounts
  /\ UNCHANGED <<redisVars, sqlVars, job>>

\* Mutant: the reconciler requeues what it finds queued.
InspectRequeues(s, t) ==
  /\ At(s, "inspect")
  /\ t \in batch[s]
  /\ batch' = [batch EXCEPT ![s] = @ \ {t}]
  /\ inflight' = inflight \ {t}
  /\ IF View(s, t).status = "queued" THEN EnqueueReady(t) ELSE UNCHANGED ready
  /\ KeepCounts
  /\ UNCHANGED <<scheduled, dlq, cancelPending, sqlVars, pc, job>>

\* Mutant: a marker whose task is not running is left to its expiry.
InspectRunning(s, t) ==
  /\ At(s, "inspect")
  /\ t \in batch[s]
  /\ batch' = [batch EXCEPT ![s] = @ \ {t}]
  /\ KeepCounts
  /\ UNCHANGED <<redisVars, sqlVars, pc, job>>

\* handle_timeout of a running task whose time is up (late) removes the
\* marker, as does the branch of a task that is not running.  A delay out of
\* range would end the tick here, in a branch that is never taken.
InspectInflight(s, t) ==
  /\ At(s, "inspect")
  /\ t \in batch[s]
  /\ batch' = [batch EXCEPT ![s] = @ \ {t}]
  /\ \E late \in BOOLEAN :
       IF View(s, t).status # "running"
       THEN /\ inflight' = inflight \ {t}
            /\ UNCHANGED <<ready, scheduled, dlq, cancelPending, sqlVars>>
       ELSE IF late
       THEN /\ PushFailed(t, AfterFailure(t, View(s, t)))
            /\ TickSave(t, s, AfterFailure(t, View(s, t)))
            /\ inflight' = inflight \ {t}
       ELSE UNCHANGED <<redisVars, sqlVars>>
  /\ KeepCounts
  /\ UNCHANGED <<pc, job>>

EnqueueFailedRows(s) == {t \in Tasks : View(s, t).status = "enqueue_failed"}

\* reconcile_enqueue_failed: _enqueue of each row it lists.
SweepEnqueueFailed(s) ==
  /\ At(s, "inspect")
  /\ batch[s] = {}
  /\ IF EnqueueFailedRows(s) = {}
     THEN /\ Goto(s, "commit")
          /\ UNCHANGED <<redisVars, sqlVars>>
     ELSE \E t \in EnqueueFailedRows(s), ahead \in BOOLEAN :
          /\ TickSave(t, s, WithStatus(View(s, t), IF ahead THEN "scheduled" ELSE "queued"))
          /\ IF ahead
             THEN EnqueueScheduled(t) /\ UNCHANGED ready
             ELSE EnqueueReady(t) /\ UNCHANGED scheduled
          /\ UNCHANGED <<dlq, cancelPending, inflight, pc>>
  /\ KeepCounts
  /\ UNCHANGED <<job, batch>>

-----------------------------------------------------------------------------
(* Container.session() *)

\* The SELECT of the save() that p is about to make.
SelectBeforeSave(p) ==
  /\ pc[p] \in SavePoints
  /\ Fetch(p, job[p])
  /\ UNCHANGED <<redisVars, procVars>>

Commit(p) ==
  /\ At(p, "commit")
  /\ CommitSession(p)
  /\ Take(p, "idle", NoTask)
  /\ KeepCounts
  /\ UNCHANGED <<redisVars, batch>>

\* Mutant: Container.session() does not roll back.
AbortLeavesOpen(p) ==
  /\ ~ At(p, "idle")
  /\ Fault
  /\ UNCHANGED <<row, lock, draft>>
  /\ ForgetObjects(p)
  /\ Take(p, "idle", NoTask)
  /\ batch' = [s \in Schedulers |-> IF s = p THEN {} ELSE batch[s]]
  /\ UNCHANGED redisVars

\* An await raises, or the process dies: the transaction is rolled back and
\* a tick forgets its batch.  While a handler runs, or after it, the finally
\* clause removes the marker, unless the process is gone.
Abort(p) ==
  /\ ~ At(p, "idle")
  /\ Fault
  /\ RollbackSession(p)
  /\ Take(p, "idle", NoTask)
  /\ batch' = [s \in Schedulers |-> IF s = p THEN {} ELSE batch[s]]
  /\ \/ UNCHANGED inflight
     \/ /\ pc[p] \in {"exec", "clear", "refused", "lost"}
        /\ inflight' = inflight \ {job[p]}
  /\ UNCHANGED <<ready, scheduled, dlq, cancelPending>>

\* The database connection breaks while the handler runs: the handler goes on.
DropConnection(w) ==
  /\ At(w, "exec")
  /\ Fault
  /\ LoseTransaction(w)
  /\ Goto(w, "lost")
  /\ UNCHANGED <<redisVars, job, batch>>

\* The handler of a lost connection ends.  A result cannot be saved, and the
\* failure handler refuses the completed object; a failure is pushed to Redis
\* before its save raises.
EndLost(w) ==
  /\ At(w, "lost")
  /\ \/ UNCHANGED <<ready, scheduled, dlq, cancelPending>>
     \/ PushFailed(job[w], AfterFailure(job[w], mem[w]))
  /\ inflight' = inflight \ {job[w]}
  /\ RollbackSession(w)
  /\ Take(w, "idle", NoTask)
  /\ KeepCounts
  /\ UNCHANGED batch

\* EXPIRE on the marker of an execution that is over: the marker outlives
\* timeout_seconds, and the handler does not.
ExpireInflight(t) ==
  /\ t \in inflight
  /\ \A w \in Slots : job[w] = t => pc[w] \notin {"exec", "clear", "refused", "lost"}
  /\ inflight' = inflight \ {t}
  /\ UNCHANGED <<ready, scheduled, dlq, cancelPending, sqlVars, procVars>>

-----------------------------------------------------------------------------

\* The rest of a request that has begun.
ClientStep(c) ==
  \/ EnqueueNow(c) \/ EnqueueLater(c) \/ Raise(c)
  \/ CancelMark(c) \/ CancelSave(c)
  \/ RetryPush(c) \/ RetrySave(c)

\* The rest of a delivery.
SlotStep(w) ==
  \/ LoadTask(w) \/ CheckCancelled(w)
  \/ CancelDelivered(w) \/ ClearCancelled(w)
  \/ Start(w) \/ MarkInflight(w) \/ Complete(w) \/ Fail(w) \/ FailRaises(w)
  \/ ClearInflight(w) \/ Raise(w) \/ EndLost(w)

\* The rest of a tick.
TickStep(s) ==
  \/ \E t \in Tasks : ReleaseDue(s, t) \/ InspectInflight(s, t)
  \/ ListInflight(s) \/ SweepEnqueueFailed(s)

Request(c) ==
  \E t \in Tasks :
    \/ \E start \in StartTimes : SubmitSave(c, t, start)
    \/ CancelLoad(c, t)
    \/ RetryLoad(c, t)

Next ==
  \/ \E c \in Clients : Request(c) \/ ClientStep(c) \/ EnqueueFails(c)
  \/ \E w \in Slots : Dequeue(w) \/ SlotStep(w) \/ DropConnection(w)
  \/ \E s \in Schedulers : TickStep(s) \/ \E due \in SUBSET Tasks : Claim(s, due)
  \/ \E p \in Sessions : SelectBeforeSave(p) \/ Commit(p) \/ Abort(p)
  \/ \E t \in Tasks : ExpireInflight(t)

Spec == Init /\ [][Next]_vars
=============================================================================

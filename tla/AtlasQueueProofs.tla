-------------------------- MODULE AtlasQueueProofs --------------------------
(***************************************************************************)
(* Theorems about the specification of AtlasQueue.tla, for every set of    *)
(* tasks, requests, slots and ticks and every value of the bounds.         *)
(*                                                                         *)
(* The proof of the inductive invariant IInv goes store by store: lemmas   *)
(* say what the operators of RedisQueue and SqlSession do to the part of   *)
(* the state they own, and each conjunct of IInv is then preserved by each *)
(* action.                                                                 *)
(*                                                                         *)
(* Two further parts build on it.  No id is delivered, or listed as a dead *)
(* letter, more often than it was asked for: an id goes from the request   *)
(* that will push it to a ready list, to a slot, and to the dead letters,  *)
(* and the sum over these places (Entitled) grows only with a request.     *)
(* And AtlasQueue implements TaskRows: the committed rows, seen without    *)
(* the awaits, Redis and the ticks, follow the abstract specification.     *)
(***************************************************************************)
EXTENDS AtlasQueueInv, FiniteSetTheorems, TLAPS

USE DEF At, Goto, Take, Proceed, KeepCounts, Fault

-----------------------------------------------------------------------------
(* Rows *)

\* Changing the status of a row gives a row.
LEMMA StatusTyped ==
  ASSUME NEW r \in Row, NEW s \in Statuses
  PROVE  WithStatus(r, s) \in Row
  BY DEF WithStatus, Row

\* A submitted task and a task after a failure are rows, and where they stand.
LEMMA CreatedTyped ==
  ASSUME NEW start
  PROVE  /\ Created(start) \in Row
         /\ Created(start).status \in {"pending", "scheduled"}
  BY DEF Created, Row, Statuses

LEMMA FailureTyped ==
  ASSUME NEW t \in Tasks, NEW r \in Row
  PROVE  /\ AfterFailure(t, r) \in Row
         /\ AfterFailure(t, r).status \in {"queued", "dead_letter"}
  <1> DEFINE counted == [r EXCEPT !.attempts = @ + 1]
  <1>1. counted \in Row
    BY DEF Row
  <1>2. AfterFailure(t, r) =
          WithStatus(counted, IF CanRetry(t, counted) THEN "queued" ELSE "dead_letter")
    BY DEF AfterFailure
  <1> QED
    BY <1>1, <1>2 DEF WithStatus, Row, Statuses

-----------------------------------------------------------------------------
(* The Redis structures *)

\* enqueue_ready clamps the priority to a level that exists.
LEMMA LevelTyped ==
  ASSUME NEW t \in Tasks
  PROVE  Level(t) \in Levels
  BY PriorityAssumption DEF Level, Levels

LEMMA EnqueueReadyTyped ==
  ASSUME RedisTypeOK, NEW t \in Tasks, EnqueueReady(t)
  PROVE  ready' \in [Levels -> Seq(Tasks)]
  BY LevelTyped DEF RedisTypeOK, EnqueueReady

LEMMA DequeueReadyTyped ==
  ASSUME RedisTypeOK, NEW t \in Tasks, DequeueReady(t)
  PROVE  ready' \in [Levels -> Seq(Tasks)]
  <1>1. PICK l \in Levels : ready[l] # <<>> /\ ready' = [ready EXCEPT ![l] = Tail(@)]
    BY DEF DequeueReady
  <1>2. Tail(ready[l]) \in Seq(Tasks)
    BY <1>1 DEF RedisTypeOK
  <1> QED
    BY <1>1, <1>2 DEF RedisTypeOK

\* The push of a failure touches the delayed set or the dead-letter list.
LEMMA PushFailedTyped ==
  ASSUME RedisTypeOK, NEW t \in Tasks, NEW r, PushFailed(t, r), inflight' \in SUBSET Tasks
  PROVE  RedisTypeOK'
  <1>1. CASE r.status = "queued"
    BY <1>1 DEF PushFailed, RedisTypeOK, EnqueueScheduled
  <1>2. CASE r.status # "queued"
    BY <1>2 DEF PushFailed, RedisTypeOK, EnqueueDlq
  <1> QED
    BY <1>1, <1>2

-----------------------------------------------------------------------------
(* The sessions *)

LEMMA ViewTyped ==
  ASSUME SqlTypeOK, NEW p \in Sessions, NEW t \in Tasks
  PROVE  View(p, t) \in Row
  BY DEF View, SqlTypeOK

LEMMA NoRowTyped == NoRow \in Row
  BY DEF NoRow, Row

\* An UPDATE of some columns mixes two rows column by column.
LEMMA UpdatedTyped ==
  ASSUME NEW current \in Row, NEW seen \in Row, NEW r \in Row
  PROVE  /\ Updated(current, seen, r) \in Row
         /\ Updated(current, seen, r).status \in {r.status, current.status}
         /\ r.status # seen.status => Updated(current, seen, r).status = r.status
  BY DEF Updated, Row

\* Reading and saving keep the types.
LEMMA ReadTyped ==
  ASSUME SqlTypeOK, NEW p \in Sessions, NEW t \in Tasks, Load(p, t) \/ Fetch(p, t)
  PROVE  SqlTypeOK'
  BY ViewTyped DEF Load, Fetch, SqlTypeOK

LEMMA SaveTyped ==
  ASSUME SqlTypeOK, NEW p \in Sessions, NEW t \in Tasks, NEW r \in Row,
         Insert(p, t, r) \/ FirstSave(p, t, r) \/ SaveAgain(p, t, r) \/ TickSave(t, p, r)
  PROVE  SqlTypeOK'
  <1>1. CASE Insert(p, t, r)
    BY <1>1 DEF Insert, SqlTypeOK
  <1>2. CASE FirstSave(p, t, r)
    <2>1. Updated(row[t], fetched[p], r) \in Row
      BY UpdatedTyped DEF SqlTypeOK
    <2> QED
      BY <1>2, <2>1, NoRowTyped DEF FirstSave, SqlTypeOK
  <1>3. CASE SaveAgain(p, t, r)
    BY <1>3 DEF SaveAgain, SqlTypeOK
  <1>4. CASE TickSave(t, p, r)
    BY <1>4 DEF TickSave, SqlTypeOK
  <1> QED
    BY <1>1, <1>2, <1>3, <1>4

\* So does the end of a transaction.
LEMMA EndTyped ==
  ASSUME SqlTypeOK, NEW p \in Sessions,
         CommitSession(p) \/ RollbackSession(p) \/ LoseTransaction(p)
  PROVE  SqlTypeOK'
  <1>1. ReleaseLocks(p)
    BY DEF CommitSession, RollbackSession, LoseTransaction
  <1>2. /\ lock' \in [Tasks -> Sessions \cup {NoSession}]
        /\ draft' \in [Tasks -> Row]
    BY <1>1, NoRowTyped DEF ReleaseLocks, SqlTypeOK
  <1>3. row' \in [Tasks -> Row]
    BY ViewTyped DEF CommitSession, RollbackSession, LoseTransaction, SqlTypeOK
  <1>4. /\ mem' \in [Sessions -> Row]
        /\ fetched' \in [Sessions -> Row]
    BY NoRowTyped DEF CommitSession, RollbackSession, LoseTransaction, ForgetObjects, SqlTypeOK
  <1> QED
    BY <1>2, <1>3, <1>4 DEF SqlTypeOK

-----------------------------------------------------------------------------
(* Type correctness *)

\* A busy request or slot has a task, and an object that is a row.
LEMMA BusyHasTask ==
  ASSUME TypeOK, Roles, NEW p \in Clients \cup Slots, pc[p] # "idle"
  PROVE  p \in Sessions /\ job[p] \in Tasks /\ mem[p] \in Row
  BY ProcessAssumption DEF TypeOK, Roles, SqlTypeOK

\* What FailRaises does, store by store: the object is the failed or the
\* completed one, the failure was pushed if it has come to that, and the
\* transaction is as it was or gone.
LEMMA FailRaisesParts ==
  ASSUME TypeOK, Roles, NEW w \in Slots, FailRaises(w)
  PROVE  /\ w \in Sessions /\ job[w] \in Tasks /\ pc[w] = "exec"
         /\ pc' = [pc EXCEPT ![w] = "refused"]
         /\ UNCHANGED <<job, batch, issued, replays, faults, row, fetched,
                        ready, cancelPending, inflight>>
         /\ \E r \in Row :
              /\ mem' = [mem EXCEPT ![w] = r]
              /\ r.status # "none"
              /\ \/ r.status # "dead_letter" /\ UNCHANGED <<scheduled, dlq>>
                 \/ r.status \in {"queued", "dead_letter"} /\ PushFailed(job[w], r)
         /\ UNCHANGED <<lock, draft>> \/ ReleaseLocks(w)
  <1> DEFINE failed == AfterFailure(job[w], mem[w])
             done == WithStatus(failed, "completed")
  <1>1. w \in Sessions /\ job[w] \in Tasks /\ mem[w] \in Row /\ pc[w] = "exec"
    BY BusyHasTask DEF FailRaises
  <1>2. failed \in Row /\ failed.status \in {"queued", "dead_letter"}
    BY <1>1, FailureTyped
  <1>3. done \in Row /\ done.status = "completed"
    BY <1>2, StatusTyped DEF WithStatus, Row, Statuses
  <1>4. /\ pc' = [pc EXCEPT ![w] = "refused"]
        /\ UNCHANGED <<job, batch, issued, replays, faults, inflight>>
    BY DEF FailRaises
  <1>5. /\ UNCHANGED <<row, fetched, ready, cancelPending>>
        /\ UNCHANGED <<lock, draft>> \/ ReleaseLocks(w)
    BY DEF FailRaises, SaveRaises, PushFailed
  <1>6. \/ /\ failed.status = "queued"
           /\ mem' = [mem EXCEPT ![w] = failed] /\ UNCHANGED <<scheduled, dlq>>
        \/ mem' = [mem EXCEPT ![w] = done] /\ UNCHANGED <<scheduled, dlq>>
        \/ mem' = [mem EXCEPT ![w] = failed] /\ PushFailed(job[w], failed)
    BY DEF FailRaises, SaveRaises
  <1> HIDE DEF failed, done
  <1>7. \E r \in Row :
          /\ mem' = [mem EXCEPT ![w] = r]
          /\ r.status # "none"
          /\ \/ r.status # "dead_letter" /\ UNCHANGED <<scheduled, dlq>>
             \/ r.status \in {"queued", "dead_letter"} /\ PushFailed(job[w], r)
    BY <1>2, <1>3, <1>6
  <1> QED
    BY <1>1, <1>4, <1>5, <1>7

\* The variables of the processes themselves.
ProcTypeOK ==
  /\ pc \in [Sessions -> Awaits]
  /\ job \in [Sessions -> Tasks \cup {NoTask}]
  /\ batch \in [Schedulers -> SUBSET Tasks]
  /\ issued \in SUBSET Tasks
  /\ replays \in [Tasks -> Nat]
  /\ faults \in Nat

\* Every step keeps the types of the process variables.
LEMMA ProcTypesPreserved ==
  ASSUME TypeOK, Roles, [Next]_vars
  PROVE  ProcTypeOK'
  <1> USE ProcessAssumption
  <1>t. ProcTypeOK /\ RedisTypeOK
    BY DEF TypeOK, ProcTypeOK
  <1>1. ASSUME NEW c \in Clients, NEW t \in Tasks, NEW start \in StartTimes, SubmitSave(c, t, start) PROVE ProcTypeOK'
    BY <1>t, <1>1 DEF SubmitSave, ProcTypeOK, Awaits, SavePoints
  <1>2. ASSUME NEW c \in Clients, EnqueueNow(c) PROVE ProcTypeOK'
    BY <1>t, <1>2 DEF EnqueueNow, ProcTypeOK, Awaits, SavePoints
  <1>3. ASSUME NEW c \in Clients, EnqueueLater(c) PROVE ProcTypeOK'
    BY <1>t, <1>3 DEF EnqueueLater, ProcTypeOK, Awaits, SavePoints
  <1>4. ASSUME NEW c \in Clients, EnqueueFails(c) PROVE ProcTypeOK'
    BY <1>t, <1>4 DEF EnqueueFails, ProcTypeOK, Awaits, SavePoints
  <1>5. ASSUME NEW c \in Clients \cup Slots, Raise(c) PROVE ProcTypeOK'
    BY <1>t, <1>5 DEF Raise, ProcTypeOK, Awaits, SavePoints
  <1>6. ASSUME NEW c \in Clients, NEW t \in Tasks, CancelLoad(c, t) PROVE ProcTypeOK'
    BY <1>t, <1>6 DEF CancelLoad, ProcTypeOK, Awaits, SavePoints
  <1>7. ASSUME NEW c \in Clients, CancelMark(c) PROVE ProcTypeOK'
    BY <1>t, <1>7 DEF CancelMark, ProcTypeOK, Awaits, SavePoints
  <1>8. ASSUME NEW c \in Clients, CancelSave(c) PROVE ProcTypeOK'
    BY <1>t, <1>8 DEF CancelSave, ProcTypeOK, Awaits, SavePoints
  <1>9. ASSUME NEW c \in Clients, NEW t \in Tasks, RetryLoad(c, t) PROVE ProcTypeOK'
    BY <1>t, <1>9 DEF RetryLoad, ProcTypeOK, Awaits, SavePoints
  <1>10. ASSUME NEW c \in Clients, RetryPush(c) PROVE ProcTypeOK'
    BY <1>t, <1>10 DEF RetryPush, ProcTypeOK, Awaits, SavePoints
  <1>11. ASSUME NEW c \in Clients, RetrySave(c) PROVE ProcTypeOK'
    BY <1>t, <1>11 DEF RetrySave, ProcTypeOK, Awaits, SavePoints
  <1>12. ASSUME NEW w \in Slots, Dequeue(w) PROVE ProcTypeOK'
    BY <1>t, <1>12 DEF Dequeue, ProcTypeOK, Awaits, SavePoints
  <1>13. ASSUME NEW w \in Slots, LoadTask(w) PROVE ProcTypeOK'
    BY <1>t, <1>13 DEF LoadTask, ProcTypeOK, Awaits, SavePoints
  <1>14. ASSUME NEW w \in Slots, CheckCancelled(w) PROVE ProcTypeOK'
    BY <1>t, <1>14 DEF CheckCancelled, ProcTypeOK, Awaits, SavePoints
  <1>15. ASSUME NEW w \in Slots, CancelDelivered(w) PROVE ProcTypeOK'
    BY <1>t, <1>15 DEF CancelDelivered, ProcTypeOK, Awaits, SavePoints
  <1>16. ASSUME NEW w \in Slots, ClearCancelled(w) PROVE ProcTypeOK'
    BY <1>t, <1>16 DEF ClearCancelled, ProcTypeOK, Awaits, SavePoints
  <1>17. ASSUME NEW w \in Slots, Start(w) PROVE ProcTypeOK'
    BY <1>t, <1>17 DEF Start, ProcTypeOK, Awaits, SavePoints
  <1>18. ASSUME NEW w \in Slots, MarkInflight(w) PROVE ProcTypeOK'
    BY <1>t, <1>18 DEF MarkInflight, ProcTypeOK, Awaits, SavePoints
  <1>19. ASSUME NEW w \in Slots, Complete(w) PROVE ProcTypeOK'
    BY <1>t, <1>19 DEF Complete, ProcTypeOK, Awaits, SavePoints
  <1>20. ASSUME NEW w \in Slots, Fail(w) PROVE ProcTypeOK'
    BY <1>t, <1>20 DEF Fail, ProcTypeOK, Awaits, SavePoints
  <1>r. ASSUME NEW w \in Slots, FailRaises(w) PROVE ProcTypeOK'
    BY <1>t, <1>r, FailRaisesParts DEF ProcTypeOK, Awaits, SavePoints
  <1>21. ASSUME NEW w \in Slots, ClearInflight(w) PROVE ProcTypeOK'
    BY <1>t, <1>21 DEF ClearInflight, ProcTypeOK, Awaits, SavePoints
  <1>22. ASSUME NEW w \in Slots, DropConnection(w) PROVE ProcTypeOK'
    BY <1>t, <1>22 DEF DropConnection, ProcTypeOK, Awaits, SavePoints
  <1>23. ASSUME NEW w \in Slots, EndLost(w) PROVE ProcTypeOK'
    BY <1>t, <1>23 DEF EndLost, ProcTypeOK, Awaits, SavePoints
  <1>24. ASSUME NEW s \in Schedulers, NEW t \in Tasks, ReleaseDue(s, t) PROVE ProcTypeOK'
    BY <1>t, <1>24 DEF ReleaseDue, ProcTypeOK, Awaits, SavePoints
  <1>25. ASSUME NEW s \in Schedulers, NEW t \in Tasks, InspectInflight(s, t) PROVE ProcTypeOK'
    BY <1>t, <1>25 DEF InspectInflight, ProcTypeOK, Awaits, SavePoints
  <1>26. ASSUME NEW s \in Schedulers, ListInflight(s) PROVE ProcTypeOK'
    BY <1>t, <1>26 DEF ListInflight, ProcTypeOK, Awaits, RedisTypeOK
  <1>27. ASSUME NEW s \in Schedulers, SweepEnqueueFailed(s) PROVE ProcTypeOK'
    BY <1>t, <1>27 DEF SweepEnqueueFailed, ProcTypeOK, Awaits, SavePoints
  <1>28. ASSUME NEW s \in Schedulers, NEW due \in SUBSET Tasks, Claim(s, due) PROVE ProcTypeOK'
    BY <1>t, <1>28 DEF Claim, ProcTypeOK, Awaits, SavePoints
  <1>29. ASSUME NEW p \in Sessions, SelectBeforeSave(p) PROVE ProcTypeOK'
    BY <1>t, <1>29, BusyHasTask DEF SelectBeforeSave, ProcTypeOK, Awaits, SavePoints, procVars
  <1>30. ASSUME NEW p \in Sessions, Commit(p) PROVE ProcTypeOK'
    BY <1>t, <1>30 DEF Commit, ProcTypeOK, Awaits, SavePoints
  <1>31. ASSUME NEW p \in Sessions, Abort(p) PROVE ProcTypeOK'
    BY <1>t, <1>31 DEF Abort, ProcTypeOK, Awaits, SavePoints
  <1>32. ASSUME NEW t \in Tasks, ExpireInflight(t) PROVE ProcTypeOK'
    BY <1>t, <1>32, BusyHasTask DEF ExpireInflight, ProcTypeOK, Awaits, SavePoints, procVars
  <1>u. CASE UNCHANGED vars
    BY <1>t, <1>u DEF vars, procVars, ProcTypeOK
  <1> QED
    BY <1>u, <1>r, <1>1, <1>2, <1>3, <1>4, <1>5, <1>6, <1>7, <1>8, <1>9, <1>10, <1>11, <1>12, <1>13, <1>14, <1>15, <1>16, <1>17, <1>18, <1>19, <1>20, <1>21, <1>22, <1>23, <1>24, <1>25, <1>26, <1>27, <1>28, <1>29, <1>30, <1>31, <1>32
    DEF Next, ClientStep, SlotStep, TickStep, Request

\* Every step keeps the types of the rows and the sessions.
LEMMA SqlTypesPreserved ==
  ASSUME TypeOK, Roles, [Next]_vars
  PROVE  SqlTypeOK'
  <1> USE ProcessAssumption
  <1>t. SqlTypeOK
    BY DEF TypeOK
  <1>1. ASSUME NEW c \in Clients, NEW t \in Tasks, NEW start \in StartTimes, SubmitSave(c, t, start) PROVE SqlTypeOK'
    BY <1>t, <1>1, CreatedTyped, SaveTyped DEF SubmitSave
  <1>2. ASSUME NEW c \in Clients, EnqueueNow(c) PROVE SqlTypeOK'
    BY <1>t, <1>2, BusyHasTask, SaveTyped, StatusTyped DEF EnqueueNow, Statuses
  <1>3. ASSUME NEW c \in Clients, EnqueueLater(c) PROVE SqlTypeOK'
    BY <1>t, <1>3, BusyHasTask, SaveTyped, StatusTyped DEF EnqueueLater, Statuses
  <1>4. ASSUME NEW c \in Clients, EnqueueFails(c) PROVE SqlTypeOK'
    BY <1>t, <1>4, BusyHasTask, SaveTyped, StatusTyped DEF EnqueueFails, Statuses
  <1>5. ASSUME NEW c \in Clients, CancelSave(c) PROVE SqlTypeOK'
    BY <1>t, <1>5, BusyHasTask, SaveTyped, StatusTyped DEF CancelSave, Statuses
  <1>6. ASSUME NEW w \in Slots, CancelDelivered(w) PROVE SqlTypeOK'
    BY <1>t, <1>6, BusyHasTask, SaveTyped, StatusTyped DEF CancelDelivered, Statuses
  <1>7. ASSUME NEW w \in Slots, Start(w) PROVE SqlTypeOK'
    BY <1>t, <1>7, BusyHasTask, SaveTyped, StatusTyped DEF Start, Statuses
  <1>8. ASSUME NEW w \in Slots, Complete(w) PROVE SqlTypeOK'
    BY <1>t, <1>8, BusyHasTask, SaveTyped, StatusTyped DEF Complete, Statuses
  <1>9. ASSUME NEW c \in Clients, RetrySave(c) PROVE SqlTypeOK'
    BY <1>t, <1>9, BusyHasTask, SaveTyped DEF RetrySave, Row, Statuses
  <1>10. ASSUME NEW w \in Slots, Fail(w) PROVE SqlTypeOK'
    BY <1>t, <1>10, BusyHasTask, SaveTyped, FailureTyped DEF Fail
  <1>r. ASSUME NEW w \in Slots, FailRaises(w) PROVE SqlTypeOK'
    <2>1. PICK r \in Row : mem' = [mem EXCEPT ![w] = r]
      BY <1>r, FailRaisesParts
    <2>2. row' = row /\ fetched' = fetched /\ (UNCHANGED <<lock, draft>> \/ ReleaseLocks(w))
      BY <1>r, FailRaisesParts
    <2> QED
      BY <1>t, <2>1, <2>2, NoRowTyped DEF ReleaseLocks, SqlTypeOK
  <1>11. ASSUME NEW c \in Clients, NEW t \in Tasks, CancelLoad(c, t) PROVE SqlTypeOK'
    BY <1>t, <1>11, ReadTyped DEF CancelLoad
  <1>12. ASSUME NEW c \in Clients, NEW t \in Tasks, RetryLoad(c, t) PROVE SqlTypeOK'
    BY <1>t, <1>12, ReadTyped DEF RetryLoad
  <1>13. ASSUME NEW w \in Slots, LoadTask(w) PROVE SqlTypeOK'
    BY <1>t, <1>13, BusyHasTask, ReadTyped DEF LoadTask, sqlVars, SqlTypeOK
  <1>14. ASSUME NEW p \in Sessions, SelectBeforeSave(p) PROVE SqlTypeOK'
    BY <1>t, <1>14, BusyHasTask, ReadTyped DEF SelectBeforeSave, SavePoints, Roles, TickAwaits
  <1>15. ASSUME NEW c \in Clients \cup Slots, Raise(c) PROVE SqlTypeOK'
    BY <1>t, <1>15, EndTyped DEF Raise
  <1>16. ASSUME NEW p \in Sessions, Commit(p) PROVE SqlTypeOK'
    BY <1>t, <1>16, EndTyped DEF Commit
  <1>17. ASSUME NEW p \in Sessions, Abort(p) PROVE SqlTypeOK'
    BY <1>t, <1>17, EndTyped DEF Abort
  <1>18. ASSUME NEW w \in Slots, EndLost(w) PROVE SqlTypeOK'
    BY <1>t, <1>18, EndTyped DEF EndLost
  <1>19. ASSUME NEW w \in Slots, DropConnection(w) PROVE SqlTypeOK'
    BY <1>t, <1>19, EndTyped DEF DropConnection
  <1>20. ASSUME NEW s \in Schedulers, NEW t \in Tasks, ReleaseDue(s, t) PROVE SqlTypeOK'
    BY <1>t, <1>20, ViewTyped, SaveTyped, StatusTyped DEF ReleaseDue, sqlVars, SqlTypeOK, Statuses
  <1>21. ASSUME NEW s \in Schedulers, NEW t \in Tasks, InspectInflight(s, t) PROVE SqlTypeOK'
    BY <1>t, <1>21, ViewTyped, SaveTyped, FailureTyped DEF InspectInflight, sqlVars, SqlTypeOK
  <1>22. ASSUME NEW s \in Schedulers, SweepEnqueueFailed(s) PROVE SqlTypeOK'
    BY <1>t, <1>22, ViewTyped, SaveTyped, StatusTyped DEF SweepEnqueueFailed, EnqueueFailedRows, sqlVars, SqlTypeOK, Statuses
  <1>u. CASE UNCHANGED sqlVars
    BY <1>t, <1>u DEF sqlVars, SqlTypeOK
  <1> QED
    BY <1>u, <1>r, <1>1, <1>2, <1>3, <1>4, <1>5, <1>6, <1>7, <1>8, <1>9, <1>10, <1>11, <1>12, <1>13, <1>14, <1>15, <1>16, <1>17, <1>18, <1>19, <1>20, <1>21, <1>22
    DEF Next, ClientStep, SlotStep, TickStep, Request, vars,
        CancelMark, RetryPush, Dequeue, CheckCancelled, ClearCancelled, MarkInflight, ClearInflight, ListInflight, Claim, ExpireInflight

\* Every step keeps the types of the Redis structures.
LEMMA RedisTypesPreserved ==
  ASSUME TypeOK, Roles, [Next]_vars
  PROVE  RedisTypeOK'
  <1> USE ProcessAssumption
  <1>t. RedisTypeOK
    BY DEF TypeOK
  <1>1. ASSUME NEW c \in Clients, EnqueueNow(c) PROVE RedisTypeOK'
    BY <1>t, <1>1, BusyHasTask, EnqueueReadyTyped DEF EnqueueNow, RedisTypeOK
  <1>2. ASSUME NEW c \in Clients, RetryPush(c) PROVE RedisTypeOK'
    BY <1>t, <1>2, BusyHasTask, EnqueueReadyTyped DEF RetryPush, RedisTypeOK
  <1>3. ASSUME NEW c \in Clients, EnqueueLater(c) PROVE RedisTypeOK'
    BY <1>t, <1>3, BusyHasTask DEF EnqueueLater, EnqueueScheduled, RedisTypeOK
  <1>4. ASSUME NEW c \in Clients, EnqueueFails(c) PROVE RedisTypeOK'
    BY <1>t, <1>4, BusyHasTask, EnqueueReadyTyped DEF EnqueueFails, EnqueueScheduled, RedisTypeOK
  <1>5. ASSUME NEW c \in Clients, CancelMark(c) PROVE RedisTypeOK'
    BY <1>t, <1>5, BusyHasTask DEF CancelMark, RedisTypeOK
  <1>6. ASSUME NEW w \in Slots, ClearCancelled(w) PROVE RedisTypeOK'
    BY <1>t, <1>6, BusyHasTask DEF ClearCancelled, RedisTypeOK
  <1>7. ASSUME NEW w \in Slots, MarkInflight(w) PROVE RedisTypeOK'
    BY <1>t, <1>7, BusyHasTask DEF MarkInflight, RedisTypeOK
  <1>8. ASSUME NEW w \in Slots, ClearInflight(w) PROVE RedisTypeOK'
    BY <1>t, <1>8, BusyHasTask DEF ClearInflight, RedisTypeOK
  <1>9. ASSUME NEW w \in Slots, Dequeue(w) PROVE RedisTypeOK'
    BY <1>t, <1>9, DequeueReadyTyped DEF Dequeue, RedisTypeOK
  <1>10. ASSUME NEW w \in Slots, Fail(w) PROVE RedisTypeOK'
    BY <1>t, <1>10, BusyHasTask, PushFailedTyped DEF Fail, RedisTypeOK
  <1>r. ASSUME NEW w \in Slots, FailRaises(w) PROVE RedisTypeOK'
    <2>1. /\ job[w] \in Tasks /\ UNCHANGED <<ready, cancelPending, inflight>>
          /\ UNCHANGED <<scheduled, dlq>> \/ \E r : PushFailed(job[w], r)
      BY <1>r, FailRaisesParts
    <2> QED
      BY <1>t, <2>1, PushFailedTyped DEF RedisTypeOK
  <1>11. ASSUME NEW w \in Slots, EndLost(w) PROVE RedisTypeOK'
    BY <1>t, <1>11, BusyHasTask, PushFailedTyped DEF EndLost, RedisTypeOK
  <1>12. ASSUME NEW s \in Schedulers, NEW due \in SUBSET Tasks, Claim(s, due) PROVE RedisTypeOK'
    BY <1>t, <1>12 DEF Claim, ClaimDue, RedisTypeOK
  <1>13. ASSUME NEW s \in Schedulers, NEW t \in Tasks, ReleaseDue(s, t) PROVE RedisTypeOK'
    BY <1>t, <1>13, EnqueueReadyTyped DEF ReleaseDue, RedisTypeOK
  <1>14. ASSUME NEW s \in Schedulers, NEW t \in Tasks, InspectInflight(s, t) PROVE RedisTypeOK'
    BY <1>t, <1>14, PushFailedTyped DEF InspectInflight, redisVars, RedisTypeOK
  <1>15. ASSUME NEW s \in Schedulers, SweepEnqueueFailed(s) PROVE RedisTypeOK'
    BY <1>t, <1>15, EnqueueReadyTyped DEF SweepEnqueueFailed, EnqueueFailedRows, EnqueueScheduled, redisVars, RedisTypeOK
  <1>16. ASSUME NEW p \in Sessions, Abort(p) PROVE RedisTypeOK'
    BY <1>t, <1>16 DEF Abort, RedisTypeOK
  <1>17. ASSUME NEW t \in Tasks, ExpireInflight(t) PROVE RedisTypeOK'
    BY <1>t, <1>17 DEF ExpireInflight, RedisTypeOK
  <1>u. CASE UNCHANGED redisVars
    BY <1>t, <1>u DEF redisVars, RedisTypeOK
  <1> QED
    BY <1>u, <1>r, <1>1, <1>2, <1>3, <1>4, <1>5, <1>6, <1>7, <1>8, <1>9, <1>10, <1>11, <1>12, <1>13, <1>14, <1>15, <1>16, <1>17
    DEF Next, ClientStep, SlotStep, TickStep, Request, vars,
        SubmitSave, Raise, CancelLoad, CancelSave, RetryLoad, RetrySave, LoadTask, CheckCancelled, CancelDelivered, Start, Complete, DropConnection, ListInflight, SelectBeforeSave, Commit

LEMMA TypesPreserved ==
  ASSUME TypeOK, Roles, [Next]_vars
  PROVE  TypeOK'
  BY ProcTypesPreserved, SqlTypesPreserved, RedisTypesPreserved DEF TypeOK, ProcTypeOK

-----------------------------------------------------------------------------
(* The tick *)

\* A tick holds no row lock and sees what is committed.
LEMMA TickView ==
  ASSUME IInv, NEW s \in Schedulers, NEW t \in Tasks
  PROVE  /\ lock[t] # s
         /\ View(s, t) = row[t]
         /\ row[t].status \notin {"scheduled", "running", "enqueue_failed"}
  <1>1. s # NoSession /\ job[s] # t
    BY ProcessAssumption, NoSessionAssumption DEF IInv, Roles
  <1> QED
    BY <1>1 DEF IInv, Locks, View, SettledStatuses, Settled

\* So its branches for scheduled, running and enqueue_failed rows are dead: a
\* tick moves nothing to a ready list and writes no row, and the reconciler
\* only removes markers.
LEMMA TickIsInert ==
  ASSUME IInv, NEW s \in Schedulers
  PROVE  /\ \A t \in Tasks : ReleaseDue(s, t) =>
              UNCHANGED <<redisVars, sqlVars, pc, job, issued, faults>>
         /\ \A t \in Tasks : InspectInflight(s, t) =>
              /\ inflight' = inflight \ {t}
              /\ UNCHANGED <<ready, scheduled, dlq, cancelPending, sqlVars, pc, job, issued, faults>>
         /\ SweepEnqueueFailed(s) =>
              /\ pc[s] = "inspect"
              /\ pc' = [pc EXCEPT ![s] = "commit"]
              /\ UNCHANGED <<redisVars, sqlVars, job, issued, faults>>
  <1>1. ASSUME NEW t \in Tasks, ReleaseDue(s, t)
        PROVE  UNCHANGED <<redisVars, sqlVars, pc, job, issued, faults>>
    BY <1>1, TickView DEF ReleaseDue, redisVars, sqlVars
  <1>2. ASSUME NEW t \in Tasks, InspectInflight(s, t)
        PROVE  /\ inflight' = inflight \ {t}
               /\ UNCHANGED <<ready, scheduled, dlq, cancelPending, sqlVars, pc, job, issued, faults>>
    BY <1>2, TickView DEF InspectInflight
  <1>3. ASSUME SweepEnqueueFailed(s)
        PROVE  /\ pc[s] = "inspect"
               /\ pc' = [pc EXCEPT ![s] = "commit"]
               /\ UNCHANGED <<redisVars, sqlVars, job, issued, faults>>
    <2>1. EnqueueFailedRows(s) = {}
      BY TickView DEF EnqueueFailedRows
    <2> QED
      BY <1>3, <2>1 DEF SweepEnqueueFailed
  <1> QED
    BY <1>1, <1>2, <1>3

-----------------------------------------------------------------------------
(* The parts of the inductive invariant *)

\* A process that has not written reads what is committed.
LEMMA ReadsCommitted ==
  ASSUME IInv, NEW p \in Sessions, NEW t \in Tasks, pc[p] \in {"idle", "load"}
  PROVE  View(p, t) = row[t]
  <1>1. p # NoSession
    BY NoSessionAssumption
  <1>2. lock[t] # p
    BY <1>1 DEF IInv, Locks, Writing, Raising
  <1> QED
    BY <1>2 DEF View

\* The domain has no transition from SCHEDULED to itself.
LEMMA NoReschedule == ~ CanTransition("scheduled", "scheduled")
  BY DEF CanTransition, Transitions

\* Every process stays at the awaits of its kind.
LEMMA RolesPreserved ==
  ASSUME IInv, [Next]_vars
  PROVE  Roles'
  <1> USE ProcessAssumption, NoSessionAssumption
  <1>t. TypeOK /\ Roles /\ Locks /\ Generated
    BY DEF IInv
  <1>1. ASSUME NEW c \in Clients, NEW t \in Tasks, NEW start \in StartTimes, SubmitSave(c, t, start) PROVE Roles'
    BY <1>t, <1>1 DEF SubmitSave, Roles, ClientAwaits, TypeOK
  <1>2. ASSUME NEW c \in Clients, EnqueueNow(c) PROVE Roles'
    BY <1>t, <1>2 DEF EnqueueNow, Roles, ClientAwaits, TypeOK
  <1>3. ASSUME NEW c \in Clients, EnqueueLater(c) PROVE Roles'
    BY <1>t, <1>3 DEF EnqueueLater, Roles, ClientAwaits, TypeOK
  <1>4. ASSUME NEW c \in Clients, EnqueueFails(c) PROVE Roles'
    BY <1>t, <1>4 DEF EnqueueFails, Roles, ClientAwaits, TypeOK
  <1>5. ASSUME NEW c \in Clients \cup Slots, Raise(c) PROVE Roles'
    BY <1>t, <1>5 DEF Raise, Roles, ClientAwaits, SlotAwaits, TypeOK
  <1>6. ASSUME NEW c \in Clients, NEW t \in Tasks, CancelLoad(c, t) PROVE Roles'
    BY <1>t, <1>6 DEF CancelLoad, Roles, ClientAwaits, TypeOK
  <1>7. ASSUME NEW c \in Clients, CancelMark(c) PROVE Roles'
    BY <1>t, <1>7 DEF CancelMark, Roles, ClientAwaits, TypeOK
  <1>8. ASSUME NEW c \in Clients, CancelSave(c) PROVE Roles'
    BY <1>t, <1>8 DEF CancelSave, Roles, ClientAwaits, TypeOK
  <1>9. ASSUME NEW c \in Clients, NEW t \in Tasks, RetryLoad(c, t) PROVE Roles'
    BY <1>t, <1>9 DEF RetryLoad, Roles, ClientAwaits, TypeOK
  <1>10. ASSUME NEW c \in Clients, RetryPush(c) PROVE Roles'
    BY <1>t, <1>10 DEF RetryPush, Roles, ClientAwaits, TypeOK
  <1>11. ASSUME NEW c \in Clients, RetrySave(c) PROVE Roles'
    BY <1>t, <1>11 DEF RetrySave, Roles, ClientAwaits, TypeOK
  <1>12. ASSUME NEW w \in Slots, Dequeue(w) PROVE Roles'
    BY <1>t, <1>12 DEF Dequeue, Roles, SlotAwaits, TypeOK
  <1>13. ASSUME NEW w \in Slots, LoadTask(w) PROVE Roles'
    BY <1>t, <1>13 DEF LoadTask, Roles, SlotAwaits, TypeOK
  <1>14. ASSUME NEW w \in Slots, CheckCancelled(w) PROVE Roles'
    BY <1>t, <1>14 DEF CheckCancelled, Roles, SlotAwaits, TypeOK
  <1>15. ASSUME NEW w \in Slots, CancelDelivered(w) PROVE Roles'
    BY <1>t, <1>15 DEF CancelDelivered, Roles, SlotAwaits, TypeOK
  <1>16. ASSUME NEW w \in Slots, ClearCancelled(w) PROVE Roles'
    BY <1>t, <1>16 DEF ClearCancelled, Roles, SlotAwaits, TypeOK
  <1>17. ASSUME NEW w \in Slots, Start(w) PROVE Roles'
    BY <1>t, <1>17 DEF Start, Roles, SlotAwaits, TypeOK
  <1>18. ASSUME NEW w \in Slots, MarkInflight(w) PROVE Roles'
    BY <1>t, <1>18 DEF MarkInflight, Roles, SlotAwaits, TypeOK
  <1>19. ASSUME NEW w \in Slots, Complete(w) PROVE Roles'
    BY <1>t, <1>19 DEF Complete, Roles, SlotAwaits, TypeOK
  <1>20. ASSUME NEW w \in Slots, Fail(w) PROVE Roles'
    BY <1>t, <1>20 DEF Fail, Roles, SlotAwaits, TypeOK
  <1>r. ASSUME NEW w \in Slots, FailRaises(w) PROVE Roles'
    BY <1>t, <1>r, FailRaisesParts DEF Roles, SlotAwaits, TypeOK
  <1>21. ASSUME NEW w \in Slots, ClearInflight(w) PROVE Roles'
    BY <1>t, <1>21 DEF ClearInflight, Roles, SlotAwaits, TypeOK
  <1>22. ASSUME NEW w \in Slots, DropConnection(w) PROVE Roles'
    BY <1>t, <1>22 DEF DropConnection, Roles, SlotAwaits, TypeOK
  <1>23. ASSUME NEW w \in Slots, EndLost(w) PROVE Roles'
    BY <1>t, <1>23 DEF EndLost, Roles, SlotAwaits, TypeOK
  <1>24. ASSUME NEW s \in Schedulers, NEW t \in Tasks, ReleaseDue(s, t) PROVE Roles'
    BY <1>t, <1>24, TickIsInert DEF Roles, TickAwaits, TypeOK
  <1>25. ASSUME NEW s \in Schedulers, NEW t \in Tasks, InspectInflight(s, t) PROVE Roles'
    BY <1>t, <1>25, TickIsInert DEF Roles, TickAwaits, TypeOK
  <1>26. ASSUME NEW s \in Schedulers, ListInflight(s) PROVE Roles'
    BY <1>t, <1>26 DEF ListInflight, Roles, TickAwaits, TypeOK
  <1>27. ASSUME NEW s \in Schedulers, SweepEnqueueFailed(s) PROVE Roles'
    BY <1>t, <1>27, TickIsInert DEF Roles, TickAwaits, TypeOK
  <1>28. ASSUME NEW s \in Schedulers, NEW due \in SUBSET Tasks, Claim(s, due) PROVE Roles'
    BY <1>t, <1>28 DEF Claim, Roles, TickAwaits, TypeOK
  <1>29. ASSUME NEW p \in Sessions, SelectBeforeSave(p) PROVE Roles'
    BY <1>t, <1>29 DEF SelectBeforeSave, procVars, Roles
  <1>30. ASSUME NEW p \in Sessions, Commit(p) PROVE Roles'
    BY <1>t, <1>30 DEF Commit, Roles, ClientAwaits, SlotAwaits, TickAwaits, TypeOK
  <1>31. ASSUME NEW p \in Sessions, Abort(p) PROVE Roles'
    BY <1>t, <1>31 DEF Abort, Roles, ClientAwaits, SlotAwaits, TickAwaits, TypeOK
  <1>32. ASSUME NEW t \in Tasks, ExpireInflight(t) PROVE Roles'
    BY <1>t, <1>32 DEF ExpireInflight, procVars, Roles
  <1>u. CASE UNCHANGED vars
    BY <1>t, <1>u DEF vars, procVars, Roles
  <1> QED
    BY <1>u, <1>r, <1>1, <1>2, <1>3, <1>4, <1>5, <1>6, <1>7, <1>8, <1>9, <1>10, <1>11, <1>12, <1>13, <1>14, <1>15, <1>16, <1>17, <1>18, <1>19, <1>20, <1>21, <1>22, <1>23, <1>24, <1>25, <1>26, <1>27, <1>28, <1>29, <1>30, <1>31, <1>32
    DEF Next, ClientStep, SlotStep, TickStep, Request

\* Row locks stay with the processes that write.
LEMMA LocksPreserved ==
  ASSUME IInv, [Next]_vars
  PROVE  Locks'
  <1> USE ProcessAssumption, NoSessionAssumption
  <1>t. TypeOK /\ Roles /\ Locks /\ Generated
    BY DEF IInv
  <1>1. ASSUME NEW c \in Clients, NEW t \in Tasks, NEW start \in StartTimes, SubmitSave(c, t, start) PROVE Locks'
    BY <1>t, <1>1 DEF SubmitSave, Insert, Generated, Locks, Writing, Raising, Roles, ClientAwaits, TypeOK, SqlTypeOK
  <1>2. ASSUME NEW c \in Clients, EnqueueNow(c) PROVE Locks'
    BY <1>t, <1>2 DEF EnqueueNow, Locks, Writing, Raising, Roles, ClientAwaits, TypeOK, SqlTypeOK, SaveAgain
  <1>3. ASSUME NEW c \in Clients, EnqueueLater(c) PROVE Locks'
    BY <1>t, <1>3 DEF EnqueueLater, Locks, Writing, Raising, Roles, ClientAwaits, TypeOK, SqlTypeOK, SaveAgain
  <1>4. ASSUME NEW c \in Clients, EnqueueFails(c) PROVE Locks'
    BY <1>t, <1>4 DEF EnqueueFails, Locks, Writing, Raising, Roles, ClientAwaits, TypeOK, SqlTypeOK, SaveAgain
  <1>5. ASSUME NEW c \in Clients \cup Slots, Raise(c) PROVE Locks'
    BY <1>t, <1>5 DEF Raise, Locks, Writing, Raising, Roles, ClientAwaits, SlotAwaits, TypeOK, SqlTypeOK, RollbackSession, ReleaseLocks, ForgetObjects
  <1>6. ASSUME NEW c \in Clients, NEW t \in Tasks, CancelLoad(c, t) PROVE Locks'
    BY <1>t, <1>6 DEF CancelLoad, Locks, Writing, Raising, Roles, ClientAwaits, TypeOK, SqlTypeOK, Load
  <1>7. ASSUME NEW c \in Clients, CancelMark(c) PROVE Locks'
    BY <1>t, <1>7 DEF CancelMark, Locks, Writing, Raising, Roles, ClientAwaits, TypeOK, SqlTypeOK, sqlVars
  <1>8. ASSUME NEW c \in Clients, CancelSave(c) PROVE Locks'
    BY <1>t, <1>8 DEF CancelSave, Locks, Writing, Raising, Roles, ClientAwaits, TypeOK, SqlTypeOK, FirstSave
  <1>9. ASSUME NEW c \in Clients, NEW t \in Tasks, RetryLoad(c, t) PROVE Locks'
    BY <1>t, <1>9 DEF RetryLoad, Locks, Writing, Raising, Roles, ClientAwaits, TypeOK, SqlTypeOK, Load
  <1>10. ASSUME NEW c \in Clients, RetryPush(c) PROVE Locks'
    BY <1>t, <1>10 DEF RetryPush, Locks, Writing, Raising, Roles, ClientAwaits, TypeOK, SqlTypeOK, sqlVars
  <1>11. ASSUME NEW c \in Clients, RetrySave(c) PROVE Locks'
    BY <1>t, <1>11 DEF RetrySave, Locks, Writing, Raising, Roles, ClientAwaits, TypeOK, SqlTypeOK, FirstSave
  <1>12. ASSUME NEW w \in Slots, Dequeue(w) PROVE Locks'
    BY <1>t, <1>12 DEF Dequeue, Locks, Writing, Raising, Roles, SlotAwaits, TypeOK, SqlTypeOK, sqlVars
  <1>13. ASSUME NEW w \in Slots, LoadTask(w) PROVE Locks'
    BY <1>t, <1>13 DEF LoadTask, Locks, Writing, Raising, Roles, SlotAwaits, TypeOK, SqlTypeOK, Load, sqlVars
  <1>14. ASSUME NEW w \in Slots, CheckCancelled(w) PROVE Locks'
    BY <1>t, <1>14 DEF CheckCancelled, Locks, Writing, Raising, Roles, SlotAwaits, TypeOK, SqlTypeOK, sqlVars
  <1>15. ASSUME NEW w \in Slots, CancelDelivered(w) PROVE Locks'
    BY <1>t, <1>15 DEF CancelDelivered, Locks, Writing, Raising, Roles, SlotAwaits, TypeOK, SqlTypeOK, FirstSave
  <1>16. ASSUME NEW w \in Slots, ClearCancelled(w) PROVE Locks'
    BY <1>t, <1>16 DEF ClearCancelled, Locks, Writing, Raising, Roles, SlotAwaits, TypeOK, SqlTypeOK, sqlVars
  <1>17. ASSUME NEW w \in Slots, Start(w) PROVE Locks'
    BY <1>t, <1>17 DEF Start, Locks, Writing, Raising, Roles, SlotAwaits, TypeOK, SqlTypeOK, FirstSave
  <1>18. ASSUME NEW w \in Slots, MarkInflight(w) PROVE Locks'
    BY <1>t, <1>18 DEF MarkInflight, Locks, Writing, Raising, Roles, SlotAwaits, TypeOK, SqlTypeOK, sqlVars
  <1>19. ASSUME NEW w \in Slots, Complete(w) PROVE Locks'
    BY <1>t, <1>19 DEF Complete, Locks, Writing, Raising, Roles, SlotAwaits, TypeOK, SqlTypeOK, SaveAgain
  <1>20. ASSUME NEW w \in Slots, Fail(w) PROVE Locks'
    BY <1>t, <1>20 DEF Fail, Locks, Writing, Raising, Roles, SlotAwaits, TypeOK, SqlTypeOK, SaveAgain
  <1>r. ASSUME NEW w \in Slots, FailRaises(w) PROVE Locks'
    <2>1. /\ w \in Sessions /\ pc[w] = "exec" /\ job' = job
          /\ pc' = [pc EXCEPT ![w] = "refused"]
          /\ lock' = lock \/ ReleaseLocks(w)
      BY <1>t, <1>r, FailRaisesParts
    <2> QED
      BY <1>t, <2>1 DEF Locks, Writing, Raising, Roles, SlotAwaits, ReleaseLocks, TypeOK, SqlTypeOK
  <1>21. ASSUME NEW w \in Slots, ClearInflight(w) PROVE Locks'
    BY <1>t, <1>21 DEF ClearInflight, Locks, Writing, Raising, Roles, SlotAwaits, TypeOK, SqlTypeOK, sqlVars
  <1>22. ASSUME NEW w \in Slots, DropConnection(w) PROVE Locks'
    BY <1>t, <1>22 DEF DropConnection, Locks, Writing, Raising, Roles, SlotAwaits, TypeOK, SqlTypeOK, LoseTransaction, ReleaseLocks
  <1>23. ASSUME NEW w \in Slots, EndLost(w) PROVE Locks'
    BY <1>t, <1>23 DEF EndLost, Locks, Writing, Raising, Roles, SlotAwaits, TypeOK, SqlTypeOK, RollbackSession, ReleaseLocks, ForgetObjects
  <1>24. ASSUME NEW s \in Schedulers, NEW t \in Tasks, ReleaseDue(s, t) PROVE Locks'
    BY <1>t, <1>24, TickIsInert DEF Locks, Writing, Raising, Roles, TickAwaits, TypeOK, SqlTypeOK, sqlVars
  <1>25. ASSUME NEW s \in Schedulers, NEW t \in Tasks, InspectInflight(s, t) PROVE Locks'
    BY <1>t, <1>25, TickIsInert DEF Locks, Writing, Raising, Roles, TickAwaits, TypeOK, SqlTypeOK, sqlVars
  <1>26. ASSUME NEW s \in Schedulers, ListInflight(s) PROVE Locks'
    BY <1>t, <1>26 DEF ListInflight, Locks, Writing, Raising, Roles, TickAwaits, TypeOK, SqlTypeOK, sqlVars
  <1>27. ASSUME NEW s \in Schedulers, SweepEnqueueFailed(s) PROVE Locks'
    BY <1>t, <1>27, TickIsInert DEF Locks, Writing, Raising, Roles, TickAwaits, TypeOK, SqlTypeOK, sqlVars
  <1>28. ASSUME NEW s \in Schedulers, NEW due \in SUBSET Tasks, Claim(s, due) PROVE Locks'
    BY <1>t, <1>28 DEF Claim, Locks, Writing, Raising, Roles, TickAwaits, TypeOK, SqlTypeOK, sqlVars
  <1>29. ASSUME NEW p \in Sessions, SelectBeforeSave(p) PROVE Locks'
    BY <1>t, <1>29 DEF SelectBeforeSave, Locks, Writing, Raising, Roles, ClientAwaits, SlotAwaits, TickAwaits, TypeOK, SqlTypeOK, Fetch, procVars
  <1>30. ASSUME NEW p \in Sessions, Commit(p) PROVE Locks'
    BY <1>t, <1>30 DEF Commit, Locks, Writing, Raising, Roles, ClientAwaits, SlotAwaits, TickAwaits, TypeOK, SqlTypeOK, CommitSession, ReleaseLocks, ForgetObjects
  <1>31. ASSUME NEW p \in Sessions, Abort(p) PROVE Locks'
    BY <1>t, <1>31 DEF Abort, Locks, Writing, Raising, Roles, ClientAwaits, SlotAwaits, TickAwaits, TypeOK, SqlTypeOK, RollbackSession, ReleaseLocks, ForgetObjects
  <1>32. ASSUME NEW t \in Tasks, ExpireInflight(t) PROVE Locks'
    BY <1>t, <1>32 DEF ExpireInflight, Locks, Writing, Raising, Roles, ClientAwaits, SlotAwaits, TickAwaits, TypeOK, SqlTypeOK, sqlVars, procVars
  <1>u. CASE UNCHANGED vars
    BY <1>t, <1>u DEF Locks, Writing, Raising, Roles, ClientAwaits, SlotAwaits, TickAwaits, TypeOK, SqlTypeOK, vars, sqlVars, procVars
  <1> QED
    BY <1>u, <1>r, <1>1, <1>2, <1>3, <1>4, <1>5, <1>6, <1>7, <1>8, <1>9, <1>10, <1>11, <1>12, <1>13, <1>14, <1>15, <1>16, <1>17, <1>18, <1>19, <1>20, <1>21, <1>22, <1>23, <1>24, <1>25, <1>26, <1>27, <1>28, <1>29, <1>30, <1>31, <1>32
    DEF Next, ClientStep, SlotStep, TickStep, Request

\* The object of a process fits the await it is at.
LEMMA ObjectsPreserved ==
  ASSUME IInv, [Next]_vars
  PROVE  Objects'
  <1> USE ProcessAssumption, NoSessionAssumption
  <1>t. TypeOK /\ Roles /\ Locks /\ Objects /\ SettledStatuses
    BY DEF IInv
  <1>1. ASSUME NEW c \in Clients, NEW t \in Tasks, NEW start \in StartTimes, SubmitSave(c, t, start) PROVE Objects'
    BY <1>t, <1>1, CreatedTyped DEF SubmitSave, Insert, Objects, TypeOK, SqlTypeOK
  <1>2. ASSUME NEW c \in Clients, EnqueueNow(c) PROVE Objects'
    BY <1>t, <1>2 DEF EnqueueNow, Objects, SettledStatuses, Settled, Roles, ClientAwaits, TypeOK, SqlTypeOK, SaveAgain, WithStatus, Row
  <1>3. ASSUME NEW c \in Clients, EnqueueLater(c) PROVE Objects'
    <2>1. pc' = [pc EXCEPT ![c] = "raise"] /\ \E r : mem' = [mem EXCEPT ![c] = r]
      BY <1>3, NoReschedule DEF EnqueueLater, SaveAgain
    <2> QED
      BY <1>t, <1>3, <2>1 DEF Objects, TypeOK, SqlTypeOK
  <1>4. ASSUME NEW c \in Clients, EnqueueFails(c) PROVE Objects'
    BY <1>t, <1>4 DEF EnqueueFails, Objects, SettledStatuses, Settled, Roles, ClientAwaits, TypeOK, SqlTypeOK, SaveAgain, WithStatus, Row
  <1>5. ASSUME NEW c \in Clients \cup Slots, Raise(c) PROVE Objects'
    BY <1>t, <1>5 DEF Raise, Objects, SettledStatuses, Settled, Roles, ClientAwaits, SlotAwaits, TypeOK, SqlTypeOK, RollbackSession, ReleaseLocks, ForgetObjects, WithStatus, Row
  <1>6. ASSUME NEW c \in Clients, NEW t \in Tasks, CancelLoad(c, t) PROVE Objects'
    BY <1>t, <1>6, ReadsCommitted DEF CancelLoad, Load, Exists, Objects, SettledStatuses, Settled, TypeOK, SqlTypeOK
  <1>7. ASSUME NEW c \in Clients, CancelMark(c) PROVE Objects'
    BY <1>t, <1>7 DEF CancelMark, Objects, SettledStatuses, Settled, Roles, ClientAwaits, TypeOK, SqlTypeOK, sqlVars, WithStatus, Row
  <1>8. ASSUME NEW c \in Clients, CancelSave(c) PROVE Objects'
    BY <1>t, <1>8 DEF CancelSave, Objects, SettledStatuses, Settled, Roles, ClientAwaits, TypeOK, SqlTypeOK, FirstSave, WithStatus, Row
  <1>9. ASSUME NEW c \in Clients, NEW t \in Tasks, RetryLoad(c, t) PROVE Objects'
    BY <1>t, <1>9, ReadsCommitted DEF RetryLoad, Load, Exists, Objects, SettledStatuses, Settled, TypeOK, SqlTypeOK
  <1>10. ASSUME NEW c \in Clients, RetryPush(c) PROVE Objects'
    BY <1>t, <1>10 DEF RetryPush, Objects, SettledStatuses, Settled, Roles, ClientAwaits, TypeOK, SqlTypeOK, sqlVars, WithStatus, Row
  <1>11. ASSUME NEW c \in Clients, RetrySave(c) PROVE Objects'
    BY <1>t, <1>11 DEF RetrySave, Objects, SettledStatuses, Settled, Roles, ClientAwaits, TypeOK, SqlTypeOK, FirstSave, WithStatus, Row
  <1>12. ASSUME NEW w \in Slots, Dequeue(w) PROVE Objects'
    BY <1>t, <1>12 DEF Dequeue, Objects, SettledStatuses, Settled, Roles, SlotAwaits, TypeOK, SqlTypeOK, sqlVars, WithStatus, Row
  <1>13. ASSUME NEW w \in Slots, LoadTask(w) PROVE Objects'
    BY <1>t, <1>13, ReadsCommitted, BusyHasTask DEF LoadTask, Load, sqlVars, Objects, TypeOK, SqlTypeOK
  <1>14. ASSUME NEW w \in Slots, CheckCancelled(w) PROVE Objects'
    BY <1>t, <1>14 DEF CheckCancelled, Objects, SettledStatuses, Settled, Roles, SlotAwaits, TypeOK, SqlTypeOK, sqlVars, WithStatus, Row
  <1>15. ASSUME NEW w \in Slots, CancelDelivered(w) PROVE Objects'
    BY <1>t, <1>15 DEF CancelDelivered, Objects, SettledStatuses, Settled, Roles, SlotAwaits, TypeOK, SqlTypeOK, FirstSave, WithStatus, Row
  <1>16. ASSUME NEW w \in Slots, ClearCancelled(w) PROVE Objects'
    BY <1>t, <1>16 DEF ClearCancelled, Objects, SettledStatuses, Settled, Roles, SlotAwaits, TypeOK, SqlTypeOK, sqlVars, WithStatus, Row
  <1>17. ASSUME NEW w \in Slots, Start(w) PROVE Objects'
    BY <1>t, <1>17 DEF Start, Objects, SettledStatuses, Settled, Roles, SlotAwaits, TypeOK, SqlTypeOK, FirstSave, WithStatus, Row
  <1>18. ASSUME NEW w \in Slots, MarkInflight(w) PROVE Objects'
    BY <1>t, <1>18 DEF MarkInflight, Objects, SettledStatuses, Settled, Roles, SlotAwaits, TypeOK, SqlTypeOK, sqlVars, WithStatus, Row
  <1>19. ASSUME NEW w \in Slots, Complete(w) PROVE Objects'
    BY <1>t, <1>19 DEF Complete, Objects, SettledStatuses, Settled, Roles, SlotAwaits, TypeOK, SqlTypeOK, SaveAgain, WithStatus, Row
  <1>20. ASSUME NEW w \in Slots, Fail(w) PROVE Objects'
    BY <1>t, <1>20 DEF Fail, Objects, SettledStatuses, Settled, Roles, SlotAwaits, TypeOK, SqlTypeOK, SaveAgain, WithStatus, Row
  <1>r. ASSUME NEW w \in Slots, FailRaises(w) PROVE Objects'
    <2>1. pc' = [pc EXCEPT ![w] = "refused"] /\ \E r : mem' = [mem EXCEPT ![w] = r]
      BY <1>t, <1>r, FailRaisesParts
    <2> QED
      BY <1>t, <2>1 DEF Objects, TypeOK, SqlTypeOK
  <1>21. ASSUME NEW w \in Slots, ClearInflight(w) PROVE Objects'
    BY <1>t, <1>21 DEF ClearInflight, Objects, SettledStatuses, Settled, Roles, SlotAwaits, TypeOK, SqlTypeOK, sqlVars, WithStatus, Row
  <1>22. ASSUME NEW w \in Slots, DropConnection(w) PROVE Objects'
    BY <1>t, <1>22 DEF DropConnection, Objects, SettledStatuses, Settled, Roles, SlotAwaits, TypeOK, SqlTypeOK, LoseTransaction, ReleaseLocks, WithStatus, Row
  <1>23. ASSUME NEW w \in Slots, EndLost(w) PROVE Objects'
    BY <1>t, <1>23 DEF EndLost, Objects, SettledStatuses, Settled, Roles, SlotAwaits, TypeOK, SqlTypeOK, RollbackSession, ReleaseLocks, ForgetObjects, WithStatus, Row
  <1>24. ASSUME NEW s \in Schedulers, NEW t \in Tasks, ReleaseDue(s, t) PROVE Objects'
    BY <1>t, <1>24, TickIsInert DEF Objects, SettledStatuses, Settled, Roles, TickAwaits, TypeOK, SqlTypeOK, sqlVars, WithStatus, Row
  <1>25. ASSUME NEW s \in Schedulers, NEW t \in Tasks, InspectInflight(s, t) PROVE Objects'
    BY <1>t, <1>25, TickIsInert DEF Objects, SettledStatuses, Settled, Roles, TickAwaits, TypeOK, SqlTypeOK, sqlVars, WithStatus, Row
  <1>26. ASSUME NEW s \in Schedulers, ListInflight(s) PROVE Objects'
    BY <1>t, <1>26 DEF ListInflight, Objects, SettledStatuses, Settled, Roles, TickAwaits, TypeOK, SqlTypeOK, sqlVars, WithStatus, Row
  <1>27. ASSUME NEW s \in Schedulers, SweepEnqueueFailed(s) PROVE Objects'
    BY <1>t, <1>27, TickIsInert DEF Objects, SettledStatuses, Settled, Roles, TickAwaits, TypeOK, SqlTypeOK, sqlVars, WithStatus, Row
  <1>28. ASSUME NEW s \in Schedulers, NEW due \in SUBSET Tasks, Claim(s, due) PROVE Objects'
    BY <1>t, <1>28 DEF Claim, Objects, SettledStatuses, Settled, Roles, TickAwaits, TypeOK, SqlTypeOK, sqlVars, WithStatus, Row
  <1>29. ASSUME NEW p \in Sessions, SelectBeforeSave(p) PROVE Objects'
    BY <1>t, <1>29 DEF SelectBeforeSave, Objects, SettledStatuses, Settled, Roles, ClientAwaits, SlotAwaits, TickAwaits, TypeOK, SqlTypeOK, Fetch, procVars, WithStatus, Row
  <1>30. ASSUME NEW p \in Sessions, Commit(p) PROVE Objects'
    BY <1>t, <1>30 DEF Commit, Objects, SettledStatuses, Settled, Roles, ClientAwaits, SlotAwaits, TickAwaits, TypeOK, SqlTypeOK, CommitSession, ReleaseLocks, ForgetObjects, WithStatus, Row
  <1>31. ASSUME NEW p \in Sessions, Abort(p) PROVE Objects'
    BY <1>t, <1>31 DEF Abort, Objects, SettledStatuses, Settled, Roles, ClientAwaits, SlotAwaits, TickAwaits, TypeOK, SqlTypeOK, RollbackSession, ReleaseLocks, ForgetObjects, WithStatus, Row
  <1>32. ASSUME NEW t \in Tasks, ExpireInflight(t) PROVE Objects'
    BY <1>t, <1>32 DEF ExpireInflight, Objects, SettledStatuses, Settled, Roles, ClientAwaits, SlotAwaits, TickAwaits, TypeOK, SqlTypeOK, sqlVars, procVars, WithStatus, Row
  <1>u. CASE UNCHANGED vars
    BY <1>t, <1>u DEF Objects, SettledStatuses, Settled, Roles, ClientAwaits, SlotAwaits, TickAwaits, TypeOK, SqlTypeOK, vars, sqlVars, procVars, WithStatus, Row
  <1> QED
    BY <1>u, <1>r, <1>1, <1>2, <1>3, <1>4, <1>5, <1>6, <1>7, <1>8, <1>9, <1>10, <1>11, <1>12, <1>13, <1>14, <1>15, <1>16, <1>17, <1>18, <1>19, <1>20, <1>21, <1>22, <1>23, <1>24, <1>25, <1>26, <1>27, <1>28, <1>29, <1>30, <1>31, <1>32
    DEF Next, ClientStep, SlotStep, TickStep, Request

\* Only generated ids have rows.
LEMMA GeneratedPreserved ==
  ASSUME IInv, [Next]_vars
  PROVE  Generated'
  <1> USE ProcessAssumption, NoSessionAssumption
  <1>t. TypeOK /\ Roles /\ Generated /\ Locks
    BY DEF IInv
  <1>1. ASSUME NEW c \in Clients, NEW t \in Tasks, NEW start \in StartTimes, SubmitSave(c, t, start) PROVE Generated'
    BY <1>t, <1>1 DEF SubmitSave, Generated, Locks, Roles, ClientAwaits, Writing, Raising, TypeOK, SqlTypeOK, Insert
  <1>2. ASSUME NEW c \in Clients, EnqueueNow(c) PROVE Generated'
    BY <1>t, <1>2 DEF EnqueueNow, Generated, Locks, Roles, ClientAwaits, Writing, Raising, TypeOK, SqlTypeOK, SaveAgain
  <1>3. ASSUME NEW c \in Clients, EnqueueLater(c) PROVE Generated'
    BY <1>t, <1>3 DEF EnqueueLater, Generated, Locks, Roles, ClientAwaits, Writing, Raising, TypeOK, SqlTypeOK, SaveAgain
  <1>4. ASSUME NEW c \in Clients, EnqueueFails(c) PROVE Generated'
    BY <1>t, <1>4 DEF EnqueueFails, Generated, Locks, Roles, ClientAwaits, Writing, Raising, TypeOK, SqlTypeOK, SaveAgain
  <1>5. ASSUME NEW c \in Clients \cup Slots, Raise(c) PROVE Generated'
    BY <1>t, <1>5 DEF Raise, Generated, Locks, Roles, ClientAwaits, SlotAwaits, Writing, Raising, TypeOK, SqlTypeOK, RollbackSession, ReleaseLocks, ForgetObjects
  <1>6. ASSUME NEW c \in Clients, NEW t \in Tasks, CancelLoad(c, t) PROVE Generated'
    BY <1>t, <1>6 DEF CancelLoad, Exists, Load, Generated, Locks, TypeOK, SqlTypeOK
  <1>7. ASSUME NEW c \in Clients, CancelMark(c) PROVE Generated'
    BY <1>t, <1>7 DEF CancelMark, Generated, Locks, Roles, ClientAwaits, Writing, Raising, TypeOK, SqlTypeOK, sqlVars
  <1>8. ASSUME NEW c \in Clients, CancelSave(c) PROVE Generated'
    BY <1>t, <1>8 DEF CancelSave, Generated, Locks, Roles, ClientAwaits, Writing, Raising, TypeOK, SqlTypeOK, FirstSave
  <1>9. ASSUME NEW c \in Clients, NEW t \in Tasks, RetryLoad(c, t) PROVE Generated'
    BY <1>t, <1>9 DEF RetryLoad, Generated, Locks, Roles, ClientAwaits, Writing, Raising, TypeOK, SqlTypeOK, Load
  <1>10. ASSUME NEW c \in Clients, RetryPush(c) PROVE Generated'
    BY <1>t, <1>10 DEF RetryPush, Generated, Locks, Roles, ClientAwaits, Writing, Raising, TypeOK, SqlTypeOK, sqlVars
  <1>11. ASSUME NEW c \in Clients, RetrySave(c) PROVE Generated'
    BY <1>t, <1>11 DEF RetrySave, Generated, Locks, Roles, ClientAwaits, Writing, Raising, TypeOK, SqlTypeOK, FirstSave
  <1>12. ASSUME NEW w \in Slots, Dequeue(w) PROVE Generated'
    BY <1>t, <1>12 DEF Dequeue, Generated, Locks, Roles, SlotAwaits, Writing, Raising, TypeOK, SqlTypeOK, sqlVars
  <1>13. ASSUME NEW w \in Slots, LoadTask(w) PROVE Generated'
    BY <1>t, <1>13 DEF LoadTask, Generated, Locks, Roles, SlotAwaits, Writing, Raising, TypeOK, SqlTypeOK, Load, sqlVars
  <1>14. ASSUME NEW w \in Slots, CheckCancelled(w) PROVE Generated'
    BY <1>t, <1>14 DEF CheckCancelled, Generated, Locks, Roles, SlotAwaits, Writing, Raising, TypeOK, SqlTypeOK, sqlVars
  <1>15. ASSUME NEW w \in Slots, CancelDelivered(w) PROVE Generated'
    BY <1>t, <1>15 DEF CancelDelivered, Generated, Locks, Roles, SlotAwaits, Writing, Raising, TypeOK, SqlTypeOK, FirstSave
  <1>16. ASSUME NEW w \in Slots, ClearCancelled(w) PROVE Generated'
    BY <1>t, <1>16 DEF ClearCancelled, Generated, Locks, Roles, SlotAwaits, Writing, Raising, TypeOK, SqlTypeOK, sqlVars
  <1>17. ASSUME NEW w \in Slots, Start(w) PROVE Generated'
    BY <1>t, <1>17 DEF Start, Generated, Locks, Roles, SlotAwaits, Writing, Raising, TypeOK, SqlTypeOK, FirstSave
  <1>18. ASSUME NEW w \in Slots, MarkInflight(w) PROVE Generated'
    BY <1>t, <1>18 DEF MarkInflight, Generated, Locks, Roles, SlotAwaits, Writing, Raising, TypeOK, SqlTypeOK, sqlVars
  <1>19. ASSUME NEW w \in Slots, Complete(w) PROVE Generated'
    BY <1>t, <1>19 DEF Complete, Generated, Locks, Roles, SlotAwaits, Writing, Raising, TypeOK, SqlTypeOK, SaveAgain
  <1>20. ASSUME NEW w \in Slots, Fail(w) PROVE Generated'
    BY <1>t, <1>20 DEF Fail, Generated, Locks, Roles, SlotAwaits, Writing, Raising, TypeOK, SqlTypeOK, SaveAgain
  <1>r. ASSUME NEW w \in Slots, FailRaises(w) PROVE Generated'
    <2>1. /\ pc[w] = "exec" /\ pc' = [pc EXCEPT ![w] = "refused"]
          /\ UNCHANGED <<job, issued, row>>
          /\ lock' = lock \/ ReleaseLocks(w)
      BY <1>t, <1>r, FailRaisesParts
    <2> QED
      BY <1>t, <2>1 DEF Generated, ReleaseLocks, TypeOK, SqlTypeOK
  <1>21. ASSUME NEW w \in Slots, ClearInflight(w) PROVE Generated'
    BY <1>t, <1>21 DEF ClearInflight, Generated, Locks, Roles, SlotAwaits, Writing, Raising, TypeOK, SqlTypeOK, sqlVars
  <1>22. ASSUME NEW w \in Slots, DropConnection(w) PROVE Generated'
    BY <1>t, <1>22 DEF DropConnection, Generated, Locks, Roles, SlotAwaits, Writing, Raising, TypeOK, SqlTypeOK, LoseTransaction, ReleaseLocks
  <1>23. ASSUME NEW w \in Slots, EndLost(w) PROVE Generated'
    BY <1>t, <1>23 DEF EndLost, Generated, Locks, Roles, SlotAwaits, Writing, Raising, TypeOK, SqlTypeOK, RollbackSession, ReleaseLocks, ForgetObjects
  <1>24. ASSUME NEW s \in Schedulers, NEW t \in Tasks, ReleaseDue(s, t) PROVE Generated'
    BY <1>t, <1>24, TickIsInert DEF Generated, Locks, Roles, TickAwaits, Writing, Raising, TypeOK, SqlTypeOK, sqlVars
  <1>25. ASSUME NEW s \in Schedulers, NEW t \in Tasks, InspectInflight(s, t) PROVE Generated'
    BY <1>t, <1>25, TickIsInert DEF Generated, Locks, Roles, TickAwaits, Writing, Raising, TypeOK, SqlTypeOK, sqlVars
  <1>26. ASSUME NEW s \in Schedulers, ListInflight(s) PROVE Generated'
    BY <1>t, <1>26 DEF ListInflight, Generated, Locks, Roles, TickAwaits, Writing, Raising, TypeOK, SqlTypeOK, sqlVars
  <1>27. ASSUME NEW s \in Schedulers, SweepEnqueueFailed(s) PROVE Generated'
    BY <1>t, <1>27, TickIsInert DEF Generated, Locks, Roles, TickAwaits, Writing, Raising, TypeOK, SqlTypeOK, sqlVars
  <1>28. ASSUME NEW s \in Schedulers, NEW due \in SUBSET Tasks, Claim(s, due) PROVE Generated'
    BY <1>t, <1>28 DEF Claim, Generated, Locks, Roles, TickAwaits, Writing, Raising, TypeOK, SqlTypeOK, sqlVars
  <1>29. ASSUME NEW p \in Sessions, SelectBeforeSave(p) PROVE Generated'
    BY <1>t, <1>29 DEF SelectBeforeSave, Generated, Locks, Roles, ClientAwaits, SlotAwaits, TickAwaits, Writing, Raising, TypeOK, SqlTypeOK, Fetch, procVars
  <1>30. ASSUME NEW p \in Sessions, Commit(p) PROVE Generated'
    BY <1>t, <1>30 DEF Commit, CommitSession, ReleaseLocks, View, ForgetObjects, Generated, Locks, Roles, TickAwaits, TypeOK, SqlTypeOK
  <1>31. ASSUME NEW p \in Sessions, Abort(p) PROVE Generated'
    BY <1>t, <1>31 DEF Abort, Generated, Locks, Roles, ClientAwaits, SlotAwaits, TickAwaits, Writing, Raising, TypeOK, SqlTypeOK, RollbackSession, ReleaseLocks, ForgetObjects
  <1>32. ASSUME NEW t \in Tasks, ExpireInflight(t) PROVE Generated'
    BY <1>t, <1>32 DEF ExpireInflight, Generated, Locks, Roles, ClientAwaits, SlotAwaits, TickAwaits, Writing, Raising, TypeOK, SqlTypeOK, sqlVars, procVars
  <1>u. CASE UNCHANGED vars
    BY <1>t, <1>u DEF Generated, Locks, Roles, ClientAwaits, SlotAwaits, TickAwaits, Writing, Raising, TypeOK, SqlTypeOK, vars, sqlVars, procVars
  <1> QED
    BY <1>u, <1>r, <1>1, <1>2, <1>3, <1>4, <1>5, <1>6, <1>7, <1>8, <1>9, <1>10, <1>11, <1>12, <1>13, <1>14, <1>15, <1>16, <1>17, <1>18, <1>19, <1>20, <1>21, <1>22, <1>23, <1>24, <1>25, <1>26, <1>27, <1>28, <1>29, <1>30, <1>31, <1>32
    DEF Next, ClientStep, SlotStep, TickStep, Request

\* A connection is lost by a fault only.
LEMMA LostPreserved ==
  ASSUME IInv, [Next]_vars
  PROVE  LostIsFault'
  <1> USE ProcessAssumption, NoSessionAssumption
  <1>t. TypeOK /\ Roles /\ LostIsFault
    BY DEF IInv
  <1>1. ASSUME NEW c \in Clients, NEW t \in Tasks, NEW start \in StartTimes, SubmitSave(c, t, start) PROVE LostIsFault'
    BY <1>t, <1>1 DEF SubmitSave, LostIsFault, Roles, ClientAwaits, TypeOK, Insert
  <1>2. ASSUME NEW c \in Clients, EnqueueNow(c) PROVE LostIsFault'
    BY <1>t, <1>2 DEF EnqueueNow, LostIsFault, Roles, ClientAwaits, TypeOK, SaveAgain
  <1>3. ASSUME NEW c \in Clients, EnqueueLater(c) PROVE LostIsFault'
    BY <1>t, <1>3 DEF EnqueueLater, LostIsFault, Roles, ClientAwaits, TypeOK, SaveAgain
  <1>4. ASSUME NEW c \in Clients, EnqueueFails(c) PROVE LostIsFault'
    BY <1>t, <1>4 DEF EnqueueFails, LostIsFault, Roles, ClientAwaits, TypeOK, SaveAgain
  <1>5. ASSUME NEW c \in Clients \cup Slots, Raise(c) PROVE LostIsFault'
    BY <1>t, <1>5 DEF Raise, LostIsFault, Roles, ClientAwaits, SlotAwaits, TypeOK, RollbackSession, ReleaseLocks, ForgetObjects
  <1>6. ASSUME NEW c \in Clients, NEW t \in Tasks, CancelLoad(c, t) PROVE LostIsFault'
    BY <1>t, <1>6 DEF CancelLoad, LostIsFault, Roles, ClientAwaits, TypeOK, Load
  <1>7. ASSUME NEW c \in Clients, CancelMark(c) PROVE LostIsFault'
    BY <1>t, <1>7 DEF CancelMark, LostIsFault, Roles, ClientAwaits, TypeOK, sqlVars
  <1>8. ASSUME NEW c \in Clients, CancelSave(c) PROVE LostIsFault'
    BY <1>t, <1>8 DEF CancelSave, LostIsFault, Roles, ClientAwaits, TypeOK, FirstSave
  <1>9. ASSUME NEW c \in Clients, NEW t \in Tasks, RetryLoad(c, t) PROVE LostIsFault'
    BY <1>t, <1>9 DEF RetryLoad, LostIsFault, Roles, ClientAwaits, TypeOK, Load
  <1>10. ASSUME NEW c \in Clients, RetryPush(c) PROVE LostIsFault'
    BY <1>t, <1>10 DEF RetryPush, LostIsFault, Roles, ClientAwaits, TypeOK, sqlVars
  <1>11. ASSUME NEW c \in Clients, RetrySave(c) PROVE LostIsFault'
    BY <1>t, <1>11 DEF RetrySave, LostIsFault, Roles, ClientAwaits, TypeOK, FirstSave
  <1>12. ASSUME NEW w \in Slots, Dequeue(w) PROVE LostIsFault'
    BY <1>t, <1>12 DEF Dequeue, LostIsFault, Roles, SlotAwaits, TypeOK, sqlVars
  <1>13. ASSUME NEW w \in Slots, LoadTask(w) PROVE LostIsFault'
    BY <1>t, <1>13 DEF LoadTask, LostIsFault, Roles, SlotAwaits, TypeOK, Load, sqlVars
  <1>14. ASSUME NEW w \in Slots, CheckCancelled(w) PROVE LostIsFault'
    BY <1>t, <1>14 DEF CheckCancelled, LostIsFault, Roles, SlotAwaits, TypeOK, sqlVars
  <1>15. ASSUME NEW w \in Slots, CancelDelivered(w) PROVE LostIsFault'
    BY <1>t, <1>15 DEF CancelDelivered, LostIsFault, Roles, SlotAwaits, TypeOK, FirstSave
  <1>16. ASSUME NEW w \in Slots, ClearCancelled(w) PROVE LostIsFault'
    BY <1>t, <1>16 DEF ClearCancelled, LostIsFault, Roles, SlotAwaits, TypeOK, sqlVars
  <1>17. ASSUME NEW w \in Slots, Start(w) PROVE LostIsFault'
    BY <1>t, <1>17 DEF Start, LostIsFault, Roles, SlotAwaits, TypeOK, FirstSave
  <1>18. ASSUME NEW w \in Slots, MarkInflight(w) PROVE LostIsFault'
    BY <1>t, <1>18 DEF MarkInflight, LostIsFault, Roles, SlotAwaits, TypeOK, sqlVars
  <1>19. ASSUME NEW w \in Slots, Complete(w) PROVE LostIsFault'
    BY <1>t, <1>19 DEF Complete, LostIsFault, Roles, SlotAwaits, TypeOK, SaveAgain
  <1>20. ASSUME NEW w \in Slots, Fail(w) PROVE LostIsFault'
    BY <1>t, <1>20 DEF Fail, LostIsFault, Roles, SlotAwaits, TypeOK, SaveAgain
  <1>r. ASSUME NEW w \in Slots, FailRaises(w) PROVE LostIsFault'
    BY <1>t, <1>r, FailRaisesParts DEF LostIsFault, TypeOK
  <1>21. ASSUME NEW w \in Slots, ClearInflight(w) PROVE LostIsFault'
    BY <1>t, <1>21 DEF ClearInflight, LostIsFault, Roles, SlotAwaits, TypeOK, sqlVars
  <1>22. ASSUME NEW w \in Slots, DropConnection(w) PROVE LostIsFault'
    BY <1>t, <1>22 DEF DropConnection, LostIsFault, Roles, SlotAwaits, TypeOK, LoseTransaction, ReleaseLocks
  <1>23. ASSUME NEW w \in Slots, EndLost(w) PROVE LostIsFault'
    BY <1>t, <1>23 DEF EndLost, LostIsFault, Roles, SlotAwaits, TypeOK, RollbackSession, ReleaseLocks, ForgetObjects
  <1>24. ASSUME NEW s \in Schedulers, NEW t \in Tasks, ReleaseDue(s, t) PROVE LostIsFault'
    BY <1>t, <1>24, TickIsInert DEF LostIsFault, Roles, TickAwaits, TypeOK, sqlVars
  <1>25. ASSUME NEW s \in Schedulers, NEW t \in Tasks, InspectInflight(s, t) PROVE LostIsFault'
    BY <1>t, <1>25, TickIsInert DEF LostIsFault, Roles, TickAwaits, TypeOK, sqlVars
  <1>26. ASSUME NEW s \in Schedulers, ListInflight(s) PROVE LostIsFault'
    BY <1>t, <1>26 DEF ListInflight, LostIsFault, Roles, TickAwaits, TypeOK, sqlVars
  <1>27. ASSUME NEW s \in Schedulers, SweepEnqueueFailed(s) PROVE LostIsFault'
    BY <1>t, <1>27, TickIsInert DEF LostIsFault, Roles, TickAwaits, TypeOK, sqlVars
  <1>28. ASSUME NEW s \in Schedulers, NEW due \in SUBSET Tasks, Claim(s, due) PROVE LostIsFault'
    BY <1>t, <1>28 DEF Claim, LostIsFault, Roles, TickAwaits, TypeOK, sqlVars
  <1>29. ASSUME NEW p \in Sessions, SelectBeforeSave(p) PROVE LostIsFault'
    BY <1>t, <1>29 DEF SelectBeforeSave, LostIsFault, Roles, ClientAwaits, SlotAwaits, TickAwaits, TypeOK, Fetch, procVars
  <1>30. ASSUME NEW p \in Sessions, Commit(p) PROVE LostIsFault'
    BY <1>t, <1>30 DEF Commit, LostIsFault, Roles, ClientAwaits, SlotAwaits, TickAwaits, TypeOK, CommitSession, ReleaseLocks, ForgetObjects
  <1>31. ASSUME NEW p \in Sessions, Abort(p) PROVE LostIsFault'
    BY <1>t, <1>31 DEF Abort, LostIsFault, Roles, ClientAwaits, SlotAwaits, TickAwaits, TypeOK, RollbackSession, ReleaseLocks, ForgetObjects
  <1>32. ASSUME NEW t \in Tasks, ExpireInflight(t) PROVE LostIsFault'
    BY <1>t, <1>32 DEF ExpireInflight, LostIsFault, Roles, ClientAwaits, SlotAwaits, TickAwaits, TypeOK, sqlVars, procVars
  <1>u. CASE UNCHANGED vars
    BY <1>t, <1>u DEF LostIsFault, Roles, ClientAwaits, SlotAwaits, TickAwaits, TypeOK, vars, sqlVars, procVars
  <1> QED
    BY <1>u, <1>r, <1>1, <1>2, <1>3, <1>4, <1>5, <1>6, <1>7, <1>8, <1>9, <1>10, <1>11, <1>12, <1>13, <1>14, <1>15, <1>16, <1>17, <1>18, <1>19, <1>20, <1>21, <1>22, <1>23, <1>24, <1>25, <1>26, <1>27, <1>28, <1>29, <1>30, <1>31, <1>32
    DEF Next, ClientStep, SlotStep, TickStep, Request

\* Markers are owned.
LEMMA MarkersPreserved ==
  ASSUME IInv, [Next]_vars
  PROVE  MarkersAreOwned'
  <1> USE ProcessAssumption, NoSessionAssumption
  <1>t. TypeOK /\ Roles /\ Locks /\ MarkersAreOwned /\ LostIsFault
    BY DEF IInv
  <1>1. ASSUME NEW c \in Clients, NEW t \in Tasks, NEW start \in StartTimes, SubmitSave(c, t, start) PROVE MarkersAreOwned'
    BY <1>t, <1>1 DEF SubmitSave, MarkersAreOwned, LostIsFault, Locks, Writing, Raising, Roles, ClientAwaits, TypeOK, SqlTypeOK, RedisTypeOK, Insert, redisVars
  <1>2. ASSUME NEW c \in Clients, EnqueueNow(c) PROVE MarkersAreOwned'
    BY <1>t, <1>2 DEF EnqueueNow, MarkersAreOwned, LostIsFault, Locks, Writing, Raising, Roles, ClientAwaits, TypeOK, SqlTypeOK, RedisTypeOK, SaveAgain, redisVars
  <1>3. ASSUME NEW c \in Clients, EnqueueLater(c) PROVE MarkersAreOwned'
    BY <1>t, <1>3 DEF EnqueueLater, MarkersAreOwned, Roles, ClientAwaits, TypeOK
  <1>4. ASSUME NEW c \in Clients, EnqueueFails(c) PROVE MarkersAreOwned'
    BY <1>t, <1>4 DEF EnqueueFails, MarkersAreOwned, LostIsFault, Locks, Writing, Raising, Roles, ClientAwaits, TypeOK, SqlTypeOK, RedisTypeOK, SaveAgain, redisVars
  <1>5. ASSUME NEW c \in Clients \cup Slots, Raise(c) PROVE MarkersAreOwned'
    BY <1>t, <1>5 DEF Raise, MarkersAreOwned, LostIsFault, Locks, Writing, Raising, Roles, ClientAwaits, SlotAwaits, TypeOK, SqlTypeOK, RedisTypeOK, RollbackSession, ReleaseLocks, ForgetObjects, redisVars
  <1>6. ASSUME NEW c \in Clients, NEW t \in Tasks, CancelLoad(c, t) PROVE MarkersAreOwned'
    BY <1>t, <1>6 DEF CancelLoad, MarkersAreOwned, LostIsFault, Locks, Writing, Raising, Roles, ClientAwaits, TypeOK, SqlTypeOK, RedisTypeOK, Load, redisVars
  <1>7. ASSUME NEW c \in Clients, CancelMark(c) PROVE MarkersAreOwned'
    BY <1>t, <1>7 DEF CancelMark, MarkersAreOwned, LostIsFault, Locks, Writing, Raising, Roles, ClientAwaits, TypeOK, SqlTypeOK, RedisTypeOK, sqlVars, redisVars
  <1>8. ASSUME NEW c \in Clients, CancelSave(c) PROVE MarkersAreOwned'
    BY <1>t, <1>8 DEF CancelSave, MarkersAreOwned, LostIsFault, Locks, Writing, Raising, Roles, ClientAwaits, TypeOK, SqlTypeOK, RedisTypeOK, FirstSave, redisVars
  <1>9. ASSUME NEW c \in Clients, NEW t \in Tasks, RetryLoad(c, t) PROVE MarkersAreOwned'
    BY <1>t, <1>9 DEF RetryLoad, MarkersAreOwned, LostIsFault, Locks, Writing, Raising, Roles, ClientAwaits, TypeOK, SqlTypeOK, RedisTypeOK, Load, redisVars
  <1>10. ASSUME NEW c \in Clients, RetryPush(c) PROVE MarkersAreOwned'
    BY <1>t, <1>10 DEF RetryPush, MarkersAreOwned, LostIsFault, Locks, Writing, Raising, Roles, ClientAwaits, TypeOK, SqlTypeOK, RedisTypeOK, sqlVars, redisVars
  <1>11. ASSUME NEW c \in Clients, RetrySave(c) PROVE MarkersAreOwned'
    BY <1>t, <1>11 DEF RetrySave, MarkersAreOwned, LostIsFault, Locks, Writing, Raising, Roles, ClientAwaits, TypeOK, SqlTypeOK, RedisTypeOK, FirstSave, redisVars
  <1>12. ASSUME NEW w \in Slots, Dequeue(w) PROVE MarkersAreOwned'
    BY <1>t, <1>12 DEF Dequeue, MarkersAreOwned, LostIsFault, Locks, Writing, Raising, Roles, SlotAwaits, TypeOK, SqlTypeOK, RedisTypeOK, sqlVars, redisVars
  <1>13. ASSUME NEW w \in Slots, LoadTask(w) PROVE MarkersAreOwned'
    BY <1>t, <1>13 DEF LoadTask, MarkersAreOwned, Roles, SlotAwaits, TypeOK, redisVars
  <1>14. ASSUME NEW w \in Slots, CheckCancelled(w) PROVE MarkersAreOwned'
    BY <1>t, <1>14 DEF CheckCancelled, MarkersAreOwned, LostIsFault, Locks, Writing, Raising, Roles, SlotAwaits, TypeOK, SqlTypeOK, RedisTypeOK, sqlVars, redisVars
  <1>15. ASSUME NEW w \in Slots, CancelDelivered(w) PROVE MarkersAreOwned'
    BY <1>t, <1>15 DEF CancelDelivered, MarkersAreOwned, LostIsFault, Locks, Writing, Raising, Roles, SlotAwaits, TypeOK, SqlTypeOK, RedisTypeOK, FirstSave, redisVars
  <1>16. ASSUME NEW w \in Slots, ClearCancelled(w) PROVE MarkersAreOwned'
    BY <1>t, <1>16 DEF ClearCancelled, MarkersAreOwned, LostIsFault, Locks, Writing, Raising, Roles, SlotAwaits, TypeOK, SqlTypeOK, RedisTypeOK, sqlVars, redisVars
  <1>17. ASSUME NEW w \in Slots, Start(w) PROVE MarkersAreOwned'
    BY <1>t, <1>17 DEF Start, MarkersAreOwned, LostIsFault, Locks, Writing, Raising, Roles, SlotAwaits, TypeOK, SqlTypeOK, RedisTypeOK, FirstSave, redisVars
  <1>18. ASSUME NEW w \in Slots, MarkInflight(w) PROVE MarkersAreOwned'
    BY <1>t, <1>18 DEF MarkInflight, MarkersAreOwned, LostIsFault, Locks, Writing, Raising, Roles, SlotAwaits, TypeOK, SqlTypeOK, RedisTypeOK, sqlVars, redisVars
  <1>19. ASSUME NEW w \in Slots, Complete(w) PROVE MarkersAreOwned'
    BY <1>t, <1>19 DEF Complete, MarkersAreOwned, LostIsFault, Locks, Writing, Raising, Roles, SlotAwaits, TypeOK, SqlTypeOK, RedisTypeOK, SaveAgain, redisVars
  <1>20. ASSUME NEW w \in Slots, Fail(w) PROVE MarkersAreOwned'
    BY <1>t, <1>20 DEF Fail, MarkersAreOwned, LostIsFault, Locks, Writing, Raising, Roles, SlotAwaits, TypeOK, SqlTypeOK, RedisTypeOK, SaveAgain, redisVars
  <1>r. ASSUME NEW w \in Slots, FailRaises(w) PROVE MarkersAreOwned'
    BY <1>t, <1>r, FailRaisesParts DEF MarkersAreOwned, TypeOK
  <1>21. ASSUME NEW w \in Slots, ClearInflight(w) PROVE MarkersAreOwned'
    BY <1>t, <1>21 DEF ClearInflight, MarkersAreOwned, LostIsFault, Locks, Writing, Raising, Roles, SlotAwaits, TypeOK, SqlTypeOK, RedisTypeOK, sqlVars, redisVars
  <1>22. ASSUME NEW w \in Slots, DropConnection(w) PROVE MarkersAreOwned'
    BY <1>t, <1>22 DEF DropConnection, MarkersAreOwned, LostIsFault, Locks, Writing, Raising, Roles, SlotAwaits, TypeOK, SqlTypeOK, RedisTypeOK, LoseTransaction, ReleaseLocks, redisVars
  <1>23. ASSUME NEW w \in Slots, EndLost(w) PROVE MarkersAreOwned'
    BY <1>t, <1>23 DEF EndLost, MarkersAreOwned, LostIsFault, Locks, Writing, Raising, Roles, SlotAwaits, TypeOK, SqlTypeOK, RedisTypeOK, RollbackSession, ReleaseLocks, ForgetObjects, redisVars
  <1>24. ASSUME NEW s \in Schedulers, NEW t \in Tasks, ReleaseDue(s, t) PROVE MarkersAreOwned'
    BY <1>t, <1>24, TickIsInert DEF MarkersAreOwned, redisVars
  <1>25. ASSUME NEW s \in Schedulers, NEW t \in Tasks, InspectInflight(s, t) PROVE MarkersAreOwned'
    BY <1>t, <1>25, TickIsInert DEF MarkersAreOwned
  <1>26. ASSUME NEW s \in Schedulers, ListInflight(s) PROVE MarkersAreOwned'
    BY <1>t, <1>26 DEF ListInflight, MarkersAreOwned, LostIsFault, Locks, Writing, Raising, Roles, TickAwaits, TypeOK, SqlTypeOK, RedisTypeOK, sqlVars, redisVars
  <1>27. ASSUME NEW s \in Schedulers, SweepEnqueueFailed(s) PROVE MarkersAreOwned'
    BY <1>t, <1>27, TickIsInert DEF MarkersAreOwned, redisVars, TypeOK
  <1>28. ASSUME NEW s \in Schedulers, NEW due \in SUBSET Tasks, Claim(s, due) PROVE MarkersAreOwned'
    BY <1>t, <1>28 DEF Claim, MarkersAreOwned, LostIsFault, Locks, Writing, Raising, Roles, TickAwaits, TypeOK, SqlTypeOK, RedisTypeOK, sqlVars, redisVars
  <1>29. ASSUME NEW p \in Sessions, SelectBeforeSave(p) PROVE MarkersAreOwned'
    BY <1>t, <1>29 DEF SelectBeforeSave, MarkersAreOwned, LostIsFault, Locks, Writing, Raising, Roles, ClientAwaits, SlotAwaits, TickAwaits, TypeOK, SqlTypeOK, RedisTypeOK, Fetch, procVars, redisVars
  <1>30. ASSUME NEW p \in Sessions, Commit(p) PROVE MarkersAreOwned'
    BY <1>t, <1>30 DEF Commit, MarkersAreOwned, TypeOK, redisVars
  <1>31. ASSUME NEW p \in Sessions, Abort(p) PROVE MarkersAreOwned'
    BY <1>t, <1>31 DEF Abort, MarkersAreOwned, LostIsFault, Locks, Writing, Raising, Roles, ClientAwaits, SlotAwaits, TickAwaits, TypeOK, SqlTypeOK, RedisTypeOK, RollbackSession, ReleaseLocks, ForgetObjects, redisVars
  <1>32. ASSUME NEW t \in Tasks, ExpireInflight(t) PROVE MarkersAreOwned'
    BY <1>t, <1>32 DEF ExpireInflight, MarkersAreOwned, LostIsFault, Locks, Writing, Raising, Roles, ClientAwaits, SlotAwaits, TickAwaits, TypeOK, SqlTypeOK, RedisTypeOK, sqlVars, procVars, redisVars
  <1>u. CASE UNCHANGED vars
    BY <1>t, <1>u DEF MarkersAreOwned, LostIsFault, Locks, Writing, Raising, Roles, ClientAwaits, SlotAwaits, TickAwaits, TypeOK, SqlTypeOK, RedisTypeOK, vars, sqlVars, procVars, redisVars
  <1> QED
    BY <1>u, <1>r, <1>1, <1>2, <1>3, <1>4, <1>5, <1>6, <1>7, <1>8, <1>9, <1>10, <1>11, <1>12, <1>13, <1>14, <1>15, <1>16, <1>17, <1>18, <1>19, <1>20, <1>21, <1>22, <1>23, <1>24, <1>25, <1>26, <1>27, <1>28, <1>29, <1>30, <1>31, <1>32
    DEF Next, ClientStep, SlotStep, TickStep, Request

-----------------------------------------------------------------------------
(* The rows a transaction leaves *)

\* The committed rows change when a session commits, and only then.
LEMMA RowsKept ==
  ASSUME IInv, [Next]_vars, \A p \in Sessions : ~ Commit(p)
  PROVE  row' = row
  <1> USE ProcessAssumption
  <1>1. ASSUME NEW s \in Schedulers, TickStep(s) PROVE row' = row
    BY <1>1, TickIsInert DEF TickStep, ListInflight, sqlVars
  <1>2. ASSUME NEW c \in Clients, Request(c) \/ ClientStep(c) \/ EnqueueFails(c) PROVE row' = row
    BY <1>2 DEF Request, ClientStep, SubmitSave, EnqueueNow, EnqueueLater, EnqueueFails, Raise,
       CancelLoad, CancelMark, CancelSave, RetryLoad, RetryPush, RetrySave,
       Insert, SaveAgain, FirstSave, Load, RollbackSession, sqlVars
  <1>3. ASSUME NEW w \in Slots, Dequeue(w) \/ SlotStep(w) \/ DropConnection(w) PROVE row' = row
    BY <1>3 DEF Dequeue, SlotStep, DropConnection, LoadTask, CheckCancelled, CancelDelivered,
       ClearCancelled, Start, MarkInflight, Complete, Fail, FailRaises, ClearInflight, Raise, EndLost,
       SaveAgain, FirstSave, SaveRaises, Load, RollbackSession, LoseTransaction, sqlVars
  <1>4. ASSUME NEW s \in Schedulers, NEW due \in SUBSET Tasks, Claim(s, due) PROVE row' = row
    BY <1>4 DEF Claim, sqlVars
  <1>5. ASSUME NEW p \in Sessions, SelectBeforeSave(p) \/ Abort(p) PROVE row' = row
    BY <1>5 DEF SelectBeforeSave, Fetch, Abort, RollbackSession
  <1>6. ASSUME NEW t \in Tasks, ExpireInflight(t) PROVE row' = row
    BY <1>6 DEF ExpireInflight, sqlVars
  <1>7. CASE UNCHANGED vars
    BY <1>7 DEF vars, sqlVars
  <1> QED
    BY <1>1, <1>2, <1>3, <1>4, <1>5, <1>6, <1>7 DEF Next

\* The push of a failure adds an entry to the dead-letter list or none.
LEMMA PushFailedGrows ==
  ASSUME RedisTypeOK, NEW t \in Tasks, NEW r, PushFailed(t, r)
  PROVE  /\ \A u \in Tasks : dlq'[u] >= dlq[u]
         /\ r.status # "queued" => dlq'[t] > 0
  BY DEF PushFailed, EnqueueDlq, RedisTypeOK

\* Nothing is ever taken off the dead-letter list.
LEMMA DlqGrows ==
  ASSUME IInv, [Next]_vars
  PROVE  \A t \in Tasks : dlq'[t] >= dlq[t]
  <1> USE ProcessAssumption
  <1>t. TypeOK /\ Roles /\ RedisTypeOK
    BY DEF IInv, TypeOK
  <1>k. dlq' = dlq => \A t \in Tasks : dlq'[t] >= dlq[t]
    BY <1>t DEF RedisTypeOK
  <1>1. ASSUME NEW s \in Schedulers, TickStep(s) PROVE dlq' = dlq
    BY <1>1, TickIsInert DEF TickStep, ListInflight, redisVars
  <1>2. ASSUME NEW c \in Clients, Request(c) \/ ClientStep(c) \/ EnqueueFails(c) PROVE dlq' = dlq
    BY <1>2 DEF Request, ClientStep, SubmitSave, EnqueueNow, EnqueueLater, EnqueueFails, Raise,
       CancelLoad, CancelMark, CancelSave, RetryLoad, RetryPush, RetrySave, redisVars
  <1>3. ASSUME NEW w \in Slots, Fail(w) \/ EndLost(w) PROVE \A t \in Tasks : dlq'[t] >= dlq[t]
    BY <1>t, <1>k, <1>3, BusyHasTask, PushFailedGrows DEF Fail, EndLost
  <1>r. ASSUME NEW w \in Slots, FailRaises(w) PROVE \A t \in Tasks : dlq'[t] >= dlq[t]
    <2>1. job[w] \in Tasks /\ (dlq' = dlq \/ \E r : PushFailed(job[w], r))
      BY <1>t, <1>r, FailRaisesParts
    <2> QED
      BY <1>t, <1>k, <2>1, PushFailedGrows
  <1>4. ASSUME NEW w \in Slots, Dequeue(w) \/ SlotStep(w) \/ DropConnection(w),
               ~ (Fail(w) \/ FailRaises(w) \/ EndLost(w))
        PROVE  dlq' = dlq
    BY <1>4 DEF Dequeue, SlotStep, DropConnection, LoadTask, CheckCancelled, CancelDelivered,
       ClearCancelled, Start, MarkInflight, Complete, ClearInflight, Raise, redisVars
  <1>5. ASSUME NEW s \in Schedulers, NEW due \in SUBSET Tasks, Claim(s, due) PROVE dlq' = dlq
    BY <1>5 DEF Claim
  <1>6. ASSUME NEW p \in Sessions, SelectBeforeSave(p) \/ Abort(p) \/ Commit(p) PROVE dlq' = dlq
    BY <1>6 DEF SelectBeforeSave, Abort, Commit, redisVars
  <1>7. ASSUME NEW t \in Tasks, ExpireInflight(t) PROVE dlq' = dlq
    BY <1>7 DEF ExpireInflight
  <1>8. CASE UNCHANGED vars
    BY <1>k, <1>8 DEF vars, redisVars
  <1> QED
    BY <1>k, <1>r, <1>1, <1>2, <1>3, <1>4, <1>5, <1>6, <1>7, <1>8 DEF Next

\* Committed rows stay settled, and dead letters stay listed.
LEMMA CommittedPreserved ==
  ASSUME IInv, [Next]_vars
  PROVE  SettledStatuses' /\ DeadLetterListed'
  <1>d. \A t \in Tasks : dlq[t] \in Nat /\ dlq'[t] \in Nat /\ dlq'[t] >= dlq[t]
    <2>1. RedisTypeOK'
      BY RedisTypesPreserved DEF IInv
    <2> QED
      BY <2>1, DlqGrows DEF IInv, TypeOK, RedisTypeOK
  <1>1. CASE \A p \in Sessions : ~ Commit(p)
    <2>1. row' = row
      BY <1>1, RowsKept
    <2> QED
      BY <1>d, <2>1 DEF IInv, SettledStatuses, DeadLetterListed
  <1>2. ASSUME NEW p \in Sessions, Commit(p)
        PROVE  SettledStatuses' /\ DeadLetterListed'
    <2>1. pc[p] = "commit" /\ row' = [t \in Tasks |-> View(p, t)]
      BY <1>2 DEF Commit, CommitSession
    <2>2. ASSUME NEW t \in Tasks
          PROVE  /\ row'[t].status \in {"none", "queued", "dead_letter"} \cup Settled
                 /\ row'[t].status = "dead_letter" => dlq[t] > 0
      <3>1. CASE lock[t] = p
        BY <2>1, <3>1, NoSessionAssumption DEF View, IInv, Drafts
      <3>2. CASE lock[t] # p
        BY <2>1, <3>2 DEF View, IInv, SettledStatuses, DeadLetterListed
      <3> QED
        BY <3>1, <3>2
    <2> QED
      BY <1>d, <2>2 DEF SettledStatuses, DeadLetterListed
  <1> QED
    BY <1>1, <1>2

\* A step that writes no row, and touches no writer, keeps the uncommitted
\* versions what they are.
LEMMA DraftsKept ==
  ASSUME IInv, [Next]_vars, UNCHANGED <<row, lock, draft>>,
         \A t \in Tasks : lock[t] # NoSession =>
           /\ mem'[lock[t]] = mem[lock[t]]
           /\ pc'[lock[t]] \in Writing => pc[lock[t]] \in Writing
           /\ pc'[lock[t]] \in {"unflag", "clear", "commit"} =>
                pc[lock[t]] \in {"unflag", "clear", "commit"}
  PROVE  Drafts'
  <1>1. \A t \in Tasks : dlq[t] > 0 => dlq'[t] > 0
    <2>1. RedisTypeOK'
      BY RedisTypesPreserved DEF IInv
    <2> QED
      BY <2>1, DlqGrows DEF IInv, TypeOK, RedisTypeOK
  <1> QED
    BY <1>1 DEF IInv, Drafts

\* A save of task t by process p, of object r, that leaves the version d.
LEMMA DraftsSaved ==
  ASSUME IInv, [Next]_vars, NEW p \in Clients \cup Slots, NEW t \in Tasks, NEW r, NEW d,
         \A u \in Tasks : lock[u] = p => u = t,
         row' = row,
         lock' = [lock EXCEPT ![t] = p],
         draft' = [draft EXCEPT ![t] = d],
         mem' = [mem EXCEPT ![p] = r],
         \A q \in Sessions : q # p => pc'[q] = pc[q],
         r.status # "none",
         d.status \in {r.status, row[t].status},
         d.status = "dead_letter" => dlq'[t] > 0,
         pc'[p] \in {"unflag", "clear", "commit"} =>
           d.status \in {"none", "queued", "dead_letter"} \cup Settled
  PROVE  Drafts'
  <1>t. SqlTypeOK /\ Drafts /\ p \in Sessions /\ p # NoSession
    BY ProcessAssumption, NoSessionAssumption DEF IInv, TypeOK
  <1>1. \A u \in Tasks : dlq[u] > 0 => dlq'[u] > 0
    <2>1. RedisTypeOK'
      BY RedisTypesPreserved DEF IInv
    <2> QED
      BY <2>1, DlqGrows DEF IInv, TypeOK, RedisTypeOK
  <1>2. lock'[t] = p /\ draft'[t] = d /\ mem'[p] = r
    BY <1>t DEF SqlTypeOK
  <1>3. ASSUME NEW u \in Tasks, u # t
        PROVE  /\ lock'[u] = lock[u] /\ draft'[u] = draft[u]
               /\ lock[u] # NoSession =>
                    mem'[lock[u]] = mem[lock[u]] /\ pc'[lock[u]] = pc[lock[u]]
    BY <1>t, <1>3 DEF SqlTypeOK
  <1>4. ASSUME NEW u \in Tasks
        PROVE  /\ draft'[u].status = "dead_letter" => dlq'[u] > 0
               /\ lock'[u] # NoSession =>
                    /\ mem'[lock'[u]].status # "none"
                    /\ pc'[lock'[u]] \in Writing =>
                         draft'[u].status \in {mem'[lock'[u]].status, row'[u].status}
                    /\ pc'[lock'[u]] \in {"unflag", "clear", "commit"} =>
                         draft'[u].status \in {"none", "queued", "dead_letter"} \cup Settled
    <2>1. CASE u = t
      BY <1>2, <2>1
    <2>2. CASE u # t
      BY <1>t, <1>1, <1>3, <2>2 DEF Drafts
    <2> QED
      BY <2>1, <2>2
  <1> QED
    BY <1>4 DEF Drafts

\* The end of the transaction of p.
LEMMA DraftsEnded ==
  ASSUME IInv, [Next]_vars, NEW p \in Sessions, ReleaseLocks(p),
         \A t \in Tasks : lock[t] # p => row'[t] = row[t],
         \A q \in Sessions : q # p => pc'[q] = pc[q] /\ mem'[q] = mem[q]
  PROVE  Drafts'
  <1>1. \A u \in Tasks : dlq[u] > 0 => dlq'[u] > 0
    <2>1. RedisTypeOK'
      BY RedisTypesPreserved DEF IInv
    <2> QED
      BY <2>1, DlqGrows DEF IInv, TypeOK, RedisTypeOK
  <1>2. ASSUME NEW t \in Tasks
        PROVE  /\ draft'[t].status = "dead_letter" => dlq'[t] > 0
               /\ lock'[t] # NoSession =>
                    /\ mem'[lock'[t]].status # "none"
                    /\ pc'[lock'[t]] \in Writing =>
                         draft'[t].status \in {mem'[lock'[t]].status, row'[t].status}
                    /\ pc'[lock'[t]] \in {"unflag", "clear", "commit"} =>
                         draft'[t].status \in {"none", "queued", "dead_letter"} \cup Settled
    <2>1. CASE lock[t] = p
      BY <2>1 DEF ReleaseLocks, NoRow
    <2>2. CASE lock[t] # p
      <3>1. lock'[t] = lock[t] /\ draft'[t] = draft[t] /\ row'[t] = row[t]
        BY <2>2 DEF ReleaseLocks
      <3>2. lock[t] # NoSession => lock[t] \in Sessions
        BY DEF IInv, TypeOK, SqlTypeOK
      <3> QED
        BY <1>1, <2>2, <3>1, <3>2 DEF IInv, Drafts
    <2> QED
      BY <2>1, <2>2
  <1> QED
    BY <1>2 DEF Drafts

\* The locks of a process are those of its own task.
LEMMA OwnLocks ==
  ASSUME IInv, NEW p \in Clients \cup Slots, NEW u \in Tasks, lock[u] = p
  PROVE  u = job[p]
  BY NoSessionAssumption, ProcessAssumption DEF IInv, Locks

\* A save under the lock leaves the version that is saved.
LEMMA DraftsSavedAgain ==
  ASSUME IInv, [Next]_vars, NEW p \in Clients \cup Slots, job[p] \in Tasks, NEW r,
         SaveAgain(p, job[p], r),
         \A q \in Sessions : q # p => pc'[q] = pc[q],
         r.status # "none",
         r.status = "dead_letter" => dlq'[job[p]] > 0,
         pc'[p] \in {"unflag", "clear", "commit"} =>
           r.status \in {"none", "queued", "dead_letter"} \cup Settled
  PROVE  Drafts'
  <1>1. lock' = [lock EXCEPT ![job[p]] = p]
    BY DEF SaveAgain, IInv, TypeOK, SqlTypeOK
  <1>2. /\ row' = row
        /\ draft' = [draft EXCEPT ![job[p]] = r]
        /\ mem' = [mem EXCEPT ![p] = r]
    BY DEF SaveAgain
  <1>3. \A u \in Tasks : lock[u] = p => u = job[p]
    BY OwnLocks
  <1>4. r.status \in {r.status, row[job[p]].status}
    OBVIOUS
  <1> QED
    BY <1>1, <1>2, <1>3, <1>4, DraftsSaved

\* An UPDATE under FirstSave leaves the status of the object or the committed
\* one, which is settled.
LEMMA FirstSaveLeaves ==
  ASSUME IInv, NEW p \in Sessions, NEW t \in Tasks, NEW r \in Row
  PROVE  LET d == Updated(row[t], fetched[p], r)
         IN  /\ d.status \in {r.status, row[t].status}
             /\ row[t].status \in {"none", "queued", "dead_letter"} \cup Settled
             /\ row[t].status = "dead_letter" => dlq[t] > 0
  BY UpdatedTyped DEF IInv, TypeOK, SqlTypeOK, SettledStatuses, DeadLetterListed

\* Uncommitted rows are what their writers may commit.
LEMMA DraftsPreserved ==
  ASSUME IInv, [Next]_vars
  PROVE  Drafts'
  <1> USE ProcessAssumption, NoSessionAssumption
  <1>t. TypeOK /\ Roles /\ Locks /\ Objects /\ Drafts /\ RedisTypeOK /\ SqlTypeOK
    BY DEF IInv, TypeOK
  <1>1. ASSUME NEW c \in Clients, EnqueueNow(c) PROVE Drafts'
    <2> DEFINE r == WithStatus(mem[c], "queued")
    <2>1. c \in Clients \cup Slots /\ job[c] \in Tasks /\ mem[c] \in Row
      BY <1>t, <1>1, BusyHasTask DEF EnqueueNow
    <2>2. SaveAgain(c, job[c], r) /\ \A q \in Sessions : q # c => pc'[q] = pc[q]
      BY <1>t, <1>1, <2>1 DEF EnqueueNow, TypeOK
    <2>3. /\ r.status # "none"
          /\ r.status = "dead_letter" => dlq'[job[c]] > 0
          /\ pc'[c] \in {"unflag", "clear", "commit"} =>
               r.status \in {"none", "queued", "dead_letter"} \cup Settled
      BY <2>1 DEF WithStatus, Row
    <2> HIDE DEF r
    <2> QED
      BY <2>1, <2>2, <2>3, DraftsSavedAgain
  <1>2. ASSUME NEW c \in Clients, EnqueueLater(c) PROVE Drafts'
    <2> DEFINE r == WithStatus(mem[c], "enqueue_failed")
    <2>1. c \in Clients \cup Slots /\ job[c] \in Tasks /\ mem[c] \in Row
      BY <1>t, <1>2, BusyHasTask DEF EnqueueLater
    <2>2. SaveAgain(c, job[c], r) /\ \A q \in Sessions : q # c => pc'[q] = pc[q]
      BY <1>t, <1>2, <2>1, NoReschedule DEF EnqueueLater, TypeOK
    <2>3. /\ r.status # "none"
          /\ r.status = "dead_letter" => dlq'[job[c]] > 0
          /\ pc'[c] \in {"unflag", "clear", "commit"} =>
               r.status \in {"none", "queued", "dead_letter"} \cup Settled
      BY <1>t, <1>2, <2>1, NoReschedule DEF EnqueueLater, WithStatus, Row, TypeOK
    <2> HIDE DEF r
    <2> QED
      BY <2>1, <2>2, <2>3, DraftsSavedAgain
  <1>3. ASSUME NEW c \in Clients, EnqueueFails(c) PROVE Drafts'
    <2> DEFINE r == WithStatus(mem[c], "enqueue_failed")
    <2>1. c \in Clients \cup Slots /\ job[c] \in Tasks /\ mem[c] \in Row
      BY <1>t, <1>3, BusyHasTask DEF EnqueueFails
    <2>2. SaveAgain(c, job[c], r) /\ \A q \in Sessions : q # c => pc'[q] = pc[q]
      BY <1>t, <1>3, <2>1 DEF EnqueueFails, TypeOK
    <2>3. /\ r.status # "none"
          /\ r.status = "dead_letter" => dlq'[job[c]] > 0
          /\ pc'[c] \in {"unflag", "clear", "commit"} =>
               r.status \in {"none", "queued", "dead_letter"} \cup Settled
      BY <1>t, <1>3, <2>1 DEF EnqueueFails, WithStatus, Row, TypeOK
    <2> HIDE DEF r
    <2> QED
      BY <2>1, <2>2, <2>3, DraftsSavedAgain
  <1>4. ASSUME NEW w \in Slots, Complete(w) PROVE Drafts'
    <2> DEFINE r == WithStatus(mem[w], "completed")
    <2>1. w \in Clients \cup Slots /\ job[w] \in Tasks /\ mem[w] \in Row
      BY <1>t, <1>4, BusyHasTask DEF Complete
    <2>2. SaveAgain(w, job[w], r) /\ \A q \in Sessions : q # w => pc'[q] = pc[q]
      BY <1>t, <1>4, <2>1 DEF Complete, TypeOK
    <2>3. /\ r.status # "none"
          /\ r.status = "dead_letter" => dlq'[job[w]] > 0
          /\ pc'[w] \in {"unflag", "clear", "commit"} =>
               r.status \in {"none", "queued", "dead_letter"} \cup Settled
      BY <2>1 DEF WithStatus, Row, Settled
    <2> HIDE DEF r
    <2> QED
      BY <2>1, <2>2, <2>3, DraftsSavedAgain
  <1>5. ASSUME NEW w \in Slots, Fail(w) PROVE Drafts'
    <2> DEFINE r == AfterFailure(job[w], mem[w])
    <2>1. w \in Clients \cup Slots /\ job[w] \in Tasks /\ mem[w] \in Row
      BY <1>t, <1>5, BusyHasTask DEF Fail
    <2>2. SaveAgain(w, job[w], r) /\ \A q \in Sessions : q # w => pc'[q] = pc[q]
      BY <1>t, <1>5, <2>1 DEF Fail, TypeOK
    <2>3. /\ r.status # "none"
          /\ r.status = "dead_letter" => dlq'[job[w]] > 0
          /\ pc'[w] \in {"unflag", "clear", "commit"} =>
               r.status \in {"none", "queued", "dead_letter"} \cup Settled
      BY <1>t, <1>5, <2>1, FailureTyped, PushFailedGrows DEF Fail
    <2> HIDE DEF r
    <2> QED
      BY <2>1, <2>2, <2>3, DraftsSavedAgain
  <1>r. ASSUME NEW w \in Slots, FailRaises(w) PROVE Drafts'
    <2>1. /\ w \in Sessions /\ row' = row
          /\ pc' = [pc EXCEPT ![w] = "refused"]
          /\ UNCHANGED <<lock, draft>> \/ ReleaseLocks(w)
      BY <1>t, <1>r, FailRaisesParts
    <2>2. PICK r \in Row : mem' = [mem EXCEPT ![w] = r] /\ r.status # "none"
      BY <1>t, <1>r, FailRaisesParts
    <2>3. CASE ReleaseLocks(w)
      BY <1>t, <2>1, <2>2, <2>3, DraftsEnded DEF TypeOK, SqlTypeOK
    <2>4. CASE UNCHANGED <<lock, draft>>
      <3>1. \A t \in Tasks : dlq[t] > 0 => dlq'[t] > 0
        <4>1. RedisTypeOK'
          BY RedisTypesPreserved DEF IInv
        <4> QED
          BY <1>t, <4>1, DlqGrows DEF RedisTypeOK
      <3> QED
        BY <1>t, <2>1, <2>2, <2>4, <3>1 DEF Drafts, Writing, TypeOK, SqlTypeOK
    <2> QED
      BY <2>1, <2>3, <2>4
  <1>6. ASSUME NEW c \in Clients, CancelSave(c) PROVE Drafts'
    <2>0. job[c] \in Tasks /\ c \in Sessions /\ mem[c] \in Row
      BY <1>t, <1>6, BusyHasTask DEF CancelSave
    <2>1. /\ job[c] \in Tasks /\ c \in Sessions /\ WithStatus(mem[c], "cancelled") \in Row /\ WithStatus(mem[c], "cancelled").status = "cancelled"
          /\ \A u \in Tasks : lock[u] = c => u = job[c]
      BY <2>0, OwnLocks DEF WithStatus, Row, Statuses
    <2> DEFINE d == Updated(row[job[c]], fetched[c], WithStatus(mem[c], "cancelled"))
    <2>2. /\ row' = row /\ lock' = [lock EXCEPT ![job[c]] = c]
          /\ mem' = [mem EXCEPT ![c] = WithStatus(mem[c], "cancelled")]
          /\ draft' = [draft EXCEPT ![job[c]] = d]
          /\ dlq' = dlq
          /\ pc' = [pc EXCEPT ![c] = "commit"]
      BY <1>t, <1>6, <2>1 DEF CancelSave, FirstSave, redisVars
    <2>3. /\ d.status \in {WithStatus(mem[c], "cancelled").status, row[job[c]].status}
          /\ d.status = "dead_letter" => dlq'[job[c]] > 0
          /\ "commit" # "mark" => d.status \in {"none", "queued", "dead_letter"} \cup Settled
      BY <1>t, <2>1, <2>2, FirstSaveLeaves DEF Settled
    <2>4. /\ \A q \in Sessions : q # c => pc'[q] = pc[q]
          /\ pc'[c] = "commit"
      BY <1>t, <2>1, <2>2 DEF TypeOK
    <2> HIDE DEF d
    <2> QED
      BY <2>1, <2>2, <2>3, <2>4, DraftsSaved
  <1>7. ASSUME NEW c \in Clients, RetrySave(c) PROVE Drafts'
    <2>0. job[c] \in Tasks /\ c \in Sessions /\ mem[c] \in Row
      BY <1>t, <1>7, BusyHasTask DEF RetrySave
    <2>1. /\ job[c] \in Tasks /\ c \in Sessions /\ [status |-> "queued", attempts |-> 0] \in Row /\ [status |-> "queued", attempts |-> 0].status = "queued"
          /\ \A u \in Tasks : lock[u] = c => u = job[c]
      BY <2>0, OwnLocks DEF WithStatus, Row, Statuses
    <2> DEFINE d == Updated(row[job[c]], fetched[c], [status |-> "queued", attempts |-> 0])
    <2>2. /\ row' = row /\ lock' = [lock EXCEPT ![job[c]] = c]
          /\ mem' = [mem EXCEPT ![c] = [status |-> "queued", attempts |-> 0]]
          /\ draft' = [draft EXCEPT ![job[c]] = d]
          /\ dlq' = dlq
          /\ pc' = [pc EXCEPT ![c] = "commit"]
      BY <1>t, <1>7, <2>1 DEF RetrySave, FirstSave, redisVars
    <2>3. /\ d.status \in {[status |-> "queued", attempts |-> 0].status, row[job[c]].status}
          /\ d.status = "dead_letter" => dlq'[job[c]] > 0
          /\ "commit" # "mark" => d.status \in {"none", "queued", "dead_letter"} \cup Settled
      BY <1>t, <2>1, <2>2, FirstSaveLeaves DEF Settled
    <2>4. /\ \A q \in Sessions : q # c => pc'[q] = pc[q]
          /\ pc'[c] = "commit"
      BY <1>t, <2>1, <2>2 DEF TypeOK
    <2> HIDE DEF d
    <2> QED
      BY <2>1, <2>2, <2>3, <2>4, DraftsSaved
  <1>8. ASSUME NEW w \in Slots, CancelDelivered(w) PROVE Drafts'
    <2>0. job[w] \in Tasks /\ w \in Sessions /\ mem[w] \in Row
      BY <1>t, <1>8, BusyHasTask DEF CancelDelivered
    <2>1. /\ job[w] \in Tasks /\ w \in Sessions /\ WithStatus(mem[w], "cancelled") \in Row /\ WithStatus(mem[w], "cancelled").status = "cancelled"
          /\ \A u \in Tasks : lock[u] = w => u = job[w]
      BY <2>0, OwnLocks DEF WithStatus, Row, Statuses
    <2> DEFINE d == Updated(row[job[w]], fetched[w], WithStatus(mem[w], "cancelled"))
    <2>2. /\ row' = row /\ lock' = [lock EXCEPT ![job[w]] = w]
          /\ mem' = [mem EXCEPT ![w] = WithStatus(mem[w], "cancelled")]
          /\ draft' = [draft EXCEPT ![job[w]] = d]
          /\ dlq' = dlq
          /\ pc' = [pc EXCEPT ![w] = "unflag"]
      BY <1>t, <1>8, <2>1 DEF CancelDelivered, FirstSave, redisVars
    <2>3. /\ d.status \in {WithStatus(mem[w], "cancelled").status, row[job[w]].status}
          /\ d.status = "dead_letter" => dlq'[job[w]] > 0
          /\ "unflag" # "mark" => d.status \in {"none", "queued", "dead_letter"} \cup Settled
      BY <1>t, <2>1, <2>2, FirstSaveLeaves DEF Settled
    <2>4. /\ \A q \in Sessions : q # w => pc'[q] = pc[q]
          /\ pc'[w] = "unflag"
      BY <1>t, <2>1, <2>2 DEF TypeOK
    <2> HIDE DEF d
    <2> QED
      BY <2>1, <2>2, <2>3, <2>4, DraftsSaved
  <1>9. ASSUME NEW w \in Slots, Start(w) PROVE Drafts'
    <2>0. job[w] \in Tasks /\ w \in Sessions /\ mem[w] \in Row
      BY <1>t, <1>9, BusyHasTask DEF Start
    <2>1. /\ job[w] \in Tasks /\ w \in Sessions /\ WithStatus(mem[w], "running") \in Row /\ WithStatus(mem[w], "running").status = "running"
          /\ \A u \in Tasks : lock[u] = w => u = job[w]
      BY <2>0, OwnLocks DEF WithStatus, Row, Statuses
    <2> DEFINE d == Updated(row[job[w]], fetched[w], WithStatus(mem[w], "running"))
    <2>2. /\ row' = row /\ lock' = [lock EXCEPT ![job[w]] = w]
          /\ mem' = [mem EXCEPT ![w] = WithStatus(mem[w], "running")]
          /\ draft' = [draft EXCEPT ![job[w]] = d]
          /\ dlq' = dlq
          /\ pc' = [pc EXCEPT ![w] = "mark"]
      BY <1>t, <1>9, <2>1 DEF Start, FirstSave, redisVars
    <2>3. /\ d.status \in {WithStatus(mem[w], "running").status, row[job[w]].status}
          /\ d.status = "dead_letter" => dlq'[job[w]] > 0
          /\ "mark" # "mark" => d.status \in {"none", "queued", "dead_letter"} \cup Settled
      BY <1>t, <2>1, <2>2, FirstSaveLeaves DEF Settled
    <2>4. /\ \A q \in Sessions : q # w => pc'[q] = pc[q]
          /\ pc'[w] = "mark"
      BY <1>t, <2>1, <2>2 DEF TypeOK
    <2> HIDE DEF d
    <2> QED
      BY <2>1, <2>2, <2>3, <2>4, DraftsSaved
  <1>10. ASSUME NEW c \in Clients, NEW t \in Tasks, NEW start \in StartTimes, SubmitSave(c, t, start) PROVE Drafts'
    <2>1. /\ c \in Sessions /\ Created(start).status \in {"pending", "scheduled"}
          /\ \A u \in Tasks : lock[u] # c
      BY <1>t, <1>10, CreatedTyped DEF SubmitSave, Locks, Writing, Raising
    <2>2. /\ row' = row /\ lock' = [lock EXCEPT ![t] = c]
          /\ mem' = [mem EXCEPT ![c] = Created(start)]
          /\ draft' = [draft EXCEPT ![t] = Created(start)]
          /\ pc' = [pc EXCEPT ![c] = "enqueue"]
      BY <1>10 DEF SubmitSave, Insert
    <2>3. (\A q \in Sessions : q # c => pc'[q] = pc[q]) /\ pc'[c] = "enqueue"
      BY <1>t, <2>1, <2>2 DEF TypeOK
    <2> QED
      BY <2>1, <2>2, <2>3, DraftsSaved
  <1>11. ASSUME NEW c \in Clients \cup Slots, Raise(c) PROVE Drafts'
    BY <1>t, <1>11, DraftsEnded DEF Raise, RollbackSession, ForgetObjects, TypeOK, SqlTypeOK
  <1>12. ASSUME NEW w \in Slots, EndLost(w) PROVE Drafts'
    BY <1>t, <1>12, DraftsEnded DEF EndLost, RollbackSession, ForgetObjects, TypeOK, SqlTypeOK
  <1>13. ASSUME NEW p \in Sessions, Abort(p) PROVE Drafts'
    BY <1>t, <1>13, DraftsEnded DEF Abort, RollbackSession, ForgetObjects, TypeOK, SqlTypeOK
  <1>14. ASSUME NEW p \in Sessions, Commit(p) PROVE Drafts'
    BY <1>t, <1>14, DraftsEnded DEF Commit, CommitSession, View, ForgetObjects, TypeOK, SqlTypeOK
  <1>15. ASSUME NEW w \in Slots, DropConnection(w) PROVE Drafts'
    BY <1>t, <1>15, DraftsEnded DEF DropConnection, LoseTransaction, TypeOK, SqlTypeOK
  <1>16. ASSUME NEW c \in Clients, NEW t \in Tasks, CancelLoad(c, t) PROVE Drafts'
    BY <1>t, <1>16, DraftsKept DEF CancelLoad, Load, Locks, Writing, Raising, TypeOK, SqlTypeOK
  <1>17. ASSUME NEW c \in Clients, CancelMark(c) PROVE Drafts'
    BY <1>t, <1>17, DraftsKept DEF CancelMark, sqlVars, Locks, Writing, Raising, TypeOK, SqlTypeOK
  <1>18. ASSUME NEW c \in Clients, NEW t \in Tasks, RetryLoad(c, t) PROVE Drafts'
    BY <1>t, <1>18, DraftsKept DEF RetryLoad, Load, Locks, Writing, Raising, TypeOK, SqlTypeOK
  <1>19. ASSUME NEW c \in Clients, RetryPush(c) PROVE Drafts'
    BY <1>t, <1>19, DraftsKept DEF RetryPush, sqlVars, Locks, Writing, Raising, TypeOK, SqlTypeOK
  <1>20. ASSUME NEW w \in Slots, Dequeue(w) PROVE Drafts'
    BY <1>t, <1>20, DraftsKept DEF Dequeue, sqlVars, Locks, Writing, Raising, TypeOK, SqlTypeOK
  <1>21. ASSUME NEW w \in Slots, LoadTask(w) PROVE Drafts'
    BY <1>t, <1>21, DraftsKept DEF LoadTask, Load, sqlVars, Locks, Writing, Raising, TypeOK, SqlTypeOK
  <1>22. ASSUME NEW w \in Slots, CheckCancelled(w) PROVE Drafts'
    BY <1>t, <1>22, DraftsKept DEF CheckCancelled, sqlVars, Locks, Writing, Raising, TypeOK, SqlTypeOK
  <1>23. ASSUME NEW w \in Slots, ClearCancelled(w) PROVE Drafts'
    BY <1>t, <1>23, DraftsKept DEF ClearCancelled, sqlVars, Locks, Writing, Raising, TypeOK, SqlTypeOK
  <1>24. ASSUME NEW w \in Slots, MarkInflight(w) PROVE Drafts'
    BY <1>t, <1>24, DraftsKept DEF MarkInflight, sqlVars, Locks, Writing, Raising, TypeOK, SqlTypeOK
  <1>25. ASSUME NEW w \in Slots, ClearInflight(w) PROVE Drafts'
    BY <1>t, <1>25, DraftsKept DEF ClearInflight, sqlVars, Locks, Writing, Raising, TypeOK, SqlTypeOK
  <1>26. ASSUME NEW s \in Schedulers, ListInflight(s) PROVE Drafts'
    BY <1>t, <1>26, DraftsKept DEF ListInflight, sqlVars, Locks, Writing, Raising, TypeOK, SqlTypeOK
  <1>27. ASSUME NEW s \in Schedulers, NEW due \in SUBSET Tasks, Claim(s, due) PROVE Drafts'
    BY <1>t, <1>27, DraftsKept DEF Claim, sqlVars, Locks, Writing, Raising, TypeOK, SqlTypeOK
  <1>28. ASSUME NEW p \in Sessions, SelectBeforeSave(p) PROVE Drafts'
    BY <1>t, <1>28, DraftsKept DEF SelectBeforeSave, Fetch, procVars, Locks, Writing, Raising, TypeOK, SqlTypeOK
  <1>29. ASSUME NEW t \in Tasks, ExpireInflight(t) PROVE Drafts'
    BY <1>t, <1>29, DraftsKept DEF ExpireInflight, sqlVars, procVars, Locks, Writing, Raising, TypeOK, SqlTypeOK
  <1>30. ASSUME NEW s \in Schedulers, NEW t \in Tasks, ReleaseDue(s, t) PROVE Drafts'
    BY <1>t, <1>30, TickIsInert, DraftsKept DEF Locks, Writing, Raising, sqlVars, TypeOK, SqlTypeOK
  <1>31. ASSUME NEW s \in Schedulers, NEW t \in Tasks, InspectInflight(s, t) PROVE Drafts'
    BY <1>t, <1>31, TickIsInert, DraftsKept DEF Locks, Writing, Raising, sqlVars, TypeOK, SqlTypeOK
  <1>32. ASSUME NEW s \in Schedulers, SweepEnqueueFailed(s) PROVE Drafts'
    BY <1>t, <1>32, TickIsInert, DraftsKept DEF Locks, Writing, Raising, sqlVars, TypeOK, SqlTypeOK
  <1>u. CASE UNCHANGED vars
    BY <1>t, <1>u, DraftsKept DEF vars, sqlVars, procVars
  <1> QED
    BY <1>u, <1>r, <1>1, <1>2, <1>3, <1>4, <1>5, <1>6, <1>7, <1>8, <1>9, <1>10, <1>11, <1>12, <1>13, <1>14, <1>15, <1>16, <1>17, <1>18, <1>19, <1>20, <1>21, <1>22, <1>23, <1>24, <1>25, <1>26, <1>27, <1>28, <1>29, <1>30, <1>31, <1>32
    DEF Next, ClientStep, SlotStep, TickStep, Request

-----------------------------------------------------------------------------
(* The theorems *)

LEMMA InitIInv == Init => IInv
  <1> SUFFICES ASSUME Init PROVE IInv
    OBVIOUS
  <1> USE ProcessAssumption, NoSessionAssumption
  <1>1. RedisTypeOK
    BY DEF Init, RedisInit, RedisTypeOK
  <1>2. SqlTypeOK
    BY NoRowTyped DEF Init, SqlInit, SqlTypeOK
  <1>3. TypeOK
    BY <1>1, <1>2 DEF Init, TypeOK, Awaits
  <1>4. Roles /\ Locks /\ Objects /\ LostIsFault
    BY DEF Init, SqlInit, Roles, ClientAwaits, SlotAwaits, TickAwaits, Locks, Writing, Raising,
           Objects, LostIsFault
  <1>5. Drafts /\ Generated /\ SettledStatuses /\ DeadLetterListed /\ MarkersAreOwned
    BY DEF Init, SqlInit, RedisInit, NoRow, Drafts, Generated, SettledStatuses,
           DeadLetterListed, MarkersAreOwned
  <1> QED
    BY <1>3, <1>4, <1>5 DEF IInv

LEMMA StepIInv ==
  ASSUME IInv, [Next]_vars
  PROVE  IInv'
  <1>1. TypeOK'
    BY TypesPreserved DEF IInv
  <1> QED
    BY <1>1, RolesPreserved, LocksPreserved, ObjectsPreserved, DraftsPreserved,
       GeneratedPreserved, LostPreserved, CommittedPreserved, MarkersPreserved DEF IInv

\* IInv holds in every reachable state: the processes, the row locks, the
\* uncommitted rows and the committed ones always fit together.
THEOREM Invariance == Spec => []IInv
  <1>1. Init => IInv
    BY InitIInv
  <1>2. IInv /\ [Next]_vars => IInv'
    BY StepIInv
  <1> QED
    BY <1>1, <1>2, PTL DEF Spec

\* Every store and every process only ever holds values of its kind.
THEOREM TypeCorrect == Spec => []TypeOK
  <1>1. IInv => TypeOK
    BY DEF IInv
  <1> QED
    BY <1>1, Invariance, PTL

\* No commit of submit, execute_task, cancel, retry_task or a tick leaves a
\* status of work in progress behind, whatever fails and whoever overtakes.
THEOREM CommittedRowsSettled == Spec => []SettledStatuses
  <1>1. IInv => SettledStatuses
    BY DEF IInv
  <1> QED
    BY <1>1, Invariance, PTL

\* _move_to_dead_letter: whoever finds a row in DEAD_LETTER finds its entry in
\* queue:dlq.
THEOREM DeadLettersListed == Spec => []DeadLetterListed
  <1>1. IInv => DeadLetterListed
    BY DEF IInv
  <1> QED
    BY <1>1, Invariance, PTL

\* execute_task and its finally clause: as long as nothing fails, every
\* in-flight marker belongs to an execution that is under way.
THEOREM MarkersOwned == Spec => []MarkersAreOwned
  <1>1. IInv => MarkersAreOwned
    BY DEF IInv
  <1> QED
    BY <1>1, Invariance, PTL

\* The row lock of the uncommitted UPDATE to RUNNING keeps two slots from
\* running the handler of one task at once.
THEOREM ExecutionsExclusive == Spec => []ExecutionExclusive
  <1>1. IInv => ExecutionExclusive
    <2> SUFFICES ASSUME IInv, NEW t \in Tasks, NEW v \in Slots, NEW w \in Slots,
                        Executes(v, t), Executes(w, t)
                 PROVE  v = w
      BY DEF ExecutionExclusive
    <2>1. lock[t] = v /\ lock[t] = w
      BY DEF IInv, Locks, Writing, Raising, Executes
    <2> QED
      BY <2>1
  <1> QED
    BY <1>1, Invariance, PTL

-----------------------------------------------------------------------------
(* Settled tasks *)

\* Whoever has a quietly settled task in hand is about to load it, or has
\* only to end its transaction.
LEMMA QuietHolders ==
  ASSUME IInv, NEW t \in Tasks, QuietlySettled(t), NEW p \in Clients \cup Slots, job[p] = t
  PROVE  pc[p] \in {"load", "refused", "raise", "unflag", "clear", "commit"}
  <1>1. p \in Sessions /\ t # NoTask
    BY ProcessAssumption
  <1>2. pc[p] \in ClientAwaits \cup SlotAwaits /\ pc[p] # "idle"
    BY <1>1 DEF IInv, Roles
  <1>3. mem[p].status \in Settled \cup {"none"}
    BY <1>1 DEF QuietlySettled, Holders, NoRow
  <1> QED
    BY <1>1, <1>2, <1>3 DEF IInv, Objects, ClientAwaits, SlotAwaits, Settled

\* A commit leaves the status of such a row as it is.
LEMMA QuietRow ==
  ASSUME IInv, [Next]_vars, NEW t \in Tasks, QuietlySettled(t)
  PROVE  row'[t].status = row[t].status
  <1>1. CASE \A p \in Sessions : ~ Commit(p)
    BY <1>1, RowsKept
  <1>2. ASSUME NEW p \in Sessions, Commit(p)
        PROVE  row'[t].status = row[t].status
    <2>1. row'[t] = View(p, t)
      BY <1>2 DEF Commit, CommitSession
    <2>2. CASE lock[t] = p
      <3>1. /\ job[p] = t
            /\ mem[p].status # "none"
            /\ draft[t].status \in {mem[p].status, row[t].status}
        BY <1>2, <2>2, NoSessionAssumption DEF Commit, IInv, Locks, Drafts, Writing
      <3>2. mem[p].status = row[t].status
        BY <3>1 DEF QuietlySettled, Holders, NoRow
      <3> QED
        BY <2>1, <2>2, <3>1, <3>2 DEF View
    <2>3. CASE lock[t] # p
      BY <2>1, <2>3 DEF View
    <2> QED
      BY <2>2, <2>3
  <1> QED
    BY <1>1, <1>2

\* Nobody comes by another object of such a task.
LEMMA QuietObjects ==
  ASSUME IInv, [Next]_vars, NEW t \in Tasks, QuietlySettled(t), NEW p \in Sessions
  PROVE  job'[p] = t => mem'[p] = NoRow \/ mem'[p].status = row[t].status
  <1> USE ProcessAssumption
  <1> DEFINE Quiet == job'[p] = t => mem'[p] = NoRow \/ mem'[p].status = row[t].status
  <1>t. /\ TypeOK /\ SqlTypeOK /\ Roles
        /\ row[t].status \in Settled
        /\ job[p] = t => mem[p] = NoRow \/ mem[p].status = row[t].status
    BY DEF IInv, TypeOK, QuietlySettled, Holders
  <1>h. \A q \in Clients \cup Slots : job[q] = t =>
          pc[q] \in {"load", "refused", "raise", "unflag", "clear", "commit"}
    BY QuietHolders
  <1>1. ASSUME NEW c \in Clients, NEW u \in Tasks, NEW start \in StartTimes, SubmitSave(c, u, start) PROVE Quiet
    BY <1>t, <1>1 DEF SubmitSave, Insert, IInv, Generated, Settled, TypeOK, SqlTypeOK
  <1>2. ASSUME NEW c \in Clients, EnqueueNow(c) PROVE Quiet
    BY <1>t, <1>h, <1>2 DEF EnqueueNow, SaveAgain, TypeOK, SqlTypeOK
  <1>3. ASSUME NEW c \in Clients, EnqueueLater(c) PROVE Quiet
    BY <1>t, <1>h, <1>3 DEF EnqueueLater, SaveAgain, TypeOK, SqlTypeOK
  <1>4. ASSUME NEW c \in Clients, EnqueueFails(c) PROVE Quiet
    BY <1>t, <1>h, <1>4 DEF EnqueueFails, SaveAgain, TypeOK, SqlTypeOK
  <1>5. ASSUME NEW c \in Clients \cup Slots, Raise(c) PROVE Quiet
    BY <1>t, <1>h, <1>5 DEF Raise, RollbackSession, ReleaseLocks, ForgetObjects, TypeOK, SqlTypeOK
  <1>6. ASSUME NEW c \in Clients, NEW u \in Tasks, CancelLoad(c, u) PROVE Quiet
    BY <1>t, <1>6 DEF CancelLoad, Load, Settled, TypeOK, SqlTypeOK
  <1>7. ASSUME NEW c \in Clients, CancelMark(c) PROVE Quiet
    BY <1>t, <1>h, <1>7 DEF CancelMark, sqlVars, TypeOK, SqlTypeOK
  <1>8. ASSUME NEW c \in Clients, CancelSave(c) PROVE Quiet
    BY <1>t, <1>h, <1>8 DEF CancelSave, FirstSave, TypeOK, SqlTypeOK
  <1>9. ASSUME NEW c \in Clients, NEW u \in Tasks, RetryLoad(c, u) PROVE Quiet
    BY <1>t, <1>9 DEF RetryLoad, Load, Settled, TypeOK, SqlTypeOK
  <1>10. ASSUME NEW c \in Clients, RetryPush(c) PROVE Quiet
    BY <1>t, <1>h, <1>10 DEF RetryPush, sqlVars, TypeOK, SqlTypeOK
  <1>11. ASSUME NEW c \in Clients, RetrySave(c) PROVE Quiet
    BY <1>t, <1>h, <1>11 DEF RetrySave, FirstSave, TypeOK, SqlTypeOK
  <1>12. ASSUME NEW w \in Slots, Dequeue(w) PROVE Quiet
    BY <1>t, <1>12 DEF Dequeue, IInv, Objects, sqlVars, TypeOK
  <1>13. ASSUME NEW w \in Slots, LoadTask(w) PROVE Quiet
    BY <1>t, <1>13 DEF LoadTask, Load, sqlVars, Settled, TypeOK, SqlTypeOK
  <1>14. ASSUME NEW w \in Slots, CheckCancelled(w) PROVE Quiet
    BY <1>t, <1>h, <1>14 DEF CheckCancelled, sqlVars, TypeOK, SqlTypeOK
  <1>15. ASSUME NEW w \in Slots, CancelDelivered(w) PROVE Quiet
    BY <1>t, <1>h, <1>15 DEF CancelDelivered, FirstSave, TypeOK, SqlTypeOK
  <1>16. ASSUME NEW w \in Slots, ClearCancelled(w) PROVE Quiet
    BY <1>t, <1>h, <1>16 DEF ClearCancelled, sqlVars, TypeOK, SqlTypeOK
  <1>17. ASSUME NEW w \in Slots, Start(w) PROVE Quiet
    BY <1>t, <1>h, <1>17 DEF Start, FirstSave, TypeOK, SqlTypeOK
  <1>18. ASSUME NEW w \in Slots, MarkInflight(w) PROVE Quiet
    BY <1>t, <1>h, <1>18 DEF MarkInflight, sqlVars, TypeOK, SqlTypeOK
  <1>19. ASSUME NEW w \in Slots, Complete(w) PROVE Quiet
    BY <1>t, <1>h, <1>19 DEF Complete, SaveAgain, TypeOK, SqlTypeOK
  <1>20. ASSUME NEW w \in Slots, Fail(w) PROVE Quiet
    BY <1>t, <1>h, <1>20 DEF Fail, SaveAgain, TypeOK, SqlTypeOK
  <1>r. ASSUME NEW w \in Slots, FailRaises(w) PROVE Quiet
    <2>1. /\ pc[w] = "exec" /\ job' = job /\ \E r : mem' = [mem EXCEPT ![w] = r]
      BY <1>t, <1>r, FailRaisesParts
    <2> QED
      BY <1>t, <1>h, <2>1 DEF TypeOK, SqlTypeOK
  <1>21. ASSUME NEW w \in Slots, ClearInflight(w) PROVE Quiet
    BY <1>t, <1>h, <1>21 DEF ClearInflight, sqlVars, TypeOK, SqlTypeOK
  <1>22. ASSUME NEW w \in Slots, DropConnection(w) PROVE Quiet
    BY <1>t, <1>h, <1>22 DEF DropConnection, LoseTransaction, ReleaseLocks, TypeOK, SqlTypeOK
  <1>23. ASSUME NEW w \in Slots, EndLost(w) PROVE Quiet
    BY <1>t, <1>h, <1>23 DEF EndLost, RollbackSession, ReleaseLocks, ForgetObjects, TypeOK, SqlTypeOK
  <1>24. ASSUME NEW s \in Schedulers, NEW u \in Tasks, ReleaseDue(s, u) PROVE Quiet
    BY <1>t, <1>24, TickIsInert DEF sqlVars
  <1>25. ASSUME NEW s \in Schedulers, NEW u \in Tasks, InspectInflight(s, u) PROVE Quiet
    BY <1>t, <1>25, TickIsInert DEF sqlVars
  <1>26. ASSUME NEW s \in Schedulers, ListInflight(s) PROVE Quiet
    BY <1>t, <1>h, <1>26 DEF ListInflight, sqlVars, TypeOK, SqlTypeOK
  <1>27. ASSUME NEW s \in Schedulers, SweepEnqueueFailed(s) PROVE Quiet
    BY <1>t, <1>27, TickIsInert DEF sqlVars
  <1>28. ASSUME NEW s \in Schedulers, NEW due \in SUBSET Tasks, Claim(s, due) PROVE Quiet
    BY <1>t, <1>h, <1>28 DEF Claim, sqlVars, TypeOK, SqlTypeOK
  <1>29. ASSUME NEW q \in Sessions, SelectBeforeSave(q) PROVE Quiet
    BY <1>t, <1>h, <1>29 DEF SelectBeforeSave, Fetch, procVars, TypeOK, SqlTypeOK
  <1>30. ASSUME NEW q \in Sessions, Commit(q) PROVE Quiet
    BY <1>t, <1>h, <1>30 DEF Commit, CommitSession, ReleaseLocks, ForgetObjects, TypeOK, SqlTypeOK
  <1>31. ASSUME NEW q \in Sessions, Abort(q) PROVE Quiet
    BY <1>t, <1>h, <1>31 DEF Abort, RollbackSession, ReleaseLocks, ForgetObjects, TypeOK, SqlTypeOK
  <1>32. ASSUME NEW u \in Tasks, ExpireInflight(u) PROVE Quiet
    BY <1>t, <1>h, <1>32 DEF ExpireInflight, sqlVars, procVars, TypeOK, SqlTypeOK
  <1>u. CASE UNCHANGED vars
    BY <1>t, <1>u DEF vars, sqlVars, procVars
  <1> QED
    BY <1>u, <1>r, <1>1, <1>2, <1>3, <1>4, <1>5, <1>6, <1>7, <1>8, <1>9, <1>10, <1>11, <1>12, <1>13, <1>14, <1>15, <1>16, <1>17, <1>18, <1>19, <1>20, <1>21, <1>22, <1>23, <1>24, <1>25, <1>26, <1>27, <1>28, <1>29, <1>30, <1>31, <1>32
    DEF Next, ClientStep, SlotStep, TickStep, Request

\* A completed or cancelled task of which nobody holds an older object is
\* final: neither retry_task nor cancel, nor a late delivery in execute_task,
\* nor a tick takes it up again.
THEOREM SettledFinal == Spec => SettledIsFinal
  <1> DEFINE Final == \A t \in Tasks :
        QuietlySettled(t) => QuietlySettled(t)' /\ row'[t].status = row[t].status
  <1>1. ASSUME IInv, [Next]_vars PROVE Final
    <2> SUFFICES ASSUME NEW t \in Tasks, QuietlySettled(t)
                 PROVE  QuietlySettled(t)' /\ row'[t].status = row[t].status
      OBVIOUS
    <2>1. row'[t].status = row[t].status
      BY <1>1, QuietRow
    <2>2. \A p \in Sessions : job'[p] = t => mem'[p] = NoRow \/ mem'[p].status = row[t].status
      BY <1>1, QuietObjects
    <2> QED
      BY <2>1, <2>2 DEF QuietlySettled, Holders
  <1>2. IInv /\ [Next]_vars => [Final]_vars
    BY <1>1
  <1> QED
    BY <1>2, Invariance, PTL DEF Spec, SettledIsFinal

-----------------------------------------------------------------------------
(* Deliveries *)

(* Copies in a list *)

Places(s, t) == {i \in 1 .. Len(s) : s[i] = t}

LEMMA PlacesFinite ==
  ASSUME NEW s \in Seq(Tasks), NEW t
  PROVE  IsFiniteSet(Places(s, t)) /\ Cardinality(Places(s, t)) \in Nat
  <1>1. IsFiniteSet(1 .. Len(s))
    BY FS_Interval
  <1> QED
    BY <1>1, FS_Subset, FS_CardinalityType DEF Places

\* Append adds a copy of the task that is appended.
LEMMA PlacesAppended ==
  ASSUME NEW s \in Seq(Tasks), NEW u \in Tasks, NEW t \in Tasks
  PROVE  Cardinality(Places(Append(s, u), t)) =
           Cardinality(Places(s, t)) + (IF t = u THEN 1 ELSE 0)
  <1>1. IsFiniteSet(Places(s, t)) /\ Len(s) + 1 \notin Places(s, t)
    <2>1. IsFiniteSet(Places(s, t))
      BY PlacesFinite
    <2>2. Len(s) \in Nat
      OBVIOUS
    <2>3. \A i \in Places(s, t) : i \in Nat /\ i <= Len(s)
      BY <2>2 DEF Places
    <2> QED
      BY <2>1, <2>2, <2>3
  <1>2. CASE t = u
    <2>1. Places(Append(s, u), t) = Places(s, t) \cup {Len(s) + 1}
      BY <1>2 DEF Places
    <2> QED
      BY <1>1, <1>2, <2>1, FS_AddElement
  <1>3. CASE t # u
    <2>1. Places(Append(s, u), t) = Places(s, t)
      BY <1>3 DEF Places
    <2> QED
      BY <1>1, <1>3, <2>1, PlacesFinite
  <1> QED
    BY <1>2, <1>3

\* Tail takes the copy of the head away; the others move by one.
LEMMA PlacesPopped ==
  ASSUME NEW s \in Seq(Tasks), s # <<>>, NEW t \in Tasks
  PROVE  Cardinality(Places(Tail(s), t)) =
           Cardinality(Places(s, t)) - (IF t = Head(s) THEN 1 ELSE 0)
  <1> DEFINE Rest == Places(s, t) \ {1}
             shift == [i \in Places(Tail(s), t) |-> i + 1]
  <1>1. /\ Tail(s) \in Seq(Tasks) /\ Len(s) >= 1 /\ Len(Tail(s)) = Len(s) - 1
        /\ \A i \in 1 .. Len(Tail(s)) : Tail(s)[i] = s[i + 1]
    OBVIOUS
  <1>2. shift \in Bijection(Places(Tail(s), t), Rest)
    <2>1. \A i \in Places(Tail(s), t) : i + 1 \in Rest
      BY <1>1 DEF Places
    <2>2. \A j \in Rest : j - 1 \in Places(Tail(s), t) /\ shift[j - 1] = j
      BY <1>1 DEF Places
    <2>3. \A i, j \in Places(Tail(s), t) : shift[i] = shift[j] => i = j
      BY DEF Places
    <2> QED
      BY <2>1, <2>2, <2>3 DEF Bijection, Injection, Surjection, IsInjective
  <1>3. Cardinality(Rest) = Cardinality(Places(Tail(s), t))
    <2>1. IsFiniteSet(Places(Tail(s), t))
      BY <1>1, PlacesFinite
    <2>2. ExistsBijection(Places(Tail(s), t), Rest)
      BY <1>2 DEF ExistsBijection
    <2> HIDE DEF Rest
    <2> QED
      BY <2>1, <2>2, FS_Bijection
  <1>4. Cardinality(Rest) =
          IF 1 \in Places(s, t) THEN Cardinality(Places(s, t)) - 1 ELSE Cardinality(Places(s, t))
    BY PlacesFinite, FS_RemoveElement
  <1>5. 1 \in Places(s, t) <=> t = Head(s)
    BY <1>1 DEF Places
  <1>6. Cardinality(Places(s, t)) \in Nat
    BY PlacesFinite
  <1> QED
    BY <1>3, <1>4, <1>5, <1>6

-----------------------------------------------------------------------------
(* The ready lists *)

LEMMA CopiesTyped ==
  ASSUME RedisTypeOK, NEW t \in Tasks
  PROVE  ReadyCopies(t) = Cardinality(Places(ready[Level(t)], t)) /\ ReadyCopies(t) \in Nat
  BY LevelTyped, PlacesFinite DEF ReadyCopies, Places, RedisTypeOK

LEMMA ReadyPushed ==
  ASSUME RedisTypeOK, RedisTypeOK', Leveled, NEW u \in Tasks, EnqueueReady(u)
  PROVE  /\ Leveled'
         /\ \A t \in Tasks : ReadyCopies(t)' = ReadyCopies(t) + (IF t = u THEN 1 ELSE 0)
  <1>1. /\ Level(u) \in Levels
        /\ ready' = [ready EXCEPT ![Level(u)] = Append(@, u)]
        /\ \A l \in Levels : ready[l] \in Seq(Tasks)
    BY LevelTyped DEF EnqueueReady, RedisTypeOK
  <1>2. ASSUME NEW l \in Levels, NEW i \in 1 .. Len(ready'[l])
        PROVE  Level(ready'[l][i]) = l
    <2>1. CASE l = Level(u)
      BY <1>1, <1>2, <2>1 DEF Leveled, RedisTypeOK
    <2>2. CASE l # Level(u)
      BY <1>1, <1>2, <2>2 DEF Leveled, RedisTypeOK
    <2> QED
      BY <2>1, <2>2
  <1>3. ASSUME NEW t \in Tasks
        PROVE  ReadyCopies(t)' = ReadyCopies(t) + (IF t = u THEN 1 ELSE 0)
    <2>1. Level(t) \in Levels /\ ready[Level(t)] \in Seq(Tasks)
      BY <1>1, LevelTyped
    <2>2. ReadyCopies(t) = Cardinality(Places(ready[Level(t)], t)) /\ ReadyCopies(t) \in Nat
      BY CopiesTyped
    <2>3. ReadyCopies(t)' = Cardinality(Places(ready'[Level(t)], t))
      BY DEF ReadyCopies, Places
    <2>4. CASE Level(t) = Level(u)
      <3>1. ready'[Level(t)] = Append(ready[Level(t)], u)
        BY <1>1, <2>1, <2>4 DEF RedisTypeOK
      <3> QED
        BY <2>1, <2>2, <2>3, <3>1, PlacesAppended
    <2>5. CASE Level(t) # Level(u)
      <3>1. ready'[Level(t)] = ready[Level(t)]
        BY <1>1, <2>1, <2>5 DEF RedisTypeOK
      <3> QED
        BY <2>2, <2>3, <2>5, <3>1
    <2> QED
      BY <2>4, <2>5
  <1> QED
    BY <1>2, <1>3 DEF Leveled

LEMMA ReadyPopped ==
  ASSUME RedisTypeOK, Leveled, NEW u \in Tasks, DequeueReady(u)
  PROVE  /\ Leveled'
         /\ \A t \in Tasks : ReadyCopies(t)' = ReadyCopies(t) - (IF t = u THEN 1 ELSE 0)
  <1>1. PICK k \in Levels : /\ ready[k] # <<>> /\ u = Head(ready[k])
                            /\ ready' = [ready EXCEPT ![k] = Tail(@)]
    BY DEF DequeueReady
  <1>2. ready[k] \in Seq(Tasks) /\ Level(u) = k
    <2>1. ready[k] \in Seq(Tasks)
      BY DEF RedisTypeOK
    <2>2. 1 \in 1 .. Len(ready[k]) /\ ready[k][1] = u
      BY <1>1, <2>1
    <2> QED
      BY <2>1, <2>2 DEF Leveled
  <1>3. ASSUME NEW l \in Levels, NEW i \in 1 .. Len(ready'[l])
        PROVE  Level(ready'[l][i]) = l
    <2>1. CASE l = k
      <3>1. ready'[l] = Tail(ready[k])
        BY <1>1, <2>1 DEF RedisTypeOK
      <3>2. i + 1 \in 1 .. Len(ready[k]) /\ ready'[l][i] = ready[k][i + 1]
        <4>1. ready[k] \in Seq(Tasks) /\ ready[k] # <<>>
          BY <1>1, <1>2
        <4>2. i \in 1 .. Len(Tail(ready[k]))
          BY <1>3, <3>1
        <4>3. Len(Tail(ready[k])) = Len(ready[k]) - 1 /\ Len(ready[k]) \in Nat
          BY <4>1
        <4>4. i \in 1 .. Len(ready[k]) - 1
          BY <4>2, <4>3
        <4>5. Tail(ready[k])[i] = ready[k][i + 1]
          BY <4>1, <4>4
        <4> QED
          BY <3>1, <4>3, <4>4, <4>5
      <3> QED
        BY <2>1, <3>2 DEF Leveled
    <2>2. CASE l # k
      BY <1>1, <1>3, <2>2 DEF Leveled, RedisTypeOK
    <2> QED
      BY <2>1, <2>2
  <1>4. ASSUME NEW t \in Tasks
        PROVE  ReadyCopies(t)' = ReadyCopies(t) - (IF t = u THEN 1 ELSE 0)
    <2>1. Level(t) \in Levels
      BY LevelTyped
    <2>2. ReadyCopies(t) = Cardinality(Places(ready[Level(t)], t)) /\ ReadyCopies(t) \in Nat
      BY CopiesTyped
    <2>3. ReadyCopies(t)' = Cardinality(Places(ready'[Level(t)], t))
      BY DEF ReadyCopies, Places
    <2>4. CASE Level(t) = k
      <3>1. ready'[Level(t)] = Tail(ready[Level(t)])
        BY <1>1, <2>1, <2>4 DEF RedisTypeOK
      <3> QED
        BY <1>1, <1>2, <2>2, <2>3, <2>4, <3>1, PlacesPopped
    <2>5. CASE Level(t) # k
      <3>1. ready'[Level(t)] = ready[Level(t)]
        BY <1>1, <2>1, <2>5 DEF RedisTypeOK
      <3> QED
        BY <1>2, <2>2, <2>3, <2>5, <3>1
    <2> QED
      BY <2>4, <2>5
  <1> QED
    BY <1>3, <1>4 DEF Leveled

-----------------------------------------------------------------------------
(* The hands *)

\* Of the entries of t, those in the hand of p.
Bit(p, t) == IF p \in InHand(t) THEN 1 ELSE 0

LEMMA HandsFinite ==
  ASSUME NEW t \in Tasks
  PROVE  IsFiniteSet(InHand(t)) /\ Cardinality(InHand(t)) \in Nat
  <1>1. IsFiniteSet(Clients \cup Slots)
    BY FinitelyMany, FS_Union
  <1>2. InHand(t) \in SUBSET (Clients \cup Slots)
    BY DEF InHand, Deciding
  <1> QED
    BY <1>1, <1>2, FS_Subset, FS_CardinalityType

LEMMA WithoutOne ==
  ASSUME NEW S, NEW p, IsFiniteSet(S)
  PROVE  Cardinality(S \ {p}) = Cardinality(S) - (IF p \in S THEN 1 ELSE 0)
  <1>1. Cardinality(S) \in Nat
    BY FS_CardinalityType
  <1>2. Cardinality(S \ {p}) = IF p \in S THEN Cardinality(S) - 1 ELSE Cardinality(S)
    BY FS_RemoveElement
  <1> QED
    BY <1>1, <1>2

\* Only p may take a task in hand or let it go.
Alone(p) ==
  \A q \in Sessions : q # p => pc'[q] = pc[q] /\ mem'[q] = mem[q] /\ job'[q] = job[q]

LEMMA HandMoves ==
  ASSUME NEW p \in Sessions, Alone(p), NEW t \in Tasks
  PROVE  Cardinality(InHand(t))' = Cardinality(InHand(t)) - Bit(p, t) + Bit(p, t)'
  <1>1. InHand(t)' \ {p} = InHand(t) \ {p}
    BY ProcessAssumption DEF Alone, InHand, Deciding, Holders
  <1>2. IsFiniteSet(InHand(t)) /\ Cardinality(InHand(t)) \in Nat
    BY HandsFinite
  <1>3. IsFiniteSet(InHand(t)') /\ Cardinality(InHand(t)') \in Nat
    <2>1. InHand(t)' \subseteq (InHand(t) \ {p}) \cup {p}
      BY <1>1
    <2>2. IsFiniteSet((InHand(t) \ {p}) \cup {p})
      BY <1>2, FS_RemoveElement, FS_AddElement
    <2> QED
      BY <2>1, <2>2, FS_Subset, FS_CardinalityType
  <1>4. Cardinality(InHand(t) \ {p}) = Cardinality(InHand(t)) - Bit(p, t)
    BY <1>2, WithoutOne DEF Bit
  <1>5. Cardinality(InHand(t)' \ {p}) = Cardinality(InHand(t)') - Bit(p, t)'
    <2>1. Bit(p, t)' = IF p \in InHand(t)' THEN 1 ELSE 0
      BY DEF Bit
    <2> QED
      BY <1>3, <2>1, WithoutOne
  <1>6. Bit(p, t) \in Int /\ Bit(p, t)' \in Int
    BY DEF Bit
  <1>7. Cardinality(InHand(t))' = Cardinality(InHand(t)')
    OBVIOUS
  <1>8. Cardinality(InHand(t)') = Cardinality(InHand(t)) - Bit(p, t) + Bit(p, t)'
    <2>1. Cardinality(InHand(t)' \ {p}) = Cardinality(InHand(t) \ {p})
      BY <1>1, Zenon
    <2>2. Cardinality(InHand(t)') - Bit(p, t)' = Cardinality(InHand(t)) - Bit(p, t)
      BY <1>4, <1>5, <2>1
    <2> QED
      BY <1>2, <1>3, <1>6, <2>2
  <1> QED
    BY <1>7, <1>8

\* What a step of p does to the sum over the places of t.
Change(p, t) ==
  (ReadyCopies(t)' - ReadyCopies(t)) + (Bit(p, t)' - Bit(p, t)) + (dlq'[t] - dlq[t])

LEMMA SumMoves ==
  ASSUME IInv, IInv', Entitled, NEW p \in Sessions, Alone(p),
         \A t \in Tasks : Change(p, t) <= Asked(t)' - Asked(t)
  PROVE  Entitled'
  <1> SUFFICES ASSUME NEW t \in Tasks
               PROVE  (ReadyCopies(t) + Cardinality(InHand(t)) + dlq[t] <= Asked(t))'
    BY DEF Entitled
  <1>1. /\ ReadyCopies(t) \in Nat /\ ReadyCopies(t)' \in Nat
        /\ dlq[t] \in Nat /\ dlq'[t] \in Nat
        /\ Asked(t) \in Nat /\ Asked(t)' \in Nat
    <2>1. RedisTypeOK /\ RedisTypeOK' /\ TypeOK /\ TypeOK'
      BY DEF IInv, TypeOK
    <2>2. ReadyCopies(t) \in Nat
      BY <2>1, CopiesTyped
    <2>3. ReadyCopies(t)' \in Nat
      <3>1. ready'[Level(t)] \in Seq(Tasks)
        BY <2>1, LevelTyped DEF RedisTypeOK
      <3>2. ReadyCopies(t)' = Cardinality(Places(ready'[Level(t)], t))
        BY DEF ReadyCopies, Places
      <3> QED
        BY <3>1, <3>2, PlacesFinite
    <2> QED
      BY <2>1, <2>2, <2>3 DEF RedisTypeOK, TypeOK, Asked
  <1>2. /\ Bit(p, t) \in Int /\ Bit(p, t)' \in Int
        /\ Cardinality(InHand(t)) \in Nat
        /\ Cardinality(InHand(t))' = Cardinality(InHand(t)) - Bit(p, t) + Bit(p, t)'
    BY HandsFinite, HandMoves DEF Bit
  <1>3. ReadyCopies(t) + Cardinality(InHand(t)) + dlq[t] <= Asked(t)
    BY DEF Entitled
  <1>4. (ReadyCopies(t)' - ReadyCopies(t)) + (Bit(p, t)' - Bit(p, t)) + (dlq'[t] - dlq[t])
          <= Asked(t)' - Asked(t)
    BY DEF Change
  <1> QED
    BY <1>1, <1>2, <1>3, <1>4

\* A step that pushes nothing and takes nothing in hand.
LEMMA NothingAdded ==
  ASSUME IInv, IInv', Leveled, Entitled, NEW p \in Sessions, Alone(p),
         ready' = ready, dlq' = dlq, replays' = replays, issued' = issued,
         \A t \in Tasks : p \in InHand(t)' => p \in InHand(t)
  PROVE  Leveled' /\ Entitled'
  <1>1. ASSUME NEW t \in Tasks PROVE Change(p, t) <= Asked(t)' - Asked(t)
    <2>1. ReadyCopies(t)' = ReadyCopies(t) /\ ReadyCopies(t) \in Nat
      BY CopiesTyped DEF ReadyCopies, IInv, TypeOK
    <2>2. dlq'[t] = dlq[t] /\ dlq[t] \in Nat /\ Asked(t)' = Asked(t) /\ Asked(t) \in Nat
      BY DEF Asked, IInv, TypeOK, RedisTypeOK
    <2>3. Bit(p, t)' <= Bit(p, t) /\ Bit(p, t) \in Int /\ Bit(p, t)' \in Int
      BY DEF Bit
    <2> QED
      BY <2>1, <2>2, <2>3 DEF Change
  <1> QED
    BY <1>1, SumMoves DEF Leveled

\* A step of p with its own task u, from which it goes with its hand as full
\* or emptier; what else it adds for u is at most by how much.
LEMMA OwnTask ==
  ASSUME IInv, IInv', Entitled, NEW p \in Sessions, NEW u \in Tasks, Alone(p),
         \A t \in Tasks : t # u =>
           /\ ReadyCopies(t)' = ReadyCopies(t) /\ dlq'[t] = dlq[t]
           /\ Asked(t)' = Asked(t) /\ p \notin InHand(t)',
         Change(p, u) <= Asked(u)' - Asked(u)
  PROVE  Entitled'
  <1>1. ASSUME NEW t \in Tasks, t # u PROVE Change(p, t) <= Asked(t)' - Asked(t)
    <2>1. ReadyCopies(t) \in Nat /\ dlq[t] \in Nat /\ Asked(t) \in Nat
      BY CopiesTyped DEF Asked, IInv, TypeOK, RedisTypeOK
    <2>2. Bit(p, t)' = 0 /\ Bit(p, t) \in {0, 1}
      BY <1>1 DEF Bit
    <2> QED
      BY <1>1, <2>1, <2>2 DEF Change
  <1> QED
    BY <1>1, SumMoves

\* p lets go of its task and pushes it to its ready list.
LEMMA HandPushes ==
  ASSUME IInv, IInv', Leveled, Entitled, NEW p \in Sessions, Alone(p), job[p] \in Tasks,
         EnqueueReady(job[p]), dlq' = dlq, replays' = replays, issued' = issued,
         p \in InHand(job[p]), \A t \in Tasks : p \notin InHand(t)'
  PROVE  Leveled' /\ Entitled'
  <1>1. /\ Leveled'
        /\ \A t \in Tasks : ReadyCopies(t)' = ReadyCopies(t) + (IF t = job[p] THEN 1 ELSE 0)
    BY ReadyPushed DEF IInv, TypeOK
  <1>2. \A t \in Tasks : ReadyCopies(t) \in Nat /\ dlq[t] \in Nat /\ Asked(t)' = Asked(t) /\ Asked(t) \in Nat
    BY CopiesTyped DEF Asked, IInv, TypeOK, RedisTypeOK
  <1>3. \A t \in Tasks : Bit(p, t)' = 0 /\ Bit(p, t) \in {0, 1} /\ (t = job[p] => Bit(p, t) = 1)
    BY DEF Bit
  <1>4. ASSUME NEW t \in Tasks PROVE Change(p, t) <= Asked(t)' - Asked(t)
    BY <1>1, <1>2, <1>3 DEF Change
  <1> QED
    BY <1>1, <1>4, SumMoves

\* p lets go of its task and makes a dead letter of it.
LEMMA HandBuries ==
  ASSUME IInv, IInv', Leveled, Entitled, NEW p \in Sessions, Alone(p), job[p] \in Tasks,
         EnqueueDlq(job[p]), ready' = ready, replays' = replays, issued' = issued,
         p \in InHand(job[p]), \A t \in Tasks : p \notin InHand(t)'
  PROVE  Leveled' /\ Entitled'
  <1>1. ASSUME NEW t \in Tasks
        PROVE  /\ ReadyCopies(t)' = ReadyCopies(t) /\ ReadyCopies(t) \in Nat
               /\ dlq[t] \in Nat /\ Asked(t)' = Asked(t) /\ Asked(t) \in Nat
    <2>1. ReadyCopies(t)' = ReadyCopies(t) /\ ReadyCopies(t) \in Nat
      BY CopiesTyped DEF ReadyCopies, IInv, TypeOK
    <2>2. dlq[t] \in Nat /\ Asked(t)' = Asked(t) /\ Asked(t) \in Nat
      BY DEF Asked, IInv, TypeOK, RedisTypeOK
    <2> QED
      BY <2>1, <2>2
  <1>2. \A t \in Tasks : dlq'[t] = dlq[t] + (IF t = job[p] THEN 1 ELSE 0)
    BY <1>1 DEF EnqueueDlq, IInv, TypeOK, RedisTypeOK
  <1>3. \A t \in Tasks : Bit(p, t)' = 0 /\ Bit(p, t) \in {0, 1} /\ (t = job[p] => Bit(p, t) = 1)
    BY DEF Bit
  <1>4. ASSUME NEW t \in Tasks PROVE Change(p, t) <= Asked(t)' - Asked(t)
    BY <1>1, <1>2, <1>3 DEF Change
  <1> QED
    BY <1>4, SumMoves DEF Leveled

\* A step that touches neither the lists nor the processes.
LEMMA StillCopies ==
  ASSUME Leveled, Entitled, UNCHANGED <<ready, dlq, issued, replays, pc, job, mem>>
  PROVE  Leveled' /\ Entitled'
  BY DEF Leveled, Entitled, ReadyCopies, InHand, Deciding, Holders, Asked

-----------------------------------------------------------------------------
(* Every step keeps the sum *)

LEMMA StepCopies ==
  ASSUME IInv, IInv', Leveled, Entitled, [Next]_vars
  PROVE  Leveled' /\ Entitled'
  <1> USE ProcessAssumption
  <1> DEFINE Kept == Leveled' /\ Entitled'
  <1>t. /\ TypeOK /\ SqlTypeOK /\ RedisTypeOK /\ RedisTypeOK'
        /\ Roles /\ Locks /\ Objects /\ Generated
    BY DEF IInv, TypeOK
  <1>1. ASSUME NEW c \in Clients, NEW t \in Tasks, NEW start \in StartTimes, SubmitSave(c, t, start) PROVE Kept
    <2>1. /\ c \in Sessions /\ Alone(c) /\ ready' = ready /\ dlq' = dlq /\ replays' = replays
          /\ t \notin issued /\ issued' = issued \cup {t}
      BY <1>t, <1>1 DEF SubmitSave, Insert, redisVars, Alone, TypeOK, SqlTypeOK
    <2>2. \A u \in Tasks : u # t => c \notin InHand(u)'
      BY <1>t, <1>1 DEF SubmitSave, InHand, Deciding, Holders, TypeOK
    <2>3. /\ \A u \in Tasks : ReadyCopies(u)' = ReadyCopies(u) /\ ReadyCopies(u) \in Nat
          /\ dlq[t] \in Nat /\ Asked(t)' = Asked(t) + 1 /\ Asked(t) \in Nat
          /\ \A u \in Tasks : u # t => Asked(u)' = Asked(u)
      <3>1. ASSUME NEW u \in Tasks PROVE ReadyCopies(u)' = ReadyCopies(u) /\ ReadyCopies(u) \in Nat
        BY <1>t, <2>1, CopiesTyped DEF ReadyCopies
      <3>2. dlq[t] \in Nat /\ replays[t] \in Nat
        BY <1>t DEF TypeOK, RedisTypeOK
      <3>3. Asked(t)' = Asked(t) + 1 /\ Asked(t) \in Nat
        BY <1>t, <2>1, <3>2 DEF Asked, TypeOK
      <3>4. ASSUME NEW u \in Tasks, u # t PROVE Asked(u)' = Asked(u)
        BY <1>t, <2>1, <3>4 DEF Asked, TypeOK
      <3> QED
        BY <3>1, <3>2, <3>3, <3>4
    <2>4. Change(c, t) <= Asked(t)' - Asked(t)
      BY <2>1, <2>3 DEF Change, Bit
    <2> QED
      BY <2>1, <2>2, <2>3, <2>4, OwnTask DEF Leveled
  <1>2. ASSUME NEW c \in Clients, EnqueueNow(c) PROVE Kept
    <2>1. /\ c \in Sessions /\ Alone(c) /\ job[c] \in Tasks /\ EnqueueReady(job[c])
          /\ dlq' = dlq /\ issued' = issued /\ replays' = replays
      BY <1>t, <1>2, BusyHasTask DEF EnqueueNow, SaveAgain, Alone, TypeOK, SqlTypeOK
    <2>2. c \in InHand(job[c]) /\ \A u \in Tasks : c \notin InHand(u)'
      BY <1>t, <1>2 DEF EnqueueNow, InHand, Deciding, Holders, TypeOK
    <2> QED
      BY <1>t, <2>1, <2>2, HandPushes
  <1>3. ASSUME NEW c \in Clients, EnqueueLater(c) PROVE Kept
    <2>1. /\ c \in Sessions /\ Alone(c) /\ ready' = ready /\ dlq' = dlq
          /\ issued' = issued /\ replays' = replays
      BY <1>t, <1>3 DEF EnqueueLater, SaveAgain, redisVars, sqlVars, Alone, TypeOK, SqlTypeOK
    <2>2. \A u \in Tasks : c \in InHand(u)' => c \in InHand(u)
      BY <1>t, <1>3 DEF EnqueueLater, SaveAgain, sqlVars, InHand, Deciding, Holders, Objects, Roles, NoRow, WithStatus, Row, TypeOK, SqlTypeOK
    <2> QED
      BY <2>1, <2>2, NothingAdded
  <1>4. ASSUME NEW c \in Clients, EnqueueFails(c) PROVE Kept
    <2>1. /\ c \in Sessions /\ Alone(c) /\ job[c] \in Tasks
          /\ EnqueueReady(job[c]) \/ ready' = ready
          /\ dlq' = dlq /\ issued' = issued /\ replays' = replays
      BY <1>t, <1>4, BusyHasTask DEF EnqueueFails, SaveAgain, Alone, TypeOK, SqlTypeOK
    <2>2. c \in InHand(job[c]) /\ \A u \in Tasks : c \notin InHand(u)'
      BY <1>t, <1>4 DEF EnqueueFails, InHand, Deciding, Holders, TypeOK
    <2> QED
      BY <1>t, <2>1, <2>2, HandPushes, NothingAdded
  <1>5. ASSUME NEW c \in Clients \cup Slots, Raise(c) PROVE Kept
    <2>1. /\ c \in Sessions /\ Alone(c) /\ ready' = ready /\ dlq' = dlq
          /\ issued' = issued /\ replays' = replays
      BY <1>t, <1>5 DEF Raise, RollbackSession, ForgetObjects, redisVars, sqlVars, Alone, TypeOK, SqlTypeOK
    <2>2. \A u \in Tasks : c \in InHand(u)' => c \in InHand(u)
      BY <1>t, <1>5 DEF Raise, RollbackSession, ForgetObjects, sqlVars, InHand, Deciding, Holders, Objects, Roles, NoRow, WithStatus, Row, TypeOK, SqlTypeOK
    <2> QED
      BY <2>1, <2>2, NothingAdded
  <1>6. ASSUME NEW c \in Clients, NEW t \in Tasks, CancelLoad(c, t) PROVE Kept
    <2>1. /\ c \in Sessions /\ Alone(c) /\ ready' = ready /\ dlq' = dlq
          /\ issued' = issued /\ replays' = replays
      BY <1>t, <1>6 DEF CancelLoad, Load, redisVars, sqlVars, Alone, TypeOK, SqlTypeOK
    <2>2. \A u \in Tasks : c \in InHand(u)' => c \in InHand(u)
      BY <1>t, <1>6 DEF CancelLoad, Load, sqlVars, InHand, Deciding, Holders, Objects, Roles, NoRow, WithStatus, Row, TypeOK, SqlTypeOK
    <2> QED
      BY <2>1, <2>2, NothingAdded
  <1>7. ASSUME NEW c \in Clients, CancelMark(c) PROVE Kept
    <2>1. /\ c \in Sessions /\ Alone(c) /\ ready' = ready /\ dlq' = dlq
          /\ issued' = issued /\ replays' = replays
      BY <1>t, <1>7 DEF CancelMark, sqlVars, redisVars, sqlVars, Alone, TypeOK, SqlTypeOK
    <2>2. \A u \in Tasks : c \in InHand(u)' => c \in InHand(u)
      BY <1>t, <1>7 DEF CancelMark, sqlVars, sqlVars, InHand, Deciding, Holders, Objects, Roles, NoRow, WithStatus, Row, TypeOK, SqlTypeOK
    <2> QED
      BY <2>1, <2>2, NothingAdded
  <1>8. ASSUME NEW c \in Clients, CancelSave(c) PROVE Kept
    <2>1. /\ c \in Sessions /\ Alone(c) /\ ready' = ready /\ dlq' = dlq
          /\ issued' = issued /\ replays' = replays
      BY <1>t, <1>8 DEF CancelSave, FirstSave, redisVars, sqlVars, Alone, TypeOK, SqlTypeOK
    <2>2. \A u \in Tasks : c \in InHand(u)' => c \in InHand(u)
      BY <1>t, <1>8 DEF CancelSave, FirstSave, sqlVars, InHand, Deciding, Holders, Objects, Roles, NoRow, WithStatus, Row, TypeOK, SqlTypeOK
    <2> QED
      BY <2>1, <2>2, NothingAdded
  <1>9. ASSUME NEW c \in Clients, NEW t \in Tasks, RetryLoad(c, t) PROVE Kept
    <2>1. /\ c \in Sessions /\ Alone(c) /\ ready' = ready /\ dlq' = dlq /\ issued' = issued
          /\ replays' = [replays EXCEPT ![t] = @ + 1]
      BY <1>t, <1>9 DEF RetryLoad, Load, redisVars, Alone, TypeOK, SqlTypeOK
    <2>2. \A u \in Tasks : u # t => c \notin InHand(u)'
      BY <1>t, <1>9 DEF RetryLoad, InHand, Deciding, Holders, TypeOK
    <2>3. /\ \A u \in Tasks : ReadyCopies(u)' = ReadyCopies(u) /\ ReadyCopies(u) \in Nat
          /\ dlq[t] \in Nat /\ Asked(t)' = Asked(t) + 1 /\ Asked(t) \in Nat
          /\ \A u \in Tasks : u # t => Asked(u)' = Asked(u)
      <3>1. ASSUME NEW u \in Tasks PROVE ReadyCopies(u)' = ReadyCopies(u) /\ ReadyCopies(u) \in Nat
        BY <1>t, <2>1, CopiesTyped DEF ReadyCopies
      <3>2. dlq[t] \in Nat /\ replays[t] \in Nat
        BY <1>t DEF TypeOK, RedisTypeOK
      <3>3. Asked(t)' = Asked(t) + 1 /\ Asked(t) \in Nat
        BY <1>t, <2>1, <3>2 DEF Asked, TypeOK
      <3>4. ASSUME NEW u \in Tasks, u # t PROVE Asked(u)' = Asked(u)
        BY <1>t, <2>1, <3>4 DEF Asked, TypeOK
      <3> QED
        BY <3>1, <3>2, <3>3, <3>4
    <2>4. Change(c, t) <= Asked(t)' - Asked(t)
      BY <2>1, <2>3 DEF Change, Bit
    <2> QED
      BY <2>1, <2>2, <2>3, <2>4, OwnTask DEF Leveled
  <1>10. ASSUME NEW c \in Clients, RetryPush(c) PROVE Kept
    <2>1. /\ c \in Sessions /\ Alone(c) /\ job[c] \in Tasks /\ EnqueueReady(job[c])
          /\ dlq' = dlq /\ issued' = issued /\ replays' = replays
      BY <1>t, <1>10, BusyHasTask DEF RetryPush, sqlVars, Alone, TypeOK, SqlTypeOK
    <2>2. c \in InHand(job[c]) /\ \A u \in Tasks : c \notin InHand(u)'
      BY <1>t, <1>10 DEF RetryPush, InHand, Deciding, Holders, TypeOK
    <2> QED
      BY <1>t, <2>1, <2>2, HandPushes
  <1>11. ASSUME NEW c \in Clients, RetrySave(c) PROVE Kept
    <2>1. /\ c \in Sessions /\ Alone(c) /\ ready' = ready /\ dlq' = dlq
          /\ issued' = issued /\ replays' = replays
      BY <1>t, <1>11 DEF RetrySave, FirstSave, redisVars, sqlVars, Alone, TypeOK, SqlTypeOK
    <2>2. \A u \in Tasks : c \in InHand(u)' => c \in InHand(u)
      BY <1>t, <1>11 DEF RetrySave, FirstSave, sqlVars, InHand, Deciding, Holders, Objects, Roles, NoRow, WithStatus, Row, TypeOK, SqlTypeOK
    <2> QED
      BY <2>1, <2>2, NothingAdded
  <1>12. ASSUME NEW w \in Slots, Dequeue(w) PROVE Kept
    <2>1. PICK u \in Tasks : DequeueReady(u) /\ job' = [job EXCEPT ![w] = u]
      BY <1>12 DEF Dequeue
    <2>2. /\ w \in Sessions /\ Alone(w) /\ dlq' = dlq /\ issued' = issued /\ replays' = replays
      BY <1>t, <1>12 DEF Dequeue, sqlVars, Alone, TypeOK
    <2>3. \A v \in Tasks : v # u => w \notin InHand(v)'
      BY <1>t, <2>1 DEF InHand, Deciding, Holders, TypeOK
    <2>4. w \notin InHand(u)
      BY <1>t, <1>12 DEF Dequeue, InHand, Deciding, Holders, Roles
    <2>5. Leveled' /\ \A v \in Tasks : ReadyCopies(v)' = ReadyCopies(v) - (IF v = u THEN 1 ELSE 0)
      BY <1>t, <2>1, ReadyPopped
    <2>6. \A v \in Tasks : ReadyCopies(v) \in Nat /\ dlq[v] \in Nat /\ Asked(v)' = Asked(v) /\ Asked(v) \in Nat
      BY <1>t, <2>2, CopiesTyped DEF Asked, TypeOK, RedisTypeOK
    <2>7. Change(w, u) <= Asked(u)' - Asked(u)
      BY <2>2, <2>4, <2>5, <2>6 DEF Change, Bit
    <2>8. \A v \in Tasks : v # u => ReadyCopies(v)' = ReadyCopies(v)
      BY <2>5, <2>6
    <2> QED
      BY <2>2, <2>3, <2>5, <2>6, <2>7, <2>8, OwnTask
  <1>13. ASSUME NEW w \in Slots, LoadTask(w) PROVE Kept
    <2>1. /\ w \in Sessions /\ Alone(w) /\ ready' = ready /\ dlq' = dlq
          /\ issued' = issued /\ replays' = replays
      BY <1>t, <1>13 DEF LoadTask, Load, sqlVars, redisVars, sqlVars, Alone, TypeOK, SqlTypeOK
    <2>2. \A u \in Tasks : w \in InHand(u)' => w \in InHand(u)
      BY <1>t, <1>13, ReadsCommitted, BusyHasTask DEF LoadTask, Load, sqlVars, sqlVars, InHand, Deciding, Holders, Objects, Roles, NoRow, WithStatus, Row, TypeOK, SqlTypeOK
    <2> QED
      BY <2>1, <2>2, NothingAdded
  <1>14. ASSUME NEW w \in Slots, CheckCancelled(w) PROVE Kept
    <2>1. /\ w \in Sessions /\ Alone(w) /\ ready' = ready /\ dlq' = dlq
          /\ issued' = issued /\ replays' = replays
      BY <1>t, <1>14 DEF CheckCancelled, sqlVars, redisVars, sqlVars, Alone, TypeOK, SqlTypeOK
    <2>2. \A u \in Tasks : w \in InHand(u)' => w \in InHand(u)
      BY <1>t, <1>14 DEF CheckCancelled, sqlVars, sqlVars, InHand, Deciding, Holders, Objects, Roles, NoRow, WithStatus, Row, TypeOK, SqlTypeOK
    <2> QED
      BY <2>1, <2>2, NothingAdded
  <1>15. ASSUME NEW w \in Slots, CancelDelivered(w) PROVE Kept
    <2>1. /\ w \in Sessions /\ Alone(w) /\ ready' = ready /\ dlq' = dlq
          /\ issued' = issued /\ replays' = replays
      BY <1>t, <1>15 DEF CancelDelivered, FirstSave, redisVars, sqlVars, Alone, TypeOK, SqlTypeOK
    <2>2. \A u \in Tasks : w \in InHand(u)' => w \in InHand(u)
      BY <1>t, <1>15 DEF CancelDelivered, FirstSave, sqlVars, InHand, Deciding, Holders, Objects, Roles, NoRow, WithStatus, Row, TypeOK, SqlTypeOK
    <2> QED
      BY <2>1, <2>2, NothingAdded
  <1>16. ASSUME NEW w \in Slots, ClearCancelled(w) PROVE Kept
    <2>1. /\ w \in Sessions /\ Alone(w) /\ ready' = ready /\ dlq' = dlq
          /\ issued' = issued /\ replays' = replays
      BY <1>t, <1>16 DEF ClearCancelled, sqlVars, redisVars, sqlVars, Alone, TypeOK, SqlTypeOK
    <2>2. \A u \in Tasks : w \in InHand(u)' => w \in InHand(u)
      BY <1>t, <1>16 DEF ClearCancelled, sqlVars, sqlVars, InHand, Deciding, Holders, Objects, Roles, NoRow, WithStatus, Row, TypeOK, SqlTypeOK
    <2> QED
      BY <2>1, <2>2, NothingAdded
  <1>17. ASSUME NEW w \in Slots, Start(w) PROVE Kept
    <2>1. /\ w \in Sessions /\ Alone(w) /\ ready' = ready /\ dlq' = dlq
          /\ issued' = issued /\ replays' = replays
      BY <1>t, <1>17 DEF Start, FirstSave, redisVars, sqlVars, Alone, TypeOK, SqlTypeOK
    <2>2. \A u \in Tasks : w \in InHand(u)' => w \in InHand(u)
      BY <1>t, <1>17 DEF Start, FirstSave, sqlVars, InHand, Deciding, Holders, Objects, Roles, NoRow, WithStatus, Row, TypeOK, SqlTypeOK
    <2> QED
      BY <2>1, <2>2, NothingAdded
  <1>18. ASSUME NEW w \in Slots, MarkInflight(w) PROVE Kept
    <2>1. /\ w \in Sessions /\ Alone(w) /\ ready' = ready /\ dlq' = dlq
          /\ issued' = issued /\ replays' = replays
      BY <1>t, <1>18 DEF MarkInflight, sqlVars, redisVars, sqlVars, Alone, TypeOK, SqlTypeOK
    <2>2. \A u \in Tasks : w \in InHand(u)' => w \in InHand(u)
      BY <1>t, <1>18 DEF MarkInflight, sqlVars, sqlVars, InHand, Deciding, Holders, Objects, Roles, NoRow, WithStatus, Row, TypeOK, SqlTypeOK
    <2> QED
      BY <2>1, <2>2, NothingAdded
  <1>19. ASSUME NEW w \in Slots, Complete(w) PROVE Kept
    <2>1. /\ w \in Sessions /\ Alone(w) /\ ready' = ready /\ dlq' = dlq
          /\ issued' = issued /\ replays' = replays
      BY <1>t, <1>19 DEF Complete, SaveAgain, redisVars, sqlVars, Alone, TypeOK, SqlTypeOK
    <2>2. \A u \in Tasks : w \in InHand(u)' => w \in InHand(u)
      BY <1>t, <1>19 DEF Complete, SaveAgain, sqlVars, InHand, Deciding, Holders, Objects, Roles, NoRow, WithStatus, Row, TypeOK, SqlTypeOK
    <2> QED
      BY <2>1, <2>2, NothingAdded
  <1>20. ASSUME NEW w \in Slots, Fail(w) PROVE Kept
    <2>1. /\ w \in Sessions /\ Alone(w) /\ job[w] \in Tasks /\ mem[w] \in Row
          /\ ready' = ready /\ issued' = issued /\ replays' = replays /\ job' = job
          /\ mem'[w] = AfterFailure(job[w], mem[w])
          /\ PushFailed(job[w], mem'[w])
      BY <1>t, <1>20, BusyHasTask DEF Fail, SaveAgain, PushFailed, Alone, TypeOK, SqlTypeOK
    <2>2. w \in InHand(job[w])
      BY <1>t, <1>20 DEF Fail, InHand, Deciding, Holders, Objects
    <2>3. CASE mem'[w].status = "queued"
      <3>1. dlq' = dlq
        BY <2>1, <2>3 DEF PushFailed
      <3>2. \A u \in Tasks : w \in InHand(u)' => w \in InHand(u)
        BY <2>1, <2>2 DEF InHand, Deciding, Holders
      <3> QED
        BY <2>1, <3>1, <3>2, NothingAdded
    <2>4. CASE mem'[w].status = "dead_letter"
      <3>1. \A u \in Tasks : w \notin InHand(u)'
        BY <2>4 DEF InHand, Deciding
      <3>2. EnqueueDlq(job[w])
        BY <2>1, <2>4 DEF PushFailed
      <3> QED
        BY <2>1, <2>2, <3>1, <3>2, HandBuries
    <2> QED
      BY <2>1, <2>3, <2>4, FailureTyped
  <1>r. ASSUME NEW w \in Slots, FailRaises(w) PROVE Kept
    <2>1. /\ w \in Sessions /\ job[w] \in Tasks /\ pc[w] = "exec"
          /\ ready' = ready /\ issued' = issued /\ replays' = replays /\ job' = job
          /\ pc' = [pc EXCEPT ![w] = "refused"]
      BY <1>t, <1>r, FailRaisesParts
    <2>2. PICK r \in Row :
            /\ mem' = [mem EXCEPT ![w] = r]
            /\ \/ r.status # "dead_letter" /\ dlq' = dlq
               \/ r.status \in {"queued", "dead_letter"} /\ PushFailed(job[w], r)
      BY <1>t, <1>r, FailRaisesParts
    <2>3. Alone(w) /\ mem'[w] = r
      BY <1>t, <2>1, <2>2 DEF Alone, TypeOK, SqlTypeOK
    <2>4. w \in InHand(job[w])
      BY <1>t, <2>1 DEF InHand, Deciding, Holders, Objects
    <2>5. CASE dlq' = dlq
      <3>1. \A u \in Tasks : w \in InHand(u)' => w \in InHand(u)
        BY <2>1, <2>4 DEF InHand, Deciding, Holders
      <3> QED
        BY <2>1, <2>3, <2>5, <3>1, NothingAdded
    <2>6. CASE EnqueueDlq(job[w]) /\ r.status = "dead_letter"
      <3>1. \A u \in Tasks : w \notin InHand(u)'
        BY <2>3, <2>6 DEF InHand, Deciding
      <3> QED
        BY <2>1, <2>3, <2>4, <2>6, <3>1, HandBuries
    <2> QED
      BY <2>2, <2>5, <2>6 DEF PushFailed
  <1>21. ASSUME NEW w \in Slots, ClearInflight(w) PROVE Kept
    <2>1. /\ w \in Sessions /\ Alone(w) /\ ready' = ready /\ dlq' = dlq
          /\ issued' = issued /\ replays' = replays
      BY <1>t, <1>21 DEF ClearInflight, sqlVars, redisVars, sqlVars, Alone, TypeOK, SqlTypeOK
    <2>2. \A u \in Tasks : w \in InHand(u)' => w \in InHand(u)
      BY <1>t, <1>21 DEF ClearInflight, sqlVars, sqlVars, InHand, Deciding, Holders, Objects, Roles, NoRow, WithStatus, Row, TypeOK, SqlTypeOK
    <2> QED
      BY <2>1, <2>2, NothingAdded
  <1>22. ASSUME NEW w \in Slots, DropConnection(w) PROVE Kept
    <2>1. /\ w \in Sessions /\ Alone(w) /\ ready' = ready /\ dlq' = dlq
          /\ issued' = issued /\ replays' = replays
      BY <1>t, <1>22 DEF DropConnection, LoseTransaction, redisVars, sqlVars, Alone, TypeOK, SqlTypeOK
    <2>2. \A u \in Tasks : w \in InHand(u)' => w \in InHand(u)
      BY <1>t, <1>22 DEF DropConnection, LoseTransaction, sqlVars, InHand, Deciding, Holders, Objects, Roles, NoRow, WithStatus, Row, TypeOK, SqlTypeOK
    <2> QED
      BY <2>1, <2>2, NothingAdded
  <1>23. ASSUME NEW w \in Slots, EndLost(w) PROVE Kept
    <2>1. /\ w \in Sessions /\ Alone(w) /\ job[w] \in Tasks
          /\ ready' = ready /\ issued' = issued /\ replays' = replays
          /\ dlq' = dlq \/ EnqueueDlq(job[w])
      BY <1>t, <1>23, BusyHasTask DEF EndLost, RollbackSession, ForgetObjects, PushFailed, Alone, TypeOK, SqlTypeOK
    <2>2. w \in InHand(job[w]) /\ \A u \in Tasks : w \notin InHand(u)'
      BY <1>t, <1>23 DEF EndLost, InHand, Deciding, Holders, Objects, TypeOK
    <2> QED
      BY <2>1, <2>2, NothingAdded, HandBuries
  <1>24. ASSUME NEW s \in Schedulers, NEW t \in Tasks, ReleaseDue(s, t) PROVE Kept
    <2>1. /\ s \in Sessions /\ Alone(s) /\ ready' = ready /\ dlq' = dlq
          /\ issued' = issued /\ replays' = replays
      BY <1>t, <1>24, TickIsInert DEF ReleaseDue, redisVars, sqlVars, Alone, TypeOK
    <2>2. \A u \in Tasks : s \notin InHand(u)'
      BY DEF InHand, Deciding
    <2> QED
      BY <2>1, <2>2, NothingAdded
  <1>25. ASSUME NEW s \in Schedulers, NEW t \in Tasks, InspectInflight(s, t) PROVE Kept
    <2>1. /\ s \in Sessions /\ Alone(s) /\ ready' = ready /\ dlq' = dlq
          /\ issued' = issued /\ replays' = replays
      BY <1>t, <1>25, TickIsInert DEF InspectInflight, redisVars, sqlVars, Alone, TypeOK
    <2>2. \A u \in Tasks : s \notin InHand(u)'
      BY DEF InHand, Deciding
    <2> QED
      BY <2>1, <2>2, NothingAdded
  <1>26. ASSUME NEW s \in Schedulers, ListInflight(s) PROVE Kept
    <2>1. /\ s \in Sessions /\ Alone(s) /\ ready' = ready /\ dlq' = dlq
          /\ issued' = issued /\ replays' = replays
      BY <1>t, <1>26 DEF ListInflight, redisVars, sqlVars, Alone, TypeOK
    <2>2. \A u \in Tasks : s \notin InHand(u)'
      BY DEF InHand, Deciding
    <2> QED
      BY <2>1, <2>2, NothingAdded
  <1>27. ASSUME NEW s \in Schedulers, SweepEnqueueFailed(s) PROVE Kept
    <2>1. /\ s \in Sessions /\ Alone(s) /\ ready' = ready /\ dlq' = dlq
          /\ issued' = issued /\ replays' = replays
      BY <1>t, <1>27, TickIsInert DEF SweepEnqueueFailed, redisVars, sqlVars, Alone, TypeOK
    <2>2. \A u \in Tasks : s \notin InHand(u)'
      BY DEF InHand, Deciding
    <2> QED
      BY <2>1, <2>2, NothingAdded
  <1>28. ASSUME NEW s \in Schedulers, NEW due \in SUBSET Tasks, Claim(s, due) PROVE Kept
    <2>1. /\ s \in Sessions /\ Alone(s) /\ ready' = ready /\ dlq' = dlq
          /\ issued' = issued /\ replays' = replays
      BY <1>t, <1>28 DEF Claim, redisVars, sqlVars, Alone, TypeOK
    <2>2. \A u \in Tasks : s \notin InHand(u)'
      BY DEF InHand, Deciding
    <2> QED
      BY <2>1, <2>2, NothingAdded
  <1>29. ASSUME NEW p \in Sessions, SelectBeforeSave(p) PROVE Kept
    <2>1. UNCHANGED <<ready, dlq, issued, replays, pc, job, mem>>
      BY <1>29 DEF SelectBeforeSave, Fetch, redisVars, procVars
    <2> QED
      BY <2>1, StillCopies
  <1>30. ASSUME NEW p \in Sessions, Commit(p) PROVE Kept
    <2>1. /\ p \in Sessions /\ Alone(p) /\ ready' = ready /\ dlq' = dlq
          /\ issued' = issued /\ replays' = replays
      BY <1>t, <1>30 DEF Commit, CommitSession, ForgetObjects, redisVars, sqlVars, Alone, TypeOK, SqlTypeOK
    <2>2. \A u \in Tasks : p \in InHand(u)' => p \in InHand(u)
      BY <1>t, <1>30 DEF Commit, CommitSession, ForgetObjects, sqlVars, InHand, Deciding, Holders, Objects, Roles, NoRow, WithStatus, Row, TypeOK, SqlTypeOK
    <2> QED
      BY <2>1, <2>2, NothingAdded
  <1>31. ASSUME NEW p \in Sessions, Abort(p) PROVE Kept
    <2>1. /\ p \in Sessions /\ Alone(p) /\ ready' = ready /\ dlq' = dlq
          /\ issued' = issued /\ replays' = replays
      BY <1>t, <1>31 DEF Abort, RollbackSession, ForgetObjects, redisVars, sqlVars, Alone, TypeOK, SqlTypeOK
    <2>2. \A u \in Tasks : p \in InHand(u)' => p \in InHand(u)
      BY <1>t, <1>31 DEF Abort, RollbackSession, ForgetObjects, sqlVars, InHand, Deciding, Holders, Objects, Roles, NoRow, WithStatus, Row, TypeOK, SqlTypeOK
    <2> QED
      BY <2>1, <2>2, NothingAdded
  <1>32. ASSUME NEW t \in Tasks, ExpireInflight(t) PROVE Kept
    <2>1. UNCHANGED <<ready, dlq, issued, replays, pc, job, mem>>
      BY <1>32 DEF ExpireInflight, sqlVars, procVars
    <2> QED
      BY <2>1, StillCopies
  <1>u. CASE UNCHANGED vars
    BY <1>u, StillCopies DEF vars, redisVars, sqlVars, procVars
  <1> QED
    BY <1>u, <1>r, <1>1, <1>2, <1>3, <1>4, <1>5, <1>6, <1>7, <1>8, <1>9, <1>10, <1>11, <1>12, <1>13, <1>14, <1>15, <1>16, <1>17, <1>18, <1>19, <1>20, <1>21, <1>22, <1>23, <1>24, <1>25, <1>26, <1>27, <1>28, <1>29, <1>30, <1>31, <1>32
    DEF Next, ClientStep, SlotStep, TickStep, Request

\* What of it is left when the pushes to come are left out.
LEMMA EntitledSuffices == IInv /\ Entitled => DeliveriesAreAskedFor
  <1> SUFFICES ASSUME IInv, Entitled, NEW t \in Tasks
               PROVE  ReadyCopies(t) + Cardinality(Deciding(t)) + dlq[t] <= 1 + replays[t]
    BY DEF DeliveriesAreAskedFor
  <1>1. /\ IsFiniteSet(InHand(t)) /\ Cardinality(InHand(t)) \in Nat
        /\ Deciding(t) \in SUBSET InHand(t)
    BY HandsFinite DEF InHand
  <1>2. Cardinality(Deciding(t)) <= Cardinality(InHand(t)) /\ Cardinality(Deciding(t)) \in Nat
    BY <1>1, FS_Subset, FS_CardinalityType
  <1>3. ReadyCopies(t) \in Nat /\ dlq[t] \in Nat /\ replays[t] \in Nat
    BY CopiesTyped DEF IInv, TypeOK, RedisTypeOK
  <1>4. ReadyCopies(t) + Cardinality(InHand(t)) + dlq[t] <= replays[t] + IF t \in issued THEN 1 ELSE 0
    BY DEF Entitled, Asked
  <1> QED
    BY <1>1, <1>2, <1>3, <1>4

LEMMA InitCopies == Init => Leveled /\ Entitled
  <1> SUFFICES ASSUME Init PROVE Leveled /\ Entitled
    OBVIOUS
  <1>1. \A l \in Levels : ready[l] = <<>>
    BY DEF Init, RedisInit
  <1>2. ASSUME NEW t \in Tasks PROVE ReadyCopies(t) = 0 /\ Cardinality(InHand(t)) = 0
    <2>1. {i \in 1 .. Len(ready[Level(t)]) : ready[Level(t)][i] = t} = {}
      BY <1>1, LevelTyped
    <2>2. InHand(t) = {}
      BY ProcessAssumption DEF Init, InHand, Deciding, Holders
    <2> QED
      BY <2>1, <2>2, FS_EmptySet DEF ReadyCopies
  <1> QED
    BY <1>1, <1>2 DEF Leveled, Entitled, Asked, Init, RedisInit

\* For its submission and for every retry_task, an id is delivered or listed in
\* queue:dlq once at most, whatever requests, deliveries, ticks and faults come.
THEOREM DeliveriesBounded == Spec => []DeliveriesAreAskedFor
  <1>1. Init => IInv /\ Leveled /\ Entitled
    BY InitIInv, InitCopies
  <1>2. IInv /\ Leveled /\ Entitled /\ [Next]_vars => (IInv /\ Leveled /\ Entitled)'
    BY StepIInv, StepCopies
  <1>3. IInv /\ Entitled => DeliveriesAreAskedFor
    BY EntitledSuffices
  <1> QED
    BY <1>1, <1>2, <1>3, PTL DEF Spec

-----------------------------------------------------------------------------
(* What transactions have to say *)

\* What a transaction has to say is an outcome of what it did.
LEMMA VerdictsPreserved ==
  ASSUME IInv, Decisions, [Next]_vars
  PROVE  Verdicts'
  <1> USE ProcessAssumption, NoSessionAssumption
  <1>t. /\ TypeOK /\ SqlTypeOK /\ Roles /\ Locks /\ Objects /\ Generated
        /\ Verdicts /\ ResultsKept /\ Present
    BY DEF IInv, TypeOK, Decisions
  <1>1. ASSUME NEW c \in Clients, NEW t \in Tasks, NEW start \in StartTimes, SubmitSave(c, t, start) PROVE Verdicts'
    BY <1>t, <1>1 DEF SubmitSave, Insert, Verdicts, Roles, Objects, Locks, ClientAwaits, SlotAwaits, TickAwaits, TypeOK, SqlTypeOK, WithStatus, Row
  <1>2. ASSUME NEW c \in Clients, EnqueueNow(c) PROVE Verdicts'
    BY <1>t, <1>2 DEF EnqueueNow, SaveAgain, Verdicts, Roles, Objects, Locks, ClientAwaits, SlotAwaits, TickAwaits, TypeOK, SqlTypeOK, WithStatus, Row
  <1>3. ASSUME NEW c \in Clients, EnqueueLater(c) PROVE Verdicts'
    <2>1. pc' = [pc EXCEPT ![c] = "raise"] /\ \E r : mem' = [mem EXCEPT ![c] = r]
      BY <1>3, NoReschedule DEF EnqueueLater, SaveAgain
    <2> QED
      BY <1>t, <2>1 DEF Verdicts, TypeOK, SqlTypeOK
  <1>4. ASSUME NEW c \in Clients, EnqueueFails(c) PROVE Verdicts'
    BY <1>t, <1>4 DEF EnqueueFails, SaveAgain, Verdicts, Roles, Objects, Locks, ClientAwaits, SlotAwaits, TickAwaits, TypeOK, SqlTypeOK, WithStatus, Row
  <1>5. ASSUME NEW c \in Clients \cup Slots, Raise(c) PROVE Verdicts'
    BY <1>t, <1>5 DEF Raise, RollbackSession, ReleaseLocks, ForgetObjects, Verdicts, Roles, Objects, Locks, ClientAwaits, SlotAwaits, TickAwaits, TypeOK, SqlTypeOK, WithStatus, Row
  <1>6. ASSUME NEW c \in Clients, NEW t \in Tasks, CancelLoad(c, t) PROVE Verdicts'
    BY <1>t, <1>6 DEF CancelLoad, Load, Verdicts, Roles, Objects, Locks, ClientAwaits, SlotAwaits, TickAwaits, TypeOK, SqlTypeOK, WithStatus, Row
  <1>7. ASSUME NEW c \in Clients, CancelMark(c) PROVE Verdicts'
    BY <1>t, <1>7 DEF CancelMark, sqlVars, Verdicts, Roles, Objects, Locks, ClientAwaits, SlotAwaits, TickAwaits, TypeOK, SqlTypeOK, WithStatus, Row
  <1>8. ASSUME NEW c \in Clients, CancelSave(c) PROVE Verdicts'
    BY <1>t, <1>8 DEF CancelSave, FirstSave, Verdicts, Roles, Objects, Locks, ClientAwaits, SlotAwaits, TickAwaits, TypeOK, SqlTypeOK, WithStatus, Row
  <1>9. ASSUME NEW c \in Clients, NEW t \in Tasks, RetryLoad(c, t) PROVE Verdicts'
    BY <1>t, <1>9 DEF RetryLoad, Load, Verdicts, Roles, Objects, Locks, ClientAwaits, SlotAwaits, TickAwaits, TypeOK, SqlTypeOK, WithStatus, Row
  <1>10. ASSUME NEW c \in Clients, RetryPush(c) PROVE Verdicts'
    BY <1>t, <1>10 DEF RetryPush, sqlVars, Verdicts, Roles, Objects, Locks, ClientAwaits, SlotAwaits, TickAwaits, TypeOK, SqlTypeOK, WithStatus, Row
  <1>11. ASSUME NEW c \in Clients, RetrySave(c) PROVE Verdicts'
    BY <1>t, <1>11 DEF RetrySave, FirstSave, Verdicts, Roles, Objects, Locks, ClientAwaits, SlotAwaits, TickAwaits, TypeOK, SqlTypeOK, WithStatus, Row
  <1>12. ASSUME NEW w \in Slots, Dequeue(w) PROVE Verdicts'
    BY <1>t, <1>12 DEF Dequeue, sqlVars, Verdicts, Roles, Objects, Locks, ClientAwaits, SlotAwaits, TickAwaits, TypeOK, SqlTypeOK, WithStatus, Row
  <1>13. ASSUME NEW w \in Slots, LoadTask(w) PROVE Verdicts'
    <2>1. /\ pc' = [pc EXCEPT ![w] = "check"] \/ pc' = [pc EXCEPT ![w] = "idle"]
          /\ mem' = mem \/ \E r : mem' = [mem EXCEPT ![w] = r]
      BY <1>13 DEF LoadTask, Load, sqlVars
    <2> QED
      BY <1>t, <2>1 DEF Verdicts, TypeOK, SqlTypeOK
  <1>14. ASSUME NEW w \in Slots, CheckCancelled(w) PROVE Verdicts'
    BY <1>t, <1>14 DEF CheckCancelled, sqlVars, Verdicts, Roles, Objects, Locks, ClientAwaits, SlotAwaits, TickAwaits, TypeOK, SqlTypeOK, WithStatus, Row
  <1>15. ASSUME NEW w \in Slots, CancelDelivered(w) PROVE Verdicts'
    BY <1>t, <1>15 DEF CancelDelivered, FirstSave, Verdicts, Roles, Objects, Locks, ClientAwaits, SlotAwaits, TickAwaits, TypeOK, SqlTypeOK, WithStatus, Row
  <1>16. ASSUME NEW w \in Slots, ClearCancelled(w) PROVE Verdicts'
    BY <1>t, <1>16 DEF ClearCancelled, sqlVars, Verdicts, Roles, Objects, Locks, ClientAwaits, SlotAwaits, TickAwaits, TypeOK, SqlTypeOK, WithStatus, Row
  <1>17. ASSUME NEW w \in Slots, Start(w) PROVE Verdicts'
    BY <1>t, <1>17 DEF Start, FirstSave, Verdicts, Roles, Objects, Locks, ClientAwaits, SlotAwaits, TickAwaits, TypeOK, SqlTypeOK, WithStatus, Row
  <1>18. ASSUME NEW w \in Slots, MarkInflight(w) PROVE Verdicts'
    BY <1>t, <1>18 DEF MarkInflight, sqlVars, Verdicts, Roles, Objects, Locks, ClientAwaits, SlotAwaits, TickAwaits, TypeOK, SqlTypeOK, WithStatus, Row
  <1>19. ASSUME NEW w \in Slots, Complete(w) PROVE Verdicts'
    BY <1>t, <1>19 DEF Complete, SaveAgain, Verdicts, Roles, Objects, Locks, ClientAwaits, SlotAwaits, TickAwaits, TypeOK, SqlTypeOK, WithStatus, Row
  <1>20. ASSUME NEW w \in Slots, Fail(w) PROVE Verdicts'
    BY <1>t, <1>20, FailureTyped, BusyHasTask DEF Fail, SaveAgain, Verdicts, Roles, Objects, Locks, ClientAwaits, SlotAwaits, TickAwaits, TypeOK, SqlTypeOK, WithStatus, Row
  <1>r. ASSUME NEW w \in Slots, FailRaises(w) PROVE Verdicts'
    <2>1. pc' = [pc EXCEPT ![w] = "refused"] /\ \E r : mem' = [mem EXCEPT ![w] = r]
      BY <1>t, <1>r, FailRaisesParts
    <2> QED
      BY <1>t, <2>1 DEF Verdicts, TypeOK, SqlTypeOK
  <1>21. ASSUME NEW w \in Slots, ClearInflight(w) PROVE Verdicts'
    BY <1>t, <1>21 DEF ClearInflight, sqlVars, Verdicts, Roles, Objects, Locks, ClientAwaits, SlotAwaits, TickAwaits, TypeOK, SqlTypeOK, WithStatus, Row
  <1>22. ASSUME NEW w \in Slots, DropConnection(w) PROVE Verdicts'
    BY <1>t, <1>22 DEF DropConnection, LoseTransaction, ReleaseLocks, Verdicts, Roles, Objects, Locks, ClientAwaits, SlotAwaits, TickAwaits, TypeOK, SqlTypeOK, WithStatus, Row
  <1>23. ASSUME NEW w \in Slots, EndLost(w) PROVE Verdicts'
    BY <1>t, <1>23 DEF EndLost, RollbackSession, ReleaseLocks, ForgetObjects, Verdicts, Roles, Objects, Locks, ClientAwaits, SlotAwaits, TickAwaits, TypeOK, SqlTypeOK, WithStatus, Row
  <1>24. ASSUME NEW s \in Schedulers, NEW t \in Tasks, ReleaseDue(s, t) PROVE Verdicts'
    BY <1>t, <1>24, TickIsInert DEF Verdicts, Roles, Objects, Locks, ClientAwaits, SlotAwaits, TickAwaits, TypeOK, SqlTypeOK, WithStatus, Row, sqlVars
  <1>25. ASSUME NEW s \in Schedulers, NEW t \in Tasks, InspectInflight(s, t) PROVE Verdicts'
    BY <1>t, <1>25, TickIsInert DEF Verdicts, Roles, Objects, Locks, ClientAwaits, SlotAwaits, TickAwaits, TypeOK, SqlTypeOK, WithStatus, Row, sqlVars
  <1>26. ASSUME NEW s \in Schedulers, ListInflight(s) PROVE Verdicts'
    BY <1>t, <1>26 DEF ListInflight, sqlVars, Verdicts, Roles, Objects, Locks, ClientAwaits, SlotAwaits, TickAwaits, TypeOK, SqlTypeOK, WithStatus, Row
  <1>27. ASSUME NEW s \in Schedulers, SweepEnqueueFailed(s) PROVE Verdicts'
    BY <1>t, <1>27, TickIsInert DEF Verdicts, Roles, Objects, Locks, ClientAwaits, SlotAwaits, TickAwaits, TypeOK, SqlTypeOK, WithStatus, Row, sqlVars
  <1>28. ASSUME NEW s \in Schedulers, NEW due \in SUBSET Tasks, Claim(s, due) PROVE Verdicts'
    BY <1>t, <1>28 DEF Claim, sqlVars, Verdicts, Roles, Objects, Locks, ClientAwaits, SlotAwaits, TickAwaits, TypeOK, SqlTypeOK, WithStatus, Row
  <1>29. ASSUME NEW p \in Sessions, SelectBeforeSave(p) PROVE Verdicts'
    BY <1>t, <1>29 DEF SelectBeforeSave, Fetch, procVars, Verdicts, Roles, Objects, Locks, ClientAwaits, SlotAwaits, TickAwaits, TypeOK, SqlTypeOK, WithStatus, Row
  <1>30. ASSUME NEW p \in Sessions, Commit(p) PROVE Verdicts'
    BY <1>t, <1>30 DEF Commit, CommitSession, ReleaseLocks, ForgetObjects, Verdicts, Roles, Objects, Locks, ClientAwaits, SlotAwaits, TickAwaits, TypeOK, SqlTypeOK, WithStatus, Row
  <1>31. ASSUME NEW p \in Sessions, Abort(p) PROVE Verdicts'
    BY <1>t, <1>31 DEF Abort, RollbackSession, ReleaseLocks, ForgetObjects, Verdicts, Roles, Objects, Locks, ClientAwaits, SlotAwaits, TickAwaits, TypeOK, SqlTypeOK, WithStatus, Row
  <1>32. ASSUME NEW t \in Tasks, ExpireInflight(t) PROVE Verdicts'
    BY <1>t, <1>32 DEF ExpireInflight, sqlVars, procVars, Verdicts, Roles, Objects, Locks, ClientAwaits, SlotAwaits, TickAwaits, TypeOK, SqlTypeOK, WithStatus, Row
  <1>u. CASE UNCHANGED vars
    BY <1>t, <1>u DEF vars, sqlVars, procVars, Verdicts, Roles, Objects, Locks, ClientAwaits, SlotAwaits, TickAwaits, TypeOK, SqlTypeOK, WithStatus, Row
  <1> QED
    BY <1>u, <1>r, <1>1, <1>2, <1>3, <1>4, <1>5, <1>6, <1>7, <1>8, <1>9, <1>10, <1>11, <1>12, <1>13, <1>14, <1>15, <1>16, <1>17, <1>18, <1>19, <1>20, <1>21, <1>22, <1>23, <1>24, <1>25, <1>26, <1>27, <1>28, <1>29, <1>30, <1>31, <1>32
    DEF Next, ClientStep, SlotStep, TickStep, Request

\* Nobody writes the row of an execution but its slot.
LEMMA ResultsPreserved ==
  ASSUME IInv, Decisions, [Next]_vars
  PROVE  ResultsKept'
  <1> USE ProcessAssumption, NoSessionAssumption
  <1>t. /\ TypeOK /\ SqlTypeOK /\ Roles /\ Locks /\ Objects /\ Generated
        /\ Verdicts /\ ResultsKept /\ Present
    BY DEF IInv, TypeOK, Decisions
  <1>1. ASSUME NEW c \in Clients, NEW t \in Tasks, NEW start \in StartTimes, SubmitSave(c, t, start) PROVE ResultsKept'
    BY <1>t, <1>1, OwnLocks, BusyHasTask DEF SubmitSave, Insert, ResultsKept, Executed, Verdicts, Roles, Locks, Generated, Writing, Raising, TypeOK, SqlTypeOK
  <1>2. ASSUME NEW c \in Clients, EnqueueNow(c) PROVE ResultsKept'
    BY <1>t, <1>2, OwnLocks, BusyHasTask DEF EnqueueNow, SaveAgain, ResultsKept, Executed, Verdicts, Roles, Locks, Generated, Writing, Raising, TypeOK, SqlTypeOK
  <1>3. ASSUME NEW c \in Clients, EnqueueLater(c) PROVE ResultsKept'
    BY <1>t, <1>3, OwnLocks, BusyHasTask DEF EnqueueLater, SaveAgain, ResultsKept, Executed, Verdicts, Roles, Locks, Generated, Writing, Raising, TypeOK, SqlTypeOK
  <1>4. ASSUME NEW c \in Clients, EnqueueFails(c) PROVE ResultsKept'
    BY <1>t, <1>4, OwnLocks, BusyHasTask DEF EnqueueFails, SaveAgain, ResultsKept, Executed, Verdicts, Roles, Locks, Generated, Writing, Raising, TypeOK, SqlTypeOK
  <1>5. ASSUME NEW c \in Clients \cup Slots, Raise(c) PROVE ResultsKept'
    BY <1>t, <1>5, OwnLocks, BusyHasTask DEF Raise, RollbackSession, ReleaseLocks, ForgetObjects, ResultsKept, Executed, Verdicts, Roles, Locks, Generated, Writing, Raising, TypeOK, SqlTypeOK
  <1>6. ASSUME NEW c \in Clients, NEW t \in Tasks, CancelLoad(c, t) PROVE ResultsKept'
    BY <1>t, <1>6, OwnLocks, BusyHasTask DEF CancelLoad, Load, ResultsKept, Executed, Verdicts, Roles, Locks, Generated, Writing, Raising, TypeOK, SqlTypeOK
  <1>7. ASSUME NEW c \in Clients, CancelMark(c) PROVE ResultsKept'
    BY <1>t, <1>7, OwnLocks, BusyHasTask DEF CancelMark, sqlVars, ResultsKept, Executed, Verdicts, Roles, Locks, Generated, Writing, Raising, TypeOK, SqlTypeOK
  <1>8. ASSUME NEW c \in Clients, CancelSave(c) PROVE ResultsKept'
    BY <1>t, <1>8, OwnLocks, BusyHasTask DEF CancelSave, FirstSave, ResultsKept, Executed, Verdicts, Roles, Locks, Generated, Writing, Raising, TypeOK, SqlTypeOK
  <1>9. ASSUME NEW c \in Clients, NEW t \in Tasks, RetryLoad(c, t) PROVE ResultsKept'
    BY <1>t, <1>9, OwnLocks, BusyHasTask DEF RetryLoad, Load, ResultsKept, Executed, Verdicts, Roles, Locks, Generated, Writing, Raising, TypeOK, SqlTypeOK
  <1>10. ASSUME NEW c \in Clients, RetryPush(c) PROVE ResultsKept'
    BY <1>t, <1>10, OwnLocks, BusyHasTask DEF RetryPush, sqlVars, ResultsKept, Executed, Verdicts, Roles, Locks, Generated, Writing, Raising, TypeOK, SqlTypeOK
  <1>11. ASSUME NEW c \in Clients, RetrySave(c) PROVE ResultsKept'
    BY <1>t, <1>11, OwnLocks, BusyHasTask DEF RetrySave, FirstSave, ResultsKept, Executed, Verdicts, Roles, Locks, Generated, Writing, Raising, TypeOK, SqlTypeOK
  <1>12. ASSUME NEW w \in Slots, Dequeue(w) PROVE ResultsKept'
    BY <1>t, <1>12, OwnLocks, BusyHasTask DEF Dequeue, sqlVars, ResultsKept, Executed, Verdicts, Roles, Locks, Generated, Writing, Raising, TypeOK, SqlTypeOK
  <1>13. ASSUME NEW w \in Slots, LoadTask(w) PROVE ResultsKept'
    BY <1>t, <1>13, OwnLocks, BusyHasTask DEF LoadTask, Load, sqlVars, ResultsKept, Executed, Verdicts, Roles, Locks, Generated, Writing, Raising, TypeOK, SqlTypeOK
  <1>14. ASSUME NEW w \in Slots, CheckCancelled(w) PROVE ResultsKept'
    BY <1>t, <1>14, OwnLocks, BusyHasTask DEF CheckCancelled, sqlVars, ResultsKept, Executed, Verdicts, Roles, Locks, Generated, Writing, Raising, TypeOK, SqlTypeOK
  <1>15. ASSUME NEW w \in Slots, CancelDelivered(w) PROVE ResultsKept'
    BY <1>t, <1>15, OwnLocks, BusyHasTask DEF CancelDelivered, FirstSave, ResultsKept, Executed, Verdicts, Roles, Locks, Generated, Writing, Raising, TypeOK, SqlTypeOK
  <1>16. ASSUME NEW w \in Slots, ClearCancelled(w) PROVE ResultsKept'
    BY <1>t, <1>16, OwnLocks, BusyHasTask DEF ClearCancelled, sqlVars, ResultsKept, Executed, Verdicts, Roles, Locks, Generated, Writing, Raising, TypeOK, SqlTypeOK
  <1>17. ASSUME NEW w \in Slots, Start(w) PROVE ResultsKept'
    BY <1>t, <1>17, OwnLocks, BusyHasTask DEF Start, FirstSave, ResultsKept, Executed, Verdicts, Roles, Locks, Generated, Writing, Raising, TypeOK, SqlTypeOK
  <1>18. ASSUME NEW w \in Slots, MarkInflight(w) PROVE ResultsKept'
    BY <1>t, <1>18, OwnLocks, BusyHasTask DEF MarkInflight, sqlVars, ResultsKept, Executed, Verdicts, Roles, Locks, Generated, Writing, Raising, TypeOK, SqlTypeOK
  <1>19. ASSUME NEW w \in Slots, Complete(w) PROVE ResultsKept'
    BY <1>t, <1>19, OwnLocks, BusyHasTask DEF Complete, SaveAgain, ResultsKept, Executed, Verdicts, Roles, Locks, Generated, Writing, Raising, TypeOK, SqlTypeOK
  <1>20. ASSUME NEW w \in Slots, Fail(w) PROVE ResultsKept'
    BY <1>t, <1>20, OwnLocks, BusyHasTask DEF Fail, SaveAgain, ResultsKept, Executed, Verdicts, Roles, Locks, Generated, Writing, Raising, TypeOK, SqlTypeOK
  <1>r. ASSUME NEW w \in Slots, FailRaises(w) PROVE ResultsKept'
    <2>1. /\ pc' = [pc EXCEPT ![w] = "refused"] /\ job' = job
          /\ \E r : mem' = [mem EXCEPT ![w] = r]
          /\ draft' = draft \/ ReleaseLocks(w)
      BY <1>t, <1>r, FailRaisesParts
    <2>2. ASSUME NEW v \in Slots, Executed(v)'
          PROVE  v # w /\ Executed(v) /\ mem'[v] = mem[v] /\ draft'[job[v]] = draft[job[v]]
      <3>1. v # w /\ Executed(v) /\ mem'[v] = mem[v]
        BY <1>t, <2>1, <2>2 DEF Executed, TypeOK, SqlTypeOK
      <3>2. job[v] \in Tasks /\ lock[job[v]] = v
        BY <1>t, <3>1, BusyHasTask DEF Executed, Locks, Writing
      <3> QED
        BY <2>1, <3>1, <3>2 DEF ReleaseLocks
    <2> QED
      BY <1>t, <2>1, <2>2 DEF ResultsKept
  <1>21. ASSUME NEW w \in Slots, ClearInflight(w) PROVE ResultsKept'
    BY <1>t, <1>21, OwnLocks, BusyHasTask DEF ClearInflight, sqlVars, ResultsKept, Executed, Verdicts, Roles, Locks, Generated, Writing, Raising, TypeOK, SqlTypeOK
  <1>22. ASSUME NEW w \in Slots, DropConnection(w) PROVE ResultsKept'
    BY <1>t, <1>22, OwnLocks, BusyHasTask DEF DropConnection, LoseTransaction, ReleaseLocks, ResultsKept, Executed, Verdicts, Roles, Locks, Generated, Writing, Raising, TypeOK, SqlTypeOK
  <1>23. ASSUME NEW w \in Slots, EndLost(w) PROVE ResultsKept'
    BY <1>t, <1>23, OwnLocks, BusyHasTask DEF EndLost, RollbackSession, ReleaseLocks, ForgetObjects, ResultsKept, Executed, Verdicts, Roles, Locks, Generated, Writing, Raising, TypeOK, SqlTypeOK
  <1>24. ASSUME NEW s \in Schedulers, NEW t \in Tasks, ReleaseDue(s, t) PROVE ResultsKept'
    BY <1>t, <1>24, TickIsInert, OwnLocks, BusyHasTask DEF ResultsKept, Executed, Verdicts, Roles, Locks, Generated, Writing, Raising, TypeOK, SqlTypeOK, sqlVars
  <1>25. ASSUME NEW s \in Schedulers, NEW t \in Tasks, InspectInflight(s, t) PROVE ResultsKept'
    BY <1>t, <1>25, TickIsInert, OwnLocks, BusyHasTask DEF ResultsKept, Executed, Verdicts, Roles, Locks, Generated, Writing, Raising, TypeOK, SqlTypeOK, sqlVars
  <1>26. ASSUME NEW s \in Schedulers, ListInflight(s) PROVE ResultsKept'
    BY <1>t, <1>26, OwnLocks, BusyHasTask DEF ListInflight, sqlVars, ResultsKept, Executed, Verdicts, Roles, Locks, Generated, Writing, Raising, TypeOK, SqlTypeOK
  <1>27. ASSUME NEW s \in Schedulers, SweepEnqueueFailed(s) PROVE ResultsKept'
    BY <1>t, <1>27, TickIsInert, OwnLocks, BusyHasTask DEF ResultsKept, Executed, Verdicts, Roles, Locks, Generated, Writing, Raising, TypeOK, SqlTypeOK, sqlVars
  <1>28. ASSUME NEW s \in Schedulers, NEW due \in SUBSET Tasks, Claim(s, due) PROVE ResultsKept'
    BY <1>t, <1>28, OwnLocks, BusyHasTask DEF Claim, sqlVars, ResultsKept, Executed, Verdicts, Roles, Locks, Generated, Writing, Raising, TypeOK, SqlTypeOK
  <1>29. ASSUME NEW p \in Sessions, SelectBeforeSave(p) PROVE ResultsKept'
    BY <1>t, <1>29, OwnLocks, BusyHasTask DEF SelectBeforeSave, Fetch, procVars, ResultsKept, Executed, Verdicts, Roles, Locks, Generated, Writing, Raising, TypeOK, SqlTypeOK
  <1>30. ASSUME NEW p \in Sessions, Commit(p) PROVE ResultsKept'
    BY <1>t, <1>30, OwnLocks, BusyHasTask DEF Commit, CommitSession, ReleaseLocks, ForgetObjects, ResultsKept, Executed, Verdicts, Roles, Locks, Generated, Writing, Raising, TypeOK, SqlTypeOK
  <1>31. ASSUME NEW p \in Sessions, Abort(p) PROVE ResultsKept'
    BY <1>t, <1>31, OwnLocks, BusyHasTask DEF Abort, RollbackSession, ReleaseLocks, ForgetObjects, ResultsKept, Executed, Verdicts, Roles, Locks, Generated, Writing, Raising, TypeOK, SqlTypeOK
  <1>32. ASSUME NEW t \in Tasks, ExpireInflight(t) PROVE ResultsKept'
    BY <1>t, <1>32, OwnLocks, BusyHasTask DEF ExpireInflight, sqlVars, procVars, ResultsKept, Executed, Verdicts, Roles, Locks, Generated, Writing, Raising, TypeOK, SqlTypeOK
  <1>u. CASE UNCHANGED vars
    BY <1>t, <1>u, OwnLocks, BusyHasTask DEF vars, sqlVars, procVars, ResultsKept, Executed, Verdicts, Roles, Locks, Generated, Writing, Raising, TypeOK, SqlTypeOK
  <1> QED
    BY <1>u, <1>r, <1>1, <1>2, <1>3, <1>4, <1>5, <1>6, <1>7, <1>8, <1>9, <1>10, <1>11, <1>12, <1>13, <1>14, <1>15, <1>16, <1>17, <1>18, <1>19, <1>20, <1>21, <1>22, <1>23, <1>24, <1>25, <1>26, <1>27, <1>28, <1>29, <1>30, <1>31, <1>32
    DEF Next, ClientStep, SlotStep, TickStep, Request

\* Rows stay.
LEMMA PresencePreserved ==
  ASSUME IInv, Decisions, [Next]_vars
  PROVE  Present'
  <1> USE ProcessAssumption, NoSessionAssumption
  <1>t. /\ TypeOK /\ SqlTypeOK /\ Roles /\ Locks /\ Objects /\ Generated
        /\ Verdicts /\ ResultsKept /\ Present
    BY DEF IInv, TypeOK, Decisions
  <1>1. ASSUME NEW c \in Clients, NEW t \in Tasks, NEW start \in StartTimes, SubmitSave(c, t, start) PROVE Present'
    <2>1. /\ row' = row
          /\ draft' = [draft EXCEPT ![t] = Created(start)]
          /\ lock' = [lock EXCEPT ![t] = c]
          /\ pc' = [pc EXCEPT ![c] = "enqueue"]
          /\ job' = [job EXCEPT ![c] = t]
          /\ Created(start).status # "none"
      BY <1>1, CreatedTyped DEF SubmitSave, Insert
    <2> QED
      BY <1>t, <2>1 DEF Present, Exists, TypeOK, SqlTypeOK
  <1>2. ASSUME NEW c \in Clients, EnqueueNow(c) PROVE Present'
    BY <1>t, <1>2, OwnLocks, BusyHasTask DEF EnqueueNow, SaveAgain, Present, Exists, Roles, Locks, Writing, Raising, Objects, TypeOK, SqlTypeOK, WithStatus, Row
  <1>3. ASSUME NEW c \in Clients, EnqueueLater(c) PROVE Present'
    <2>1. /\ pc' = [pc EXCEPT ![c] = "raise"] /\ job' = job /\ row' = row /\ lock' = lock
          /\ draft' = [draft EXCEPT ![job[c]] = WithStatus(mem[c], "enqueue_failed")]
      BY <1>3, NoReschedule DEF EnqueueLater, SaveAgain
    <2>2. c \in Sessions /\ mem[c] \in Row
      BY <1>t DEF SqlTypeOK
    <2>3. WithStatus(mem[c], "enqueue_failed").status # "none"
      BY <2>2 DEF WithStatus, Row
    <2> QED
      BY <1>t, <2>1, <2>2, <2>3 DEF Present, Exists, TypeOK, SqlTypeOK
  <1>4. ASSUME NEW c \in Clients, EnqueueFails(c) PROVE Present'
    BY <1>t, <1>4, OwnLocks, BusyHasTask DEF EnqueueFails, SaveAgain, Present, Exists, Roles, Locks, Writing, Raising, Objects, TypeOK, SqlTypeOK, WithStatus, Row
  <1>5. ASSUME NEW c \in Clients \cup Slots, Raise(c) PROVE Present'
    BY <1>t, <1>5, OwnLocks, BusyHasTask DEF Raise, RollbackSession, ReleaseLocks, ForgetObjects, Present, Exists, Roles, Locks, Writing, Raising, Objects, TypeOK, SqlTypeOK, WithStatus, Row
  <1>6. ASSUME NEW c \in Clients, NEW t \in Tasks, CancelLoad(c, t) PROVE Present'
    BY <1>t, <1>6, OwnLocks, BusyHasTask DEF CancelLoad, Load, Present, Exists, Roles, Locks, Writing, Raising, Objects, TypeOK, SqlTypeOK, WithStatus, Row
  <1>7. ASSUME NEW c \in Clients, CancelMark(c) PROVE Present'
    BY <1>t, <1>7, OwnLocks, BusyHasTask DEF CancelMark, sqlVars, Present, Exists, Roles, Locks, Writing, Raising, Objects, TypeOK, SqlTypeOK, WithStatus, Row
  <1>8. ASSUME NEW c \in Clients, CancelSave(c) PROVE Present'
    <2>1. Exists(job[c]) /\ job[c] \in Tasks /\ c \in Sessions /\ mem[c] \in Row
      BY <1>t, <1>8, BusyHasTask DEF CancelSave, Present
    <2>2. WithStatus(mem[c], "cancelled") \in Row /\ WithStatus(mem[c], "cancelled").status # "none"
      BY <2>1 DEF WithStatus, Row, Statuses
    <2>3. Updated(row[job[c]], fetched[c], WithStatus(mem[c], "cancelled")).status # "none"
      BY <2>1, <2>2, UpdatedTyped DEF IInv, TypeOK, SqlTypeOK, Exists
    <2>4. draft' = [draft EXCEPT ![job[c]] = Updated(row[job[c]], fetched[c], WithStatus(mem[c], "cancelled"))]
      BY <1>8 DEF CancelSave, FirstSave
    <2>5. /\ row' = row /\ job' = job
          /\ lock' = [lock EXCEPT ![job[c]] = c]
          /\ pc' = [pc EXCEPT ![c] = "commit"]
      BY <1>8 DEF CancelSave, FirstSave
    <2> QED
      BY <1>t, <2>1, <2>3, <2>4, <2>5 DEF Present, Exists, TypeOK, SqlTypeOK
  <1>9. ASSUME NEW c \in Clients, NEW t \in Tasks, RetryLoad(c, t) PROVE Present'
    BY <1>t, <1>9, OwnLocks, BusyHasTask DEF RetryLoad, Load, Present, Exists, Roles, Locks, Writing, Raising, Objects, TypeOK, SqlTypeOK, WithStatus, Row
  <1>10. ASSUME NEW c \in Clients, RetryPush(c) PROVE Present'
    BY <1>t, <1>10, OwnLocks, BusyHasTask DEF RetryPush, sqlVars, Present, Exists, Roles, Locks, Writing, Raising, Objects, TypeOK, SqlTypeOK, WithStatus, Row
  <1>11. ASSUME NEW c \in Clients, RetrySave(c) PROVE Present'
    <2>1. Exists(job[c]) /\ job[c] \in Tasks /\ c \in Sessions /\ mem[c] \in Row
      BY <1>t, <1>11, BusyHasTask DEF RetrySave, Present
    <2>2. [status |-> "queued", attempts |-> 0] \in Row /\ [status |-> "queued", attempts |-> 0].status # "none"
      BY <2>1 DEF WithStatus, Row, Statuses
    <2>3. Updated(row[job[c]], fetched[c], [status |-> "queued", attempts |-> 0]).status # "none"
      BY <2>1, <2>2, UpdatedTyped DEF IInv, TypeOK, SqlTypeOK, Exists
    <2>4. draft' = [draft EXCEPT ![job[c]] = Updated(row[job[c]], fetched[c], [status |-> "queued", attempts |-> 0])]
      BY <1>11 DEF RetrySave, FirstSave
    <2>5. /\ row' = row /\ job' = job
          /\ lock' = [lock EXCEPT ![job[c]] = c]
          /\ pc' = [pc EXCEPT ![c] = "commit"]
      BY <1>11 DEF RetrySave, FirstSave
    <2> QED
      BY <1>t, <2>1, <2>3, <2>4, <2>5 DEF Present, Exists, TypeOK, SqlTypeOK
  <1>12. ASSUME NEW w \in Slots, Dequeue(w) PROVE Present'
    BY <1>t, <1>12, OwnLocks, BusyHasTask DEF Dequeue, sqlVars, Present, Exists, Roles, Locks, Writing, Raising, Objects, TypeOK, SqlTypeOK, WithStatus, Row
  <1>13. ASSUME NEW w \in Slots, LoadTask(w) PROVE Present'
    <2>1. /\ row' = row /\ lock' = lock /\ draft' = draft
          /\ \/ /\ pc' = [pc EXCEPT ![w] = "check"] /\ job' = [job EXCEPT ![w] = job[w]]
                /\ Exists(job[w])
             \/ pc' = [pc EXCEPT ![w] = "idle"] /\ job' = [job EXCEPT ![w] = NoTask]
      BY <1>13 DEF LoadTask, Load, sqlVars, Exists
    <2> QED
      BY <1>t, <2>1 DEF Present, Exists, TypeOK, SqlTypeOK
  <1>14. ASSUME NEW w \in Slots, CheckCancelled(w) PROVE Present'
    BY <1>t, <1>14, OwnLocks, BusyHasTask DEF CheckCancelled, sqlVars, Present, Exists, Roles, Locks, Writing, Raising, Objects, TypeOK, SqlTypeOK, WithStatus, Row
  <1>15. ASSUME NEW w \in Slots, CancelDelivered(w) PROVE Present'
    <2>1. Exists(job[w]) /\ job[w] \in Tasks /\ w \in Sessions /\ mem[w] \in Row
      BY <1>t, <1>15, BusyHasTask DEF CancelDelivered, Present
    <2>2. WithStatus(mem[w], "cancelled") \in Row /\ WithStatus(mem[w], "cancelled").status # "none"
      BY <2>1 DEF WithStatus, Row, Statuses
    <2>3. Updated(row[job[w]], fetched[w], WithStatus(mem[w], "cancelled")).status # "none"
      BY <2>1, <2>2, UpdatedTyped DEF IInv, TypeOK, SqlTypeOK, Exists
    <2>4. draft' = [draft EXCEPT ![job[w]] = Updated(row[job[w]], fetched[w], WithStatus(mem[w], "cancelled"))]
      BY <1>15 DEF CancelDelivered, FirstSave
    <2>5. /\ row' = row /\ job' = job
          /\ lock' = [lock EXCEPT ![job[w]] = w]
          /\ pc' = [pc EXCEPT ![w] = "unflag"]
      BY <1>15 DEF CancelDelivered, FirstSave
    <2> QED
      BY <1>t, <2>1, <2>3, <2>4, <2>5 DEF Present, Exists, TypeOK, SqlTypeOK
  <1>16. ASSUME NEW w \in Slots, ClearCancelled(w) PROVE Present'
    BY <1>t, <1>16, OwnLocks, BusyHasTask DEF ClearCancelled, sqlVars, Present, Exists, Roles, Locks, Writing, Raising, Objects, TypeOK, SqlTypeOK, WithStatus, Row
  <1>17. ASSUME NEW w \in Slots, Start(w) PROVE Present'
    <2>1. Exists(job[w]) /\ job[w] \in Tasks /\ w \in Sessions /\ mem[w] \in Row
      BY <1>t, <1>17, BusyHasTask DEF Start, Present
    <2>2. WithStatus(mem[w], "running") \in Row /\ WithStatus(mem[w], "running").status # "none"
      BY <2>1 DEF WithStatus, Row, Statuses
    <2>3. Updated(row[job[w]], fetched[w], WithStatus(mem[w], "running")).status # "none"
      BY <2>1, <2>2, UpdatedTyped DEF IInv, TypeOK, SqlTypeOK, Exists
    <2>4. draft' = [draft EXCEPT ![job[w]] = Updated(row[job[w]], fetched[w], WithStatus(mem[w], "running"))]
      BY <1>17 DEF Start, FirstSave
    <2>5. /\ row' = row /\ job' = job
          /\ lock' = [lock EXCEPT ![job[w]] = w]
          /\ pc' = [pc EXCEPT ![w] = "mark"]
      BY <1>17 DEF Start, FirstSave
    <2> QED
      BY <1>t, <2>1, <2>3, <2>4, <2>5 DEF Present, Exists, TypeOK, SqlTypeOK
  <1>18. ASSUME NEW w \in Slots, MarkInflight(w) PROVE Present'
    BY <1>t, <1>18, OwnLocks, BusyHasTask DEF MarkInflight, sqlVars, Present, Exists, Roles, Locks, Writing, Raising, Objects, TypeOK, SqlTypeOK, WithStatus, Row
  <1>19. ASSUME NEW w \in Slots, Complete(w) PROVE Present'
    BY <1>t, <1>19, OwnLocks, BusyHasTask DEF Complete, SaveAgain, Present, Exists, Roles, Locks, Writing, Raising, Objects, TypeOK, SqlTypeOK, WithStatus, Row
  <1>20. ASSUME NEW w \in Slots, Fail(w) PROVE Present'
    <2>1. job[w] \in Tasks /\ mem[w] \in Row
      BY <1>t, <1>20, BusyHasTask DEF Fail
    <2>2. /\ row' = row /\ job' = job /\ lock' = lock
          /\ draft' = [draft EXCEPT ![job[w]] = AfterFailure(job[w], mem[w])]
          /\ pc' = [pc EXCEPT ![w] = "clear"]
      BY <1>20 DEF Fail, SaveAgain
    <2>3. AfterFailure(job[w], mem[w]).status # "none" /\ pc[w] = "exec"
      BY <1>20, <2>1, FailureTyped DEF Fail
    <2> QED
      BY <1>t, <2>1, <2>2, <2>3 DEF Present, Exists, TypeOK, SqlTypeOK
  <1>r. ASSUME NEW w \in Slots, FailRaises(w) PROVE Present'
    <2>1. /\ pc[w] = "exec" /\ pc' = [pc EXCEPT ![w] = "refused"]
          /\ UNCHANGED <<job, row>>
          /\ UNCHANGED <<lock, draft>> \/ ReleaseLocks(w)
      BY <1>t, <1>r, FailRaisesParts
    <2> QED
      BY <1>t, <2>1 DEF Present, Exists, ReleaseLocks, TypeOK, SqlTypeOK
  <1>21. ASSUME NEW w \in Slots, ClearInflight(w) PROVE Present'
    BY <1>t, <1>21, OwnLocks, BusyHasTask DEF ClearInflight, sqlVars, Present, Exists, Roles, Locks, Writing, Raising, Objects, TypeOK, SqlTypeOK, WithStatus, Row
  <1>22. ASSUME NEW w \in Slots, DropConnection(w) PROVE Present'
    BY <1>t, <1>22, OwnLocks, BusyHasTask DEF DropConnection, LoseTransaction, ReleaseLocks, Present, Exists, Roles, Locks, Writing, Raising, Objects, TypeOK, SqlTypeOK, WithStatus, Row
  <1>23. ASSUME NEW w \in Slots, EndLost(w) PROVE Present'
    BY <1>t, <1>23, OwnLocks, BusyHasTask DEF EndLost, RollbackSession, ReleaseLocks, ForgetObjects, Present, Exists, Roles, Locks, Writing, Raising, Objects, TypeOK, SqlTypeOK, WithStatus, Row
  <1>24. ASSUME NEW s \in Schedulers, NEW t \in Tasks, ReleaseDue(s, t) PROVE Present'
    BY <1>t, <1>24, TickIsInert, OwnLocks, BusyHasTask DEF Present, Exists, Roles, Locks, Writing, Raising, Objects, TypeOK, SqlTypeOK, WithStatus, Row, sqlVars
  <1>25. ASSUME NEW s \in Schedulers, NEW t \in Tasks, InspectInflight(s, t) PROVE Present'
    BY <1>t, <1>25, TickIsInert, OwnLocks, BusyHasTask DEF Present, Exists, Roles, Locks, Writing, Raising, Objects, TypeOK, SqlTypeOK, WithStatus, Row, sqlVars
  <1>26. ASSUME NEW s \in Schedulers, ListInflight(s) PROVE Present'
    BY <1>t, <1>26, OwnLocks, BusyHasTask DEF ListInflight, sqlVars, Present, Exists, Roles, Locks, Writing, Raising, Objects, TypeOK, SqlTypeOK, WithStatus, Row
  <1>27. ASSUME NEW s \in Schedulers, SweepEnqueueFailed(s) PROVE Present'
    BY <1>t, <1>27, TickIsInert, OwnLocks, BusyHasTask DEF Present, Exists, Roles, Locks, Writing, Raising, Objects, TypeOK, SqlTypeOK, WithStatus, Row, sqlVars
  <1>28. ASSUME NEW s \in Schedulers, NEW due \in SUBSET Tasks, Claim(s, due) PROVE Present'
    BY <1>t, <1>28, OwnLocks, BusyHasTask DEF Claim, sqlVars, Present, Exists, Roles, Locks, Writing, Raising, Objects, TypeOK, SqlTypeOK, WithStatus, Row
  <1>29. ASSUME NEW p \in Sessions, SelectBeforeSave(p) PROVE Present'
    BY <1>t, <1>29, OwnLocks, BusyHasTask DEF SelectBeforeSave, Fetch, procVars, Present, Exists, Roles, Locks, Writing, Raising, Objects, TypeOK, SqlTypeOK, WithStatus, Row
  <1>30. ASSUME NEW p \in Sessions, Commit(p) PROVE Present'
    <2>1. /\ row' = [t \in Tasks |-> View(p, t)]
          /\ ReleaseLocks(p)
          /\ pc' = [pc EXCEPT ![p] = "idle"] /\ job' = [job EXCEPT ![p] = NoTask]
      BY <1>30 DEF Commit, CommitSession
    <2>2. \A t \in Tasks : Exists(t) => row'[t].status # "none"
      BY <1>t, <2>1 DEF View, Exists, Present
    <2>3. ASSUME NEW q \in Clients \cup Slots,
                 pc'[q] \notin {"idle", "load", "enqueue", "raise", "commit"}
          PROVE  row'[job'[q]].status # "none"
      <3>1. q # p /\ pc'[q] = pc[q] /\ job'[q] = job[q] /\ q \in Sessions
        BY <1>t, <2>1, <2>3 DEF TypeOK
      <3>2. job[q] \in Tasks /\ Exists(job[q])
        BY <1>t, <2>3, <3>1, BusyHasTask DEF Present
      <3> QED
        BY <2>2, <3>1, <3>2
    <2>4. \A t \in Tasks : lock'[t] # NoSession => draft'[t].status # "none"
      BY <1>t, <2>1 DEF ReleaseLocks, Present
    <2> QED
      BY <2>3, <2>4 DEF Present, Exists
  <1>31. ASSUME NEW p \in Sessions, Abort(p) PROVE Present'
    BY <1>t, <1>31, OwnLocks, BusyHasTask DEF Abort, RollbackSession, ReleaseLocks, ForgetObjects, Present, Exists, Roles, Locks, Writing, Raising, Objects, TypeOK, SqlTypeOK, WithStatus, Row
  <1>32. ASSUME NEW t \in Tasks, ExpireInflight(t) PROVE Present'
    BY <1>t, <1>32, OwnLocks, BusyHasTask DEF ExpireInflight, sqlVars, procVars, Present, Exists, Roles, Locks, Writing, Raising, Objects, TypeOK, SqlTypeOK, WithStatus, Row
  <1>u. CASE UNCHANGED vars
    BY <1>t, <1>u, OwnLocks, BusyHasTask DEF vars, sqlVars, procVars, Present, Exists, Roles, Locks, Writing, Raising, Objects, TypeOK, SqlTypeOK, WithStatus, Row
  <1> QED
    BY <1>u, <1>r, <1>1, <1>2, <1>3, <1>4, <1>5, <1>6, <1>7, <1>8, <1>9, <1>10, <1>11, <1>12, <1>13, <1>14, <1>15, <1>16, <1>17, <1>18, <1>19, <1>20, <1>21, <1>22, <1>23, <1>24, <1>25, <1>26, <1>27, <1>28, <1>29, <1>30, <1>31, <1>32
    DEF Next, ClientStep, SlotStep, TickStep, Request

LEMMA InitDecisions == Init => Decisions
  BY ProcessAssumption DEF Init, SqlInit, Decisions, Verdicts, ResultsKept, Present, Executed

LEMMA StepDecisions ==
  ASSUME IInv, Decisions, [Next]_vars
  PROVE  Decisions'
  BY VerdictsPreserved, ResultsPreserved, PresencePreserved DEF Decisions

-----------------------------------------------------------------------------
(* What a step is, seen from the rows *)

\* Whatever p does to itself, the phase of a row that others have stays.
LEMMA PhaseElsewhere ==
  ASSUME IInv, NEW p \in Sessions, NEW t \in Tasks,
         \A q \in Sessions : q # p => pc'[q] = pc[q] /\ mem'[q] = mem[q],
         lock[t] # p, lock'[t] = lock[t]
  PROVE  Phase(t)' = Phase(t)
  BY ProcessAssumption, NoSessionAssumption DEF IInv, TypeOK, SqlTypeOK, Phase, Executed

\* A step of p that leaves the rows, the locks and its own phase.
LEMMA MapsToStutter ==
  ASSUME IInv, NEW p \in Sessions, row' = row, lock' = lock,
         \A q \in Sessions : q # p => pc'[q] = pc[q] /\ mem'[q] = mem[q],
         \A t \in Tasks : lock[t] = p => Phase(t)' = Phase(t)
  PROVE  UNCHANGED Rows!vars
  <1>1. \A t \in Tasks : Phase(t)' = Phase(t)
    BY PhaseElsewhere
  <1> QED
    BY <1>1 DEF Rows!vars

\* p writes the row of t for the first time.
LEMMA MapsToTake ==
  ASSUME IInv, NEW p \in Clients \cup Slots, NEW t \in Tasks,
         lock[t] = NoSession, \A u \in Tasks : lock[u] # p,
         Exists(t) \/ p \in Clients,
         lock' = [lock EXCEPT ![t] = p], row' = row,
         \A q \in Sessions : q # p => pc'[q] = pc[q] /\ mem'[q] = mem[q],
         p \in Slots => pc'[p] \notin Raising \cup {"exec", "clear", "commit"}
  PROVE  Rows!Next
  <1> USE ProcessAssumption, NoSessionAssumption
  <1>1. ASSUME NEW u \in Tasks, u # t PROVE Phase(u)' = Phase(u)
    BY <1>1, PhaseElsewhere DEF IInv, TypeOK, SqlTypeOK
  <1>2. Phase(t)' = "taken"
    BY DEF Phase, Executed, IInv, TypeOK, SqlTypeOK
  <1>3. Rows!Take(t, p)
    BY <1>1, <1>2 DEF Rows!Take, Exists
  <1> QED
    BY <1>3 DEF Rows!Next

\* The slot w that has the row of t takes it to another phase.
LEMMA PhaseMoves ==
  ASSUME IInv, NEW w \in Slots, NEW t \in Tasks, lock[t] = w, lock' = lock, row' = row,
         \A q \in Sessions : q # w => pc'[q] = pc[q] /\ mem'[q] = mem[q],
         NEW b, Phase(t)' = b
  PROVE  /\ [u \in Tasks |-> Phase(u)]' = [[u \in Tasks |-> Phase(u)] EXCEPT ![t] = b]
         /\ UNCHANGED <<[u \in Tasks |-> row[u].status], lock>>
  <1>1. w \in Sessions /\ \A u \in Tasks : u # t => lock[u] # w
    BY OwnLocks, ProcessAssumption
  <1>2. \A u \in Tasks : u # t => Phase(u)' = Phase(u)
    BY <1>1, PhaseElsewhere
  <1> QED
    BY <1>2

\* The transaction of p is gone, and with it what it wrote.
LEMMA MapsToDiscard ==
  ASSUME IInv, NEW p \in Sessions, ReleaseLocks(p), row' = row,
         \A q \in Sessions : q # p => pc'[q] = pc[q] /\ mem'[q] = mem[q]
  PROVE  Rows!Next \/ UNCHANGED Rows!vars
  <1> USE ProcessAssumption, NoSessionAssumption
  <1>1. CASE \A t \in Tasks : lock[t] # p
    <2>1. lock' = lock
      BY <1>1 DEF ReleaseLocks, IInv, TypeOK, SqlTypeOK
    <2> QED
      BY <1>1, <2>1, MapsToStutter
  <1>2. ASSUME NEW t \in Tasks, lock[t] = p PROVE Rows!Next
    <2>1. \A u \in Tasks : u # t => lock[u] # p
      BY <1>2 DEF IInv, Locks
    <2>2. lock' = [lock EXCEPT ![t] = NoSession]
      BY <1>2, <2>1 DEF ReleaseLocks, IInv, TypeOK, SqlTypeOK
    <2>3. ASSUME NEW u \in Tasks, u # t PROVE Phase(u)' = Phase(u)
      BY <2>1, <2>2, <2>3, PhaseElsewhere DEF IInv, TypeOK, SqlTypeOK
    <2>4. Phase(t)' = "free"
      BY <2>2 DEF Phase, IInv, TypeOK, SqlTypeOK
    <2>5. Rows!Discard(t)
      BY <1>2, <2>2, <2>3, <2>4 DEF Rows!Discard, Rows!Free
    <2> QED
      BY <2>5 DEF Rows!Next
  <1> QED
    BY <1>1, <1>2

\* What p has to say about t when it commits is one of the outcomes of its
\* phase, and a status that may rest.
LEMMA CommitDecides ==
  ASSUME IInv, Decisions, NEW p \in Clients \cup Slots, NEW t \in Tasks,
         pc[p] = "commit", lock[t] = p
  PROVE  /\ Phase(t) \in {"taken", "executed"}
         /\ draft[t].status \in Rows!Outcomes(t) \cap Rows!Resting
  <1> USE ProcessAssumption, NoSessionAssumption
  <1>1. job[p] = t
    BY OwnLocks
  <1>2. /\ draft[t].status \in {mem[p].status, row[t].status}
        /\ draft[t].status \in {"queued", "dead_letter"} \cup Settled
    BY <1>1 DEF IInv, Drafts, Writing, Decisions, Present
  <1>3. CASE p \in Clients
    <2>1. Phase(t) = "taken" /\ mem[p].status \in {"queued", "cancelled"}
      BY <1>3 DEF Phase, Raising, Decisions, Verdicts
    <2> QED
      BY <1>2, <1>3, <2>1 DEF Rows!Outcomes, Rows!Resting, Settled
  <1>4. CASE p \in Slots /\ mem[p].status = "cancelled"
    <2>1. Phase(t) = "taken"
      BY <1>4 DEF Phase, Raising, Executed
    <2> QED
      BY <1>2, <1>4, <2>1 DEF Rows!Outcomes, Rows!Resting, Settled
  <1>5. CASE p \in Slots /\ mem[p].status # "cancelled"
    <2>1. Executed(p) /\ Phase(t) = "executed"
      BY <1>5 DEF Phase, Raising, Executed
    <2>2. draft[t].status \in {"completed", "queued", "dead_letter"}
      BY <1>1, <1>5, <2>1 DEF Decisions, Verdicts, ResultsKept
    <2> QED
      BY <2>1, <2>2 DEF Rows!Outcomes, Rows!Resting
  <1> QED
    BY <1>3, <1>4, <1>5

LEMMA MapsToPublish ==
  ASSUME IInv, Decisions, NEW p \in Sessions, Commit(p)
  PROVE  Rows!Next \/ UNCHANGED Rows!vars
  <1> USE ProcessAssumption, NoSessionAssumption
  <1>1. /\ pc[p] = "commit"
        /\ row' = [t \in Tasks |-> View(p, t)]
        /\ ReleaseLocks(p)
        /\ \A q \in Sessions : q # p => pc'[q] = pc[q] /\ mem'[q] = mem[q]
    BY DEF Commit, CommitSession, ForgetObjects, IInv, TypeOK, SqlTypeOK
  <1>2. CASE \A t \in Tasks : lock[t] # p
    <2>1. lock' = lock /\ row' = row
      BY <1>1, <1>2 DEF ReleaseLocks, View, IInv, TypeOK, SqlTypeOK
    <2> QED
      BY <1>1, <1>2, <2>1, MapsToStutter
  <1>3. ASSUME NEW t \in Tasks, lock[t] = p PROVE Rows!Next
    <2>1. \A u \in Tasks : u # t => lock[u] # p
      BY <1>3 DEF IInv, Locks
    <2>2. /\ lock' = [lock EXCEPT ![t] = NoSession]
          /\ row' = [row EXCEPT ![t] = draft[t]]
      <3>1. /\ lock = [u \in Tasks |-> lock[u]] /\ lock' = [u \in Tasks |-> lock'[u]]
            /\ row = [u \in Tasks |-> row[u]] /\ row' = [u \in Tasks |-> row'[u]]
        BY <1>1 DEF ReleaseLocks, IInv, TypeOK, SqlTypeOK
      <3>2. lock'[t] = NoSession /\ row'[t] = draft[t]
        BY <1>1, <1>3 DEF ReleaseLocks, View
      <3>3. \A u \in Tasks : u # t => lock'[u] = lock[u] /\ row'[u] = row[u]
        BY <1>1, <2>1 DEF ReleaseLocks, View
      <3> QED
        BY <3>1, <3>2, <3>3
    <2>3. ASSUME NEW u \in Tasks, u # t PROVE Phase(u)' = Phase(u)
      BY <1>1, <2>1, <2>2, <2>3, PhaseElsewhere DEF IInv, TypeOK, SqlTypeOK
    <2>4. Phase(t)' = "free"
      BY <2>2 DEF Phase, IInv, TypeOK, SqlTypeOK
    <2>5. p \in Clients \cup Slots
      BY <1>3 DEF IInv, Locks, Roles
    <2>6. /\ Phase(t) \in {"taken", "executed"}
          /\ draft[t].status \in Rows!Outcomes(t) \cap Rows!Resting
      BY <1>1, <1>3, <2>5, CommitDecides
    <2>7. [u \in Tasks |-> row[u].status]' =
            [[u \in Tasks |-> row[u].status] EXCEPT ![t] = draft[t].status]
      BY <2>2 DEF IInv, TypeOK, SqlTypeOK
    <2>8. Rows!Free(t)
      BY <2>2, <2>3, <2>4 DEF Rows!Free
    <2>9. Rows!Publish(t)
      BY <2>6, <2>7, <2>8 DEF Rows!Publish
    <2> QED
      BY <2>9 DEF Rows!Next
  <1> QED
    BY <1>2, <1>3

-----------------------------------------------------------------------------
(* Every step of AtlasQueue is a step of TaskRows, or none *)

LEMMA StepRefines ==
  ASSUME IInv, Decisions, [Next]_vars
  PROVE  Rows!Next \/ UNCHANGED Rows!vars
  <1> USE ProcessAssumption, NoSessionAssumption
  <1> DEFINE Refines == Rows!Next \/ UNCHANGED Rows!vars
             Untouched(p) == \A q \in Sessions : q # p => pc'[q] = pc[q] /\ mem'[q] = mem[q]
  <1>t. /\ TypeOK /\ SqlTypeOK /\ Roles /\ Locks /\ Objects /\ Generated
        /\ Verdicts /\ ResultsKept /\ Present
    BY DEF IInv, TypeOK, Decisions
  <1>1. ASSUME NEW c \in Clients, NEW t \in Tasks, NEW start \in StartTimes, SubmitSave(c, t, start) PROVE Refines
    <2>1. /\ lock[t] = NoSession /\ \A u \in Tasks : lock[u] # c
          /\ lock' = [lock EXCEPT ![t] = c] /\ row' = row
      BY <1>t, <1>1 DEF SubmitSave, Insert, Generated, Locks, Writing, Raising
    <2>2. Untouched(c)
      BY <1>t, <1>1 DEF SubmitSave, Insert, TypeOK, SqlTypeOK
    <2> QED
      BY <2>1, <2>2, MapsToTake
  <1>2. ASSUME NEW c \in Clients, EnqueueNow(c) PROVE Refines
    <2>1. c \in Sessions /\ row' = row /\ lock' = lock /\ Untouched(c)
      BY <1>t, <1>2 DEF EnqueueNow, SaveAgain, TypeOK, SqlTypeOK
    <2>2. \A u \in Tasks : lock[u] = c => Phase(u)' = Phase(u)
      BY <2>1 DEF Phase
    <2> QED
      BY <2>1, <2>2, MapsToStutter
  <1>3. ASSUME NEW c \in Clients, EnqueueLater(c) PROVE Refines
    <2>1. c \in Sessions /\ row' = row /\ lock' = lock /\ Untouched(c)
      BY <1>t, <1>3 DEF EnqueueLater, SaveAgain, TypeOK, SqlTypeOK
    <2>2. \A u \in Tasks : lock[u] = c => Phase(u)' = Phase(u)
      BY <2>1 DEF Phase
    <2> QED
      BY <2>1, <2>2, MapsToStutter
  <1>4. ASSUME NEW c \in Clients, EnqueueFails(c) PROVE Refines
    <2>1. c \in Sessions /\ row' = row /\ lock' = lock /\ Untouched(c)
      BY <1>t, <1>4 DEF EnqueueFails, SaveAgain, TypeOK, SqlTypeOK
    <2>2. \A u \in Tasks : lock[u] = c => Phase(u)' = Phase(u)
      BY <2>1 DEF Phase
    <2> QED
      BY <2>1, <2>2, MapsToStutter
  <1>5. ASSUME NEW c \in Clients \cup Slots, Raise(c) PROVE Refines
    <2>1. c \in Sessions /\ ReleaseLocks(c) /\ row' = row
      BY <1>5 DEF Raise, RollbackSession
    <2>2. Untouched(c)
      BY <1>t, <1>5 DEF Raise, RollbackSession, ForgetObjects, TypeOK, SqlTypeOK
    <2> QED
      BY <2>1, <2>2, MapsToDiscard
  <1>6. ASSUME NEW c \in Clients, NEW t \in Tasks, CancelLoad(c, t) PROVE Refines
    <2>1. /\ c \in Sessions /\ row' = row /\ lock' = lock /\ Untouched(c)
          /\ \A u \in Tasks : lock[u] # c
      BY <1>t, <1>6 DEF CancelLoad, Load, Locks, Writing, Raising, TypeOK, SqlTypeOK
    <2> QED
      BY <2>1, MapsToStutter
  <1>7. ASSUME NEW c \in Clients, CancelMark(c) PROVE Refines
    <2>1. /\ c \in Sessions /\ row' = row /\ lock' = lock /\ Untouched(c)
          /\ \A u \in Tasks : lock[u] # c
      BY <1>t, <1>7 DEF CancelMark, sqlVars, Locks, Writing, Raising, TypeOK, SqlTypeOK
    <2> QED
      BY <2>1, MapsToStutter
  <1>8. ASSUME NEW c \in Clients, CancelSave(c) PROVE Refines
    <2>1. /\ job[c] \in Tasks /\ Exists(job[c])
          /\ lock[job[c]] = NoSession /\ \A u \in Tasks : lock[u] # c
          /\ lock' = [lock EXCEPT ![job[c]] = c] /\ row' = row
      BY <1>t, <1>8, BusyHasTask DEF CancelSave, FirstSave, Present, Locks, Writing, Raising
    <2>2. Untouched(c) /\ (c \in Slots => pc'[c] \notin Raising \cup {"exec", "clear", "commit"})
      BY <1>t, <1>8 DEF Raising, CancelSave, FirstSave, TypeOK, SqlTypeOK
    <2> QED
      BY <2>1, <2>2, MapsToTake
  <1>9. ASSUME NEW c \in Clients, NEW t \in Tasks, RetryLoad(c, t) PROVE Refines
    <2>1. /\ c \in Sessions /\ row' = row /\ lock' = lock /\ Untouched(c)
          /\ \A u \in Tasks : lock[u] # c
      BY <1>t, <1>9 DEF RetryLoad, Load, Locks, Writing, Raising, TypeOK, SqlTypeOK
    <2> QED
      BY <2>1, MapsToStutter
  <1>10. ASSUME NEW c \in Clients, RetryPush(c) PROVE Refines
    <2>1. /\ c \in Sessions /\ row' = row /\ lock' = lock /\ Untouched(c)
          /\ \A u \in Tasks : lock[u] # c
      BY <1>t, <1>10 DEF RetryPush, sqlVars, Locks, Writing, Raising, TypeOK, SqlTypeOK
    <2> QED
      BY <2>1, MapsToStutter
  <1>11. ASSUME NEW c \in Clients, RetrySave(c) PROVE Refines
    <2>1. /\ job[c] \in Tasks /\ Exists(job[c])
          /\ lock[job[c]] = NoSession /\ \A u \in Tasks : lock[u] # c
          /\ lock' = [lock EXCEPT ![job[c]] = c] /\ row' = row
      BY <1>t, <1>11, BusyHasTask DEF RetrySave, FirstSave, Present, Locks, Writing, Raising
    <2>2. Untouched(c) /\ (c \in Slots => pc'[c] \notin Raising \cup {"exec", "clear", "commit"})
      BY <1>t, <1>11 DEF Raising, RetrySave, FirstSave, TypeOK, SqlTypeOK
    <2> QED
      BY <2>1, <2>2, MapsToTake
  <1>12. ASSUME NEW w \in Slots, Dequeue(w) PROVE Refines
    <2>1. /\ w \in Sessions /\ row' = row /\ lock' = lock /\ Untouched(w)
          /\ \A u \in Tasks : lock[u] # w
      BY <1>t, <1>12 DEF Dequeue, sqlVars, Locks, Writing, Raising, TypeOK, SqlTypeOK
    <2> QED
      BY <2>1, MapsToStutter
  <1>13. ASSUME NEW w \in Slots, LoadTask(w) PROVE Refines
    <2>1. /\ w \in Sessions /\ row' = row /\ lock' = lock /\ Untouched(w)
          /\ \A u \in Tasks : lock[u] # w
      BY <1>t, <1>13 DEF LoadTask, Load, sqlVars, Locks, Writing, Raising, TypeOK, SqlTypeOK
    <2> QED
      BY <2>1, MapsToStutter
  <1>14. ASSUME NEW w \in Slots, CheckCancelled(w) PROVE Refines
    <2>1. /\ w \in Sessions /\ row' = row /\ lock' = lock /\ Untouched(w)
          /\ \A u \in Tasks : lock[u] # w
      BY <1>t, <1>14 DEF CheckCancelled, sqlVars, Locks, Writing, Raising, TypeOK, SqlTypeOK
    <2> QED
      BY <2>1, MapsToStutter
  <1>15. ASSUME NEW w \in Slots, CancelDelivered(w) PROVE Refines
    <2>1. /\ job[w] \in Tasks /\ Exists(job[w])
          /\ lock[job[w]] = NoSession /\ \A u \in Tasks : lock[u] # w
          /\ lock' = [lock EXCEPT ![job[w]] = w] /\ row' = row
      BY <1>t, <1>15, BusyHasTask DEF CancelDelivered, FirstSave, Present, Locks, Writing, Raising
    <2>2. Untouched(w) /\ (w \in Slots => pc'[w] \notin Raising \cup {"exec", "clear", "commit"})
      BY <1>t, <1>15 DEF Raising, CancelDelivered, FirstSave, TypeOK, SqlTypeOK
    <2> QED
      BY <2>1, <2>2, MapsToTake
  <1>16. ASSUME NEW w \in Slots, ClearCancelled(w) PROVE Refines
    <2>1. w \in Sessions /\ row' = row /\ lock' = lock /\ Untouched(w)
      BY <1>t, <1>16 DEF ClearCancelled, sqlVars, TypeOK
    <2>2. \A u \in Tasks : lock[u] = w => Phase(u)' = Phase(u)
      BY <1>t, <1>16 DEF ClearCancelled, sqlVars, Phase, Raising, Executed, Verdicts, TypeOK
    <2> QED
      BY <2>1, <2>2, MapsToStutter
  <1>17. ASSUME NEW w \in Slots, Start(w) PROVE Refines
    <2>1. /\ job[w] \in Tasks /\ Exists(job[w])
          /\ lock[job[w]] = NoSession /\ \A u \in Tasks : lock[u] # w
          /\ lock' = [lock EXCEPT ![job[w]] = w] /\ row' = row
      BY <1>t, <1>17, BusyHasTask DEF Start, FirstSave, Present, Locks, Writing, Raising
    <2>2. Untouched(w) /\ (w \in Slots => pc'[w] \notin Raising \cup {"exec", "clear", "commit"})
      BY <1>t, <1>17 DEF Raising, Start, FirstSave, TypeOK, SqlTypeOK
    <2> QED
      BY <2>1, <2>2, MapsToTake
  <1>18. ASSUME NEW w \in Slots, MarkInflight(w) PROVE Refines
    <2>1. /\ job[w] \in Tasks /\ lock[job[w]] = w /\ mem[w] \in Row
          /\ lock' = lock /\ row' = row /\ job' = job
      BY <1>t, <1>18, BusyHasTask DEF MarkInflight, sqlVars, Locks, Writing, Raising
    <2>2. Untouched(w)
      BY <1>t, <1>18 DEF MarkInflight, sqlVars, TypeOK, SqlTypeOK
    <2>3. Phase(job[w]) = "taken" /\ Phase(job[w])' = "executing"
      BY <1>t, <1>18, <2>1 DEF MarkInflight, Phase, Raising, Executed, TypeOK
    <2>4. Rows!Execute(job[w])
      BY <2>1, <2>2, <2>3, PhaseMoves DEF Rows!Execute
    <2> QED
      BY <2>1, <2>4 DEF Rows!Next
  <1>19. ASSUME NEW w \in Slots, Complete(w) PROVE Refines
    <2>1. /\ job[w] \in Tasks /\ lock[job[w]] = w /\ mem[w] \in Row
          /\ lock' = lock /\ row' = row /\ job' = job
      BY <1>t, <1>19, BusyHasTask DEF Complete, SaveAgain, Locks, Writing, Raising
    <2>2. Untouched(w)
      BY <1>t, <1>19 DEF Complete, SaveAgain, TypeOK, SqlTypeOK
    <2>3. Phase(job[w]) = "executing" /\ Phase(job[w])' = "executed"
      BY <1>t, <1>19, <2>1 DEF Complete, Phase, Raising, Executed, TypeOK
    <2>4. Rows!EndExecution(job[w])
      BY <2>1, <2>2, <2>3, PhaseMoves DEF Rows!EndExecution
    <2> QED
      BY <2>1, <2>4 DEF Rows!Next
  <1>20. ASSUME NEW w \in Slots, Fail(w) PROVE Refines
    <2>1. /\ job[w] \in Tasks /\ lock[job[w]] = w /\ mem[w] \in Row
          /\ lock' = lock /\ row' = row /\ job' = job
      BY <1>t, <1>20, BusyHasTask DEF Fail, SaveAgain, Locks, Writing, Raising
    <2>2. Untouched(w)
      BY <1>t, <1>20 DEF Fail, SaveAgain, TypeOK, SqlTypeOK
    <2>3. Phase(job[w]) = "executing" /\ Phase(job[w])' = "executed"
      BY <1>t, <1>20, <2>1 DEF Fail, Phase, Raising, Executed, TypeOK
    <2>4. Rows!EndExecution(job[w])
      BY <2>1, <2>2, <2>3, PhaseMoves DEF Rows!EndExecution
    <2> QED
      BY <2>1, <2>4 DEF Rows!Next
  <1>r. ASSUME NEW w \in Slots, FailRaises(w) PROVE Refines
    <2>1. /\ w \in Sessions /\ row' = row /\ pc[w] = "exec"
          /\ pc' = [pc EXCEPT ![w] = "refused"] /\ \E r : mem' = [mem EXCEPT ![w] = r]
          /\ lock' = lock \/ ReleaseLocks(w)
      BY <1>t, <1>r, FailRaisesParts
    <2>2. Untouched(w)
      BY <1>t, <2>1 DEF TypeOK, SqlTypeOK
    <2>3. CASE ReleaseLocks(w)
      BY <2>1, <2>2, <2>3, MapsToDiscard
    <2>4. CASE lock' = lock
      <3>1. \A u \in Tasks : lock[u] = w => Phase(u)' = Phase(u)
        BY <1>t, <2>1, <2>4 DEF Phase, Raising, TypeOK
      <3> QED
        BY <2>1, <2>2, <2>4, <3>1, MapsToStutter
    <2> QED
      BY <2>1, <2>3, <2>4
  <1>21. ASSUME NEW w \in Slots, ClearInflight(w) PROVE Refines
    <2>1. w \in Sessions /\ row' = row /\ lock' = lock /\ Untouched(w)
      BY <1>t, <1>21 DEF ClearInflight, sqlVars, TypeOK
    <2>2. \A u \in Tasks : lock[u] = w => Phase(u)' = Phase(u)
      BY <1>t, <1>21 DEF ClearInflight, sqlVars, Phase, Raising, Executed, Verdicts, TypeOK
    <2> QED
      BY <2>1, <2>2, MapsToStutter
  <1>22. ASSUME NEW w \in Slots, DropConnection(w) PROVE Refines
    <2>1. w \in Sessions /\ ReleaseLocks(w) /\ row' = row
      BY <1>22 DEF DropConnection, LoseTransaction
    <2>2. Untouched(w)
      BY <1>t, <1>22 DEF DropConnection, LoseTransaction, TypeOK, SqlTypeOK
    <2> QED
      BY <2>1, <2>2, MapsToDiscard
  <1>23. ASSUME NEW w \in Slots, EndLost(w) PROVE Refines
    <2>1. w \in Sessions /\ ReleaseLocks(w) /\ row' = row
      BY <1>23 DEF EndLost, RollbackSession
    <2>2. Untouched(w)
      BY <1>t, <1>23 DEF EndLost, RollbackSession, ForgetObjects, TypeOK, SqlTypeOK
    <2> QED
      BY <2>1, <2>2, MapsToDiscard
  <1>24. ASSUME NEW s \in Schedulers, NEW t \in Tasks, ReleaseDue(s, t) PROVE Refines
    <2>1. /\ s \in Sessions /\ row' = row /\ lock' = lock /\ Untouched(s)
          /\ \A u \in Tasks : lock[u] # s
      BY <1>t, <1>24, TickIsInert DEF sqlVars, Locks, Roles, TickAwaits, Writing, Raising, TypeOK
    <2> QED
      BY <2>1, MapsToStutter
  <1>25. ASSUME NEW s \in Schedulers, NEW t \in Tasks, InspectInflight(s, t) PROVE Refines
    <2>1. /\ s \in Sessions /\ row' = row /\ lock' = lock /\ Untouched(s)
          /\ \A u \in Tasks : lock[u] # s
      BY <1>t, <1>25, TickIsInert DEF sqlVars, Locks, Roles, TickAwaits, Writing, Raising, TypeOK
    <2> QED
      BY <2>1, MapsToStutter
  <1>26. ASSUME NEW s \in Schedulers, ListInflight(s) PROVE Refines
    <2>1. /\ s \in Sessions /\ row' = row /\ lock' = lock /\ Untouched(s)
          /\ \A u \in Tasks : lock[u] # s
      BY <1>t, <1>26 DEF ListInflight, sqlVars, Locks, Roles, TickAwaits, Writing, Raising, TypeOK
    <2> QED
      BY <2>1, MapsToStutter
  <1>27. ASSUME NEW s \in Schedulers, SweepEnqueueFailed(s) PROVE Refines
    <2>1. /\ s \in Sessions /\ row' = row /\ lock' = lock /\ Untouched(s)
          /\ \A u \in Tasks : lock[u] # s
      BY <1>t, <1>27, TickIsInert DEF sqlVars, Locks, Roles, TickAwaits, Writing, Raising, TypeOK
    <2> QED
      BY <2>1, MapsToStutter
  <1>28. ASSUME NEW s \in Schedulers, NEW due \in SUBSET Tasks, Claim(s, due) PROVE Refines
    <2>1. /\ s \in Sessions /\ row' = row /\ lock' = lock /\ Untouched(s)
          /\ \A u \in Tasks : lock[u] # s
      BY <1>t, <1>28 DEF Claim, sqlVars, Locks, Roles, TickAwaits, Writing, Raising, TypeOK
    <2> QED
      BY <2>1, MapsToStutter
  <1>29. ASSUME NEW p \in Sessions, SelectBeforeSave(p) PROVE Refines
    <2>1. row' = row /\ lock' = lock /\ pc' = pc /\ mem' = mem
      BY <1>29 DEF SelectBeforeSave, Fetch, procVars, sqlVars
    <2> QED
      BY <2>1 DEF Rows!vars, Phase, Raising, Executed
  <1>30. ASSUME NEW p \in Sessions, Commit(p) PROVE Refines
    BY <1>30, MapsToPublish
  <1>31. ASSUME NEW p \in Sessions, Abort(p) PROVE Refines
    <2>1. p \in Sessions /\ ReleaseLocks(p) /\ row' = row
      BY <1>31 DEF Abort, RollbackSession
    <2>2. Untouched(p)
      BY <1>t, <1>31 DEF Abort, RollbackSession, ForgetObjects, TypeOK, SqlTypeOK
    <2> QED
      BY <2>1, <2>2, MapsToDiscard
  <1>32. ASSUME NEW t \in Tasks, ExpireInflight(t) PROVE Refines
    <2>1. row' = row /\ lock' = lock /\ pc' = pc /\ mem' = mem
      BY <1>32 DEF ExpireInflight, Fetch, procVars, sqlVars
    <2> QED
      BY <2>1 DEF Rows!vars, Phase, Raising, Executed
  <1>u. CASE UNCHANGED vars
    BY <1>u DEF vars, sqlVars, procVars, Rows!vars, Phase, Raising, Executed
  <1> QED
    BY <1>u, <1>r, <1>1, <1>2, <1>3, <1>4, <1>5, <1>6, <1>7, <1>8, <1>9, <1>10, <1>11, <1>12, <1>13, <1>14, <1>15, <1>16, <1>17, <1>18, <1>19, <1>20, <1>21, <1>22, <1>23, <1>24, <1>25, <1>26, <1>27, <1>28, <1>29, <1>30, <1>31, <1>32
    DEF Next, ClientStep, SlotStep, TickStep, Request

LEMMA InitRefines == Init => Rows!Init
  BY DEF Init, SqlInit, NoRow, Rows!Init, Phase

\* Whatever the requests, deliveries, ticks and faults do, the committed rows
\* only change as TaskRows allows: one writer at a time, a handler runs alone,
\* and what is published is an outcome of the work that was done, or nothing.
THEOREM RowsRefined == Spec => ImplementsTaskRows
  <1>1. Init => IInv /\ Decisions /\ Rows!Init
    BY InitIInv, InitDecisions, InitRefines
  <1>2. IInv /\ Decisions /\ [Next]_vars => (IInv /\ Decisions)'
    BY StepIInv, StepDecisions
  <1>3. IInv /\ Decisions /\ [Next]_vars => [Rows!Next]_(Rows!vars)
    BY StepRefines
  <1> QED
    BY <1>1, <1>2, <1>3, PTL DEF Spec, ImplementsTaskRows, Rows!Spec
=============================================================================

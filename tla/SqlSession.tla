----------------------------- MODULE SqlSession -----------------------------
(***************************************************************************)
(* The PostgreSQL side: the tasks table, the task_events table, and the    *)
(* sessions of Container.session() that read and write them.               *)
(*                                                                         *)
(* A session is one READ COMMITTED transaction.  Repository.save() is two  *)
(* statements.  It SELECTs the row again, because the identity map refers  *)
(* weakly to the object get_by_id loaded, which _to_domain_task has copied *)
(* and dropped.  Then it flushes an UPDATE of the columns in which the     *)
(* domain object differs from that SELECT.  The UPDATE waits for the row   *)
(* lock, so another session may commit between the two, and the columns    *)
(* that are not sent keep what that session wrote.  Nobody else sees the   *)
(* new version of the row before the context manager commits.              *)
(*                                                                         *)
(* Of the row the model keeps the status and the attempts.                 *)
(***************************************************************************)
EXTENDS TaskEntity

CONSTANTS
  Sessions,    \* whoever opens a session: request handlers, slots, ticks
  NoSession

ASSUME NoSessionAssumption == NoSession \notin Sessions

VARIABLES
  row,      \* committed version of each row of tasks
  lock,     \* the session whose open transaction has written the row
  draft,    \* that transaction's version of the row; NoRow: none
  mem,      \* the Task object each session works on; NoRow: none
  fetched   \* what the SELECT of the pending save() read; NoRow: not done

sqlVars == <<row, lock, draft, mem, fetched>>

SqlTypeOK ==
  /\ row \in [Tasks -> Row]
  /\ lock \in [Tasks -> Sessions \cup {NoSession}]
  /\ draft \in [Tasks -> Row]
  /\ mem \in [Sessions -> Row]
  /\ fetched \in [Sessions -> Row]

SqlInit ==
  /\ row = [t \in Tasks |-> NoRow]
  /\ lock = [t \in Tasks |-> NoSession]
  /\ draft = [t \in Tasks |-> NoRow]
  /\ mem = [p \in Sessions |-> NoRow]
  /\ fetched = [p \in Sessions |-> NoRow]

Exists(t) == row[t].status # "none"

\* The row as a SELECT of session p sees it: its own writes or the commit.
View(p, t) == IF lock[t] = p THEN draft[t] ELSE row[t]

\* get_by_id
Load(p, t) ==
  /\ mem' = [mem EXCEPT ![p] = View(p, t)]
  /\ UNCHANGED <<row, lock, draft, fetched>>

\* The SELECT of save().
Fetch(p, t) ==
  /\ fetched[p] = NoRow
  /\ fetched' = [fetched EXCEPT ![p] = View(p, t)]
  /\ UNCHANGED <<row, lock, draft, mem>>

\* The row after an UPDATE of the columns in which r differs from seen.
Updated(current, seen, r) ==
  [status   |-> IF r.status # seen.status THEN r.status ELSE current.status,
   attempts |-> IF r.attempts # seen.attempts THEN r.attempts ELSE current.attempts]

\* The INSERT of save(): no other session knows the id.
Insert(p, t, r) ==
  /\ lock' = [lock EXCEPT ![t] = p]
  /\ draft' = [draft EXCEPT ![t] = r]
  /\ mem' = [mem EXCEPT ![p] = r]
  /\ UNCHANGED <<row, fetched>>

\* Mutant: the UPDATE does not wait for the row lock.
FirstSaveUnlocked(p, t, r) ==
  /\ fetched[p] # NoRow
  /\ lock' = [lock EXCEPT ![t] = p]
  /\ draft' = [draft EXCEPT ![t] = Updated(row[t], fetched[p], r)]
  /\ mem' = [mem EXCEPT ![p] = r]
  /\ fetched' = [fetched EXCEPT ![p] = NoRow]
  /\ UNCHANGED row

\* The UPDATE of the first save() of a transaction that had only read.
FirstSave(p, t, r) ==
  /\ fetched[p] # NoRow
  /\ lock[t] = NoSession
  /\ lock' = [lock EXCEPT ![t] = p]
  /\ draft' = [draft EXCEPT ![t] = Updated(row[t], fetched[p], r)]
  /\ mem' = [mem EXCEPT ![p] = r]
  /\ fetched' = [fetched EXCEPT ![p] = NoRow]
  /\ UNCHANGED row

\* A later save(), under the lock: nothing comes between its statements, and
\* the columns that are not sent hold what r holds.
SaveAgain(p, t, r) ==
  /\ lock[t] = p
  /\ draft' = [draft EXCEPT ![t] = r]
  /\ mem' = [mem EXCEPT ![p] = r]
  /\ UNCHANGED <<row, lock, fetched>>

\* The transaction is over: its locks and its versions are gone.
ReleaseLocks(p) ==
  /\ lock' = [t \in Tasks |-> IF lock[t] = p THEN NoSession ELSE lock[t]]
  /\ draft' = [t \in Tasks |-> IF lock[t] = p THEN NoRow ELSE draft[t]]

ForgetObjects(p) ==
  /\ mem' = [mem EXCEPT ![p] = NoRow]
  /\ fetched' = [fetched EXCEPT ![p] = NoRow]

CommitSession(p) ==
  /\ row' = [t \in Tasks |-> View(p, t)]
  /\ ReleaseLocks(p)
  /\ ForgetObjects(p)

RollbackSession(p) ==
  /\ UNCHANGED row
  /\ ReleaseLocks(p)
  /\ ForgetObjects(p)

\* A flush that raises rolls the transaction back; the object keeps what it
\* was given.
SaveRaises(p, r) ==
  /\ ReleaseLocks(p)
  /\ mem' = [mem EXCEPT ![p] = r]
  /\ UNCHANGED <<row, fetched>>

\* PostgreSQL ends the transaction of a lost connection; the process still
\* has its objects.
LoseTransaction(p) ==
  /\ ReleaseLocks(p)
  /\ UNCHANGED <<row, mem, fetched>>
=============================================================================

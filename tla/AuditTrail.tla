----------------------------- MODULE AuditTrail -----------------------------
(***************************************************************************)
(* The queue of AtlasQueue.tla with the table task_events: every save() of *)
(* a task is followed by event_repo.append() in the same transaction, and  *)
(* GET /tasks/{id}/events lists the committed events of a task in the      *)
(* order of created_at.  created_at is the server's now(), which is the    *)
(* time the transaction began: its first SELECT, not its event.            *)
(*                                                                         *)
(* events is in the order of the commits.  Times are the order in which    *)
(* transactions began.                                                     *)
(***************************************************************************)
EXTENDS AtlasQueueInv, FiniteSetsExt

ASSUME FinitelyManyTicks == IsFiniteSet(Schedulers)

VARIABLES
  events,   \* committed rows of task_events
  notes,    \* rows that each open transaction has inserted
  began     \* when each open transaction began; 0: not begun

auditVars == <<events, notes, began>>

AuditInit ==
  /\ Init
  /\ events = <<>>
  /\ notes = [p \in Sessions |-> <<>>]
  /\ began = [p \in Sessions |-> 0]

Now == 1 + Max({began[p] : p \in Sessions} \cup {events[i].at : i \in DOMAIN events})

Noted(p, t, from, to) ==
  notes' = [notes EXCEPT ![p] =
              Append(@, [task |-> t, from |-> from, to |-> to, at |-> began'[p]])]

\* Mutant: a completed task gets no event.
AppendUnlessDone(p, t) ==
  IF mem'[p].status = "completed" THEN UNCHANGED notes
  ELSE Noted(p, t, mem[p].status, mem'[p].status)

\* Mutant: from_status is read after transition_to().
AppendAfterwards(p, t) == Noted(p, t, mem'[p].status, mem'[p].status)

\* append() after a save(): from_status is the status that the object had, not
\* that of the row.
AppendEvent(p, t) == Noted(p, t, mem[p].status, mem'[p].status)

Forget(p) ==
  /\ notes' = [notes EXCEPT ![p] = <<>>]
  /\ began' = [began EXCEPT ![p] = 0]

\* Mutant: events are written in a session of their own.
DiscardKeeps(p) ==
  /\ events' = events \o notes[p]
  /\ Forget(p)

\* The events go with the rest of the transaction.
Discard(p) ==
  /\ Forget(p)
  /\ UNCHANGED events

-----------------------------------------------------------------------------
(* The steps of AtlasQueue and what each does to the events *)

Begins(p) == began' = [began EXCEPT ![p] = Now]

Submits(c) ==
  \E t \in Tasks, start \in StartTimes :
    /\ SubmitSave(c, t, start)
    /\ Begins(c)
    /\ AppendEvent(c, t)
    /\ UNCHANGED events

\* A request or a delivery loads its task.
Reads(p) ==
  /\ \/ p \in Clients /\ \E t \in Tasks : CancelLoad(p, t) \/ RetryLoad(p, t)
     \/ p \in Slots /\ LoadTask(p)
  /\ IF At(p, "idle")' THEN UNCHANGED began ELSE Begins(p)
  /\ UNCHANGED <<events, notes>>

Saves(p) ==
  /\ \/ /\ p \in Clients
        /\ \/ EnqueueNow(p) \/ EnqueueLater(p) \/ EnqueueFails(p)
           \/ CancelSave(p) \/ RetrySave(p)
     \/ /\ p \in Slots
        /\ CancelDelivered(p) \/ Start(p) \/ Complete(p) \/ Fail(p)
  /\ UNCHANGED <<events, began>>
  /\ AppendEvent(p, job[p])

\* A tick appends when it saves a task, which it never does (TickIsInert of
\* AtlasQueueProofs.tla); when its transaction began is told only then.
Ticks(s) ==
  \/ /\ \E due \in SUBSET Tasks : Claim(s, due)
     /\ UNCHANGED auditVars
  \/ /\ ListInflight(s)
     /\ UNCHANGED auditVars
  \/ /\ \/ \E t \in Tasks : ReleaseDue(s, t) \/ InspectInflight(s, t)
        \/ SweepEnqueueFailed(s)
     /\ IF draft' = draft
        THEN UNCHANGED <<notes, began>>
        ELSE LET t == CHOOSE u \in Tasks : draft'[u] # draft[u]
             IN  Begins(s) /\ Noted(s, t, View(s, t).status, draft'[t].status)
     /\ UNCHANGED events

Ends(p) ==
  \/ /\ Commit(p)
     /\ events' = events \o notes[p]
     /\ Forget(p)
  \/ /\ \/ Abort(p)
        \/ p \in Clients \cup Slots /\ Raise(p)
        \/ p \in Slots /\ (DropConnection(p) \/ EndLost(p))
     /\ Discard(p)
  \/ /\ p \in Slots /\ FailRaises(p)
     /\ IF lock' = lock THEN UNCHANGED auditVars ELSE Discard(p)

\* The awaits on Redis, and the SELECT of a save().
Others ==
  /\ \/ \E c \in Clients : CancelMark(c) \/ RetryPush(c)
     \/ \E w \in Slots :
          \/ Dequeue(w) \/ CheckCancelled(w) \/ ClearCancelled(w)
          \/ MarkInflight(w) \/ ClearInflight(w)
     \/ \E p \in Sessions : SelectBeforeSave(p)
     \/ \E t \in Tasks : ExpireInflight(t)
  /\ UNCHANGED auditVars

AuditNext ==
  \/ \E c \in Clients : Submits(c)
  \/ \E p \in Sessions : Reads(p) \/ Saves(p) \/ Ends(p)
  \/ \E s \in Schedulers : Ticks(s)
  \/ Others

AuditSpec == AuditInit /\ [][AuditNext]_<<vars, auditVars>>

-----------------------------------------------------------------------------
(* GET /tasks/{id}/events *)

Timeline(t) == {i \in DOMAIN events : events[i].task = t}

\* Events of one time are listed in any order.
LastListed(t) ==
  {i \in Timeline(t) : \A j \in Timeline(t) : events[j].at <= events[i].at}

-----------------------------------------------------------------------------
(* What the events tell of the rows *)

\* Every status that a row takes is what an event says that appears with it,
\* the last one of its transaction: no way through submit, cancel, retry_task or
\* execute_task commits a change without its event.
ChangesAreAudited ==
  [][\A t \in Tasks : row'[t].status # row[t].status =>
       /\ Len(events') > Len(events)
       /\ LET last == events'[Len(events')]
          IN  last.task = t /\ last.to = row'[t].status]_<<vars, auditVars>>

\* Every event begins where an earlier one ended, or with the submission:
\* nobody takes a task up from a status that was never committed, although
\* objects may be old when they are saved.
TrailIsGrounded ==
  \A i \in DOMAIN events :
    \/ events[i].from = "none"
    \/ \E j \in 1 .. i - 1 :
         events[j].task = events[i].task /\ events[j].to = events[i].from

\* An execution is in the trail with its outcome or not at all: one that was cut
\* off leaves no trace, since its task.started goes with the transaction.
StartedHasOutcome ==
  \A i \in DOMAIN events : events[i].to = "running" =>
    /\ i + 1 \in DOMAIN events
    /\ events[i + 1].task = events[i].task
    /\ events[i + 1].from = "running"
    /\ events[i + 1].at = events[i].at

-----------------------------------------------------------------------------
(* The inductive invariant behind TrailIsGrounded and StartedHasOutcome *)

Event == [task : Tasks, from : Statuses \cup {"none"}, to : Statuses \cup {"none"}, at : Nat]

AuditTypeOK ==
  /\ events \in Seq(Event)
  /\ notes \in [Sessions -> Seq(Event)]
  /\ began \in [Sessions -> Nat]

\* A committed event says that t came to status s.
Told(t, s) == \E i \in DOMAIN events : events[i].task = t /\ events[i].to = s

\* Who has written a row has noted it, and nobody else has notes for long.
NotesKept ==
  /\ \A s \in Schedulers : notes[s] = <<>>
  /\ \A p \in Sessions : pc[p] \in {"idle", "load"} => notes[p] = <<>>
  /\ \A p \in Clients \cup Slots :
       pc[p] \in Writing => notes[p] # <<>>

\* The notes of a transaction are the way of one task from a status that was
\* committed to the status of its object.
NotesChained ==
  \A p \in Sessions : \A i \in DOMAIN notes[p] :
    LET note == notes[p][i]
    IN  /\ note.task = job[p]
        /\ note.at = began[p]
        /\ i = 1 => note.from = "none" \/ Told(job[p], note.from)
        /\ i > 1 => note.from = notes[p][i - 1].to
        /\ i = Len(notes[p]) /\ pc[p] \notin Raising => note.to = mem[p].status

\* What rows say, and what objects that are not changed yet say, was told.
Grounds ==
  /\ \A t \in Tasks : Exists(t) => Told(t, row[t].status)
  /\ \A p \in Clients \cup Slots :
       notes[p] = <<>> /\ pc[p] \notin Raising \cup {"idle", "load", "lost"}
         => Told(job[p], mem[p].status)

AuditInv ==
  /\ AuditTypeOK
  /\ NotesKept
  /\ NotesChained
  /\ Grounds
  /\ TrailIsGrounded
  /\ StartedHasOutcome

-----------------------------------------------------------------------------
(* What the timeline is taken for *)

\* "Click a task for the event timeline" (README.md:118): ordered by
\* created_at, the events end with the status of the row.
TimelineEndsInRow ==
  \A t \in Tasks : Timeline(t) # {} =>
    \E i \in LastListed(t) : events[i].to = row[t].status
=============================================================================

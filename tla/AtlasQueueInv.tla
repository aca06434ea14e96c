---------------------------- MODULE AtlasQueueInv ----------------------------
(***************************************************************************)
(* The inductive invariant behind the theorems of AtlasQueueProofs.tla:    *)
(* where each process is, what it holds there, and what the rows it has    *)
(* written can be.                                                         *)
(***************************************************************************)
EXTENDS AtlasQueueProps

ClientAwaits == {"idle", "enqueue", "raise", "cancelMark", "cancelSave", "retryPush",
                 "retrySave", "commit"}

SlotAwaits == {"idle", "load", "check", "dropSave", "unflag", "start", "mark", "exec",
               "clear", "refused", "raise", "lost", "commit"}

TickAwaits == {"idle", "release", "inspect", "commit"}

\* Every process is at an await of its own kind, and a request or slot has a
\* task exactly while it is busy.
Roles ==
  /\ \A c \in Clients : pc[c] \in ClientAwaits
  /\ \A w \in Slots : pc[w] \in SlotAwaits
  /\ \A s \in Schedulers : pc[s] \in TickAwaits /\ job[s] = NoTask
  /\ \A p \in Clients \cup Slots : job[p] = NoTask <=> pc[p] = "idle"

\* The awaits a process reaches with a row written, and those that only such
\* a process reaches.
Writing == {"enqueue", "unflag", "mark", "exec", "clear", "commit"}

\* Those of an exception that will end the transaction, if it has not yet.
Raising == {"refused", "raise"}

\* A row lock belongs to the one process that has written the row and has not
\* ended its transaction; nobody else comes to such an await.
Locks ==
  /\ \A t \in Tasks : lock[t] # NoSession =>
       job[lock[t]] = t /\ pc[lock[t]] \in Writing \cup Raising
  /\ \A p \in Clients \cup Slots : pc[p] \in Writing => lock[job[p]] = p

\* What the object of a process can be at each await.
Objects ==
  \A p \in Sessions :
    /\ pc[p] \in {"idle", "load"} => mem[p] = NoRow
    /\ pc[p] = "enqueue" => mem[p].status \in {"pending", "scheduled"}
    /\ pc[p] \in {"cancelMark", "cancelSave"} =>
         mem[p].status \notin {"none", "dead_letter"} \cup Settled
    /\ pc[p] \in {"retryPush", "retrySave"} => mem[p].status \in {"dead_letter", "failed"}
    /\ pc[p] \in {"check", "dropSave", "start"} => mem[p].status = "queued"
    /\ pc[p] \in {"mark", "exec", "lost"} => mem[p].status = "running"

\* What a transaction leaves if it commits: a settled status, and the status
\* of its object unless the UPDATE left the committed one in place.
Drafts ==
  \A t \in Tasks :
    /\ draft[t].status = "dead_letter" => dlq[t] > 0
    /\ lock[t] # NoSession =>
         /\ mem[lock[t]].status # "none"
         /\ pc[lock[t]] \in Writing =>
              draft[t].status \in {mem[lock[t]].status, row[t].status}
         /\ pc[lock[t]] \in {"unflag", "clear", "commit"} =>
              draft[t].status \in {"none", "queued", "dead_letter"} \cup Settled

\* A row, and whoever works on one, has an id that was generated.
Generated ==
  /\ \A t \in Tasks : row[t].status # "none" \/ lock[t] # NoSession => t \in issued
  /\ \A p \in Clients \cup Slots : pc[p] \notin {"idle", "load"} => job[p] \in issued

LostIsFault == \A w \in Slots : pc[w] = "lost" => faults > 0

IInv ==
  /\ TypeOK
  /\ Roles
  /\ Locks
  /\ Objects
  /\ Drafts
  /\ Generated
  /\ LostIsFault
  /\ SettledStatuses
  /\ DeadLetterListed
  /\ MarkersAreOwned

-----------------------------------------------------------------------------
(* AtlasQueue implements TaskRows.                                         *)

\* The handler is over, and its transaction is not.
Executed(w) == pc[w] = "clear" \/ (pc[w] = "commit" /\ mem[w].status # "cancelled")

\* How far the session that has written the row of t is with it.
Phase(t) ==
  LET p == lock[t]
  IN  IF p = NoSession THEN "free"
      ELSE IF p \notin Slots THEN "taken"
      ELSE IF pc[p] \in Raising \cup {"exec"} THEN "executing"
      ELSE IF Executed(p) THEN "executed"
      ELSE "taken"

Rows == INSTANCE TaskRows WITH
  Requests <- Clients,
  Nobody   <- NoSession,
  status   <- [t \in Tasks |-> row[t].status],
  writer   <- lock,
  phase    <- [t \in Tasks |-> Phase(t)]

\* Seen from the committed rows, whatever requests, deliveries, ticks and
\* faults do is one writer for each row at a time, who executes alone and
\* publishes an outcome that its work allows, or nothing.  The scheduler never
\* writes.
ImplementsTaskRows == Rows!Spec

\* What a transaction has to say when it ends.
Verdicts ==
  /\ \A c \in Clients : pc[c] = "commit" => mem[c].status \in {"queued", "cancelled"}
  /\ \A w \in Slots :
       /\ pc[w] = "unflag" => mem[w].status = "cancelled"
       /\ pc[w] = "clear" => mem[w].status \in {"completed", "queued", "dead_letter"}
       /\ pc[w] = "commit" =>
            mem[w].status \in {"cancelled", "completed", "queued", "dead_letter"}

\* After an execution the row is what its object says, column by column.
ResultsKept == \A w \in Slots : Executed(w) => draft[job[w]] = mem[w]

\* Whoever is past the load of its task has a row, or inserts it.
Present ==
  /\ \A p \in Clients \cup Slots :
       pc[p] \notin {"idle", "load", "enqueue", "raise", "commit"} => Exists(job[p])
  /\ \A t \in Tasks : lock[t] # NoSession => draft[t].status # "none"

\* The strengthening of IInv that the refinement needs.
Decisions == Verdicts /\ ResultsKept /\ Present

-----------------------------------------------------------------------------
(* Why DeliveriesAreAskedFor holds: the pushes that are still to come count *)
(* as well.                                                                 *)

\* An id is in the list of its own level.
Leveled == \A l \in Levels : \A i \in 1 .. Len(ready[l]) : Level(ready[l][i]) = l

\* Whoever has t in hand and may still push it or make a dead letter of it.
InHand(t) ==
  Deciding(t) \cup {c \in Clients : job[c] = t /\ pc[c] \in {"enqueue", "retryPush"}}

\* What has been asked for: a submission, and the requests to retry.
Asked(t) == replays[t] + IF t \in issued THEN 1 ELSE 0

Entitled ==
  \A t \in Tasks : ReadyCopies(t) + Cardinality(InHand(t)) + dlq[t] <= Asked(t)
=============================================================================

------------------------------ MODULE TaskRows ------------------------------
(***************************************************************************)
(* What the queue promises about the rows of tasks and the executions that *)
(* go with them, told without awaits, Redis, objects or ticks: one at a    *)
(* time, a request or a slot of a worker takes a row, works on it alone,   *)
(* and either publishes a status or leaves the row as it was.              *)
(*                                                                         *)
(* AtlasQueue implements it (ImplementsTaskRows of AtlasQueueInv.tla).     *)
(***************************************************************************)
CONSTANTS Tasks, Requests, Slots, Nobody

VARIABLES
  status,   \* the status of each row that everybody sees
  writer,   \* who works on the row
  phase     \* how far the writer is with it

vars == <<status, writer, phase>>

\* Statuses that may be seen; a row that was never published has none.
Resting == {"queued", "completed", "cancelled", "dead_letter"}

Init ==
  /\ status = [t \in Tasks |-> "none"]
  /\ writer = [t \in Tasks |-> Nobody]
  /\ phase = [t \in Tasks |-> "free"]

\* Only a request may begin with a row that is not there.
Take(t, p) ==
  /\ writer[t] = Nobody
  /\ status[t] = "none" => p \in Requests
  /\ writer' = [writer EXCEPT ![t] = p]
  /\ phase' = [phase EXCEPT ![t] = "taken"]
  /\ UNCHANGED status

\* The handler of t begins: its slot has the row, so no other slot runs it.
Execute(t) ==
  /\ writer[t] \in Slots
  /\ phase[t] = "taken"
  /\ phase' = [phase EXCEPT ![t] = "executing"]
  /\ UNCHANGED <<status, writer>>

EndExecution(t) ==
  /\ phase[t] = "executing"
  /\ phase' = [phase EXCEPT ![t] = "executed"]
  /\ UNCHANGED <<status, writer>>

Free(t) ==
  /\ writer' = [writer EXCEPT ![t] = Nobody]
  /\ phase' = [phase EXCEPT ![t] = "free"]

\* What the writer of t may publish.  An execution decides its task or sends
\* it back.  A delivery that did not execute cancels, a request submits,
\* replays or cancels; they may also find that the row says so already.
Outcomes(t) ==
  IF phase[t] = "executed" THEN {"completed", "queued", "dead_letter"}
  ELSE IF writer[t] \in Slots THEN {"cancelled", status[t]}
  ELSE {"queued", "cancelled", status[t]}

Publish(t) ==
  /\ phase[t] \in {"taken", "executed"}
  /\ \E s \in Outcomes(t) \cap Resting : status' = [status EXCEPT ![t] = s]
  /\ Free(t)

\* Whatever was done for the row is undone, a running execution included.
Discard(t) ==
  /\ writer[t] # Nobody
  /\ Free(t)
  /\ UNCHANGED status

Next ==
  \E t \in Tasks :
    \/ \E p \in Requests \cup Slots : Take(t, p)
    \/ Execute(t) \/ EndExecution(t) \/ Publish(t) \/ Discard(t)

Spec == Init /\ [][Next]_vars
=============================================================================

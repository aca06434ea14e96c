----------------------------- MODULE WorkerPool -----------------------------
(***************************************************************************)
(* One worker process: the consume loops, the semaphore, the tasks that    *)
(* process deliveries, the heartbeat loop, and the database connections    *)
(* they share.                                                             *)
(*                                                                         *)
(* There are as many loops as the semaphore has permits.  A loop pops an   *)
(* id before it asks for a permit, starts _process_task with the permit    *)
(* and pops again, so a busy pool holds popped ids that nothing works on   *)
(* yet.  _process_task keeps its connection until the handler has ended;   *)
(* the engine's pool is shared with the heartbeats.                        *)
(*                                                                         *)
(* What _process_task does to the task is AtlasQueue.                      *)
(***************************************************************************)
EXTENDS Integers, FiniteSets

CONSTANTS
  Loops,        \* the consume loops: worker_concurrency of them
  Ids,          \* deliveries that reach this process
  NoId,
  PoolSizes     \* of the engine's connections, with their overflow

ASSUME LoopsAssumption == IsFiniteSet(Loops) /\ IsFiniteSet(Ids) /\ NoId \notin Ids
ASSUME PoolSizesAssumption == PoolSizes \subseteq Nat \ {0}

VARIABLES
  connections,  \* the size this process was configured with
  delivery,   \* where each id is
  held,       \* the popped id a loop wants a permit for; NoId: none
  permits,    \* value of the semaphore
  heartbeat,  \* the heartbeat loop: asleep, waiting for a connection, with one
  running     \* the process has not stopped

vars == <<connections, delivery, held, permits, heartbeat, running>>

Concurrency == Cardinality(Loops)

In(places) == {i \in Ids : delivery[i] \in places}

\* Deliveries that have a permit: their _process_task has not released it.
Started == In({"started", "connected"})

InUse == Cardinality(In({"connected"})) + (IF heartbeat = "connected" THEN 1 ELSE 0)

TypeOK ==
  /\ connections \in PoolSizes
  /\ delivery \in [Ids -> {"queued", "popped", "started", "connected", "done", "lost"}]
  /\ held \in [Loops -> Ids \cup {NoId}]
  /\ permits \in 0..Concurrency
  /\ heartbeat \in {"asleep", "waiting", "connected", "cancelled"}
  /\ running \in BOOLEAN

Init ==
  /\ connections \in PoolSizes
  /\ delivery = [i \in Ids |-> "queued"]
  /\ held = [l \in Loops |-> NoId]
  /\ permits = Concurrency
  /\ heartbeat = "waiting"
  /\ running = TRUE

\* Another delivery comes: Ids are as many as the model tells apart at once.
Arrive(i) ==
  /\ running
  /\ delivery[i] \in {"done", "lost"}
  /\ delivery' = [delivery EXCEPT ![i] = "queued"]
  /\ UNCHANGED <<connections, held, permits, heartbeat, running>>

Move(i, place) == delivery' = [delivery EXCEPT ![i] = place]

\* BRPOP of a loop; one that times out is asked again.
Pop(l, i) ==
  /\ running
  /\ held[l] = NoId
  /\ delivery[i] = "queued"
  /\ held' = [held EXCEPT ![l] = i]
  /\ Move(i, "popped")
  /\ UNCHANGED <<connections, permits, heartbeat, running>>

\* Mutant: the semaphore only looks.
StartWithoutPermit(l) ==
  /\ running
  /\ held[l] # NoId
  /\ permits > 0
  /\ Move(held[l], "started")
  /\ held' = [held EXCEPT ![l] = NoId]
  /\ UNCHANGED <<connections, permits, heartbeat, running>>

\* The loop gets a permit and creates the task.
Start(l) ==
  /\ running
  /\ held[l] # NoId
  /\ permits > 0
  /\ permits' = permits - 1
  /\ Move(held[l], "started")
  /\ held' = [held EXCEPT ![l] = NoId]
  /\ UNCHANGED <<connections, heartbeat, running>>

\* The first statement of the session takes a connection.
Connect(i) ==
  /\ running
  /\ delivery[i] = "started"
  /\ InUse < connections
  /\ Move(i, "connected")
  /\ UNCHANGED <<connections, held, permits, heartbeat, running>>

\* Mutant: the permit is released with the session, not in finally.
ConnectFailsQuietly(i) ==
  /\ running
  /\ delivery[i] = "started"
  /\ InUse >= connections
  /\ Move(i, "lost")
  /\ UNCHANGED <<connections, held, permits, heartbeat, running>>

\* Nobody returns a connection in time: the exception is logged, and the
\* popped id is forgotten.
ConnectFails(i) ==
  /\ running
  /\ delivery[i] = "started"
  /\ InUse >= connections
  /\ Move(i, "lost")
  /\ permits' = permits + 1
  /\ UNCHANGED <<connections, held, heartbeat, running>>


\* The session is closed, with or without an exception, and finally
\* releases the permit.
Finish(i) ==
  /\ running
  /\ delivery[i] = "connected"
  /\ Move(i, "done")
  /\ permits' = permits + 1
  /\ UNCHANGED <<connections, held, heartbeat, running>>

HeartbeatWakes ==
  /\ running
  /\ heartbeat = "asleep"
  /\ heartbeat' = "waiting"
  /\ UNCHANGED <<connections, delivery, held, permits, running>>

\* Mutant: the heartbeat asks for a permit as a delivery does.
HeartbeatAsksPermit ==
  /\ running
  /\ heartbeat = "waiting"
  /\ permits > 0
  /\ heartbeat' = IF InUse < connections THEN "connected" ELSE "asleep"
  /\ UNCHANGED <<connections, delivery, held, permits, running>>

\* The session gets a connection, or the loop logs the exception and sleeps.
HeartbeatConnects ==
  /\ running
  /\ heartbeat = "waiting"
  /\ \/ InUse < connections /\ heartbeat' = "connected"
     \/ InUse >= connections /\ heartbeat' = "asleep"
  /\ UNCHANGED <<connections, delivery, held, permits, running>>

HeartbeatEnds ==
  /\ running
  /\ heartbeat = "connected"
  /\ heartbeat' = "asleep"
  /\ UNCHANGED <<connections, delivery, held, permits, running>>

\* The process dies, or a loop gets an exception that it does not catch:
\* gather raises, the heartbeats are cancelled, and closing the event loop
\* cancels what is still being processed.
Stop ==
  /\ running
  /\ running' = FALSE
  /\ heartbeat' = "cancelled"
  /\ delivery' = [i \in Ids |-> IF i \in In({"popped", "started", "connected"})
                                  THEN "lost" ELSE delivery[i]]
  /\ held' = [l \in Loops |-> NoId]
  /\ permits' = Concurrency
  /\ UNCHANGED connections

LoopStep(l) == Start(l) \/ \E i \in Ids : Pop(l, i)
Process(i) == Connect(i) \/ ConnectFails(i) \/ Finish(i)
HeartbeatStep == HeartbeatWakes \/ HeartbeatConnects \/ HeartbeatEnds

Next ==
  \/ \E l \in Loops : LoopStep(l)
  \/ \E i \in Ids : Process(i) \/ Arrive(i)
  \/ HeartbeatStep
  \/ Stop

Spec == Init /\ [][Next]_vars

(***************************************************************************)
(* Handlers end (wait_for limits them), the semaphore is first come, first *)
(* served, and a loop asks for the next id as soon as it can.              *)
(***************************************************************************)
Fairness ==
  /\ \A l \in Loops : WF_vars(\E i \in Ids : Pop(l, i)) /\ SF_vars(Start(l))
  /\ \A i \in Ids : WF_vars(Process(i))
  /\ WF_vars(HeartbeatStep)

FairSpec == Spec /\ Fairness
-----------------------------------------------------------------------------
(***************************************************************************)
(* No way out of _process_task keeps a permit or returns one twice.        *)
(***************************************************************************)
PermitsExact == running => permits + Cardinality(Started) = Concurrency

(***************************************************************************)
(* What a process has taken out of Redis and would lose with its death is  *)
(* at most twice its concurrency (AtlasQueue's slots): one popped id for   *)
(* each loop and one delivery for each permit.                             *)
(***************************************************************************)
PrefetchBounded ==
  /\ Cardinality(In({"popped"})) <= Concurrency
  /\ Cardinality(Started) <= Concurrency

(***************************************************************************)
(* A pool with a connection to spare loses no delivery to its own pool of  *)
(* connections: an id is lost only with the process.                       *)
(***************************************************************************)
NothingLostWhileRunning ==
  running /\ Concurrency < connections => In({"lost"}) = {}


(***************************************************************************)
(* With a connection to spare the heartbeats go on under any load.         *)
(***************************************************************************)
HeartbeatsGoOn ==
  Concurrency < connections => []<>(heartbeat = "connected" \/ ~running)
-----------------------------------------------------------------------------
\* The inductive invariant: a popped id is held by one loop.
Holding ==
  /\ \A i \in Ids : delivery[i] = "popped" => \E l \in Loops : held[l] = i
  /\ \A l \in Loops : held[l] # NoId => delivery[held[l]] = "popped"
  /\ \A l, m \in Loops : held[l] = held[m] /\ held[l] # NoId => l = m

Stopped == ~running => In({"popped", "started", "connected"}) = {}

IInv == TypeOK /\ Holding /\ Stopped /\ PermitsExact /\ NothingLostWhileRunning
=============================================================================

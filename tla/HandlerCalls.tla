---------------------------- MODULE HandlerCalls ----------------------------
(***************************************************************************)
(* A worker process with the handlers it calls: execute_task,              *)
(* PythonHandlerExecutor.execute, WebhookExecutor.execute, and the         *)
(* asyncio.wait_for around them.                                           *)
(*                                                                         *)
(* A coroutine and a webhook run on the event loop, where a timeout        *)
(* cancels them.  Any other handler goes to the default thread pool of     *)
(* the loop: it waits for one of its threads, and once on a thread it      *)
(* cannot be stopped.  The timeout then ends the call but not the handler, *)
(* which keeps its thread; a handler that has not begun is withdrawn.      *)
(* The delivery keeps its permit and its connection as long as the call.   *)
(*                                                                         *)
(* Coroutines do not withstand their cancellation.                         *)
(***************************************************************************)
EXTENDS WorkerPool, Sequences

CONSTANTS
  Threaded,      \* deliveries whose handler is an ordinary function
  Threads        \* size of the thread pool

ASSUME ThreadsAssumption == Threaded \subseteq Ids /\ Threads \in Nat \ {0}

VARIABLES
  call,     \* what execute_task has of each handler
  handler,  \* what the handler is doing
  backlog   \* work items of the thread pool

calls == <<call, handler, backlog>>
workerVars == <<vars, calls>>

Awaited(i) == call[i] = "awaited"
OnThread == {i \in Ids : handler[i] = "thread"}
Alive == {i \in Ids : handler[i] \in {"loop", "thread"}}

CallsTypeOK ==
  /\ call \in [Ids -> {"none", "awaited", "returned", "timed_out"}]
  /\ handler \in [Ids -> {"none", "backlog", "loop", "thread"}]
  /\ backlog \in Seq(Threaded)

WorkerInit ==
  /\ Init
  /\ call = [i \in Ids |-> "none"]
  /\ handler = [i \in Ids |-> "none"]
  /\ backlog = <<>>

\* The awaits between the connection and the call are AtlasQueue's.
Execute(i) ==
  /\ running
  /\ delivery[i] = "connected"
  /\ call[i] = "none"
  /\ call' = [call EXCEPT ![i] = "awaited"]
  /\ IF i \in Threaded
       THEN /\ handler' = [handler EXCEPT ![i] = "backlog"]
            /\ backlog' = Append(backlog, i)
       ELSE /\ handler' = [handler EXCEPT ![i] = "loop"]
            /\ UNCHANGED backlog
  /\ UNCHANGED vars

\* No handler of that name, no url, or one that is refused.
Refuse(i) ==
  /\ running
  /\ delivery[i] = "connected"
  /\ call[i] = "none"
  /\ call' = [call EXCEPT ![i] = "returned"]
  /\ UNCHANGED <<vars, handler, backlog>>

\* A thread takes the next item of to_thread; concurrent.futures passes over one
\* that was withdrawn.
TakeItem ==
  /\ backlog # <<>>
  /\ Cardinality(OnThread) < Threads
  /\ backlog' = Tail(backlog)
  /\ handler' = [handler EXCEPT ![Head(backlog)] =
                   IF Awaited(Head(backlog)) THEN "thread" ELSE "none"]
  /\ UNCHANGED <<vars, call>>

\* The handler returns or raises; a call that is over does not hear of it.
Return(i) ==
  /\ i \in Alive
  /\ handler' = [handler EXCEPT ![i] = "none"]
  /\ call' = [call EXCEPT ![i] = IF Awaited(i) THEN "returned" ELSE @]
  /\ UNCHANGED <<vars, backlog>>

\* Mutant: the call is shielded from its timeout.
TimeoutShielded(i) ==
  /\ Awaited(i)
  /\ call' = [call EXCEPT ![i] = "timed_out"]
  /\ UNCHANGED <<vars, handler, backlog>>

\* Mutant: a handler that is on no thread yet has no timeout.
TimeoutOfStarted(i) ==
  /\ Awaited(i)
  /\ handler[i] # "backlog"
  /\ call' = [call EXCEPT ![i] = "timed_out"]
  /\ handler' = [handler EXCEPT ![i] = IF @ = "loop" THEN "none" ELSE @]
  /\ UNCHANGED <<vars, backlog>>

\* wait_for gives up.
Timeout(i) ==
  /\ Awaited(i)
  /\ call' = [call EXCEPT ![i] = "timed_out"]
  /\ handler' = [handler EXCEPT ![i] = IF @ = "loop" THEN "none" ELSE @]
  /\ UNCHANGED <<vars, backlog>>

\* execute_task is over, or ended before the call.
EndDelivery(i) ==
  /\ ~Awaited(i)
  /\ Finish(i)
  /\ call' = [call EXCEPT ![i] = IF handler[i] = "none" THEN "none" ELSE @]
  /\ UNCHANGED <<handler, backlog>>

\* Another delivery in place of one of which nothing is left.
Redeliver(i) ==
  /\ handler[i] = "none"
  /\ Arrive(i)
  /\ call' = [call EXCEPT ![i] = "none"]
  /\ UNCHANGED <<handler, backlog>>

\* Closing the event loop cancels the calls and what runs on it, and waits
\* for the threads; a process that is killed takes them along.
StopWorker ==
  /\ Stop
  /\ call' = [i \in Ids |-> IF Awaited(i) THEN "timed_out" ELSE call[i]]
  /\ \E killed \in BOOLEAN :
       /\ handler' = [i \in Ids |-> IF killed \/ handler[i] = "loop"
                                      THEN "none" ELSE handler[i]]
       /\ backlog' = IF killed THEN <<>> ELSE backlog

LoopPops(l) == (\E i \in Ids : Pop(l, i)) /\ UNCHANGED calls
LoopStarts(l) == Start(l) /\ UNCHANGED calls
Beat == HeartbeatStep /\ UNCHANGED calls

\* _process_task, which a timeout keeps from waiting for its handler.
Deliver(i) ==
  \/ (Connect(i) \/ ConnectFails(i)) /\ UNCHANGED calls
  \/ Execute(i)
  \/ Refuse(i)
  \/ Timeout(i)
  \/ EndDelivery(i)

WorkerNext ==
  \/ \E l \in Loops : LoopPops(l) \/ LoopStarts(l)
  \/ \E i \in Ids : Deliver(i) \/ Return(i) \/ Redeliver(i)
  \/ TakeItem
  \/ Beat
  \/ StopWorker

(***************************************************************************)
(* The fairness of the pool: deliveries go on because timeouts come.       *)
(* Handlers need not end, nor threads take them.                           *)
(***************************************************************************)
WorkerFairness ==
  /\ \A l \in Loops : WF_workerVars(LoopPops(l)) /\ SF_workerVars(LoopStarts(l))
  /\ \A i \in Ids : WF_workerVars(Deliver(i))
  /\ WF_workerVars(Beat)

WorkerSpec == WorkerInit /\ [][WorkerNext]_workerVars /\ WorkerFairness
-----------------------------------------------------------------------------
(***************************************************************************)
(* What runs on after its call is an ordinary function whose call timed    *)
(* out: only such tasks can be delivered again while a handler of theirs   *)
(* still runs.                                                             *)
(***************************************************************************)
OverrunsAreThreads ==
  \A i \in Alive : ~Awaited(i) => i \in Threaded /\ call[i] = "timed_out"

(***************************************************************************)
(* A call waits in vain for a thread only when handlers that outlived      *)
(* their calls hold more threads than the pool has beyond the semaphore.   *)
(***************************************************************************)
StarvedByOverruns ==
  Cardinality(OnThread) = Threads /\ (\E i \in Ids : Awaited(i) /\ handler[i] = "backlog")
    => Cardinality({i \in OnThread : ~Awaited(i)}) + Concurrency > Threads

(***************************************************************************)
(* Handlers that never end do not keep calls: every call ends, also when   *)
(* all threads are taken.                                                  *)
(***************************************************************************)
EveryCallEnds == \A i \in Ids : Awaited(i) ~> ~Awaited(i)
-----------------------------------------------------------------------------
\* The inductive invariant beside that of the pool.
CallsInv ==
  /\ CallsTypeOK
  /\ \A i \in Ids :
       /\ Awaited(i) => delivery[i] = "connected"
       /\ handler[i] = "loop" => Awaited(i)
       /\ handler[i] \in {"backlog", "thread"} =>
            i \in Threaded /\ call[i] \in {"awaited", "timed_out"}
=============================================================================

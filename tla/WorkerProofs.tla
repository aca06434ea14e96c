---------------------------- MODULE WorkerProofs ----------------------------
(***************************************************************************)
(* Theorems about a worker process, for any finite number of loops and     *)
(* deliveries and any pool of connections.  First those about the pool of  *)
(* WorkerPool.tla; then HandlerCalls.tla, the pool with the handlers it    *)
(* calls: it is a worker pool, to which the first theorems are handed      *)
(* down, and what handlers may do after their calls.                       *)
(***************************************************************************)
EXTENDS HandlerCalls, FiniteSetTheorems, SequenceTheorems, TLAPS

USE DEF Move

\* Sets of deliveries are finite, and their members can be counted.
LEMMA Counting ==
  ASSUME NEW S \in SUBSET Ids, NEW R \in SUBSET S
  PROVE  /\ IsFiniteSet(S)
         /\ Cardinality(S) \in Nat
         /\ Cardinality(R) \in Nat
         /\ Cardinality(R) <= Cardinality(S)
  <1>1. IsFiniteSet(S)
    BY LoopsAssumption, FS_Subset
  <1>2. IsFiniteSet(R) /\ Cardinality(R) <= Cardinality(S)
    BY <1>1, FS_Subset
  <1> QED
    BY <1>1, <1>2, FS_CardinalityType

LEMMA ConcurrencyTyped == Concurrency \in Nat
  BY LoopsAssumption, FS_CardinalityType DEF Concurrency

\* A delivery that is moved into a set, and one that is moved out of it.
LEMMA CountingMoves ==
  ASSUME NEW S \in SUBSET Ids, NEW i \in Ids
  PROVE  /\ i \notin S => Cardinality(S \cup {i}) = Cardinality(S) + 1
         /\ i \in S => Cardinality(S \ {i}) = Cardinality(S) - 1
  <1>1. IsFiniteSet(S)
    BY Counting
  <1> QED
    BY <1>1, FS_AddElement, FS_RemoveElement

LEMMA StartedSubset == \A places : In(places) \in SUBSET Ids
  BY DEF In

-----------------------------------------------------------------------------
(* The inductive invariant *)

LEMMA InitInv == Init => IInv
  <1> SUFFICES ASSUME Init PROVE IInv
    OBVIOUS
  <1>1. Concurrency \in Nat
    BY ConcurrencyTyped
  <1>2. TypeOK
    BY <1>1 DEF Init, TypeOK
  <1>3. Holding
    BY LoopsAssumption DEF Init, Holding
  <1>4. Started = {} /\ In({"lost"}) = {} /\ Stopped
    BY DEF Init, Started, In, Stopped
  <1>5. PermitsExact
    BY <1>1, <1>4, FS_EmptySet DEF Init, PermitsExact
  <1> QED
    BY <1>2, <1>3, <1>4, <1>5 DEF IInv, NothingLostWhileRunning

\* The permits of the deliveries at work are those the semaphore has given.
LEMMA PermitsKept == IInv /\ [Next]_vars => PermitsExact'
  <1> SUFFICES ASSUME IInv, [Next]_vars PROVE PermitsExact'
    OBVIOUS
  <1> USE DEF IInv, TypeOK, PermitsExact
  <1>0. /\ Started \in SUBSET Ids /\ Cardinality(Started) \in Nat
        /\ Concurrency \in Nat /\ permits \in Int /\ Concurrency' = Concurrency
    BY StartedSubset, Counting, ConcurrencyTyped DEF Started, Concurrency
  <1>1. ASSUME NEW l \in Loops, NEW i \in Ids, Pop(l, i) PROVE PermitsExact'
    <2>1. Started' = Started
      BY <1>1 DEF Pop, Started, In
    <2> QED
      BY <1>0, <1>1, <2>1 DEF Pop
  <1>2. ASSUME NEW l \in Loops, Start(l) PROVE PermitsExact'
    <2>1. held[l] \in Ids /\ delivery[held[l]] = "popped"
      BY <1>2 DEF Start, Holding
    <2>2. held[l] \notin Started /\ Started' = Started \cup {held[l]}
      BY <1>2, <2>1 DEF Start, Started, In
    <2>3. Cardinality(Started') = Cardinality(Started) + 1
      BY <1>0, <2>1, <2>2, CountingMoves
    <2> QED
      BY <1>0, <1>2, <2>3 DEF Start
  <1>3. ASSUME NEW i \in Ids, Connect(i) PROVE PermitsExact'
    <2>1. Started' = Started
      BY <1>3 DEF Connect, Started, In
    <2> QED
      BY <1>0, <1>3, <2>1 DEF Connect
  <1>4. ASSUME NEW i \in Ids, ConnectFails(i) \/ Finish(i) PROVE PermitsExact'
    <2>1. i \in Started /\ Started' = Started \ {i}
      BY <1>4 DEF ConnectFails, Finish, Started, In
    <2>2. Cardinality(Started') = Cardinality(Started) - 1
      BY <1>0, <2>1, CountingMoves
    <2>3. running /\ permits' = permits + 1
      BY <1>4 DEF ConnectFails, Finish
    <2> QED
      BY <1>0, <2>2, <2>3
  <1>5. ASSUME NEW i \in Ids, Arrive(i) PROVE PermitsExact'
    <2>1. Started' = Started
      BY <1>5 DEF Arrive, Started, In
    <2> QED
      BY <1>0, <1>5, <2>1 DEF Arrive
  <1>6. CASE HeartbeatStep \/ UNCHANGED vars
    <2>1. UNCHANGED <<delivery, permits, running>>
      BY <1>6 DEF HeartbeatStep, HeartbeatWakes, HeartbeatConnects, HeartbeatEnds, vars
    <2>2. Started' = Started
      BY <2>1 DEF Started, In
    <2> QED
      BY <1>0, <2>1, <2>2
  <1>7. CASE Stop
    BY <1>7 DEF Stop
  <1> QED
    BY <1>1, <1>2, <1>3, <1>4, <1>5, <1>6, <1>7 DEF Next, LoopStep, Process

\* Every variable keeps its type; the semaphore never has more permits than
\* it began with, because whoever releases one has it.
LEMMA TypeKept == IInv /\ [Next]_vars => TypeOK'
  <1> SUFFICES ASSUME IInv, [Next]_vars PROVE TypeOK'
    OBVIOUS
  <1> USE DEF IInv, TypeOK
  <1>0. Concurrency \in Nat /\ Concurrency' = Concurrency
    BY ConcurrencyTyped DEF Concurrency
  <1>1. ASSUME NEW l \in Loops, NEW i \in Ids, Pop(l, i) PROVE TypeOK'
    BY <1>0, <1>1 DEF Pop
  <1>2. ASSUME NEW l \in Loops, Start(l) PROVE TypeOK'
    BY <1>0, <1>2 DEF Start
  <1>3. ASSUME NEW i \in Ids, Connect(i) PROVE TypeOK'
    BY <1>0, <1>3 DEF Connect
  <1>4. ASSUME NEW i \in Ids, ConnectFails(i) \/ Finish(i) PROVE TypeOK'
    <2>1. /\ running /\ permits' = permits + 1
          /\ delivery' \in [Ids -> {"queued", "popped", "started", "connected", "done", "lost"}]
          /\ UNCHANGED <<connections, held, heartbeat, running>>
      BY <1>4 DEF ConnectFails, Finish
    <2>2. permits < Concurrency
      <3>1. i \in Started
        BY <1>4 DEF ConnectFails, Finish, Started, In
      <3>2. Cardinality(Started) >= 1
        <4>1. Started \in SUBSET Ids /\ {i} \in SUBSET Started
          BY <3>1, StartedSubset DEF Started
        <4>2. Cardinality({i}) = 1
          BY FS_Singleton
        <4> QED
          BY <4>1, <4>2, Counting
      <3>3. Cardinality(Started) \in Nat
        BY StartedSubset, Counting DEF Started
      <3> QED
        BY <1>0, <2>1, <3>2, <3>3 DEF PermitsExact
    <2> QED
      BY <1>0, <2>1, <2>2
  <1>5. ASSUME NEW i \in Ids, Arrive(i) PROVE TypeOK'
    BY <1>0, <1>5 DEF Arrive
  <1>6. CASE HeartbeatStep
    BY <1>0, <1>6 DEF HeartbeatStep, HeartbeatWakes, HeartbeatConnects, HeartbeatEnds
  <1>7. CASE Stop
    <2>1. running' \in BOOLEAN
      BY <1>7, Zenon DEF Stop
    <2>2. /\ delivery' \in [Ids -> {"queued", "popped", "started", "connected", "done", "lost"}]
          /\ held' \in [Loops -> Ids \cup {NoId}]
          /\ permits' \in 0..Concurrency
          /\ heartbeat' \in {"asleep", "waiting", "connected", "cancelled"}
          /\ connections' \in PoolSizes
      BY <1>0, <1>7 DEF Stop
    <2> QED
      BY <1>0, <2>1, <2>2
  <1>8. CASE UNCHANGED vars
    BY <1>0, <1>8 DEF vars
  <1> QED
    BY <1>1, <1>2, <1>3, <1>4, <1>5, <1>6, <1>7, <1>8 DEF Next, LoopStep, Process

\* A popped id stays with the loop that popped it.
LEMMA HoldingKept == IInv /\ [Next]_vars => Holding'
  <1> SUFFICES ASSUME IInv, [Next]_vars PROVE Holding'
    OBVIOUS
  <1> USE LoopsAssumption DEF IInv, TypeOK, Holding
  <1>1. ASSUME NEW l \in Loops, NEW i \in Ids, Pop(l, i) PROVE Holding'
    BY <1>1 DEF Pop
  <1>2. ASSUME NEW l \in Loops, Start(l) PROVE Holding'
    BY <1>2 DEF Start
  <1>3. ASSUME NEW i \in Ids, Process(i) \/ Arrive(i) PROVE Holding'
    <2>1. /\ UNCHANGED held
          /\ delivery[i] # "popped" /\ delivery'[i] # "popped"
          /\ \A j \in Ids : j # i => delivery'[j] = delivery[j]
      BY <1>3 DEF Process, Connect, ConnectFails, Finish, Arrive
    <2> QED
      BY <2>1
  <1>4. CASE HeartbeatStep \/ UNCHANGED vars
    BY <1>4 DEF HeartbeatStep, HeartbeatWakes, HeartbeatConnects, HeartbeatEnds, vars
  <1>5. CASE Stop
    BY <1>5 DEF Stop, In
  <1> QED
    BY <1>1, <1>2, <1>3, <1>4, <1>5 DEF Next, LoopStep

\* While fewer deliveries than connections can be at work, no delivery finds
\* the pool empty: with the heartbeat, the others are too few.
LEMMA ConnectionToSpare ==
  ASSUME IInv, Concurrency < connections, NEW i \in Ids
  PROVE  ~ConnectFails(i)
  <1> SUFFICES ASSUME ConnectFails(i) PROVE FALSE
    OBVIOUS
  <1> DEFINE Using == In({"connected"})
  <1>1. /\ running /\ i \in Started /\ Using \in SUBSET (Started \ {i})
        /\ InUse >= connections
    BY DEF ConnectFails, Started, In
  <1>2. Started \in SUBSET Ids /\ Started \ {i} \in SUBSET Ids
    BY StartedSubset DEF Started
  <1>3. /\ Cardinality(Started) \in Nat
        /\ Cardinality(Started \ {i}) = Cardinality(Started) - 1
    BY <1>1, <1>2, Counting, CountingMoves
  <1>4. /\ Cardinality(Using) \in Nat
        /\ Cardinality(Using) <= Cardinality(Started \ {i})
    BY <1>1, <1>2, Counting
  <1>5. Cardinality(Started) <= Concurrency /\ Concurrency \in Nat
    BY <1>1, <1>3, ConcurrencyTyped DEF IInv, TypeOK, PermitsExact
  <1>6. InUse <= Cardinality(Using) + 1 /\ InUse \in Nat
    BY <1>4 DEF InUse
  <1>7. connections \in Nat
    BY PoolSizesAssumption DEF IInv, TypeOK
  <1> QED
    BY <1>1, <1>3, <1>4, <1>5, <1>6, <1>7

LEMMA ConnectionsFixed == [Next]_vars => UNCHANGED connections
  <1>1. ASSUME NEW l \in Loops, LoopStep(l) PROVE UNCHANGED connections
    BY <1>1 DEF LoopStep, Start, Pop
  <1>2. ASSUME NEW i \in Ids, Process(i) \/ Arrive(i) PROVE UNCHANGED connections
    BY <1>2 DEF Process, Connect, ConnectFails, Finish, Arrive
  <1>3. HeartbeatStep \/ Stop \/ UNCHANGED vars => UNCHANGED connections
    BY DEF HeartbeatStep, HeartbeatWakes, HeartbeatConnects, HeartbeatEnds, Stop, vars
  <1> QED
    BY <1>1, <1>2, <1>3 DEF Next

LEMMA NothingLostKept == IInv /\ [Next]_vars => NothingLostWhileRunning'
  <1> SUFFICES ASSUME IInv, [Next]_vars, running', Concurrency < connections
               PROVE  In({"lost"})' = {}
    BY ConnectionsFixed DEF NothingLostWhileRunning, Concurrency
  <1> USE DEF IInv, TypeOK
  <1>1. running
    BY DEF Next, LoopStep, Process, HeartbeatStep, Pop, Start, Connect, ConnectFails,
           Finish, Arrive, HeartbeatWakes, HeartbeatConnects, HeartbeatEnds, Stop, vars
  <1>2. In({"lost"}) = {}
    BY <1>1 DEF NothingLostWhileRunning
  <1>3. \A i \in Ids : ~ConnectFails(i)
    BY ConnectionToSpare
  <1> DEFINE NoLoss == \A j \in Ids : delivery'[j] = "lost" => delivery[j] = "lost"
  <1>4. NoLoss
    <2>1. ASSUME NEW l \in Loops, LoopStep(l) PROVE NoLoss
      BY <2>1 DEF LoopStep, Start, Pop
    <2>2. ASSUME NEW i \in Ids, Process(i) \/ Arrive(i) PROVE NoLoss
      BY <2>2, <1>3 DEF Process, Connect, Finish, Arrive
    <2>3. CASE HeartbeatStep \/ UNCHANGED vars
      BY <2>3 DEF HeartbeatStep, HeartbeatWakes, HeartbeatConnects, HeartbeatEnds, vars
    <2>4. CASE Stop
      BY <2>4 DEF Stop
    <2> QED
      BY <2>1, <2>2, <2>3, <2>4 DEF Next
  <1> QED
    BY <1>2, <1>4 DEF In

\* A process that has stopped has nothing at work.
LEMMA StoppedKept == IInv /\ [Next]_vars => Stopped'
  <1> SUFFICES ASSUME IInv, [Next]_vars PROVE Stopped'
    OBVIOUS
  <1> USE DEF IInv, TypeOK, Stopped, In
  <1>1. CASE Stop
    BY <1>1 DEF Stop
  <1>2. CASE UNCHANGED vars
    BY <1>2 DEF vars
  <1>3. CASE ~Stop /\ Next
    <2>1. running' = TRUE
      BY <1>3 DEF Next, LoopStep, Process, HeartbeatStep, Pop, Start, Connect, ConnectFails,
             Finish, Arrive, HeartbeatWakes, HeartbeatConnects, HeartbeatEnds
    <2> QED
      BY <2>1
  <1> QED
    BY <1>1, <1>2, <1>3

(***************************************************************************)
(* The worker process keeps its inductive invariant.                       *)
(***************************************************************************)
THEOREM PoolInvariant == Spec => []IInv
  <1>1. Init => IInv
    BY InitInv
  <1>2. IInv /\ [Next]_vars => IInv'
    BY TypeKept, HoldingKept, StoppedKept, PermitsKept, NothingLostKept DEF IInv
  <1> QED
    BY <1>1, <1>2, PTL DEF Spec

(***************************************************************************)
(* No way out of _process_task keeps a permit or returns one twice.        *)
(***************************************************************************)
THEOREM PermitsAreExact == Spec => []PermitsExact
  <1>1. IInv => PermitsExact
    BY DEF IInv
  <1> QED
    BY <1>1, PoolInvariant, PTL

(***************************************************************************)
(* A process never holds more ids than its loops and its permits.          *)
(***************************************************************************)
THEOREM PrefetchIsBounded == Spec => []PrefetchBounded
  <1> DEFINE Popped == In({"popped"})
             Holders == {l \in Loops : held[l] # NoId}
  <1>1. ASSUME IInv, running PROVE PrefetchBounded
    <2> USE DEF IInv, TypeOK
    <2>1. [l \in Holders |-> held[l]] \in Surjection(Holders, Popped)
      <3> DEFINE f == [l \in Holders |-> held[l]]
      <3>1. f \in [Holders -> Popped]
        BY <1>1 DEF Holding, In
      <3>2. \A i \in Popped : \E l \in Holders : f[l] = i
        BY <1>1, LoopsAssumption DEF Holding, In
      <3> QED
        BY <3>1, <3>2 DEF Surjection
    <2>2. IsFiniteSet(Holders) /\ Cardinality(Holders) <= Concurrency
      BY LoopsAssumption, FS_Subset DEF Concurrency
    <2>3. Cardinality(Popped) <= Cardinality(Holders)
      BY <2>1, <2>2, FS_Surjection
    <2>4. Popped \in SUBSET Ids /\ Started \in SUBSET Ids
      BY DEF In, Started
    <2>5. /\ Cardinality(Popped) \in Nat /\ Cardinality(Started) \in Nat
          /\ Cardinality(Holders) \in Nat /\ Concurrency \in Nat
      BY <2>2, <2>4, Counting, FS_CardinalityType, ConcurrencyTyped
    <2>6. Cardinality(Started) <= Concurrency
      BY <1>1, <2>5 DEF PermitsExact
    <2> QED
      BY <2>2, <2>3, <2>5, <2>6 DEF PrefetchBounded
  <1>2. ASSUME IInv, ~running PROVE PrefetchBounded
    <2>1. In({"popped"}) = {} /\ Started = {}
      BY <1>2 DEF IInv, Stopped, In, Started
    <2> QED
      BY <2>1, FS_EmptySet, ConcurrencyTyped DEF PrefetchBounded
  <1>3. IInv => PrefetchBounded
    BY <1>1, <1>2
  <1> QED
    BY <1>3, PoolInvariant, PTL

(***************************************************************************)
(* With fewer loops than connections, an id that was popped is lost only   *)
(* with the process.                                                       *)
(***************************************************************************)
THEOREM NothingIsLost == Spec => []NothingLostWhileRunning
  <1>1. IInv => NothingLostWhileRunning
    BY DEF IInv
  <1> QED
    BY <1>1, PoolInvariant, PTL

-----------------------------------------------------------------------------
(* The worker with its handlers *)

\* A worker with its handlers is a worker pool, so that IInv holds there.
LEMMA WorkerIsPool == WorkerSpec => Spec
  <1>1. WorkerInit => Init
    BY DEF WorkerInit
  <1>2. [WorkerNext]_workerVars => [Next]_vars
    <2> SUFFICES ASSUME [WorkerNext]_workerVars PROVE [Next]_vars
      OBVIOUS
    <2>1. ASSUME NEW l \in Loops, LoopPops(l) \/ LoopStarts(l) PROVE Next
      BY <2>1 DEF LoopPops, LoopStarts, LoopStep, Next
    <2>2. ASSUME NEW i \in Ids, Deliver(i) PROVE [Next]_vars
      BY <2>2 DEF Deliver, Execute, Refuse, Timeout, EndDelivery, Process, Next
    <2>3. ASSUME NEW i \in Ids, Return(i) PROVE UNCHANGED vars
      BY <2>3 DEF Return
    <2>4. ASSUME NEW i \in Ids, Redeliver(i) PROVE Next
      BY <2>4 DEF Redeliver, Next
    <2>5. CASE TakeItem
      BY <2>5 DEF TakeItem
    <2>6. CASE Beat
      BY <2>6 DEF Beat, Next
    <2>7. CASE StopWorker
      BY <2>7 DEF StopWorker, Next
    <2>8. CASE UNCHANGED workerVars
      BY <2>8 DEF workerVars
    <2> QED
      BY <2>1, <2>2, <2>3, <2>4, <2>5, <2>6, <2>7, <2>8 DEF WorkerNext
  <1> QED
    BY <1>1, <1>2, PTL DEF WorkerSpec, Spec

\* Steps of the pool that say nothing about calls keep what awaited calls hold.
LEMMA PoolKeepsCalls ==
  ASSUME CallsInv, UNCHANGED calls,
         \A i \in Ids : Awaited(i) => delivery'[i] = delivery[i]
  PROVE  CallsInv'
  BY DEF CallsInv, CallsTypeOK, calls, Awaited

\* Where the handlers of awaited and abandoned calls can be.
LEMMA CallsKept == IInv /\ CallsInv /\ [WorkerNext]_workerVars => CallsInv'
  <1> SUFFICES ASSUME IInv, CallsInv, [WorkerNext]_workerVars PROVE CallsInv'
    OBVIOUS
  <1> USE DEF IInv, TypeOK, CallsInv, CallsTypeOK, Awaited
  <1>1. ASSUME NEW l \in Loops, LoopPops(l) PROVE CallsInv'
    <2>1. PICK i \in Ids : Pop(l, i)
      BY <1>1 DEF LoopPops
    <2>2. \A j \in Ids : Awaited(j) => delivery'[j] = delivery[j]
      BY <2>1 DEF Pop
    <2> QED
      BY <1>1, <2>2, PoolKeepsCalls DEF LoopPops
  <1>2. ASSUME NEW l \in Loops, LoopStarts(l) PROVE CallsInv'
    <2>1. \A j \in Ids : Awaited(j) => delivery'[j] = delivery[j]
      BY <1>2 DEF LoopStarts, Start, Holding
    <2> QED
      BY <1>2, <2>1, PoolKeepsCalls DEF LoopStarts
  <1>3. ASSUME NEW i \in Ids, Connect(i) \/ ConnectFails(i), UNCHANGED calls
        PROVE  CallsInv'
    <2>1. \A j \in Ids : Awaited(j) => delivery'[j] = delivery[j]
      BY <1>3 DEF Connect, ConnectFails
    <2> QED
      BY <1>3, <2>1, PoolKeepsCalls
  <1>4. ASSUME NEW i \in Ids, Execute(i) PROVE CallsInv'
    <2>1. CASE i \in Threaded
      <3>1. backlog' = Append(backlog, i)
        BY <1>4, <2>1 DEF Execute
      <3>2. backlog' \in Seq(Threaded)
        BY <2>1, <3>1, AppendProperties
      <3>3. handler' = [handler EXCEPT ![i] = "backlog"]
        BY <1>4, <2>1 DEF Execute
      <3> QED
        BY <1>4, <2>1, <3>2, <3>3 DEF Execute, vars
    <2>2. CASE i \notin Threaded
      BY <1>4, <2>2 DEF Execute, vars
    <2> QED
      BY <2>1, <2>2
  <1>5. ASSUME NEW i \in Ids, Refuse(i) PROVE CallsInv'
    BY <1>5 DEF Refuse, vars
  <1>6. ASSUME NEW i \in Ids, Timeout(i) PROVE CallsInv'
    BY <1>6 DEF Timeout, vars
  <1>7. ASSUME NEW i \in Ids, EndDelivery(i) PROVE CallsInv'
    BY <1>7 DEF EndDelivery, Finish
  <1>8. ASSUME NEW i \in Ids, Return(i) PROVE CallsInv'
    BY <1>8 DEF Return, vars, Alive
  <1>9. ASSUME NEW i \in Ids, Redeliver(i) PROVE CallsInv'
    BY <1>9 DEF Redeliver, Arrive
  <1>10. ASSUME TakeItem PROVE CallsInv'
    <2>1. Head(backlog) \in Threaded /\ Tail(backlog) \in Seq(Threaded)
      BY <1>10 DEF TakeItem
    <2> QED
      BY <1>10, <2>1, ThreadsAssumption DEF TakeItem, vars
  <1>11. ASSUME Beat PROVE CallsInv'
    <2>1. UNCHANGED delivery
      BY <1>11 DEF Beat, HeartbeatStep, HeartbeatWakes, HeartbeatConnects, HeartbeatEnds
    <2> QED
      BY <1>11, <2>1, PoolKeepsCalls DEF Beat
  <1>12. ASSUME StopWorker PROVE CallsInv'
    BY <1>12, EmptySeq DEF StopWorker, Stop
  <1>13. CASE UNCHANGED workerVars
    BY <1>13, PoolKeepsCalls DEF workerVars, vars
  <1> QED
    BY <1>1, <1>2, <1>3, <1>4, <1>5, <1>6, <1>7, <1>8, <1>9, <1>10, <1>11, <1>12, <1>13
    DEF WorkerNext, Deliver

(***************************************************************************)
(* Calls keep their inductive invariant.                                   *)
(***************************************************************************)
THEOREM CallsInvariant == WorkerSpec => []CallsInv
  <1>1. WorkerInit => CallsInv
    BY EmptySeq DEF WorkerInit, CallsInv, CallsTypeOK, Awaited
  <1>2. WorkerSpec => []IInv
    BY WorkerIsPool, PoolInvariant, PTL
  <1> QED
    BY <1>1, <1>2, CallsKept, PTL DEF WorkerSpec

(***************************************************************************)
(* Only ordinary functions whose calls timed out run on.                   *)
(***************************************************************************)
THEOREM OverrunsAreOnThreads == WorkerSpec => []OverrunsAreThreads
  <1>1. CallsInv => OverrunsAreThreads
    BY DEF CallsInv, CallsTypeOK, OverrunsAreThreads, Alive, Awaited
  <1> QED
    BY <1>1, CallsInvariant, PTL

(***************************************************************************)
(* Calls wait in vain for a thread only because of handlers that outlived  *)
(* their own: the calls themselves are no more than the permits.           *)
(***************************************************************************)
THEOREM StarvationIsOverruns == WorkerSpec => []StarvedByOverruns
  <1>1. IInv /\ CallsInv => StarvedByOverruns
    <2> SUFFICES ASSUME IInv, CallsInv, Cardinality(OnThread) = Threads,
                        NEW i \in Ids, Awaited(i), handler[i] = "backlog"
                 PROVE  Cardinality({j \in OnThread : ~Awaited(j)}) + Concurrency > Threads
      BY DEF StarvedByOverruns
    <2> DEFINE Over == {j \in OnThread : ~Awaited(j)}
               Called == {j \in OnThread : Awaited(j)}
    <2>1. Over \in SUBSET Ids /\ Called \in SUBSET Ids /\ OnThread = Over \cup Called
          /\ Over \cap Called = {}
      BY DEF OnThread
    <2>2. running
      BY DEF IInv, Stopped, CallsInv, In
    <2>3. i \notin Called /\ Called \cup {i} \in SUBSET Started /\ Started \in SUBSET Ids
      BY <2>1 DEF CallsInv, Started, In, OnThread
    <2>4. Cardinality(Called \cup {i}) = Cardinality(Called) + 1
      BY <2>1, <2>3, CountingMoves
    <2>5. Cardinality(Called \cup {i}) <= Cardinality(Started)
      BY <2>3, Counting
    <2>6. Cardinality(Started) <= Concurrency
      BY <2>2, <2>3, Counting, ConcurrencyTyped DEF IInv, TypeOK, PermitsExact
    <2>7. Cardinality(OnThread) = Cardinality(Over) + Cardinality(Called)
      <3>1. IsFiniteSet(Over) /\ IsFiniteSet(Called)
        BY <2>1, Counting
      <3>2. /\ Cardinality(Over) \in Nat /\ Cardinality(Called) \in Nat
            /\ Cardinality(Over \cap Called) = 0
        BY <2>1, <3>1, FS_CardinalityType, FS_EmptySet
      <3>3. Cardinality(OnThread) = Cardinality(Over) + Cardinality(Called)
                                      - Cardinality(Over \cap Called)
        BY <2>1, <3>1, FS_Union
      <3> HIDE DEF Over, Called
      <3> QED
        BY <3>2, <3>3
    <2>8. /\ Cardinality(Over) \in Nat /\ Cardinality(Called) \in Nat
          /\ Cardinality(Started) \in Nat /\ Concurrency \in Nat /\ Threads \in Nat
      BY <2>1, <2>3, Counting, ConcurrencyTyped, ThreadsAssumption
    <2> HIDE DEF Over, Called
    <2>9. Cardinality(Over) + Concurrency > Threads
      BY <2>4, <2>5, <2>6, <2>7, <2>8
    <2> QED
      BY <2>9 DEF Over
  <1>2. WorkerSpec => []IInv
    BY WorkerIsPool, PoolInvariant, PTL
  <1> QED
    BY <1>1, <1>2, CallsInvariant, PTL
=============================================================================

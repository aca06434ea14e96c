------------------------ MODULE WorkerRegistryProofs ------------------------
(***************************************************************************)
(* Theorems about the records of workers, WorkerRegistry.tla, for any set  *)
(* of processes and registrations and any number of faults.                *)
(***************************************************************************)
EXTENDS WorkerRegistry, FiniteSetTheorems, TLAPS

USE DEF At, Goto, Listed, Registering

\* Every await goes on to one of its own session, or ends it.
LEMMA TypeKept == TypeOK /\ [Next]_vars => TypeOK'
  <1> SUFFICES ASSUME TypeOK, [Next]_vars PROVE TypeOK'
    OBVIOUS
  <1> USE FaultsAssumption DEF TypeOK, InSession, WorkerStatus
  <1>1. ASSUME NEW w \in Workers, Register(w) \/ Heartbeat(w) PROVE TypeOK'
    BY <1>1 DEF Register, Heartbeat
  <1>2. ASSUME NEW w \in Workers, SetHeartbeat(w) PROVE TypeOK'
    BY <1>2 DEF SetHeartbeat
  <1>3. ASSUME NEW w \in Workers, ExpireHeartbeat(w) PROVE TypeOK'
    BY <1>3 DEF ExpireHeartbeat
  <1>4. ASSUME NEW w \in Workers, Commit(w) PROVE TypeOK'
    BY <1>4 DEF Commit, Seen
  <1>5. ASSUME NEW w \in Workers, Raise(w) PROVE TypeOK'
    BY <1>5 DEF Raise
  <1>6. ASSUME NEW w \in Workers, Die(w) PROVE TypeOK'
    BY <1>6 DEF Die
  <1>7. ASSUME NEW w \in Workers, KeyExpires(w) PROVE TypeOK'
    BY <1>7 DEF KeyExpires
  <1>8. ASSUME NEW w \in Workers, GetsOld(w) PROVE TypeOK'
    BY <1>8 DEF GetsOld
  <1>9. CASE UNCHANGED vars
    BY <1>9 DEF vars
  <1> QED
    BY <1>1, <1>2, <1>3, <1>4, <1>5, <1>6, <1>7, <1>8, <1>9 DEF Next, Step

\* A row stays, and a session that is not the first one goes back to sleep.
LEMMA RegisteredKept == TypeOK /\ PoolIsRegistered /\ [Next]_vars => PoolIsRegistered'
  <1> SUFFICES ASSUME TypeOK, PoolIsRegistered, [Next]_vars PROVE PoolIsRegistered'
    OBVIOUS
  <1> USE DEF TypeOK, PoolIsRegistered
  <1>1. ASSUME NEW w \in Workers, Step(w) PROVE PoolIsRegistered'
    BY <1>1 DEF Step, Register, Heartbeat, SetHeartbeat, ExpireHeartbeat, Commit, Seen
  <1>2. ASSUME NEW w \in Workers, Raise(w) \/ Die(w) PROVE PoolIsRegistered'
    BY <1>2 DEF Raise, Die
  <1>3. ASSUME NEW w \in Workers, KeyExpires(w) \/ GetsOld(w) PROVE PoolIsRegistered'
    BY <1>3 DEF KeyExpires, GetsOld
  <1>4. CASE UNCHANGED vars
    BY <1>4 DEF vars
  <1> QED
    BY <1>1, <1>2, <1>3, <1>4 DEF Next

\* A command or an expiry leaves no further key astray; an exception or a death
\* leaves one at most, that of its worker.
LEMMA ExpiryKept == TypeOK /\ KeysExpire /\ [Next]_vars => KeysExpire'
  <1> SUFFICES ASSUME TypeOK, KeysExpire, [Next]_vars PROVE KeysExpire'
    OBVIOUS
  <1>1. IsFiniteSet(Stray) /\ IsFiniteSet(Stray') /\ faults \in Nat
    <2>1. Stray \subseteq Workers /\ Stray' \subseteq Workers
      BY DEF Stray
    <2> QED
      BY <2>1, WorkersAssumption, FaultsAssumption, FS_Subset DEF TypeOK
  <1>2. Cardinality(Stray) \in Nat /\ Cardinality(Stray') \in Nat
    BY <1>1, FS_CardinalityType
  <1>3. ASSUME Stray' \subseteq Stray, faults' = faults PROVE KeysExpire'
    <2>1. Cardinality(Stray') <= Cardinality(Stray)
      BY <1>1, <1>3, FS_Subset
    <2> QED
      BY <1>1, <1>2, <1>3, <2>1 DEF KeysExpire
  <1>4. ASSUME NEW w \in Workers, Step(w) PROVE KeysExpire'
    <2>1. Stray' \subseteq Stray /\ faults' = faults
      BY <1>4 DEF TypeOK, Stray, Step, Register, Heartbeat, SetHeartbeat, ExpireHeartbeat,
                  Commit, Seen
    <2> QED
      BY <1>3, <2>1
  <1>5. ASSUME NEW w \in Workers, Raise(w) \/ Die(w) PROVE KeysExpire'
    <2>1. Stray' \subseteq Stray \cup {w} /\ faults' = faults + 1
      BY <1>5 DEF TypeOK, Stray, Raise, Die
    <2>2. /\ IsFiniteSet(Stray \cup {w})
          /\ Cardinality(Stray \cup {w}) <= Cardinality(Stray) + 1
      <3>1. /\ IsFiniteSet(Stray \cup {w})
            /\ Cardinality(Stray \cup {w}) =
                 IF w \in Stray THEN Cardinality(Stray) ELSE Cardinality(Stray) + 1
        BY <1>1, FS_AddElement
      <3> QED
        BY <1>2, <3>1
    <2>3. /\ Cardinality(Stray') <= Cardinality(Stray \cup {w})
          /\ Cardinality(Stray \cup {w}) \in Nat
      BY <2>1, <2>2, FS_Subset, FS_CardinalityType
    <2> QED
      BY <1>1, <1>2, <2>1, <2>2, <2>3 DEF KeysExpire
  <1>6. ASSUME NEW w \in Workers, KeyExpires(w) \/ GetsOld(w) PROVE KeysExpire'
    <2>1. Stray' \subseteq Stray /\ faults' = faults
      BY <1>6 DEF TypeOK, Stray, KeyExpires, GetsOld
    <2> QED
      BY <1>3, <2>1
  <1>7. CASE UNCHANGED vars
    BY <1>3, <1>7 DEF vars, Stray
  <1> QED
    BY <1>4, <1>5, <1>6, <1>7 DEF Next

IInv == TypeOK /\ PoolIsRegistered /\ KeysExpire

\* The records of workers keep their inductive invariant.
THEOREM RecordsInvariant == Spec => []IInv
  <1>1. Init => IInv
    <2> SUFFICES ASSUME Init PROVE IInv
      OBVIOUS
    <2>1. TypeOK /\ PoolIsRegistered
      BY FaultsAssumption DEF Init, TypeOK, InSession, WorkerStatus, PoolIsRegistered
    <2>2. Stray = {}
      BY DEF Init, Stray
    <2>3. KeysExpire
      BY <2>2, FS_EmptySet DEF Init, KeysExpire
    <2> QED
      BY <2>1, <2>3 DEF IInv
  <1>2. IInv /\ [Next]_vars => IInv'
    BY TypeKept, RegisteredKept, ExpiryKept DEF IInv
  <1> QED
    BY <1>1, <1>2, PTL DEF Spec

\* run_worker: a pool only consumes, and heartbeat() only follows, when the
\* row of register() is committed, whatever raises and dies.
THEOREM PoolsRegistered == Spec => []PoolIsRegistered
  <1>1. IInv => PoolIsRegistered
    BY DEF IInv
  <1> QED
    BY <1>1, RecordsInvariant, PTL

\* set_worker_heartbeat: whatever raises and dies, there are at most as many
\* keys without an expiry as there were exceptions and deaths, but for those
\* between HSET and EXPIRE.
THEOREM KeysVolatile == Spec => []KeysExpire
  <1>1. IInv => KeysExpire
    BY DEF IInv
  <1> QED
    BY <1>1, RecordsInvariant, PTL
=============================================================================

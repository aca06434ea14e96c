--------------------------- MODULE WorkerRegistry ---------------------------
(***************************************************************************)
(* The two records of a worker: its row in the workers table, and the key  *)
(* workers:<id> in Redis that lives three heartbeat intervals.             *)
(*                                                                         *)
(* A worker process registers when it starts (worker/main.py), with a new  *)
(* id each time, and then sends heartbeats for as long as it lives         *)
(* (WorkerPool._heartbeat_loop).  POST /workers/register writes the same   *)
(* records for somebody who has no way to send heartbeats.  Both go        *)
(* through WorkerRegistry: a flush in an open transaction, HSET, EXPIRE,   *)
(* and the commit of Container.session(), each an await of its own.        *)
(*                                                                         *)
(* WorkerRegistry.mark_stale has no caller and is no action.               *)
(***************************************************************************)
EXTENDS Naturals, FiniteSets

CONSTANTS
  Processes,   \* worker processes, one for each start of a container
  Remotes,     \* registrations through the API
  MaxFaults    \* bound on exceptions and deaths

Workers == Processes \cup Remotes

ASSUME WorkersAssumption == Processes \cap Remotes = {} /\ IsFiniteSet(Workers)
ASSUME FaultsAssumption == MaxFaults \in Nat

VARIABLES
  status,     \* column status of each worker's row; "none": no row
  lastSeen,   \* "recent" or, after stale_seconds, "old"
  key,        \* the Redis key: none, or with or without an expiry
  pc,         \* the await each worker is at
  faults

vars == <<status, lastSeen, key, pc, faults>>

\* The session of register() or heartbeat() is open.
InSession == {"hset", "expire", "commit"}

WorkerStatus == {"active", "idle", "offline"}

TypeOK ==
  /\ status \in [Workers -> WorkerStatus \cup {"none"}]
  /\ lastSeen \in [Workers -> {"recent", "old"}]
  /\ key \in [Workers -> {"none", "volatile", "permanent"}]
  /\ pc \in [Workers -> InSession \cup {"new", "sleep", "gone"}]
  /\ faults \in 0..MaxFaults

Init ==
  /\ status = [w \in Workers |-> "none"]
  /\ lastSeen = [w \in Workers |-> "old"]
  /\ key = [w \in Workers |-> "none"]
  /\ pc = [w \in Workers |-> "new"]
  /\ faults = 0

At(w, await) == pc[w] = await
Goto(w, await) == pc' = [pc EXCEPT ![w] = await]

\* GET /workers and GET /admin/stats: the rows, and the keys.
Listed(w) == status[w] # "none"
Counted(w) == key[w] # "none"

\* Nothing is committed for the worker yet: its session is register()'s.
Registering(w) == status[w] = "none"

\* register() adds the row.
Register(w) ==
  /\ At(w, "new")
  /\ Goto(w, "hset")
  /\ UNCHANGED <<status, lastSeen, key, faults>>

\* heartbeat() updates the row.
Heartbeat(w) ==
  /\ At(w, "sleep")
  /\ Goto(w, "hset")
  /\ UNCHANGED <<status, lastSeen, key, faults>>

\* HSET keeps the expiry of a key that exists and gives none to a new one.
SetHeartbeat(w) ==
  /\ At(w, "hset")
  /\ key' = [key EXCEPT ![w] = IF @ = "none" THEN "permanent" ELSE @]
  /\ Goto(w, "expire")
  /\ UNCHANGED <<status, lastSeen, faults>>

\* Mutant: heartbeats trust the expiry that register() has set.
ExpireHeartbeatOnce(w) ==
  /\ At(w, "expire")
  /\ key' = [key EXCEPT ![w] = IF Registering(w) THEN "volatile" ELSE @]
  /\ Goto(w, "commit")
  /\ UNCHANGED <<status, lastSeen, faults>>

\* EXPIRE renews the expiry of a key that still exists.
ExpireHeartbeat(w) ==
  /\ At(w, "expire")
  /\ key' = [key EXCEPT ![w] = IF @ = "none" THEN "none" ELSE "volatile"]
  /\ Goto(w, "commit")
  /\ UNCHANGED <<status, lastSeen, faults>>

\* Mutant: the row is not part of the session that ends here.
CommitKeyOnly(w) ==
  /\ At(w, "commit")
  /\ Goto(w, IF w \in Processes THEN "sleep" ELSE "gone")
  /\ UNCHANGED <<status, lastSeen, key, faults>>

\* Worker.create and Worker.heartbeat.
Seen(w) ==
  /\ status' = [status EXCEPT ![w] = "active"]
  /\ lastSeen' = [lastSeen EXCEPT ![w] = "recent"]

\* The row is committed; a process goes on to its pool, a request is over.
Commit(w) ==
  /\ At(w, "commit")
  /\ Seen(w)
  /\ Goto(w, IF w \in Processes THEN "sleep" ELSE "gone")
  /\ UNCHANGED <<key, faults>>

\* Mutant: the heartbeat loop does not catch exceptions.
RaiseEndsLoop(w) ==
  /\ faults < MaxFaults
  /\ pc[w] \in InSession
  /\ Goto(w, IF Registering(w) THEN "gone" ELSE "silent")
  /\ faults' = faults + 1
  /\ UNCHANGED <<status, lastSeen, key>>

\* An await raises and the session is rolled back.  run_worker and the
\* request give up; the heartbeat loop logs the exception and sleeps.
Raise(w) ==
  /\ faults < MaxFaults
  /\ pc[w] \in InSession
  /\ Goto(w, IF Registering(w) THEN "gone" ELSE "sleep")
  /\ faults' = faults + 1
  /\ UNCHANGED <<status, lastSeen, key>>

\* The process of the worker or of the API dies.
Die(w) ==
  /\ faults < MaxFaults
  /\ pc[w] \in InSession \cup {"sleep"}
  /\ Goto(w, "gone")
  /\ faults' = faults + 1
  /\ UNCHANGED <<status, lastSeen, key>>

\* Three intervals without EXPIRE.
KeyExpires(w) ==
  /\ key[w] = "volatile"
  /\ key' = [key EXCEPT ![w] = "none"]
  /\ UNCHANGED <<status, lastSeen, pc, faults>>

\* stale_seconds without a committed heartbeat.
GetsOld(w) ==
  /\ Listed(w) /\ lastSeen[w] = "recent"
  /\ lastSeen' = [lastSeen EXCEPT ![w] = "old"]
  /\ UNCHANGED <<status, key, pc, faults>>

Step(w) ==
  \/ Register(w) \/ Heartbeat(w) \/ SetHeartbeat(w) \/ ExpireHeartbeat(w)
  \/ Commit(w)

Next == \E w \in Workers :
          Step(w) \/ Raise(w) \/ Die(w) \/ KeyExpires(w) \/ GetsOld(w)

Spec == Init /\ [][Next]_vars

\* asyncio resumes every await of a process that lives; expiries come.
FairSpec ==
  /\ Spec
  /\ \A w \in Workers : /\ WF_vars(Step(w))
                        /\ WF_vars(KeyExpires(w))
                        /\ WF_vars(GetsOld(w))
-----------------------------------------------------------------------------
(***************************************************************************)
(* A pool consumes under a worker id that has its row: the id that its     *)
(* executions record can be looked up.                                     *)
(***************************************************************************)
PoolIsRegistered == \A w \in Workers : At(w, "sleep") => Listed(w)

\* Keys without an expiry that no EXPIRE follows.
Stray == {w \in Workers : key[w] = "permanent" /\ ~ At(w, "expire")}

(***************************************************************************)
(* Each key without an expiry is owed to an exception or a death between   *)
(* the two commands of set_worker_heartbeat, also when keys expire just    *)
(* before them; and a later heartbeat makes up for an earlier one.         *)
(***************************************************************************)
KeysExpire == Cardinality(Stray) <= faults

(***************************************************************************)
(* A worker that goes on living is counted again and again, whatever its   *)
(* heartbeats raised.                                                      *)
(***************************************************************************)
LiveWorkersAreCounted == \A w \in Processes : []<>(Counted(w) \/ At(w, "gone"))

(***************************************************************************)
(* docs/runbook.md:21: "Redis heartbeat keys expire after 3 x              *)
(* WORKER_HEARTBEAT_INTERVAL".                                             *)
(***************************************************************************)
GoneWorkersAreNotCounted ==
  \A w \in Workers : At(w, "gone") ~> ~Counted(w)

(***************************************************************************)
(* docs/runbook.md:21: "Workers not heartbeating are marked `offline` in   *)
(* Postgres after 60s".                                                    *)
(***************************************************************************)
StaleWorkersGoOffline ==
  \A w \in Workers :
    At(w, "gone") /\ lastSeen[w] = "old" /\ status[w] = "active"
      ~> status[w] = "offline"
=============================================================================

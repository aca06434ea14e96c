----------------------------- MODULE LeaderLock -----------------------------
(***************************************************************************)
(* Scheduler processes that elect a leader with the key lock:scheduler in  *)
(* Redis: run_scheduler of scheduler/main.py and RedisLeaderLock.          *)
(*                                                                         *)
(* acquire() is one command, SET NX EX.  renew() and release() are two     *)
(* each: a GET that is compared with the own id, and then an EXPIRE or a   *)
(* DEL that names the key only.  Between the two the key may expire and    *)
(* pass to another process.                                                *)
(*                                                                         *)
(* A lapse is the expiry of the key under a process that still works on    *)
(* its account, because a tick, a pause or a slow command took longer than *)
(* scheduler_lock_ttl.  Nothing in the code bounds a tick, so the model    *)
(* lets the key lapse at any time, MaxLapses times.                        *)
(***************************************************************************)
EXTENDS Naturals, FiniteSets

CONSTANTS
  Owners,      \* scheduler processes; each start of one has an id of its own
  NoOwner,     \* the key does not exist
  MaxLapses,   \* bound on lapses
  MaxFaults    \* bound on exceptions and deaths

ASSUME OwnersAssumption == IsFiniteSet(Owners) /\ NoOwner \notin Owners
ASSUME LimitsAssumption == MaxLapses \in Nat /\ MaxFaults \in Nat

VARIABLES
  key,        \* the owner id in lock:scheduler
  volatile,   \* the key has an expiry
  pc,         \* the await each process is at
  raised,     \* processes whose finally clause runs for an exception
  late,       \* history: ticks begun since the process lost the key
  lapses, faults

vars == <<key, volatile, pc, raised, late, lapses, faults>>

\* renew, the tick with the sleep after it: the process takes itself for leader
Leading == {"get", "expire", "tick"}
\* and the release in the finally clause
Working == Leading \cup {"release", "delete"}

TypeOK ==
  /\ key \in Owners \cup {NoOwner}
  /\ volatile \in BOOLEAN
  /\ pc \in [Owners -> Working \cup {"acquire", "down"}]
  /\ raised \in SUBSET Owners
  /\ late \in [Owners -> Nat]
  /\ lapses \in Nat
  /\ faults \in Nat

Init ==
  /\ key = NoOwner
  /\ volatile = FALSE
  /\ pc = [o \in Owners |-> "acquire"]
  /\ raised = {}
  /\ late = [o \in Owners |-> 0]
  /\ lapses = 0
  /\ faults = 0

At(o, await) == pc[o] = await
Goto(o, await) == pc' = [pc EXCEPT ![o] = await]

\* Mutant: SET EX without NX.
AcquireOverwrites(o) ==
  /\ At(o, "acquire")
  /\ key' = o
  /\ volatile' = TRUE
  /\ late' = [late EXCEPT ![o] = 0]
  /\ Goto(o, "get")
  /\ UNCHANGED <<raised, lapses, faults>>

\* Mutant: SET NX without EX.
AcquireForGood(o) ==
  /\ At(o, "acquire")
  /\ key = NoOwner
  /\ key' = o
  /\ volatile' = FALSE
  /\ late' = [late EXCEPT ![o] = 0]
  /\ Goto(o, "get")
  /\ UNCHANGED <<raised, lapses, faults>>

\* acquire(); an attempt that finds the key sleeps and tries again.
Acquire(o) ==
  /\ At(o, "acquire")
  /\ key = NoOwner
  /\ key' = o
  /\ volatile' = TRUE
  /\ late' = [late EXCEPT ![o] = 0]
  /\ Goto(o, "get")
  /\ UNCHANGED <<raised, lapses, faults>>

\* Mutant: renew() asks whether there is a leader, not whether it is this one.
RenewGetUnowned(o) ==
  /\ At(o, "get")
  /\ Goto(o, IF key # NoOwner THEN "expire" ELSE "release")
  /\ UNCHANGED <<key, volatile, raised, late, lapses, faults>>

\* The GET of renew().
RenewGet(o) ==
  /\ At(o, "get")
  /\ Goto(o, IF key = o THEN "expire" ELSE "release")
  /\ UNCHANGED <<key, volatile, raised, late, lapses, faults>>

\* The EXPIRE of renew(), whoever holds the key now; a tick begins.
RenewExpire(o) ==
  /\ At(o, "expire")
  /\ volatile' = (key # NoOwner)
  /\ late' = IF key = o THEN late ELSE [late EXCEPT ![o] = @ + 1]
  /\ Goto(o, "tick")
  /\ UNCHANGED <<key, raised, lapses, faults>>

\* The session of the tick and the sleep.
EndTick(o) ==
  /\ At(o, "tick")
  /\ Goto(o, "get")
  /\ UNCHANGED <<key, volatile, raised, late, lapses, faults>>

\* The loop goes on, or the exception goes through and ends the process.
AfterRelease(o) ==
  /\ Goto(o, IF o \in raised THEN "down" ELSE "acquire")
  /\ raised' = raised \ {o}

\* The GET of release().
ReleaseGet(o) ==
  /\ At(o, "release")
  /\ IF key = o
       THEN Goto(o, "delete") /\ UNCHANGED raised
       ELSE AfterRelease(o)
  /\ UNCHANGED <<key, volatile, late, lapses, faults>>

\* The DEL of release(), whoever holds the key now.
ReleaseDelete(o) ==
  /\ At(o, "delete")
  /\ key' = NoOwner
  /\ volatile' = FALSE
  /\ AfterRelease(o)
  /\ UNCHANGED <<late, lapses, faults>>

\* renew() or the tick raises, or the process is asked to stop.
Raise(o) ==
  /\ faults < MaxFaults
  /\ pc[o] \in Leading
  /\ Goto(o, "release")
  /\ raised' = raised \cup {o}
  /\ faults' = faults + 1
  /\ UNCHANGED <<key, volatile, late, lapses>>

\* The process is killed, or acquire() or release() raises.
Die(o) ==
  /\ faults < MaxFaults
  /\ ~At(o, "down")
  /\ Goto(o, "down")
  /\ raised' = raised \ {o}
  /\ faults' = faults + 1
  /\ UNCHANGED <<key, volatile, late, lapses>>

\* The container is started again, with a new owner id.
Restart(o) ==
  /\ At(o, "down")
  /\ Goto(o, "acquire")
  /\ UNCHANGED <<key, volatile, raised, late, lapses, faults>>

\* Redis drops the key: its owner has gone, or it lapses.
Abandoned == key \in Owners /\ pc[key] \notin Working

KeyExpires ==
  /\ key # NoOwner
  /\ volatile
  /\ key' = NoOwner
  /\ volatile' = FALSE
  /\ \/ Abandoned /\ UNCHANGED lapses
     \/ ~Abandoned /\ lapses < MaxLapses /\ lapses' = lapses + 1
  /\ UNCHANGED <<pc, raised, late, faults>>

Step(o) ==
  \/ Acquire(o) \/ RenewGet(o) \/ RenewExpire(o) \/ EndTick(o)
  \/ ReleaseGet(o) \/ ReleaseDelete(o) \/ Restart(o)

Next ==
  \/ \E o \in Owners : Step(o) \/ Raise(o) \/ Die(o)
  \/ KeyExpires

Spec == Init /\ [][Next]_vars

(***************************************************************************)
(* Every process goes on (asyncio resumes its awaits, the container is     *)
(* restarted unless it was stopped), and a key with an expiry that nobody  *)
(* renews expires.                                                         *)
(***************************************************************************)
Fairness ==
  /\ \A o \in Owners : WF_vars(Step(o))
  /\ WF_vars(Abandoned /\ KeyExpires)

FairSpec == Spec /\ Fairness
-----------------------------------------------------------------------------
\* Who works on the account of a key it no longer has.
Stale == {o \in Owners : pc[o] \in Working /\ key # o}

(***************************************************************************)
(* Every leader beyond one is paid for by a lapse.  The EXPIRE and the DEL *)
(* that may hit the key of another process do not make it worse: whoever   *)
(* deletes a key that has passed on stops leading with that step.          *)
(***************************************************************************)
LeadersBounded == Cardinality({o \in Owners : pc[o] \in Leading}) <= 1 + lapses

(***************************************************************************)
(* A leader that lost the key begins at most one more tick (the one whose  *)
(* GET came before the loss); then renew() tells it.                       *)
(***************************************************************************)
LateOnce == \A o \in Owners : late[o] <= 1

(***************************************************************************)
(* Failover: whatever died or lapsed, again and again some process ticks.  *)
(* A key left by a dead process is no obstacle, since it has an expiry     *)
(* from its first command on.                                              *)
(***************************************************************************)
Failover == []<>(\E o \in Owners : pc[o] = "tick")

(***************************************************************************)
(* README.md:153: "Single scheduler leader (Redis lock)".                  *)
(***************************************************************************)
SingleLeader == Cardinality({o \in Owners : pc[o] = "tick"}) <= 1
-----------------------------------------------------------------------------
\* The inductive invariant.
StalePaid == Cardinality(Stale) <= lapses
LateHasLost == \A o \in Owners : late[o] = 1 /\ pc[o] \in Working =>
                                   key # o /\ pc[o] # "expire"
HeldVolatile == key # NoOwner => volatile

IInv == TypeOK /\ StalePaid /\ LateOnce /\ LateHasLost /\ HeldVolatile
=============================================================================

----------------------------- MODULE UniqueKeys -----------------------------
(***************************************************************************)
(* Look for a row with a key, insert one if there is none: the two places  *)
(* where AtlasQueue does this under a unique index.                        *)
(*                                                                         *)
(* Submissions carry an idempotency key (QueueManager.submit): the row is  *)
(* inserted, its id pushed to Redis, the session committed.  Replicas of   *)
(* the API insert the default administrator when they start                *)
(* (ensure_default_admin); a replica that cannot is started again.         *)
(*                                                                         *)
(* A SELECT sees committed rows.  An INSERT waits for an uncommitted row   *)
(* with its key: it raises when that is committed and goes on when it is   *)
(* rolled back.  A row is named by the party that inserts it.              *)
(***************************************************************************)
EXTENDS Naturals

CONSTANTS
  Submissions, Replicas,
  Keys, KeyOf,        \* idempotency keys and the administrator's name
  Nobody,
  MaxFaults           \* bound on exceptions and deaths

Parties == Submissions \cup Replicas

ASSUME PartiesAssumption == Submissions \cap Replicas = {} /\ Nobody \notin Parties
ASSUME KeysAssumption == KeyOf \in [Parties -> Keys]
ASSUME FaultsAssumption == MaxFaults \in Nat

VARIABLES
  rows,      \* committed rows
  pending,   \* for each key the party whose inserted row is not committed
  pushed,    \* ids in the ready lists of Redis
  pc,        \* the await each party is at
  answer,    \* the row a party was answered with
  faults

vars == <<rows, pending, pushed, pc, answer, faults>>

TypeOK ==
  /\ rows \in SUBSET Parties
  /\ pending \in [Keys -> Parties \cup {Nobody}]
  /\ pushed \in SUBSET Submissions
  /\ pc \in [Parties -> {"lookup", "insert", "enqueue", "commit", "done", "failed"}]
  /\ answer \in [Parties -> Parties \cup {Nobody}]
  /\ faults \in Nat

Init ==
  /\ rows = {}
  /\ pending = [k \in Keys |-> Nobody]
  /\ pushed = {}
  /\ pc = [p \in Parties |-> "lookup"]
  /\ answer = [p \in Parties |-> Nobody]
  /\ faults = 0

At(p, await) == pc[p] = await
Goto(p, await) == pc' = [pc EXCEPT ![p] = await]
Same(p, q) == KeyOf[p] = KeyOf[q]

\* get_by_idempotency_key, or the SELECT of the administrator.
Lookup(p) ==
  /\ At(p, "lookup")
  /\ \/ \E q \in rows : /\ Same(p, q)
                        /\ answer' = [answer EXCEPT ![p] = q]
                        /\ Goto(p, "done")
     \/ /\ \A q \in rows : ~Same(p, q)
        /\ Goto(p, "insert")
        /\ UNCHANGED answer
  /\ UNCHANGED <<rows, pending, pushed, faults>>

\* Mutant: the check before is all there is; the index is not unique.
InsertUnchecked(p) ==
  /\ At(p, "insert")
  /\ pending' = [pending EXCEPT ![KeyOf[p]] = p]
  /\ Goto(p, IF p \in Submissions THEN "enqueue" ELSE "commit")
  /\ UNCHANGED <<rows, pushed, answer, faults>>

\* Mutant: connections have a lock_timeout, and it passes at once.
InsertImpatient(p) ==
  /\ At(p, "insert")
  /\ IF pending[KeyOf[p]] # Nobody \/ \E q \in rows : Same(p, q)
       THEN Goto(p, "failed") /\ UNCHANGED pending
       ELSE /\ pending' = [pending EXCEPT ![KeyOf[p]] = p]
            /\ Goto(p, IF p \in Submissions THEN "enqueue" ELSE "commit")
  /\ UNCHANGED <<rows, pushed, answer, faults>>

\* The flush of the INSERT under the unique index.
Insert(p) ==
  /\ At(p, "insert")
  /\ pending[KeyOf[p]] = Nobody
  /\ IF \E q \in rows : Same(p, q)
       THEN Goto(p, "failed") /\ UNCHANGED pending
       ELSE /\ pending' = [pending EXCEPT ![KeyOf[p]] = p]
            /\ Goto(p, IF p \in Submissions THEN "enqueue" ELSE "commit")
  /\ UNCHANGED <<rows, pushed, answer, faults>>

\* Mutant: submit goes on when the push fails.
EnqueueSwallows(p) ==
  /\ At(p, "enqueue")
  /\ pushed' \in {pushed, pushed \cup {p}}
  /\ Goto(p, "commit")
  /\ UNCHANGED <<rows, pending, answer, faults>>

\* The id goes to Redis before the row is committed.
Enqueue(p) ==
  /\ At(p, "enqueue")
  /\ pushed' = pushed \cup {p}
  /\ Goto(p, "commit")
  /\ UNCHANGED <<rows, pending, answer, faults>>

Commit(p) ==
  /\ At(p, "commit")
  /\ rows' = rows \cup {p}
  /\ pending' = [pending EXCEPT ![KeyOf[p]] = Nobody]
  /\ answer' = [answer EXCEPT ![p] = p]
  /\ Goto(p, "done")
  /\ UNCHANGED <<pushed, faults>>

\* Mutant: the transaction stays open.
FailOpen(p) ==
  /\ faults < MaxFaults
  /\ pc[p] \in {"lookup", "insert", "enqueue", "commit"}
  /\ Goto(p, "failed")
  /\ faults' = faults + 1
  /\ UNCHANGED <<rows, pushed, answer, pending>>

\* An await raises or the process dies; the row that was inserted is rolled
\* back, whether its id has reached Redis or not.
Fail(p) ==
  /\ faults < MaxFaults
  /\ pc[p] \in {"lookup", "insert", "enqueue", "commit"}
  /\ pending' = [k \in Keys |-> IF pending[k] = p THEN Nobody ELSE pending[k]]
  /\ Goto(p, "failed")
  /\ faults' = faults + 1
  /\ UNCHANGED <<rows, pushed, answer>>

\* The container of a replica that did not start is started again.
Restart(p) ==
  /\ p \in Replicas
  /\ At(p, "failed")
  /\ Goto(p, "lookup")
  /\ UNCHANGED <<rows, pending, pushed, answer, faults>>

Step(p) == Lookup(p) \/ Insert(p) \/ Enqueue(p) \/ Commit(p) \/ Restart(p)

Next == \E p \in Parties : Step(p) \/ Fail(p)

Spec == Init /\ [][Next]_vars

\* PostgreSQL grants the key to a waiting INSERT when its holder has ended.
Fairness == \A p \in Parties : WF_vars(Step(p)) /\ SF_vars(Insert(p))

FairSpec == Spec /\ Fairness
-----------------------------------------------------------------------------
(***************************************************************************)
(* However many submissions race, one task is created for a key.           *)
(***************************************************************************)
OneRowPerKey == \A p, q \in rows : Same(p, q) => p = q

(***************************************************************************)
(* Whoever was answered was answered with a committed row of its key, so   *)
(* all answers for a key name the same task; and the id of the task has    *)
(* been delivered to Redis.                                                *)
(***************************************************************************)
AnswersAreKept ==
  \A p \in Parties : answer[p] # Nobody =>
    /\ answer[p] \in rows
    /\ Same(p, answer[p])
    /\ answer[p] \in Submissions => answer[p] \in pushed

(***************************************************************************)
(* A party that fails without a fault has lost a race against a row that   *)
(* is committed: sent again, the request is answered with it.  (Tasks that *)
(* are to start at once; AtlasQueue has those with a start time ahead.)    *)
(***************************************************************************)
FailureHasRow ==
  faults = 0 => \A p \in Parties : At(p, "failed") => \E q \in rows : Same(p, q)

(***************************************************************************)
(* Nobody waits for ever on the key of another: submissions end, replicas  *)
(* start.                                                                  *)
(***************************************************************************)
EveryoneEnds ==
  /\ \A p \in Submissions : <>(pc[p] \in {"done", "failed"})
  /\ \A p \in Replicas : <>At(p, "done")

\* The committed row with key k.
RowWith(k) ==
  IF \E q \in rows : KeyOf[q] = k THEN CHOOSE q \in rows : KeyOf[q] = k ELSE Nobody

Register == INSTANCE WriteOnce WITH
  value <- [k \in Keys |-> RowWith(k)],
  told  <- answer

(***************************************************************************)
(* Races, waits, rollbacks and restarts included, a key behaves like a     *)
(* register that is written once: the row it names never changes, and a    *)
(* party is told of it once, or is the one that wrote it.                  *)
(***************************************************************************)
ImplementsWriteOnce == Register!Spec

(***************************************************************************)
(* docs/database-schema.md:21: the idempotency key is for "Submit dedup":  *)
(* a duplicate that comes while the first is under way is answered with    *)
(* the task of the first.                                                  *)
(***************************************************************************)
DuplicatesAreAnswered ==
  faults = 0 => \A p \in Submissions : ~At(p, "failed")
-----------------------------------------------------------------------------
\* The inductive invariant: who is between its INSERT and its commit holds
\* the key, and there is no committed row with a key that is held.
Holders ==
  \A p \in Parties : pc[p] \in {"enqueue", "commit"} <=> pending[KeyOf[p]] = p

HeldKeysAreNew ==
  \A k \in Keys : pending[k] # Nobody =>
    KeyOf[pending[k]] = k /\ \A q \in rows : KeyOf[q] # k

\* Only submissions push, and before they commit.
PushedFirst ==
  /\ \A p \in Parties : At(p, "enqueue") => p \in Submissions
  /\ \A p \in Submissions : p \in rows \/ At(p, "commit") => p \in pushed

\* Only who is done has an answer.
AnsweredAtEnd == \A p \in Parties : answer[p] # Nobody => At(p, "done")

IInv ==
  /\ TypeOK /\ AnsweredAtEnd /\ Holders /\ HeldKeysAreNew /\ PushedFirst
  /\ OneRowPerKey /\ AnswersAreKept /\ FailureHasRow
=============================================================================

-------------------------- MODULE UniqueKeysProofs --------------------------
(***************************************************************************)
(* Theorems about look-up and insert under a unique index, UniqueKeys.tla, *)
(* for any parties, any keys and any number of faults.                     *)
(***************************************************************************)
EXTENDS UniqueKeys, TLAPS

USE DEF At, Goto, Same

LEMMA InitInv == Init => IInv
  <1> SUFFICES ASSUME Init PROVE IInv
    OBVIOUS
  <1> USE PartiesAssumption, KeysAssumption DEF Init
  <1>1. TypeOK
    BY DEF TypeOK
  <1>2. Holders /\ HeldKeysAreNew /\ AnsweredAtEnd
    BY DEF Holders, HeldKeysAreNew, AnsweredAtEnd
  <1>3. PushedFirst /\ OneRowPerKey /\ AnswersAreKept /\ FailureHasRow
    BY DEF PushedFirst, OneRowPerKey, AnswersAreKept, FailureHasRow, Parties
  <1> QED
    BY <1>1, <1>2, <1>3 DEF IInv

\* Every variable keeps its type.
LEMMA TypeKept == IInv /\ [Next]_vars => TypeOK'
  <1> SUFFICES ASSUME IInv, [Next]_vars PROVE TypeOK'
    OBVIOUS
  <1> USE PartiesAssumption, KeysAssumption DEF IInv, TypeOK
  <1>1. ASSUME NEW p \in Parties, Lookup(p) PROVE TypeOK'
    BY <1>1 DEF Lookup
  <1>2. ASSUME NEW p \in Parties, Insert(p) PROVE TypeOK'
    BY <1>2 DEF Insert
  <1>3. ASSUME NEW p \in Parties, Enqueue(p) PROVE TypeOK'
    BY <1>3 DEF Enqueue, PushedFirst
  <1>4. ASSUME NEW p \in Parties, Commit(p) PROVE TypeOK'
    BY <1>4 DEF Commit
  <1>5. ASSUME NEW p \in Parties, Restart(p) PROVE TypeOK'
    BY <1>5 DEF Restart
  <1>6. ASSUME NEW p \in Parties, Fail(p) PROVE TypeOK'
    BY <1>6 DEF Fail
  <1>7. CASE UNCHANGED vars
    BY <1>7 DEF vars
  <1> QED
    BY <1>1, <1>2, <1>3, <1>4, <1>5, <1>6, <1>7 DEF Next, Step

\* Between its INSERT and its commit a party holds its key, and nobody else
\* has a committed row with it.
LEMMA HoldersKept ==
  ASSUME IInv, [Next]_vars
  PROVE  Holders' /\ HeldKeysAreNew'
  <1> USE PartiesAssumption, KeysAssumption DEF IInv, TypeOK, Holders, HeldKeysAreNew
  <1> DEFINE Kept == Holders' /\ HeldKeysAreNew'
  <1>1. ASSUME NEW p \in Parties, Lookup(p) PROVE Kept
    BY <1>1 DEF Lookup
  <1>2. ASSUME NEW p \in Parties, Insert(p) PROVE Kept
    BY <1>2 DEF Insert
  <1>3. ASSUME NEW p \in Parties, Enqueue(p) PROVE Kept
    BY <1>3 DEF Enqueue
  <1>4. ASSUME NEW p \in Parties, Commit(p) PROVE Kept
    BY <1>4 DEF Commit
  <1>5. ASSUME NEW p \in Parties, Restart(p) PROVE Kept
    BY <1>5 DEF Restart
  <1>6. ASSUME NEW p \in Parties, Fail(p) PROVE Kept
    BY <1>6 DEF Fail
  <1>7. CASE UNCHANGED vars
    BY <1>7 DEF vars
  <1> QED
    BY <1>1, <1>2, <1>3, <1>4, <1>5, <1>6, <1>7 DEF Next, Step

\* A party that has its answer does nothing any more.
LEMMA AnsweredKept == IInv /\ [Next]_vars => AnsweredAtEnd'
  <1> SUFFICES ASSUME IInv, [Next]_vars PROVE AnsweredAtEnd'
    OBVIOUS
  <1> USE DEF IInv, TypeOK, AnsweredAtEnd
  <1>1. ASSUME NEW p \in Parties, Step(p) \/ Fail(p) PROVE AnsweredAtEnd'
    BY <1>1 DEF Step, Lookup, Insert, Enqueue, Commit, Restart, Fail
  <1>2. CASE UNCHANGED vars
    BY <1>2 DEF vars
  <1> QED
    BY <1>1, <1>2 DEF Next

\* Rows come from commits of their own key, and never go.
LEMMA RowsGrow ==
  ASSUME [Next]_vars
  PROVE  /\ rows \subseteq rows' /\ pushed \subseteq pushed'
         /\ \/ UNCHANGED <<rows, answer>>
            \/ \E p \in Parties : Lookup(p) \/ Commit(p)
  BY DEF Next, Step, Lookup, Insert, Enqueue, Commit, Restart, Fail, vars

\* A party commits under a key that it holds: no row has it yet.
LEMMA OneRowKept == IInv /\ [Next]_vars => OneRowPerKey'
  <1> SUFFICES ASSUME IInv, [Next]_vars PROVE OneRowPerKey'
    OBVIOUS
  <1>1. ASSUME NEW p \in Parties, Commit(p) PROVE OneRowPerKey'
    <2>1. pending[KeyOf[p]] = p /\ rows' = rows \cup {p}
      BY <1>1 DEF Commit, IInv, Holders
    <2>2. \A q \in rows : KeyOf[q] # KeyOf[p]
      BY <2>1, PartiesAssumption, KeysAssumption DEF IInv, HeldKeysAreNew
    <2> QED
      BY <2>1, <2>2 DEF IInv, OneRowPerKey
  <1>2. ASSUME NEW p \in Parties, Lookup(p) PROVE OneRowPerKey'
    BY <1>2 DEF Lookup, IInv, OneRowPerKey
  <1>3. CASE UNCHANGED rows
    BY <1>3 DEF IInv, OneRowPerKey
  <1> QED
    BY <1>1, <1>2, <1>3, RowsGrow

LEMMA PushedKept == IInv /\ [Next]_vars => PushedFirst'
  <1> SUFFICES ASSUME IInv, [Next]_vars PROVE PushedFirst'
    OBVIOUS
  <1> USE PartiesAssumption DEF IInv, TypeOK, PushedFirst, Parties
  <1>1. ASSUME NEW p \in Parties, Lookup(p) PROVE PushedFirst'
    BY <1>1 DEF Lookup
  <1>2. ASSUME NEW p \in Parties, Insert(p) PROVE PushedFirst'
    BY <1>2 DEF Insert
  <1>3. ASSUME NEW p \in Parties, Enqueue(p) PROVE PushedFirst'
    BY <1>3 DEF Enqueue
  <1>4. ASSUME NEW p \in Parties, Commit(p) PROVE PushedFirst'
    BY <1>4 DEF Commit
  <1>5. ASSUME NEW p \in Parties, Restart(p) PROVE PushedFirst'
    BY <1>5 DEF Restart
  <1>6. ASSUME NEW p \in Parties, Fail(p) PROVE PushedFirst'
    BY <1>6 DEF Fail
  <1>7. CASE UNCHANGED vars
    BY <1>7 DEF vars
  <1> QED
    BY <1>1, <1>2, <1>3, <1>4, <1>5, <1>6, <1>7 DEF Next, Step

\* An answer is a row that was committed before, or in the same step.
LEMMA AnswersKept == IInv /\ [Next]_vars => AnswersAreKept'
  <1> SUFFICES ASSUME IInv, [Next]_vars PROVE AnswersAreKept'
    OBVIOUS
  <1>0. rows \subseteq rows' /\ pushed \subseteq pushed'
    BY RowsGrow
  <1>1. ASSUME NEW p \in Parties, Lookup(p) PROVE AnswersAreKept'
    BY <1>1 DEF Lookup, IInv, TypeOK, AnswersAreKept, PushedFirst
  <1>2. ASSUME NEW p \in Parties, Commit(p) PROVE AnswersAreKept'
    BY <1>2 DEF Commit, IInv, TypeOK, AnswersAreKept, PushedFirst
  <1>3. CASE UNCHANGED answer
    BY <1>0, <1>3 DEF IInv, TypeOK, AnswersAreKept
  <1> QED
    BY <1>1, <1>2, <1>3, RowsGrow

\* Without a fault only the unique index makes a party fail.
LEMMA FailuresKept == IInv /\ [Next]_vars => FailureHasRow'
  <1> SUFFICES ASSUME IInv, [Next]_vars, faults' = 0 PROVE FailureHasRow'
    BY DEF FailureHasRow
  <1>0. rows \subseteq rows'
    BY RowsGrow
  <1> USE DEF IInv, TypeOK, FailureHasRow
  <1>1. ASSUME NEW p \in Parties, Step(p) PROVE FailureHasRow'
    BY <1>0, <1>1 DEF Step, Lookup, Insert, Enqueue, Commit, Restart
  <1>2. ASSUME NEW p \in Parties, Fail(p) PROVE FALSE
    BY <1>2 DEF Fail
  <1>3. CASE UNCHANGED vars
    BY <1>3 DEF vars
  <1> QED
    BY <1>1, <1>2, <1>3 DEF Next

(***************************************************************************)
(* Look-up and insert keep their inductive invariant.                      *)
(***************************************************************************)
THEOREM KeysInvariant == Spec => []IInv
  <1>1. Init => IInv
    BY InitInv
  <1>2. IInv /\ [Next]_vars => IInv'
    BY TypeKept, AnsweredKept, HoldersKept, OneRowKept, PushedKept, AnswersKept, FailuresKept DEF IInv
  <1> QED
    BY <1>1, <1>2, PTL DEF Spec

(***************************************************************************)
(* One task is created for an idempotency key, whoever races and fails.    *)
(***************************************************************************)
THEOREM OneTaskPerKey == Spec => []OneRowPerKey
  <1>1. IInv => OneRowPerKey
    BY DEF IInv
  <1> QED
    BY <1>1, KeysInvariant, PTL

(***************************************************************************)
(* An answered submission names a committed task that was delivered.       *)
(***************************************************************************)
THEOREM AnswersAreFinal == Spec => []AnswersAreKept
  <1>1. IInv => AnswersAreKept
    BY DEF IInv
  <1> QED
    BY <1>1, KeysInvariant, PTL

(***************************************************************************)
(* A submission that fails without a fault has a task to be answered with. *)
(***************************************************************************)
THEOREM FailuresHaveRows == Spec => []FailureHasRow
  <1>1. IInv => FailureHasRow
    BY DEF IInv
  <1> QED
    BY <1>1, KeysInvariant, PTL

-----------------------------------------------------------------------------
(* UniqueKeys implements WriteOnce. *)

\* The row of a key is the only committed one with it.
LEMMA RowWithKey ==
  ASSUME OneRowPerKey, NEW k, NEW q \in rows, KeyOf[q] = k
  PROVE  RowWith(k) = q
  BY DEF RowWith, OneRowPerKey

\* A commit writes the register of its key, which nobody has written.
LEMMA CommitWrites ==
  ASSUME IInv, IInv', NEW p \in Parties, Commit(p)
  PROVE  Register!Write(p)
  <1> USE PartiesAssumption, KeysAssumption
  <1>1. /\ pending[KeyOf[p]] = p /\ p # Nobody /\ KeyOf[p] \in Keys
        /\ rows' = rows \cup {p} /\ answer' = [answer EXCEPT ![p] = p]
    BY DEF Commit, IInv, Holders
  <1>2. RowWith(KeyOf[p]) = Nobody
    BY <1>1 DEF RowWith, IInv, HeldKeysAreNew
  <1>3. (RowWith(KeyOf[p]))' = p
    BY <1>1 DEF RowWith, IInv, OneRowPerKey
  <1>4. ASSUME NEW k \in Keys, k # KeyOf[p] PROVE RowWith(k)' = RowWith(k)
    <2>1. {q \in rows' : KeyOf[q] = k} = {q \in rows : KeyOf[q] = k}
      BY <1>1, <1>4
    <2>2. CASE \E q \in rows : KeyOf[q] = k
      <3>1. PICK q \in rows : KeyOf[q] = k
        BY <2>2
      <3>2. RowWith(k) = q
        BY <3>1, RowWithKey DEF IInv
      <3>3. RowWith(k)' = q
        BY <1>1, <3>1 DEF RowWith, IInv, OneRowPerKey
      <3> QED
        BY <3>2, <3>3
    <2>3. CASE ~ \E q \in rows : KeyOf[q] = k
      BY <2>1, <2>3 DEF RowWith
    <2> QED
      BY <2>2, <2>3
  <1>5. answer[p] = Nobody
    BY DEF Commit, IInv, AnsweredAtEnd
  <1> QED
    BY <1>1, <1>2, <1>3, <1>4, <1>5 DEF Register!Write

\* A lookup tells of the row of its key, or nothing.
LEMMA LookupTells ==
  ASSUME IInv, NEW p \in Parties, Lookup(p)
  PROVE  Register!Tell(p) \/ UNCHANGED Register!vars
  <1> USE PartiesAssumption, KeysAssumption
  <1>1. rows' = rows /\ \A k \in Keys : RowWith(k)' = RowWith(k)
    BY DEF Lookup, RowWith
  <1>2. CASE UNCHANGED answer
    BY <1>1, <1>2 DEF Register!vars
  <1>3. ASSUME NEW q \in rows, Same(p, q), answer' = [answer EXCEPT ![p] = q]
        PROVE  Register!Tell(p)
    <2>1. RowWith(KeyOf[p]) = q /\ q # Nobody /\ KeyOf[p] \in Keys
      BY <1>3, RowWithKey DEF IInv, TypeOK
    <2>2. answer[p] = Nobody
      BY DEF Lookup, IInv, AnsweredAtEnd
    <2> QED
      BY <1>1, <1>3, <2>1, <2>2 DEF Register!Tell
  <1> QED
    BY <1>2, <1>3 DEF Lookup

(***************************************************************************)
(* The unique index makes every key a register that is written once,       *)
(* whatever submissions and replicas race, fail and start again.           *)
(***************************************************************************)
THEOREM KeysAreWriteOnce == Spec => ImplementsWriteOnce
  <1>1. Init => Register!Init
    BY DEF Init, Register!Init, RowWith
  <1>2. IInv /\ IInv' /\ [Next]_vars => [Register!Next]_(Register!vars)
    <2> SUFFICES ASSUME IInv, IInv', [Next]_vars
                 PROVE  Register!Next \/ UNCHANGED Register!vars
      OBVIOUS
    <2>1. CASE UNCHANGED <<rows, answer>>
      BY <2>1 DEF Register!vars, RowWith
    <2>2. ASSUME NEW p \in Parties, Lookup(p) \/ Commit(p)
          PROVE  Register!Next \/ UNCHANGED Register!vars
      BY <2>2, LookupTells, CommitWrites DEF Register!Next
    <2> QED
      BY <2>1, <2>2, RowsGrow
  <1> QED
    BY <1>1, <1>2, KeysInvariant, PTL DEF Spec, ImplementsWriteOnce, Register!Spec
=============================================================================

-------------------------- MODULE LeaderLockProofs --------------------------
(***************************************************************************)
(* Theorems about the election of LeaderLock.tla, for any finite set of    *)
(* scheduler processes and any number of lapses and faults.                *)
(***************************************************************************)
EXTENDS LeaderLock, FiniteSetTheorems, TLAPS

USE DEF At, Goto

\* The sets of the module are finite, and a subset has no more members.
LEMMA Counting ==
  ASSUME NEW S \in SUBSET Owners, NEW R \in SUBSET S
  PROVE  /\ Cardinality(S) \in Nat
         /\ Cardinality(R) \in Nat
         /\ Cardinality(R) <= Cardinality(S)
  <1>1. IsFiniteSet(S)
    BY OwnersAssumption, FS_Subset
  <1>2. IsFiniteSet(R) /\ Cardinality(R) <= Cardinality(S)
    BY <1>1, FS_Subset
  <1> QED
    BY <1>1, <1>2, FS_CardinalityType

\* One more member adds at most one.
LEMMA CountingOneMore ==
  ASSUME NEW S \in SUBSET Owners, NEW o \in Owners
  PROVE  /\ Cardinality(S) \in Nat
         /\ Cardinality(S \cup {o}) \in Nat
         /\ Cardinality(S \cup {o}) <= Cardinality(S) + 1
  <1>1. IsFiniteSet(S)
    BY OwnersAssumption, FS_Subset
  <1>2. /\ IsFiniteSet(S \cup {o})
        /\ \/ Cardinality(S \cup {o}) = Cardinality(S)
           \/ Cardinality(S \cup {o}) = Cardinality(S) + 1
    BY <1>1, FS_AddElement
  <1> QED
    BY <1>1, <1>2, FS_CardinalityType

-----------------------------------------------------------------------------
(* The inductive invariant *)

LEMMA InitInv == Init => IInv
  <1> SUFFICES ASSUME Init PROVE IInv
    OBVIOUS
  <1>1. TypeOK
    BY DEF Init, TypeOK, Working, Leading
  <1>2. Stale = {}
    BY DEF Init, Stale, Working, Leading
  <1>3. StalePaid
    BY <1>2, FS_EmptySet DEF StalePaid, Init
  <1> QED
    BY <1>1, <1>3 DEF Init, IInv, LateOnce, LateHasLost, HeldVolatile, Working, Leading

\* Every variable keeps its type.
LEMMA TypeKept == TypeOK /\ [Next]_vars => TypeOK'
  <1> SUFFICES ASSUME TypeOK, [Next]_vars PROVE TypeOK'
    OBVIOUS
  <1> USE DEF TypeOK, Working, Leading
  <1>1. ASSUME NEW o \in Owners, Acquire(o) PROVE TypeOK'
    BY <1>1 DEF Acquire
  <1>2. ASSUME NEW o \in Owners, RenewGet(o) PROVE TypeOK'
    BY <1>2 DEF RenewGet
  <1>3. ASSUME NEW o \in Owners, RenewExpire(o) PROVE TypeOK'
    BY <1>3 DEF RenewExpire
  <1>4. ASSUME NEW o \in Owners, EndTick(o) PROVE TypeOK'
    BY <1>4 DEF EndTick
  <1>5. ASSUME NEW o \in Owners, ReleaseGet(o) PROVE TypeOK'
    BY <1>5 DEF ReleaseGet, AfterRelease
  <1>6. ASSUME NEW o \in Owners, ReleaseDelete(o) PROVE TypeOK'
    BY <1>6 DEF ReleaseDelete, AfterRelease
  <1>7. ASSUME NEW o \in Owners, Restart(o) PROVE TypeOK'
    BY <1>7 DEF Restart
  <1>8. ASSUME NEW o \in Owners, Raise(o) PROVE TypeOK'
    BY <1>8 DEF Raise
  <1>9. ASSUME NEW o \in Owners, Die(o) PROVE TypeOK'
    BY <1>9 DEF Die
  <1>10. CASE KeyExpires
    <2>1. lapses' = lapses \/ lapses' = lapses + 1
      BY <1>10 DEF KeyExpires
    <2>2. key' = NoOwner /\ volatile' = FALSE /\ UNCHANGED <<pc, raised, late, faults>>
      BY <1>10 DEF KeyExpires
    <2>3. volatile' \in BOOLEAN
      BY <2>2, Zenon
    <2>4. key' \in Owners \cup {NoOwner} /\ lapses' \in Nat
      BY <2>1, <2>2
    <2>5. UNCHANGED <<pc, raised, late, faults>>
      BY <2>2, Zenon
    <2> QED
      BY <2>3, <2>4, <2>5
  <1>11. CASE UNCHANGED vars
    BY <1>11 DEF vars
  <1> QED
    BY <1>1, <1>2, <1>3, <1>4, <1>5, <1>6, <1>7, <1>8, <1>9, <1>10, <1>11
    DEF Next, Step

\* Who becomes stale: nobody, or the holder of a key that lapses, or the
\* holder of a key that somebody else deletes, who stops being stale himself.
LEMMA StaleGrows ==
  ASSUME TypeOK, [Next]_vars
  PROVE  \/ Stale' \subseteq Stale /\ lapses' = lapses
         \/ \E o \in Owners : Stale' \subseteq Stale \cup {o} /\ lapses' = lapses + 1
         \/ \E o \in Stale, q \in Owners :
              Stale' \subseteq (Stale \ {o}) \cup {q} /\ lapses' = lapses
  <1> USE DEF TypeOK, Stale, Working, Leading
  <1> DEFINE Kept == Stale' \subseteq Stale /\ lapses' = lapses
  <1>1. ASSUME NEW o \in Owners, Acquire(o) PROVE Kept
    BY <1>1, OwnersAssumption DEF Acquire
  <1>2. ASSUME NEW o \in Owners, RenewGet(o) PROVE Kept
    BY <1>2 DEF RenewGet
  <1>3. ASSUME NEW o \in Owners, RenewExpire(o) PROVE Kept
    BY <1>3 DEF RenewExpire
  <1>4. ASSUME NEW o \in Owners, EndTick(o) PROVE Kept
    BY <1>4 DEF EndTick
  <1>5. ASSUME NEW o \in Owners, ReleaseGet(o) PROVE Kept
    BY <1>5 DEF ReleaseGet, AfterRelease
  <1>6. ASSUME NEW o \in Owners, ReleaseDelete(o), key \in {o, NoOwner} PROVE Kept
    BY <1>6, OwnersAssumption DEF ReleaseDelete, AfterRelease
  <1>7. ASSUME NEW o \in Owners, ReleaseDelete(o), key \notin {o, NoOwner}
        PROVE  /\ o \in Stale /\ key \in Owners
               /\ Stale' \subseteq (Stale \ {o}) \cup {key}
               /\ lapses' = lapses
    BY <1>7, OwnersAssumption DEF ReleaseDelete, AfterRelease
  <1>8. ASSUME NEW o \in Owners, Restart(o) PROVE Kept
    BY <1>8 DEF Restart
  <1>9. ASSUME NEW o \in Owners, Raise(o) PROVE Kept
    BY <1>9 DEF Raise
  <1>10. ASSUME NEW o \in Owners, Die(o) PROVE Kept
    BY <1>10 DEF Die
  <1>11. ASSUME KeyExpires, Abandoned PROVE Kept
    BY <1>11 DEF KeyExpires, Abandoned
  <1>12. ASSUME KeyExpires, ~Abandoned
         PROVE  /\ key \in Owners
                /\ Stale' \subseteq Stale \cup {key}
                /\ lapses' = lapses + 1
    BY <1>12 DEF KeyExpires
  <1>13. CASE UNCHANGED vars
    BY <1>13 DEF vars
  <1>14. CASE \E o \in Owners : Step(o) \/ Raise(o) \/ Die(o)
    <2> PICK o \in Owners : Step(o) \/ Raise(o) \/ Die(o)
      BY <1>14
    <2>1. CASE ReleaseDelete(o) /\ key \notin {o, NoOwner}
      BY <2>1, <1>7
    <2>2. CASE ~(ReleaseDelete(o) /\ key \notin {o, NoOwner})
      <3>1. Kept
        BY <2>2, <1>1, <1>2, <1>3, <1>4, <1>5, <1>6, <1>8, <1>9, <1>10 DEF Step
      <3> QED
        BY <3>1
    <2> QED
      BY <2>1, <2>2
  <1>15. CASE KeyExpires
    BY <1>15, <1>11, <1>12
  <1> QED
    BY <1>13, <1>14, <1>15 DEF Next

\* Lapses pay for the processes that work without the key.
LEMMA StalePaidKept == IInv /\ [Next]_vars => StalePaid'
  <1> SUFFICES ASSUME IInv, [Next]_vars PROVE StalePaid'
    OBVIOUS
  <1>1. TypeOK /\ Stale \in SUBSET Owners /\ Stale' \in SUBSET Owners
    BY DEF IInv, Stale
  <1>2. lapses \in Nat /\ Cardinality(Stale) <= lapses
    BY DEF IInv, TypeOK, StalePaid
  <1>3. CASE Stale' \subseteq Stale /\ lapses' = lapses
    BY <1>1, <1>2, <1>3, Counting DEF StalePaid
  <1>4. ASSUME NEW o \in Owners,
               Stale' \subseteq Stale \cup {o}, lapses' = lapses + 1
        PROVE  StalePaid'
    <2>1. Cardinality(Stale') <= Cardinality(Stale \cup {o})
      BY <1>1, <1>4, Counting
    <2>2. Cardinality(Stale') \in Nat
      BY <1>1, Counting
    <2> QED
      BY <1>1, <1>2, <1>4, <2>1, <2>2, CountingOneMore DEF StalePaid
  <1>5. ASSUME NEW o \in Stale, NEW q \in Owners,
               Stale' \subseteq (Stale \ {o}) \cup {q}, lapses' = lapses
        PROVE  StalePaid'
    <2> DEFINE R == Stale \ {o}
    <2>1. Cardinality(R) = Cardinality(Stale) - 1
      <3>1. IsFiniteSet(Stale)
        BY <1>1, OwnersAssumption, FS_Subset
      <3> QED
        BY <3>1, <1>5, FS_RemoveElement
    <2>2. /\ Cardinality(R) \in Nat
          /\ Cardinality(R \cup {q}) \in Nat
          /\ Cardinality(R \cup {q}) <= Cardinality(R) + 1
      BY <1>1, CountingOneMore
    <2>3. Cardinality(Stale') <= Cardinality(R \cup {q}) /\ Cardinality(Stale') \in Nat
      <3>1. R \cup {q} \in SUBSET Owners /\ Stale' \in SUBSET (R \cup {q})
        BY <1>1, <1>5
      <3> QED
        BY <3>1, Counting
    <2>4. Cardinality(Stale) \in Nat
      BY <1>1, Counting
    <2> QED
      BY <1>2, <1>5, <2>1, <2>2, <2>3, <2>4 DEF StalePaid
  <1> QED
    BY <1>1, <1>3, <1>4, <1>5, StaleGrows

\* A process that has begun a tick too many is not about to begin another.
LEMMA LateKept ==
  ASSUME IInv, [Next]_vars
  PROVE  LateOnce' /\ LateHasLost'
  <1> USE DEF IInv, TypeOK, LateOnce, LateHasLost, Working, Leading
  <1> DEFINE Kept == LateOnce' /\ LateHasLost'
  <1>1. ASSUME NEW o \in Owners, Acquire(o) PROVE Kept
    BY <1>1 DEF Acquire
  <1>2. ASSUME NEW o \in Owners, RenewGet(o) PROVE Kept
    BY <1>2 DEF RenewGet
  <1>3. ASSUME NEW o \in Owners, RenewExpire(o) PROVE Kept
    BY <1>3 DEF RenewExpire
  <1>4. ASSUME NEW o \in Owners, EndTick(o) PROVE Kept
    BY <1>4 DEF EndTick
  <1>5. ASSUME NEW o \in Owners, ReleaseGet(o) PROVE Kept
    BY <1>5 DEF ReleaseGet, AfterRelease
  <1>6. ASSUME NEW o \in Owners, ReleaseDelete(o) PROVE Kept
    BY <1>6, OwnersAssumption DEF ReleaseDelete, AfterRelease
  <1>7. ASSUME NEW o \in Owners, Restart(o) PROVE Kept
    BY <1>7 DEF Restart
  <1>8. ASSUME NEW o \in Owners, Raise(o) PROVE Kept
    BY <1>8 DEF Raise
  <1>9. ASSUME NEW o \in Owners, Die(o) PROVE Kept
    BY <1>9 DEF Die
  <1>10. CASE KeyExpires
    BY <1>10, OwnersAssumption DEF KeyExpires
  <1>11. CASE UNCHANGED vars
    BY <1>11 DEF vars
  <1> QED
    BY <1>1, <1>2, <1>3, <1>4, <1>5, <1>6, <1>7, <1>8, <1>9, <1>10, <1>11
    DEF Next, Step

\* No command leaves the key without an expiry.
LEMMA VolatileKept == IInv /\ [Next]_vars => HeldVolatile'
  BY DEF IInv, HeldVolatile, Next, Step, vars, Acquire, RenewGet, RenewExpire,
         EndTick, ReleaseGet, ReleaseDelete, AfterRelease, Restart, Raise, Die,
         KeyExpires

(***************************************************************************)
(* The election keeps its inductive invariant.                             *)
(***************************************************************************)
THEOREM ElectionInvariant == Spec => []IInv
  <1>1. Init => IInv
    BY InitInv
  <1>2. IInv /\ [Next]_vars => IInv'
    BY TypeKept, StalePaidKept, LateKept, VolatileKept DEF IInv
  <1> QED
    BY <1>1, <1>2, PTL DEF Spec

(***************************************************************************)
(* A leader that lost the key begins at most one more tick.                *)
(***************************************************************************)
THEOREM LateTicksBounded == Spec => []LateOnce
  <1>1. IInv => LateOnce
    BY DEF IInv
  <1> QED
    BY <1>1, ElectionInvariant, PTL

(***************************************************************************)
(* There are never more leaders than one and one for every lapse; without  *)
(* a lapse, whatever dies or raises, there is one.                         *)
(***************************************************************************)
THEOREM LeadersPaidFor == Spec => []LeadersBounded
  <1>1. IInv => LeadersBounded
    <2> SUFFICES ASSUME IInv PROVE LeadersBounded
      OBVIOUS
    <2> DEFINE Leaders == {o \in Owners : pc[o] \in Leading}
    <2>1. Stale \in SUBSET Owners /\ Leaders \in SUBSET Owners
      BY DEF Stale
    <2>2. lapses \in Nat /\ Cardinality(Stale) <= lapses
      BY DEF IInv, TypeOK, StalePaid
    <2>3. CASE key = NoOwner
      <3>1. Leaders \subseteq Stale
        BY <2>3, OwnersAssumption DEF Stale, Working
      <3> QED
        BY <2>1, <2>2, <3>1, Counting DEF LeadersBounded
    <2>4. CASE key \in Owners
      <3>1. Leaders \subseteq Stale \cup {key}
        BY <2>4 DEF Stale, Working
      <3>2. /\ Cardinality(Leaders) \in Nat
            /\ Cardinality(Leaders) <= Cardinality(Stale \cup {key})
        BY <2>1, <2>4, <3>1, Counting
      <3> QED
        BY <2>1, <2>2, <2>4, <3>2, CountingOneMore DEF LeadersBounded
    <2> QED
      BY <2>3, <2>4 DEF IInv, TypeOK
  <1> QED
    BY <1>1, ElectionInvariant, PTL
=============================================================================

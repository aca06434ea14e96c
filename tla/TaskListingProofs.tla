-------------------------- MODULE TaskListingProofs --------------------------
(***************************************************************************)
(* Theorems about walks through the pages of GET /tasks, for lists and     *)
(* pages of any size.  Where no two rows have one key, the place of a row  *)
(* in the order (Rank) says on which page it is: the rows of an order are  *)
(* at different places, one row that comes or goes moves the others by at  *)
(* most one place, and at most one of them over the place that the reader  *)
(* has come to.                                                            *)
(***************************************************************************)
EXTENDS TaskListing, FiniteSetTheorems, TLAPS

-----------------------------------------------------------------------------
(* Ranks *)

LEMMA RankTyped ==
  ASSUME NEW S, IsFiniteSet(S), NEW t
  PROVE  /\ Rank(S, t) \in Nat
         /\ IsFiniteSet({u \in S : Key[u] < Key[t]})
  BY FS_Subset, FS_CardinalityType DEF Rank

\* An earlier row has a lower rank.
LEMMA RankRises ==
  ASSUME NEW S \in SUBSET Tasks, IsFiniteSet(S), NEW s \in S, NEW t \in Tasks,
         Key[s] < Key[t]
  PROVE  Rank(S, s) < Rank(S, t)
  <1> DEFINE A == {u \in S : Key[u] < Key[s]}
             B == {u \in S : Key[u] < Key[t]}
  <1>1. \A u \in Tasks : Key[u] \in Nat
    BY ListingAssumption
  <1>2. IsFiniteSet(A) /\ IsFiniteSet(B)
    BY RankTyped
  <1>3. s \notin A /\ A \cup {s} \in SUBSET B
    BY <1>1
  <1> HIDE DEF A, B
  <1>4. /\ Cardinality(A \cup {s}) = Cardinality(A) + 1
        /\ Cardinality(A \cup {s}) <= Cardinality(B)
    BY <1>2, <1>3, FS_AddElement, FS_Subset
  <1>5. Cardinality(A) \in Nat /\ Cardinality(B) \in Nat
    BY <1>2, FS_CardinalityType
  <1>6. Cardinality(A) < Cardinality(B)
    BY <1>4, <1>5
  <1> QED
    BY <1>6 DEF Rank, A, B

\* No two rows are at one place.
LEMMA RanksDiffer ==
  ASSUME DistinctKeys, NEW S \in SUBSET Tasks, IsFiniteSet(S), NEW s \in S, NEW t \in S, s # t
  PROVE  Rank(S, s) # Rank(S, t)
  <1>1. Key[s] \in Nat /\ Key[t] \in Nat /\ Key[s] # Key[t]
    BY ListingAssumption DEF DistinctKeys
  <1>2. Rank(S, s) \in Nat /\ Rank(S, t) \in Nat
    BY RankTyped
  <1>3. CASE Key[s] < Key[t]
    BY <1>2, <1>3, RankRises
  <1>4. CASE Key[t] < Key[s]
    BY <1>2, <1>4, RankRises
  <1> QED
    BY <1>1, <1>3, <1>4

\* A row that comes in moves those behind it by one place.
LEMMA RankAdded ==
  ASSUME NEW S, IsFiniteSet(S), NEW s, s \notin S, NEW t
  PROVE  Rank(S \cup {s}, t) = Rank(S, t) + IF Key[s] < Key[t] THEN 1 ELSE 0
  <1> DEFINE A == {u \in S : Key[u] < Key[t]}
  <1>1. IsFiniteSet(A) /\ Rank(S, t) = Cardinality(A) /\ Rank(S, t) \in Nat
    BY RankTyped DEF Rank
  <1>2. CASE Key[s] < Key[t]
    <2>1. {u \in S \cup {s} : Key[u] < Key[t]} = A \cup {s} /\ s \notin A
      BY <1>2
    <2> QED
      BY <1>1, <1>2, <2>1, FS_AddElement DEF Rank
  <1>3. CASE ~ (Key[s] < Key[t])
    <2>1. {u \in S \cup {s} : Key[u] < Key[t]} = A
      BY <1>3
    <2> QED
      BY <1>1, <1>3, <2>1 DEF Rank
  <1> QED
    BY <1>2, <1>3

\* At most one row is at any place.
LEMMA OneAtPlace ==
  ASSUME DistinctKeys, NEW S \in SUBSET Tasks, IsFiniteSet(S), NEW n
  PROVE  \E s : {t \in S : Rank(S, t) = n} \subseteq {s}
  BY RanksDiffer

\* The first n rows are those at the first n places.
LEMMA FirstsByRank ==
  ASSUME DistinctKeys, NEW S \in SUBSET Tasks, IsFiniteSet(S), NEW n \in Nat,
         NEW F \in Firsts(S, n)
  PROVE  F = {t \in S : Rank(S, t) < n}
  <1>1. /\ F \subseteq S /\ IsFiniteSet(F)
        /\ Cardinality(F) = Least(n, Cardinality(S))
        /\ \A f \in F, s \in S \ F : Key[f] <= Key[s]
    BY FS_Subset DEF Firsts
  <1>2. /\ Cardinality(F) \in Nat /\ Cardinality(S) \in Nat
        /\ \A t \in S : Rank(S, t) \in Nat
        /\ \A t \in S : Key[t] \in Nat
    BY <1>1, FS_CardinalityType, RankTyped, ListingAssumption
  <1>3. ASSUME NEW f \in F PROVE Rank(S, f) < n
    <2> DEFINE A == {u \in S : Key[u] < Key[f]}
    <2>1. f \notin A /\ A \cup {f} \in SUBSET F
      <3>1. \A u \in A : u \in F
        BY <1>1, <1>2
      <3> QED
        BY <1>1, <1>2, <3>1
    <2>2. IsFiniteSet(A) /\ Rank(S, f) = Cardinality(A)
      BY RankTyped DEF Rank
    <2> HIDE DEF A
    <2>3. Cardinality(A \cup {f}) = Cardinality(A) + 1
          /\ Cardinality(A \cup {f}) <= Cardinality(F)
      BY <1>1, <2>1, <2>2, FS_AddElement, FS_Subset
    <2>4. Cardinality(A) \in Nat /\ Cardinality(F) <= n
      BY <1>1, <1>2, <2>2, FS_CardinalityType DEF Least
    <2> QED
      BY <1>2, <2>2, <2>3, <2>4
  <1>4. ASSUME NEW t \in S \ F PROVE Rank(S, t) >= n
    <2> DEFINE A == {u \in S : Key[u] < Key[t]}
    <2>1. F \in SUBSET A
      BY <1>1, <1>2 DEF DistinctKeys
    <2>2. IsFiniteSet(A) /\ Rank(S, t) = Cardinality(A)
      BY RankTyped DEF Rank
    <2> HIDE DEF A
    <2>3. Cardinality(F) <= Cardinality(A)
      BY <2>1, <2>2, FS_Subset
    <2>4. Cardinality(F) # Cardinality(S)
      BY <1>1, FS_Subset
    <2> QED
      BY <1>1, <1>2, <2>2, <2>3, <2>4 DEF Least
  <1> QED
    BY <1>1, <1>2, <1>3, <1>4

\* A page is the rows at the places from its offset on, and it is short when
\* no row is behind it.
LEMMA PagesByRank ==
  ASSUME DistinctKeys, NEW S \in SUBSET Tasks, IsFiniteSet(S), offset \in Nat,
         NEW P \in Pages(S)
  PROVE  /\ P = {t \in S : offset <= Rank(S, t) /\ Rank(S, t) < offset + Limit}
         /\ Cardinality(P) < Limit => \A t \in S : Rank(S, t) < offset + Limit
  <1>1. PICK skipped \in Firsts(S, offset) : P \in Firsts(S \ skipped, Limit)
    BY DEF Pages
  <1> DEFINE R == S \ skipped
  <1>2. Limit \in Nat
    BY ListingAssumption
  <1>3. skipped = {t \in S : Rank(S, t) < offset}
    BY <1>1, FirstsByRank
  <1>4. R \in SUBSET Tasks /\ IsFiniteSet(R) /\ P \in Firsts(R, Limit)
    BY <1>1, FS_Subset
  <1> HIDE DEF R
  <1>5. P = {t \in R : Rank(R, t) < Limit}
    BY <1>2, <1>4, FirstsByRank
  <1>6. ASSUME NEW t \in R PROVE Rank(S, t) = Rank(R, t) + offset
    <2> DEFINE A == {u \in S : Key[u] < Key[t]}
               B == {u \in R : Key[u] < Key[t]}
    <2>1. /\ IsFiniteSet(A) /\ IsFiniteSet(B) /\ IsFiniteSet(skipped)
          /\ Rank(S, t) = Cardinality(A) /\ Rank(R, t) = Cardinality(B)
      <3>1. IsFiniteSet(skipped)
        BY <1>3, FS_Subset
      <3> QED
        BY <1>4, <3>1, RankTyped DEF Rank
    <2>2. \A f \in skipped : Key[f] < Key[t]
      <3>1. skipped \subseteq S /\ \A f \in skipped : Key[f] <= Key[t]
        BY <1>1 DEF Firsts, R
      <3> QED
        BY <3>1, ListingAssumption DEF DistinctKeys, R
    <2>3. A = B \cup skipped /\ B \cap skipped = {}
      BY <1>3, <2>2 DEF R
    <2> HIDE DEF A, B
    <2>4. Cardinality(A) = Cardinality(B) + Cardinality(skipped)
      <3>1. Cardinality(B \cap skipped) = 0
        BY <2>3, FS_EmptySet
      <3>2. Cardinality(B) \in Nat /\ Cardinality(skipped) \in Nat
        BY <2>1, FS_CardinalityType
      <3>3. Cardinality(B \cup skipped)
              = Cardinality(B) + Cardinality(skipped) - Cardinality(B \cap skipped)
        BY <2>1, FS_Union
      <3> QED
        BY <2>3, <3>1, <3>2, <3>3
    <2>5. Cardinality(skipped) = offset
      <3>1. Cardinality(skipped) = Least(offset, Cardinality(S)) /\ skipped \subseteq S
        BY <1>1 DEF Firsts
      <3>2. Cardinality(skipped) # Cardinality(S)
        <4>1. skipped # S
          BY DEF R
        <4> QED
          BY <3>1, <4>1, FS_Subset
      <3> QED
        BY <3>1, <3>2 DEF Least
    <2> QED
      BY <2>1, <2>4, <2>5
  <1>7. \A t \in R : Rank(R, t) \in Nat /\ Rank(S, t) \in Nat
    BY <1>4, RankTyped
  <1>8. P = {t \in S : offset <= Rank(S, t) /\ Rank(S, t) < offset + Limit}
    <2>1. \A t \in R : Rank(R, t) < Limit <=> Rank(S, t) < offset + Limit
      BY <1>2, <1>6, <1>7
    <2>2. ASSUME NEW t \in S PROVE t \in R <=> offset <= Rank(S, t)
      <3>1. Rank(S, t) \in Nat
        BY RankTyped
      <3>2. t \in R <=> ~ (Rank(S, t) < offset)
        BY <1>3 DEF R
      <3> QED
        BY <3>1, <3>2
    <2> QED
      BY <1>5, <2>1, <2>2 DEF R
  <1>9. ASSUME Cardinality(P) < Limit, NEW t \in S PROVE Rank(S, t) < offset + Limit
    <2>1. P \subseteq R /\ Cardinality(P) = Least(Limit, Cardinality(R))
      BY <1>4 DEF Firsts
    <2>2. Cardinality(P) = Cardinality(R)
      BY <1>2, <1>9, <2>1 DEF Least
    <2>3. P = R
      BY <1>4, <2>1, <2>2, FS_Subset
    <2>4. CASE t \in R
      BY <1>8, <2>3, <2>4
    <2>5. CASE t \notin R
      <3>1. Rank(S, t) < offset /\ Rank(S, t) \in Nat
        BY <1>3, <2>5, RankTyped DEF R
      <3> QED
        BY <1>2, <3>1
    <2> QED
      BY <2>4, <2>5
  <1> QED
    BY <1>8, <1>9

\* What is before a page is listed as well as the page.
LEMMA PageSizes ==
  ASSUME NEW S, IsFiniteSet(S), offset \in Nat, NEW P \in Pages(S)
  PROVE  /\ P \subseteq S
         /\ Cardinality(P) \in Nat
         /\ P # {} => Cardinality(S) >= offset + Cardinality(P)
  <1>1. PICK skipped \in Firsts(S, offset) : P \in Firsts(S \ skipped, Limit)
    BY DEF Pages
  <1>2. P \subseteq S /\ P \cap skipped = {} /\ skipped \subseteq S
    BY <1>1 DEF Firsts
  <1>3. IsFiniteSet(P) /\ IsFiniteSet(skipped) /\ IsFiniteSet(P \cup skipped)
    BY <1>2, FS_Subset, FS_Union
  <1>4. Cardinality(P) \in Nat /\ Cardinality(skipped) \in Nat /\ Cardinality(S) \in Nat
    BY <1>3, FS_CardinalityType
  <1>5. ASSUME P # {} PROVE Cardinality(S) >= offset + Cardinality(P)
    <2>1. skipped # S
      BY <1>2, <1>5
    <2>2. Cardinality(skipped) = offset
      <3>1. Cardinality(skipped) = Least(offset, Cardinality(S))
        BY <1>1 DEF Firsts
      <3>2. Cardinality(skipped) # Cardinality(S)
        BY <1>2, <2>1, FS_Subset
      <3> QED
        BY <3>1, <3>2 DEF Least
    <2>3. Cardinality(P \cup skipped) = Cardinality(P) + Cardinality(skipped)
      <3>1. Cardinality(P \cap skipped) = 0
        BY <1>2, FS_EmptySet
      <3>2. Cardinality(P \cup skipped)
              = Cardinality(P) + Cardinality(skipped) - Cardinality(P \cap skipped)
        BY <1>3, FS_Union
      <3> QED
        BY <1>4, <3>1, <3>2
    <2>4. Cardinality(P \cup skipped) <= Cardinality(S)
      BY <1>2, FS_Subset
    <2> QED
      BY <1>4, <2>2, <2>3, <2>4
  <1> QED
    BY <1>2, <1>4, <1>5

-----------------------------------------------------------------------------
(* The total of an answer *)

LEMMA WalkTyped ==
  ASSUME WalkTypeOK
  PROVE  /\ IsFiniteSet(listed) /\ listed \in SUBSET Tasks
         /\ IsFiniteSet(page) /\ IsFiniteSet(seen) /\ IsFiniteSet(initial)
         /\ Cardinality(listed) \in Nat /\ Cardinality(page) \in Nat
         /\ Passed \in Nat
  <1>1. /\ IsFiniteSet(listed) /\ listed \in SUBSET Tasks
        /\ IsFiniteSet(page) /\ IsFiniteSet(seen) /\ IsFiniteSet(initial)
    BY FS_Subset DEF WalkTypeOK
  <1>2. Passed \in Nat
    BY ListingAssumption DEF WalkTypeOK, Passed
  <1> QED
    BY <1>1, <1>2, FS_CardinalityType

LEMMA InitCover == Init => CoverInv
  BY FS_EmptySet DEF Init, CoverInv, WalkTypeOK, WalkStages, PageCounted

LEMMA StepCover ==
  ASSUME CoverInv, [Next]_vars
  PROVE  CoverInv'
  <1> USE DEF CoverInv
  <1>1. /\ IsFiniteSet(listed) /\ Cardinality(listed) \in Nat
        /\ Cardinality(page) \in Nat /\ Limit \in Nat
    BY WalkTyped, ListingAssumption
  <1>2. ASSUME NEW t \in Tasks \ listed, listed' = listed \cup {t}, Arrives,
               table' = table \cup {t}, moves' \in Nat, UNCHANGED readerVars
        PROVE  CoverInv'
    <2>1. IsFiniteSet(table') /\ Cardinality(listed') = Cardinality(listed) + 1
      BY <1>1, <1>2, FS_AddElement DEF WalkTypeOK
    <2>2. WalkTypeOK'
      BY <1>2, <2>1 DEF WalkTypeOK, Arrives, readerVars
    <2>3. WalkStages'
      BY <1>2 DEF WalkStages, Arrives, readerVars, Walking
    <2>4. PageCounted'
      BY <1>1, <1>2, <2>1 DEF PageCounted, WalkTypeOK, Arrives, readerVars
    <2> QED
      BY <2>2, <2>3, <2>4
  <1>3. ASSUME NEW t \in Tasks, Insert(t) PROVE CoverInv'
    <2>1. CASE listed' = listed \cup {t} /\ Arrives
      BY <1>2, <1>3, <2>1 DEF Insert, WalkTypeOK
    <2>2. CASE UNCHANGED <<listed, walkVars>>
      <3>1. IsFiniteSet(table')
        BY <1>3, FS_AddElement DEF WalkTypeOK, Insert
      <3> QED
        BY <1>3, <2>2, <3>1
           DEF Insert, WalkTypeOK, WalkStages, PageCounted, walkVars, readerVars
    <2> QED
      BY <1>3, <2>1, <2>2 DEF Insert
  <1>4. ASSUME NEW t \in Tasks, Enter(t) PROVE CoverInv'
    <2>1. table' = table \cup {t}
      BY <1>4 DEF Enter, WalkTypeOK
    <2> QED
      BY <1>2, <1>4, <2>1 DEF Enter, WalkTypeOK
  <1>5. ASSUME NEW t \in Tasks, Leave(t) PROVE CoverInv'
    <2>1. Cardinality(listed') = Cardinality(listed) - 1
      BY <1>1, <1>5, FS_RemoveElement DEF Leave
    <2>2. WalkTypeOK'
      BY <1>5 DEF WalkTypeOK, Leave, readerVars
    <2>3. WalkStages'
      BY <1>5 DEF WalkStages, Leave, readerVars, Walking
    <2>4. PageCounted'
      BY <1>1, <1>5, <2>1 DEF PageCounted, WalkTypeOK, WalkStages, Leave, readerVars, Walking
    <2> QED
      BY <2>2, <2>3, <2>4
  <1>6. ASSUME BeginWalk PROVE CoverInv'
    BY <1>6 DEF BeginWalk, WalkTypeOK, WalkStages, PageCounted, tableVars
  <1>7. ASSUME ListTasks PROVE CoverInv'
    <2>1. /\ page' \subseteq listed /\ Cardinality(page') \in Nat
          /\ page' # {} => Cardinality(listed) >= offset + Cardinality(page')
      BY <1>1, <1>7, PageSizes DEF ListTasks, WalkTypeOK
    <2> QED
      BY <1>1, <1>7, <2>1
         DEF ListTasks, WalkTypeOK, WalkStages, PageCounted, tableVars, walkVars
  <1>8. ASSUME CountTasks PROVE CoverInv'
    <2>1. Cardinality(page \cap seen) \in Nat
      BY <1>1, WalkTyped, FS_Intersection, FS_CardinalityType
    <2> QED
      BY <1>1, <1>8, <2>1
         DEF CountTasks, WalkTypeOK, WalkStages, PageCounted, tableVars, walkVars
  <1>9. ASSUME NextPage PROVE CoverInv'
    BY <1>1, <1>9 DEF NextPage, WalkTypeOK, WalkStages, PageCounted, tableVars, walkVars
  <1>10. ASSUME EndWalk PROVE CoverInv'
    BY <1>10 DEF EndWalk, WalkTypeOK, WalkStages, PageCounted, tableVars
  <1>11. ASSUME UNCHANGED vars PROVE CoverInv'
    BY <1>11 DEF vars, tableVars, walkVars, readerVars, WalkTypeOK, WalkStages, PageCounted
  <1> QED
    BY <1>3, <1>4, <1>5, <1>6, <1>7, <1>8, <1>9, <1>10, <1>11 DEF Next

-----------------------------------------------------------------------------
(* Rows that are missed, and rows that come again *)

\* One element more.
LEMMA OneMore ==
  ASSUME NEW T, IsFiniteSet(T), NEW U, NEW s, U \subseteq T \cup {s}
  PROVE  /\ IsFiniteSet(U)
         /\ Cardinality(U) <= Cardinality(T) + 1
  <1>1. /\ IsFiniteSet(T \cup {s})
        /\ Cardinality(T \cup {s}) <= Cardinality(T) + 1
    <2>1. /\ IsFiniteSet(T \cup {s}) /\ Cardinality(T) \in Nat
          /\ Cardinality(T \cup {s})
               = IF s \in T THEN Cardinality(T) ELSE Cardinality(T) + 1
      BY FS_AddElement, FS_CardinalityType
    <2> QED
      BY <2>1
  <1>2. IsFiniteSet(U) /\ Cardinality(U) <= Cardinality(T \cup {s})
    BY <1>1, FS_Subset
  <1>3. /\ Cardinality(U) \in Nat /\ Cardinality(T) \in Nat
        /\ Cardinality(T \cup {s}) \in Nat
    BY <1>1, <1>2, FS_CardinalityType
  <1> QED
    BY <1>1, <1>2, <1>3

\* What the counts of an invariant state are.
CountsOK ==
  /\ IsFiniteSet(Missed) /\ Cardinality(Missed) \in Nat
  /\ IsFiniteSet(Slipped) /\ Cardinality(Slipped) \in Nat
  /\ IsFiniteSet(Again) /\ Cardinality(Again) \in Nat
  /\ IsFiniteSet(page \cap seen) /\ Cardinality(page \cap seen) \in Nat
  /\ Missed \subseteq listed
  /\ \A t \in listed : Rank(listed, t) \in Nat
  /\ departures \in Nat /\ arrivals \in Nat /\ repeats \in Nat
  /\ offset \in Nat /\ Limit \in Nat /\ Passed \in Nat

LEMMA CountsTyped == CoverInv => CountsOK
  <1> SUFFICES ASSUME CoverInv PROVE CountsOK
    OBVIOUS
  <1>1. Missed \subseteq initial /\ Slipped \subseteq initial /\ Again \subseteq listed
    BY DEF Missed, Slipped, Again
  <1>2. WalkTypeOK /\ IsFiniteSet(listed) /\ IsFiniteSet(initial) /\ IsFiniteSet(page)
    BY WalkTyped DEF CoverInv
  <1>3. IsFiniteSet(Missed) /\ IsFiniteSet(Slipped) /\ IsFiniteSet(Again)
    BY <1>1, <1>2, FS_Subset
  <1>4. IsFiniteSet(page \cap seen)
    BY <1>2, FS_Intersection
  <1>5. Missed \subseteq listed
    BY DEF CoverInv, WalkStages, Missed
  <1>6. \A t \in listed : Rank(listed, t) \in Nat
    BY <1>2, RankTyped
  <1> QED
    BY <1>2, <1>3, <1>4, <1>5, <1>6, WalkTyped, FS_CardinalityType, ListingAssumption
       DEF WalkTypeOK, CountsOK

LEMMA CountsTypedNext == CoverInv' => CountsOK'
  BY CountsTyped, PTL

\* Nothing is missed or comes again while nobody reads.
\* Nobody reads.
Quiet ==
  /\ initial = {} /\ seen = {} /\ page = {} /\ repeats = 0
  /\ departures \in Nat /\ arrivals \in Nat

LEMMA NothingCounted == Quiet => MissesCounted /\ RepeatsCounted
  <1> SUFFICES ASSUME Quiet PROVE MissesCounted /\ RepeatsCounted
    OBVIOUS
  <1>1. Missed = {} /\ Slipped = {} /\ Again = {} /\ page \cap seen = {}
    BY DEF Quiet, Missed, Slipped, Again
  <1>2. Cardinality({}) = 0
    BY FS_EmptySet
  <1> QED
    BY <1>1, <1>2 DEF Quiet, MissesCounted, RepeatsCounted

LEMMA NothingCountedNext == Quiet' => MissesCounted' /\ RepeatsCounted'
  BY NothingCounted, PTL

\* A row comes into the list: at most one row comes again for it.
LEMMA ComingKeeps ==
  ASSUME DistinctKeys, WalkInv, CoverInv', NEW t \in Tasks \ listed,
         listed' = listed \cup {t}, Arrives, UNCHANGED readerVars
  PROVE  MissesCounted' /\ RepeatsCounted'
  <1>1. CoverInv /\ MissesCounted /\ RepeatsCounted
    BY DEF WalkInv
  <1>2. CASE ~ Walking
    <2>1. Quiet'
      BY <1>1, <1>2 DEF Quiet, CoverInv, WalkTypeOK, WalkStages, Walking, Arrives, readerVars
    <2> QED
      BY <2>1, NothingCountedNext
  <1>3. CASE Walking
    <2>1. /\ UNCHANGED <<initial, left, departures, pc, offset, page, seen, repeats>>
          /\ arrivals' = arrivals + 1
          /\ Missed' = Missed /\ Passed' = Passed
      BY <1>3 DEF Arrives, readerVars, Missed, Passed
    <2>2. /\ IsFiniteSet(listed) /\ listed \in SUBSET Tasks /\ IsFiniteSet(listed')
          /\ listed' \in SUBSET Tasks
      <3>1. IsFiniteSet(listed) /\ listed \in SUBSET Tasks
        BY <1>1, WalkTyped DEF CoverInv
      <3> QED
        BY <3>1, FS_AddElement
    <2>3. \A u \in listed : /\ Rank(listed, u) \in Nat
                            /\ Rank(listed', u)
                                 = Rank(listed, u) + IF Key[t] < Key[u] THEN 1 ELSE 0
      BY <2>2, RankTyped, RankAdded
    <2>4. MissesCounted'
      <3>1. Slipped' \subseteq Slipped
        BY <1>1, <2>1, <2>3, CountsTyped DEF Slipped, CountsOK
      <3>2. Cardinality(Slipped') <= Cardinality(Slipped)
        BY <1>1, <3>1, CountsTyped, FS_Subset DEF CountsOK
      <3>3. Cardinality(Slipped') \in Nat
        BY CountsTypedNext DEF CountsOK
      <3> QED
        BY <1>1, <2>1, <3>2, <3>3, CountsTyped DEF MissesCounted, CountsOK
    <2>5. \E s : Again' \subseteq Again \cup {s}
      <3>1. CASE Rank(listed', t) >= Passed
        <4>1. ASSUME NEW u \in listed, Rank(listed', u) >= Passed
              PROVE  Rank(listed, u) >= Passed
          <5>1. Rank(listed', t) \in Nat /\ Passed \in Nat
            BY <1>1, <2>2, RankTyped, CountsTyped DEF CountsOK
          <5>2. Key[t] < Key[u] => Rank(listed', t) < Rank(listed', u)
            BY <2>2, RankRises
          <5> QED
            BY <2>3, <3>1, <4>1, <5>1, <5>2
        <4>2. Again' \subseteq Again \cup {t}
          BY <2>1, <4>1 DEF Again
        <4> QED
          BY <4>2
      <3>2. CASE ~ (Rank(listed', t) >= Passed)
        <4>1. PICK s : {u \in listed : Rank(listed, u) = Passed - 1} \subseteq {s}
          BY <2>2, OneAtPlace
        <4>2. ASSUME NEW u \in listed', Rank(listed', u) >= Passed
              PROVE  u \in listed /\ (Rank(listed, u) >= Passed \/ u = s)
          <5>1. u \in listed /\ Passed \in Nat
            BY <1>1, <3>2, <4>2, CountsTyped DEF CountsOK
          <5>2. Rank(listed, u) >= Passed \/ Rank(listed, u) = Passed - 1
            BY <2>3, <4>2, <5>1
          <5> QED
            BY <4>1, <5>1, <5>2
        <4>3. Again' \subseteq Again \cup {s}
          BY <2>1, <4>2 DEF Again
        <4> QED
          BY <4>3
      <3> QED
        BY <3>1, <3>2
    <2>6. RepeatsCounted'
      <3>1. Cardinality(Again') <= Cardinality(Again) + 1 /\ Cardinality(Again') \in Nat
        BY <1>1, <2>5, OneMore, CountsTyped, CountsTypedNext DEF CountsOK
      <3>2. CASE pc = "count"
        BY <1>1, <2>1, <3>1, <3>2, CountsTyped DEF RepeatsCounted, CountsOK
      <3>3. CASE pc # "count"
        BY <1>1, <2>1, <3>1, <3>3, CountsTyped, FS_EmptySet DEF RepeatsCounted, CountsOK
      <3> QED
        BY <3>2, <3>3
    <2> QED
      BY <2>4, <2>6
  <1> QED
    BY <1>2, <1>3

\* A row leaves the list: at most one row slips by for it.
LEMMA GoingKeeps ==
  ASSUME DistinctKeys, WalkInv, CoverInv', NEW t \in listed, Leave(t)
  PROVE  MissesCounted' /\ RepeatsCounted'
  <1>1. CoverInv /\ MissesCounted /\ RepeatsCounted
    BY DEF WalkInv
  <1>2. CASE ~ Walking
    <2>1. Quiet'
      BY <1>1, <1>2 DEF Quiet, CoverInv, WalkTypeOK, WalkStages, Walking, Leave, readerVars
    <2> QED
      BY <2>1, NothingCountedNext
  <1>3. CASE Walking
    <2>1. /\ UNCHANGED <<initial, arrivals, pc, offset, page, seen, repeats>>
          /\ departures' = departures + 1 /\ left' = left \cup {t}
          /\ Missed' \subseteq Missed /\ Passed' = Passed
      BY <1>3 DEF Leave, readerVars, Missed, Passed
    <2>2. /\ IsFiniteSet(listed) /\ listed \in SUBSET Tasks /\ IsFiniteSet(listed')
          /\ t \notin listed' /\ listed = listed' \cup {t} /\ listed' \subseteq listed
      <3>1. /\ IsFiniteSet(listed) /\ listed \in SUBSET Tasks
            /\ listed' = listed \ {t}
        BY <1>1, WalkTyped DEF CoverInv, Leave
      <3> QED
        BY <3>1, FS_RemoveElement
    <2>3. \A u \in listed' : /\ Rank(listed', u) \in Nat
                             /\ Rank(listed, u)
                                  = Rank(listed', u) + IF Key[t] < Key[u] THEN 1 ELSE 0
      BY <2>2, RankTyped, RankAdded
    <2>4. \E s : Slipped' \subseteq Slipped \cup {s}
      <3>1. PICK s : {u \in listed : Rank(listed, u) = Passed} \subseteq {s}
        BY <2>2, OneAtPlace
      <3>2. ASSUME NEW u \in listed', Rank(listed', u) < Passed
            PROVE  Rank(listed, u) < Passed \/ u = s
        <4>1. Rank(listed, u) < Passed \/ Rank(listed, u) = Passed
          BY <1>1, <2>3, <3>2, CountsTyped DEF CountsOK
        <4> QED
          BY <2>2, <3>1, <4>1
      <3>3. Missed' \subseteq listed'
        BY CountsTypedNext DEF CountsOK
      <3>4. Slipped' \subseteq Slipped \cup {s}
        BY <2>1, <3>2, <3>3 DEF Slipped
      <3> QED
        BY <3>4
    <2>5. MissesCounted'
      <3>1. Cardinality(Slipped') <= Cardinality(Slipped) + 1 /\ Cardinality(Slipped') \in Nat
        BY <1>1, <2>4, OneMore, CountsTyped, CountsTypedNext DEF CountsOK
      <3>2. Cardinality(Missed') <= Cardinality(Missed) /\ Cardinality(Missed') \in Nat
        BY <1>1, <2>1, CountsTyped, CountsTypedNext, FS_Subset DEF CountsOK
      <3> QED
        BY <1>1, <2>1, <3>1, <3>2, CountsTyped DEF MissesCounted, CountsOK
    <2>6. Again' \subseteq Again
      <3>1. ASSUME NEW u \in listed', Rank(listed', u) >= Passed
            PROVE  Rank(listed, u) >= Passed
        BY <1>1, <2>3, <3>1, CountsTyped DEF CountsOK
      <3> QED
        BY <2>1, <2>2, <3>1 DEF Again
    <2>7. RepeatsCounted'
      <3>1. Cardinality(Again') <= Cardinality(Again) /\ Cardinality(Again') \in Nat
        BY <1>1, <2>6, CountsTyped, CountsTypedNext, FS_Subset DEF CountsOK
      <3>2. CASE pc = "count"
        BY <1>1, <2>1, <3>1, <3>2, CountsTyped DEF RepeatsCounted, CountsOK
      <3>3. CASE pc # "count"
        BY <1>1, <2>1, <3>1, <3>3, CountsTyped, FS_EmptySet DEF RepeatsCounted, CountsOK
      <3> QED
        BY <3>2, <3>3
    <2> QED
      BY <2>5, <2>7
  <1> QED
    BY <1>2, <1>3

\* A page shows every row that is not behind the reader already.
LEMMA ListKeeps ==
  ASSUME DistinctKeys, WalkInv, CoverInv', ListTasks
  PROVE  MissesCounted' /\ RepeatsCounted'
  <1>1. CoverInv /\ MissesCounted /\ RepeatsCounted
    BY DEF WalkInv
  <1>2. /\ UNCHANGED <<listed, initial, left, departures, arrivals, offset, seen, repeats>>
        /\ pc = "list" /\ pc' = "count" /\ page = {}
        /\ Passed = offset /\ Passed' = offset + Limit
    BY <1>1 DEF ListTasks, tableVars, walkVars, Passed, CoverInv, WalkStages
  <1>3. /\ IsFiniteSet(listed) /\ listed \in SUBSET Tasks /\ offset \in Nat
        /\ page' \in Pages(listed)
    BY <1>1, WalkTyped DEF CoverInv, WalkTypeOK, ListTasks
  <1>4. /\ page' = {t \in listed : offset <= Rank(listed, t) /\ Rank(listed, t) < offset + Limit}
        /\ Cardinality(page') < Limit => \A t \in listed : Rank(listed, t) < offset + Limit
    BY <1>3, PagesByRank
  <1>5. Missed' \subseteq listed /\ Missed' \subseteq Missed /\ Missed' \cap page' = {}
    BY <1>1, <1>2, CountsTyped DEF Missed, CountsOK
  <1>6. \A t \in Missed' : Rank(listed, t) < offset + Limit => t \in Slipped
    BY <1>1, <1>2, <1>4, <1>5, CountsTyped DEF Slipped, CountsOK
  <1>7. MissesCounted'
    <2>1. Slipped' \subseteq Slipped
      BY <1>2, <1>6 DEF Slipped
    <2>2. Cardinality(Slipped') <= Cardinality(Slipped) /\ Cardinality(Slipped') \in Nat
      BY <1>1, <2>1, CountsTyped, CountsTypedNext, FS_Subset DEF CountsOK
    <2>3. ASSUME Cardinality(page') < Limit
          PROVE  Cardinality(Missed') <= Cardinality(Slipped) /\ Cardinality(Missed') \in Nat
      <3>1. Missed' \subseteq Slipped
        BY <1>4, <1>5, <1>6, <2>3
      <3> QED
        BY <1>1, <3>1, CountsTyped, CountsTypedNext, FS_Subset DEF CountsOK
    <2> QED
      BY <1>1, <1>2, <2>2, <2>3, CountsTyped, ListingAssumption DEF MissesCounted, CountsOK
  <1>8. RepeatsCounted'
    <2> DEFINE A == page' \cap seen
               B == Again'
    <2>1. A \cap B = {} /\ A \cup B \subseteq Again
      BY <1>1, <1>2, <1>3, <1>4, CountsTyped DEF Again, CountsOK
    <2>2. IsFiniteSet(A) /\ IsFiniteSet(B) /\ Cardinality(A) \in Nat /\ Cardinality(B) \in Nat
      BY <1>1, <2>1, FS_Subset, FS_CardinalityType, CountsTyped DEF CountsOK
    <2> HIDE DEF A, B
    <2>3. Cardinality(A \cup B) = Cardinality(A) + Cardinality(B) - Cardinality(A \cap B)
      BY <2>2, FS_Union
    <2>4. Cardinality(A) + Cardinality(B) <= Cardinality(Again)
      <3>1. Cardinality(A \cup B) <= Cardinality(Again)
        BY <1>1, <2>1, CountsTyped, FS_Subset DEF CountsOK
      <3>2. Cardinality(A \cap B) = 0
        BY <2>1, FS_EmptySet
      <3> QED
        BY <2>2, <2>3, <3>1, <3>2
    <2>5. repeats + Cardinality(Again) <= arrivals
      BY <1>1, <1>2, CountsTyped, FS_EmptySet DEF RepeatsCounted, CountsOK
    <2>6. repeats + Cardinality(A) + Cardinality(B) <= arrivals
      BY <1>1, <2>2, <2>4, <2>5, CountsTyped DEF CountsOK
    <2> QED
      BY <1>2, <2>6 DEF RepeatsCounted, A, B
  <1> QED
    BY <1>7, <1>8

LEMMA StepWalk ==
  ASSUME DistinctKeys, WalkInv, [Next]_vars
  PROVE  WalkInv'
  <1>1. CoverInv /\ MissesCounted /\ RepeatsCounted
    BY DEF WalkInv
  <1>2. CoverInv'
    BY <1>1, StepCover
  <1>3. ASSUME UNCHANGED <<listed, pc, offset, page, seen, repeats, walkVars>>
        PROVE  MissesCounted' /\ RepeatsCounted'
    <2>1. Missed' = Missed /\ Slipped' = Slipped /\ Again' = Again
      BY <1>3 DEF walkVars, Missed, Slipped, Again, Passed
    <2> QED
      BY <1>1, <1>3, <2>1 DEF walkVars, MissesCounted, RepeatsCounted
  <1>4. ASSUME NEW t \in Tasks, Insert(t) PROVE MissesCounted' /\ RepeatsCounted'
    <2>1. CASE listed' = listed \cup {t} /\ Arrives
      BY <1>1, <1>2, <1>4, <2>1, ComingKeeps DEF Insert, CoverInv, WalkTypeOK
    <2>2. CASE UNCHANGED <<listed, walkVars>>
      BY <1>3, <1>4, <2>2 DEF Insert, readerVars
    <2> QED
      BY <1>4, <2>1, <2>2 DEF Insert
  <1>5. ASSUME NEW t \in Tasks, Enter(t) PROVE MissesCounted' /\ RepeatsCounted'
    BY <1>2, <1>5, ComingKeeps DEF Enter
  <1>6. ASSUME NEW t \in Tasks, Leave(t) PROVE MissesCounted' /\ RepeatsCounted'
    BY <1>2, <1>6, GoingKeeps DEF Leave
  <1>7. ASSUME BeginWalk PROVE MissesCounted' /\ RepeatsCounted'
    <2>1. (seen = {} /\ page = {} /\ repeats = 0 /\ departures = 0 /\ arrivals = 0)'
          /\ pc' = "list" /\ Passed' = 0 /\ listed' = listed
      BY <1>1, <1>7 DEF BeginWalk, CoverInv, WalkStages, tableVars, Passed
    <2>2. Again' = {} /\ Slipped' = {}
      <3>1. \A t \in Missed' : Rank(listed, t) \in Nat
        BY <1>1, <1>2, <2>1, CountsTypedNext DEF CountsOK
      <3> QED
        BY <2>1, <3>1 DEF Again, Slipped
    <2> QED
      BY <2>1, <2>2, FS_EmptySet DEF MissesCounted, RepeatsCounted
  <1>8. ASSUME ListTasks PROVE MissesCounted' /\ RepeatsCounted'
    BY <1>2, <1>8, ListKeeps
  <1>9. ASSUME CountTasks PROVE MissesCounted' /\ RepeatsCounted'
    <2>1. /\ Missed' = Missed /\ Slipped' = Slipped /\ Again' = Again
          /\ repeats' = repeats + Cardinality(page \cap seen)
          /\ pc = "count" /\ pc' = "answered"
          /\ UNCHANGED <<page, arrivals, departures>>
      BY <1>9 DEF CountTasks, tableVars, walkVars, Missed, Slipped, Again, Passed
    <2> QED
      BY <1>1, <2>1, CountsTyped, FS_EmptySet DEF MissesCounted, RepeatsCounted, CountsOK
  <1>10. ASSUME NextPage PROVE MissesCounted' /\ RepeatsCounted'
    <2>1. /\ page \subseteq seen /\ page' = {}
          /\ pc = "answered" /\ pc' = "list"
          /\ UNCHANGED <<listed, initial, left, departures, arrivals, seen, repeats>>
          /\ Passed' = Passed
      BY <1>1, <1>10 DEF NextPage, CoverInv, WalkStages, tableVars, walkVars, Passed
    <2>2. Missed' = Missed /\ Slipped' = Slipped /\ Again' = Again
      BY <2>1 DEF Missed, Slipped, Again
    <2> QED
      BY <1>1, <2>1, <2>2 DEF MissesCounted, RepeatsCounted
  <1>11. ASSUME EndWalk PROVE MissesCounted' /\ RepeatsCounted'
    <2>1. Quiet'
      BY <1>11 DEF EndWalk, Quiet
    <2> QED
      BY <2>1, NothingCountedNext
  <1>12. ASSUME UNCHANGED vars PROVE MissesCounted' /\ RepeatsCounted'
    BY <1>3, <1>12 DEF vars, tableVars, readerVars
  <1> QED
    BY <1>2, <1>4, <1>5, <1>6, <1>7, <1>8, <1>9, <1>10, <1>11, <1>12 DEF Next, WalkInv

-----------------------------------------------------------------------------
(* Theorems *)

\* The total beside a page of GET /tasks is a statement of its own, after the
\* page: it covers the page and what is before it, whatever commits in between.
THEOREM TotalsCoverPages == Spec => []TotalCoversPage
  <1>1. CoverInv => TotalCoversPage
    BY DEF CoverInv, PageCounted, TotalCoversPage
  <1>2. CoverInv /\ [Next]_vars => CoverInv'
    BY StepCover
  <1> QED
    BY <1>1, <1>2, InitCover, PTL DEF Spec

\* Where no two rows tie, the rows that slip by a reader of GET /tasks are paid
\* for by rows that left the list, and those it comes to again by rows that came.
THEOREM WalkInvariant ==
  ASSUME DistinctKeys
  PROVE  Spec => []WalkInv
  <1>1. Init => WalkInv
    <2> SUFFICES ASSUME Init PROVE WalkInv
      OBVIOUS
    <2>1. MissesCounted /\ RepeatsCounted
      BY NothingCounted DEF Init, Quiet
    <2> QED
      BY <2>1, InitCover DEF WalkInv
  <1>2. WalkInv /\ [Next]_vars => WalkInv'
    BY StepWalk
  <1> QED
    BY <1>1, <1>2, PTL DEF Spec

\* A walk through GET /tasks in an order without ties misses no row of those
\* that were listed all the time, but one for each that has left the list.
THEOREM MissesBounded ==
  ASSUME DistinctKeys
  PROVE  Spec => []MissesAreDepartures
  <1>1. WalkInv => MissesAreDepartures
    BY DEF WalkInv, MissesCounted, MissesAreDepartures
  <1> QED
    BY <1>1, WalkInvariant, PTL

\* Nor does it show a row twice, but one for each that has come into the list.
THEOREM RepeatsBounded ==
  ASSUME DistinctKeys
  PROVE  Spec => []RepeatsAreArrivals
  <1>1. WalkInv => RepeatsAreArrivals
    <2> SUFFICES ASSUME WalkInv PROVE RepeatsAreArrivals
      OBVIOUS
    <2>1. CASE pc = "count"
      BY <2>1, CountsTyped DEF WalkInv, RepeatsCounted, RepeatsAreArrivals, CountsOK
    <2>2. CASE pc # "count"
      BY <2>2, CountsTyped, FS_EmptySet
         DEF WalkInv, RepeatsCounted, RepeatsAreArrivals, CountsOK
    <2> QED
      BY <2>1, <2>2
  <1> QED
    BY <1>1, WalkInvariant, PTL

\* Without a status filter a walk in an order without ties shows every row that
\* was there when it began, however many tasks are submitted meanwhile.
THEOREM UnfilteredWalksComplete ==
  ASSUME DistinctKeys, ~ Filtered
  PROVE  Spec => []NothingIsMissed
  <1> DEFINE NoneLeft == departures = 0
  <1>1. Init => NoneLeft
    BY DEF Init
  <1>2. NoneLeft /\ [Next]_vars => NoneLeft'
    BY DEF Next, vars, walkVars, tableVars, Insert, Arrives, Enter, Leave, BeginWalk, ListTasks,
           CountTasks, NextPage, EndWalk
  <1>3. WalkInv /\ NoneLeft => NothingIsMissed
    <2> SUFFICES ASSUME WalkInv, NoneLeft, pc = "answered", Cardinality(page) < Limit
                 PROVE  Missed = {}
      BY DEF NothingIsMissed
    <2>1. Cardinality(Missed) <= 0
      BY DEF WalkInv, MissesCounted
    <2>2. IsFiniteSet(Missed) /\ Cardinality(Missed) \in Nat
      BY CountsTyped DEF WalkInv, CountsOK
    <2>3. Cardinality(Missed) = 0
      BY <2>1, <2>2
    <2> QED
      BY <2>2, <2>3, FS_EmptySet
  <1> QED
    BY <1>1, <1>2, <1>3, WalkInvariant, PTL DEF Spec
=============================================================================

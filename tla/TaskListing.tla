---------------------------- MODULE TaskListing ----------------------------
(***************************************************************************)
(* GET /tasks: pages of the tasks table, and the total beside each page.   *)
(*                                                                         *)
(* Every request is a transaction of two statements, and nothing ties one  *)
(* page to the next: a reader that walks through the pages by OFFSET sees  *)
(* the table at as many moments as there are pages.  In the meantime tasks *)
(* are inserted, at any place of the order, because created_at is the      *)
(* clock of the process that creates the task and not the time of its      *)
(* commit; and with a status filter tasks come into the list and leave it. *)
(* Nothing deletes a row.                                                  *)
(*                                                                         *)
(* The key by which tasks are sorted stays with the row, as created_at,    *)
(* name and priority do; sort_by=status, where a change of status moves    *)
(* the row within the list, is left out.                                   *)
(***************************************************************************)
EXTENDS Integers, FiniteSets

CONSTANTS
  Tasks,
  Key,          \* the value of the column that sort_by names, in sort_order
  Limit,
  Filtered,     \* the request has a status filter
  MaxMoves      \* bound: changes of status that pass the filter

ASSUME ListingAssumption ==
  /\ Key \in [Tasks -> Nat]
  /\ Limit \in Nat \ {0}
  /\ Filtered \in BOOLEAN
  /\ MaxMoves \in Nat

VARIABLES
  table,    \* committed rows
  listed,   \* those that pass the filter
  moves,    \* changes of status so far
  pc,       \* the statement the reader is at
  offset,   \* of its next request
  page,     \* the rows of the request it is in
  total,    \* the last answer's total; -1: none
  seen,     \* rows of the pages before
  initial,  \* rows that were listed when it began
  left,     \* rows that have left the list since
  \* How many rows have left the list and have come into it since, and how
  \* often a page has shown a row again.
  departures, arrivals, repeats

tableVars == <<table, listed, moves>>
walkVars == <<initial, left, departures, arrivals>>
readerVars == <<pc, offset, page, total, seen, repeats>>

vars == <<tableVars, walkVars, readerVars>>

Init ==
  /\ table = {} /\ listed = {} /\ moves = 0
  /\ pc = "idle" /\ offset = 0 /\ page = {} /\ total = -1 /\ seen = {} /\ repeats = 0
  /\ initial = {} /\ left = {} /\ departures = 0 /\ arrivals = 0

-----------------------------------------------------------------------------
(* The table *)

Walking == pc # "idle"

Arrives ==
  /\ arrivals' = IF Walking THEN arrivals + 1 ELSE 0
  /\ UNCHANGED <<initial, left, departures>>

\* A submission commits.
Insert(t) ==
  /\ t \notin table
  /\ table' = table \cup {t}
  /\ \/ /\ listed' = listed \cup {t}
        /\ Arrives
     \/ /\ Filtered
        /\ UNCHANGED <<listed, walkVars>>
  /\ UNCHANGED <<moves, readerVars>>

\* The status of a task changes to the one that is asked for, or from it.
Enter(t) ==
  /\ Filtered /\ moves < MaxMoves
  /\ t \in table \ listed
  /\ listed' = listed \cup {t}
  /\ moves' = moves + 1
  /\ Arrives
  /\ UNCHANGED <<table, readerVars>>

Leave(t) ==
  /\ Filtered /\ moves < MaxMoves
  /\ t \in listed
  /\ listed' = listed \ {t}
  /\ moves' = moves + 1
  /\ left' = IF Walking THEN left \cup {t} ELSE {}
  /\ departures' = IF Walking THEN departures + 1 ELSE 0
  /\ UNCHANGED <<table, initial, arrivals, readerVars>>

-----------------------------------------------------------------------------
(* The reader *)

Least(m, n) == IF m < n THEN m ELSE n

\* The first n rows of S in the order of their keys; rows with one key come in
\* any order.
Firsts(S, n) ==
  {F \in SUBSET S :
     /\ Cardinality(F) = Least(n, Cardinality(S))
     /\ \A f \in F, s \in S \ F : Key[f] <= Key[s]}

\* Mutant: no ORDER BY.
AnyPages(S) ==
  {P \in SUBSET S : Cardinality(P) = Least(Limit, IF offset < Cardinality(S)
                                                  THEN Cardinality(S) - offset ELSE 0)}

\* Mutant: one row more, to know whether there is another page.
LongPages(S) == UNION {Firsts(S \ skipped, Limit + 1) : skipped \in Firsts(S, offset)}

\* ORDER BY ... LIMIT ... OFFSET
Pages(S) == UNION {Firsts(S \ skipped, Limit) : skipped \in Firsts(S, offset)}

BeginWalk ==
  /\ pc = "idle"
  /\ pc' = "list"
  /\ initial' = listed
  /\ UNCHANGED <<tableVars, left, departures, arrivals, offset, page, total, seen, repeats>>

ListTasks ==
  /\ pc = "list"
  /\ page' \in Pages(listed)
  /\ pc' = "count"
  /\ UNCHANGED <<tableVars, walkVars, offset, total, seen, repeats>>

\* Mutant: the total is taken from the page.
CountPage ==
  /\ pc = "count"
  /\ total' = Cardinality(page)
  /\ repeats' = repeats + Cardinality(page \cap seen)
  /\ seen' = seen \cup page
  /\ pc' = "answered"
  /\ UNCHANGED <<tableVars, walkVars, offset, page>>

\* SELECT count(*), a statement of its own.
CountTasks ==
  /\ pc = "count"
  /\ total' = Cardinality(listed)
  /\ repeats' = repeats + Cardinality(page \cap seen)
  /\ seen' = seen \cup page
  /\ pc' = "answered"
  /\ UNCHANGED <<tableVars, walkVars, offset, page>>

\* The reader goes on until a page is not full.
NextPage ==
  /\ pc = "answered"
  /\ Cardinality(page) >= Limit
  /\ pc' = "list"
  /\ offset' = offset + Limit
  /\ page' = {} /\ total' = -1
  /\ UNCHANGED <<tableVars, walkVars, seen, repeats>>

EndWalk ==
  /\ pc = "answered"
  /\ Cardinality(page) < Limit
  /\ pc' = "idle"
  /\ offset' = 0 /\ page' = {} /\ total' = -1 /\ seen' = {} /\ repeats' = 0
  /\ initial' = {} /\ left' = {} /\ departures' = 0 /\ arrivals' = 0
  /\ UNCHANGED tableVars

Next ==
  \/ \E t \in Tasks : Insert(t) \/ Enter(t) \/ Leave(t)
  \/ BeginWalk \/ ListTasks \/ CountTasks \/ NextPage \/ EndWalk

Spec == Init /\ [][Next]_vars

-----------------------------------------------------------------------------
(* What a walk shows, when no two rows have the same key *)

\* Rows that were listed all the time and that no page has shown.
Missed == initial \ (seen \cup page \cup left)

\* A walk that has come to its end has missed at most as many rows as have left
\* the list meanwhile: none without a filter, however many tasks were submitted
\* and wherever they came into the order.
MissesAreDepartures ==
  pc = "answered" /\ Cardinality(page) < Limit => Cardinality(Missed) <= departures

\* A row is shown again only when another has come into the list.
RepeatsAreArrivals == repeats <= arrivals

\* The total is no less than what the answer has come to, although it is
\* counted later, unless rows have left.
TotalCoversPage ==
  pc = "answered" /\ page # {} => total + departures >= offset + Cardinality(page)

\* What a client takes a walk for: it has seen all that was there all the time.
NothingIsMissed ==
  pc = "answered" /\ Cardinality(page) < Limit => Missed = {}
-----------------------------------------------------------------------------
(* The inductive invariant behind these properties *)

DistinctKeys == \A s, t \in Tasks : Key[s] = Key[t] => s = t

\* The place of t in the order of S, from 0.
Rank(S, t) == Cardinality({u \in S : Key[u] < Key[t]})

\* The place in the order that the reader has come to.
Passed == IF pc \in {"idle", "list"} THEN offset ELSE offset + Limit

\* Rows that the reader does not come to any more, though they are listed.
Slipped == {t \in Missed : Rank(listed, t) < Passed}

\* Rows that it comes to again.
Again == {t \in (seen \cup page) \cap listed : Rank(listed, t) >= Passed}

WalkTypeOK ==
  /\ table \in SUBSET Tasks /\ IsFiniteSet(table)
  /\ listed \in SUBSET table
  /\ moves \in Nat
  /\ pc \in {"idle", "list", "count", "answered"}
  /\ offset \in Nat
  /\ page \in SUBSET table /\ seen \in SUBSET table
  /\ total \in Nat \cup {-1}
  /\ initial \in SUBSET table /\ left \in SUBSET table
  /\ departures \in Nat /\ arrivals \in Nat /\ repeats \in Nat

\* At each statement of the reader.
WalkStages ==
  /\ pc = "idle" =>
       /\ seen = {} /\ initial = {} /\ left = {}
       /\ offset = 0 /\ repeats = 0 /\ arrivals = 0 /\ departures = 0
  /\ pc \in {"idle", "list"} => page = {}
  /\ pc = "answered" => page \subseteq seen
  /\ initial \ left \subseteq listed

\* Every row that has slipped by has done so for one that has left.
MissesCounted ==
  /\ Cardinality(Slipped) <= departures
  /\ pc \in {"count", "answered"} /\ Cardinality(page) < Limit =>
       Cardinality(Missed) <= departures

\* A row comes again for one that has come in before it.
RepeatsCounted ==
  repeats + Cardinality(IF pc = "count" THEN page \cap seen ELSE {}) + Cardinality(Again)
    <= arrivals

PageCounted ==
  page # {} =>
    /\ pc = "count" => Cardinality(listed) + departures >= offset + Cardinality(page)
    /\ pc = "answered" => total + departures >= offset + Cardinality(page)

CoverInv == WalkTypeOK /\ WalkStages /\ PageCounted

WalkInv == CoverInv /\ MissesCounted /\ RepeatsCounted
=============================================================================

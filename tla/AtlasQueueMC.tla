---------------------------- MODULE AtlasQueueMC ----------------------------
(***************************************************************************)
(* Values of the constants of AtlasQueue for TLC.                          *)
(***************************************************************************)
EXTENDS AtlasQueueClaims, TLC

CONSTANT Retries      \* max_retries of every task, where they are the same

AllSessions == Clients \cup Slots \cup Schedulers

SameRetries == [t \in Tasks |-> Retries]

\* The first failure of one task of a pair is final, the other one has a retry.
MixedRetries == LET once == CHOOSE t \in Tasks : TRUE
                IN  [t \in Tasks |-> IF t = once THEN 1 ELSE 2]

\* One level, which every priority is clamped to.
SamePriority == [t \in Tasks |-> 2]

\* The first task of a pair is urgent, the other one is clamped to the last
\* level.
MixedPriority == LET urgent == CHOOSE t \in Tasks : TRUE
                 IN  [t \in Tasks |-> IF t = urgent THEN 0 ELSE 7]

Symmetry == Permutations(Clients) \cup Permutations(Slots) \cup Permutations(Schedulers)
=============================================================================

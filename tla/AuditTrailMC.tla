---------------------------- MODULE AuditTrailMC ----------------------------
(***************************************************************************)
(* Values of the constants of AuditTrail for TLC.                          *)
(***************************************************************************)
EXTENDS AuditTrail, TLC

CONSTANT Retries      \* max_retries of every task

AllSessions == Clients \cup Slots \cup Schedulers

SameRetries == [t \in Tasks |-> Retries]

SamePriority == [t \in Tasks |-> 0]

Symmetry == Permutations(Clients) \cup Permutations(Slots)
=============================================================================

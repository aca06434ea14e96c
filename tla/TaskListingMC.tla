--------------------------- MODULE TaskListingMC ---------------------------
(***************************************************************************)
(* Values of the constants of TaskListing for TLC: five tasks by the time  *)
(* of their creation, or in two classes.                                   *)
(***************************************************************************)
EXTENDS TaskListing

FiveTasks == 1 .. 5

ByTime == [t \in FiveTasks |-> t]

ByPriority == [t \in FiveTasks |-> t \div 3]
=============================================================================

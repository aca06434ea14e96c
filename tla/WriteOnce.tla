----------------------------- MODULE WriteOnce -----------------------------
(***************************************************************************)
(* What a unique key promises, told without sessions, waiting inserts and  *)
(* faults: a register for each key that is written once, by a party that   *)
(* asks for the key, and parties that are told, once, what their key says. *)
(*                                                                         *)
(* UniqueKeys implements it (ImplementsWriteOnce).                         *)
(***************************************************************************)
CONSTANTS Keys, Parties, KeyOf, Nobody

VARIABLES
  value,   \* for each key the party that wrote it
  told     \* what each party was told

vars == <<value, told>>

Init ==
  /\ value = [k \in Keys |-> Nobody]
  /\ told = [p \in Parties |-> Nobody]

\* The writer is told in the same step.
Write(p) ==
  /\ value[KeyOf[p]] = Nobody
  /\ told[p] = Nobody
  /\ value' = [value EXCEPT ![KeyOf[p]] = p]
  /\ told' = [told EXCEPT ![p] = p]

Tell(p) ==
  /\ value[KeyOf[p]] # Nobody
  /\ told[p] = Nobody
  /\ told' = [told EXCEPT ![p] = value[KeyOf[p]]]
  /\ UNCHANGED value

Next == \E p \in Parties : Write(p) \/ Tell(p)

Spec == Init /\ [][Next]_vars
=============================================================================

---------------------------- MODULE UniqueKeysMC ----------------------------
(* Three submissions of one key, one of another, and two replicas.         *)
EXTENDS UniqueKeys

CONSTANTS s1, s2, s3, s4, a1, a2, k1, k2, admin

FourSubmissions == {s1, s2, s3, s4}
TwoReplicas == {a1, a2}
ThreeKeys == {k1, k2, admin}
KeyOfParty ==
  [p \in FourSubmissions \cup TwoReplicas |->
     CASE p \in {s1, s2, s3} -> k1 [] p = s4 -> k2 [] p \in TwoReplicas -> admin]
=============================================================================

SPECIFICATION FairSpec
CONSTANTS
  s1 = s1
  s2 = s2
  s3 = s3
  s4 = s4
  a1 = a1
  a2 = a2
  k1 = k1
  k2 = k2
  admin = admin
  Submissions <- FourSubmissions
  Replicas <- TwoReplicas
  Keys <- ThreeKeys
  KeyOf <- KeyOfParty
  Nobody = Nobody
  MaxFaults = 2
CHECK_DEADLOCK FALSE
INVARIANTS OneRowPerKey AnswersAreKept FailureHasRow
PROPERTIES EveryoneEnds ImplementsWriteOnce

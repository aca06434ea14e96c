SPECIFICATION Spec
CONSTANTS
  Tasks <- FiveTasks
  Key <- ByTime
  Limit = 2
  Filtered = TRUE
  MaxMoves = 3
INVARIANTS
  MissesAreDepartures
  RepeatsAreArrivals
  TotalCoversPage

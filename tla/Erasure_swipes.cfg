SPECIFICATION Spec
CONSTANTS
  Users <- TwoUsers
  Items <- SwipeItems
  Kind <- SwipeKind
  Parties <- SwipeParties
  Workers <- TwoWorkers
  NoWorker = "none"
  NoUser = "nobody"
  BatchSize = 1
  MaxAttempts = 2
  Purgeable = {}
  MaxFaults = 0
INVARIANTS SwipesGone
CHECK_DEADLOCK FALSE

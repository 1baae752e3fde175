SPECIFICATION MCSpec
CONSTANTS
  Users <- OneUser
  Items <- MixedItems
  Kind <- MixedKind
  Parties <- MixedParties
  Workers = {"w1", "w2"}
  NoWorker = "none"
  NoUser = "nobody"
  BatchSize = 1
  MaxAttempts = 2
  Purgeable <- OnePhoto
  MaxFaults = 2
  Keys = {1}
  Visits = {1, 2}
  MaxTries = 1
  Types = {"erasure", "rectification"}
  MaxRequests = 2
  MaxTokens = 1
  None = 0
  Downloads = {1, 2}
  PageSize = 1
  MaxBytes = 3
  MaxConcurrency = 1
  MaxChanges = 1
INVARIANTS NothingSurvives RightsHold ExportIsSnapshot
PROPERTIES ErasureCompletes
CHECK_DEADLOCK FALSE

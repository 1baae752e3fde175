SPECIFICATION MCSpec
CONSTANTS
  Keys = {m1, a1}
  Annual = {a1}
  Requests = {r1, r2}
  None = None
  MaxCalls = 2
  MaxFaults = 2
  p1 = p1
  p2 = p2
  Purchases = {p1, p2}
  Replaced <- Chain
  NoPurchase = NoPurchase
  Verifiers = {v1, v2}
  MaxTime = 2
  MaxRuns = 2
SYMMETRY Interchangeable
INVARIANTS PayOnce CustomersTracked PurchasesHold
CHECK_DEADLOCK FALSE

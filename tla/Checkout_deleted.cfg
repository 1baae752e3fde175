CONSTANTS
  Keys = {m1, a1}
  Annual = {a1}
  Requests = {r1}
  None = None
  MaxCalls = 1
  MaxFaults = 1
SPECIFICATION LiveSpec
PROPERTIES NewAttemptPossible
CHECK_DEADLOCK FALSE

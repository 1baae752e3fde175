SPECIFICATION MCSpec
CONSTANTS
  Requests = {r1, r2}
  Workers = {w1, w2}
  NoRequest = NoRequest
  TTL = 2
  COOLDOWN = 1
  SETTLEMENT = 1
  Phones = {r1, r2}
  Admins = {w1, w2}
  Deliveries = {1, 2, 3, 4}
  NoView = NoView
  HOUR = 1
  DAY = 2
  RETAIN = 3
  hourly_per_phone = 1
  daily_per_phone = 2
  hourly_global = 2
  daily_global = 3
  MaxDecisions = 2
  MaxChanges = 2
  Accounts = {1, 2}
  MaxBreaks = 1
  MaxRequests = 2
  Tasks = {w1, w2}
  Conns = {r1, r2}
INVARIANTS OneSms NewestWins LeasesHold
PROPERTIES SmsPermitsHold
SYMMETRY OtpSymmetry
CHECK_DEADLOCK FALSE

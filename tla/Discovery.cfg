CONSTANTS
    None = None
    Pair = {x, y}
    Nobody = Nobody
    Traits = {"t"}
    Questions = {"q"}
    Readers = {x, y}
    Points = {0, 2, 9}
    MAX_DISTANCE = 7
    RADIUS = 1
    Limit = 1
    MAX_BATCH = 2
    MAX_FEED_BATCHES = 2
    MaxChanges = 1
    MaxEdits = 2
    Keys = {1, 2}
    Sessions = {1, 2}
    Bootstraps = {3}
    Challenges = {1, 2}
    Requests = {x, y}
    Unset = Unset
    MaxCounter = 2
    MaxCeremonies = 2
    MaxExpiries = 1
    superadmin = superadmin
    admin = admin
    member = member
    encounter = encounter
    MaxOrders = 2
    MaxDeletions = 1
    Kinds = {"users", "reports", "requests", "moderation", "photos", "sessions", "billing", "access_logs"}
    MaxTime = 3
    MaxRowWrites = 3
    MaxLimit = 2
    Milli = 2
SPECIFICATION Spec
SYMMETRY Sym
INVARIANTS BlockedStaysClosed MutualLikeMatched PagesComplete EditsAreSeen AdminAccessHolds WalkComplete
PROPERTIES PowersHold
CHECK_DEADLOCK FALSE

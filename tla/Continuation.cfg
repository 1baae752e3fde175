CONSTANTS
    m1 = m1
    m2 = m2
    Matches = {m1, m2}
    Users = {1, 2, 3}
    Participants <- MCParticipants
    WINDOW = 2
    INACTIVITY = 2
    WEEK = 3
    FREE_WEEKLY_CREDITS = 1
    FREE_WEEKLY_CONTINUATION_LIMIT = 2
    ADVERTISING_STOCK_LIMIT = 1
    Subscribers = {1}
    Viewers = {1}
    MaxClock = 4
    LastMatch = 1
    Intents = {i1, i2}
    Owners = {u1}
    Owner <- MCOwner
    REWARD_STOCK_LIMIT = 1
    Transactions = {x1, x2}
    NoTransaction = NoTransaction
    LIFETIME = 1
    GRACE = 2
    TOLERANCE = 1
    SKEW = 1
    MaxCallbacks = 2
    REWARD_WEEK = 3
    RewardClock = 3
    a = a
    b = b
    Pair = {a, b}
    MessageKeys = {k1}
    Scenarios <- MCScenarios
    Texts = {t1, t2}
    CONVERSATION_WINDOW = 1
    CONVERSATION_INACTIVITY = 1
    WARNING = 1
    PURGE = 1
    BATCH = 2
    MaxMessages = 2
    MaxReveals = 2
    BROADCAST_CAPACITY = 2
    REDIS_RELAY_CAPACITY = 2
    MaxEvents = 3
SPECIFICATION MCSpec
INVARIANTS CreditsHold ChargedTogether RewardsHold ShownAsStored NoGap
PROPERTIES ReservationHonoured SendNeedsAccess ClosedIsPurged
CHECK_DEADLOCK FALSE

CONSTANTS
    photo = photo
    erase = erase
    bill = bill
    store = store
    Events = {photo, erase, bill, store}
    TypeOf <- MCTypeOf
    Workers = {w1, w2}
    NoWorker = NoWorker
    MaxAttempts = 2
    AttemptsLimit = 6
    BatchSize = 2
    HandlerConcurrency = 1
    PurgeBatchSize = 1
    MaxFaults = 1
    MaxRequests = 2
    Procs = {p1, p2}
    MaxTime = 2
    MaxRuns = 2
    MaxBatches = 2
    JobBatchSize = 2
    MaxLost = 1
    Subs = {1, 2}
    Handlers = {h1}
    MaxEvents = 3
SPECIFICATION MCSpec
INVARIANTS LiveIffOwed NewestRunShown
PROPERTIES ImplementsContract RequestsSettle Converges
CHECK_DEADLOCK FALSE

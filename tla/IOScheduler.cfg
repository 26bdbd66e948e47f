CONSTANTS
    Task = {a, b, c}
    Remote = {a, c}
    Injector = {i, j}
    Yielder = {b}
    Sleeper = {b}
    Stealing = TRUE
    CreditBound = 1
    kCapacity = 2
    InjectBatch = 2
    lifo_poll_limit = 1
    inject_check_interval = 1
    ready_budget = 1
    FollowupLimit = 1
    Null = Null
SPECIFICATION FairSpec
INVARIANTS EachTaskQueuedOnce NoLostWake
PROPERTIES ScheduledRuns StopEndsLoop

CONSTANTS
    Client = {a, b, c}
    Count = 2
    IndexRange = 3
    StopDuringCalls = FALSE
    Yields = 1
    StopSignal = stopSignal
    Nothing = nothing
    Notifier = {a, b, c}
    WithTimeouts = TRUE
    Joiner = {a, b}
    MayBeStolen = TRUE
    Nobody = nobody
SPECIFICATION MCSpec
INVARIANTS ReturnsOnlyAfterNotify
           OutcomeTakenOnce RunningHasSchedulers StopDrains
PROPERTIES NotifiedReturns WaitersContinue CallReturns StopEnds

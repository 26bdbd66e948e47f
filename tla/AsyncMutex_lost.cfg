CONSTANTS
    Coroutine = {a, b, c}
    Timed = {}
    MaxLocks = 1
    TimerOnOwnThread = TRUE
SPECIFICATION Spec
SYMMETRY Symmetry
INVARIANT NoSleeperBesideFreeMutex
CHECK_DEADLOCK FALSE

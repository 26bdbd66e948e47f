CONSTANTS
    Coroutine = {a, b, c}
    Timed = {a}
    MaxLocks = 2
    TimerOnOwnThread = TRUE
SPECIFICATION Spec
SYMMETRY Symmetry
INVARIANTS MutualExclusion SuspendedIsReachable
CHECK_DEADLOCK FALSE

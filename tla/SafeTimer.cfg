CONSTANTS
    Timer = {s, t}
    WheelSize <- ThreeLevels
    m_tickDuration = 1
    Delay = {0, 9, 17}
    MaxTime = 11
    MaxLag = 1
    BATCH_SIZE = 1
    SizeRange = 8
SYMMETRY Symmetry
SPECIFICATION Spec
INVARIANTS EveryTimerInOnePlace Punctual
CHECK_DEADLOCK FALSE

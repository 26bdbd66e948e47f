CONSTANTS
    Thief = {s1, s2}
    kCapacity = 2
    MaxPushes = 4
    TailBound = 4
    Messages = 6
    MaxBatch = 3
    Timer = {s, t}
    WheelSize <- Sizes
    m_tickDuration = 2
    Delay = {0, 1, 5, 6, 8, 15, 17, 31}
    MaxTime = 20
    MaxLag = 2
SYMMETRY Symmetry
SPECIFICATION MCSpec
INVARIANTS TakenAtMostOnce NoTaskLost InOrderExactlyOnce NoSleepBesideEnough EveryTimerInOneSlot TickIsPunctual
PROPERTY OnlyClaimedOverwritten

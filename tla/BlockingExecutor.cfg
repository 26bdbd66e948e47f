CONSTANTS
    Task = {t1, t2, t3, t4}
    MinWorkers = 1
    MaxWorkers = 2
SPECIFICATION FairSpec
INVARIANT NoLostWakeUp
PROPERTIES AcceptedRunsOnce ShrinksToMinimum DestructorReturns

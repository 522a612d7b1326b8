\* Three threads on one bucket; u32::MAX is scaled down so that the
\* saturating refill is reached within MaxTime seconds.
CONSTANTS
    t1 = t1
    t2 = t2
    t3 = t3
    Threads = {t1, t2, t3}
    Capacity = 2
    RefillRate = 1
    U32Max = 4500
    MaxTime = 3
    ClockMayStepBack = TRUE
    MaxStepsBack = 1
SPECIFICATION Spec
SYMMETRY Symm
INVARIANTS BurstCeiling Conservation RateLimitUnlessRewound
PROPERTY RefusedOnlyWithinSpentSecond

SPECIFICATION FairSpec
CONSTANTS
    Nil = Nil
    i1 = i1
    i2 = i2
    t1 = t1
    t2 = t2
    t3 = t3
    Langs <- BothLangs
    Ips <- OneIp
    Threads <- ThreeThreads
    Threshold = 2
    Window = 1
    BanDuration = 3
    MaxDelay = 1
    Operator = TRUE
    Horizon = 6
    MaxTime = 11
CHECK_DEADLOCK FALSE
INVARIANTS ActiveBanBlocks NoOrphanRoute BanNeedsThreshold
PROPERTIES SweepLiftsExpiredBans BanIsTemporary

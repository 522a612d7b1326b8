SPECIFICATION FairSpec
CONSTANTS
    Items <- MCItems
    Configs <- MCConfigs
    Addrs <- MCAddrs
    Mapped <- MCMapped
    MapSize = 2
    Nil = Nil
    MaxListed = 1
    MaxChanges = 2
    MaxFaults = 1
INVARIANTS ProtectedPasses OnlyListedDropped MirrorAtRest
PROPERTIES EventuallyMirrored
CHECK_DEADLOCK FALSE

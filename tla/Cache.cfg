SPECIFICATION Spec
CONSTANTS
    Nil = Nil
    a = a
    b = b
    t1 = t1
    t2 = t2
    Langs <- BothLangs
    Prefixes <- Nested
    Written <- TwoSpellings
    Ips <- TwoIps
    Vals <- TwoVals
    Callers <- AnyCallers
    Threads <- TwoThreads
    Ops <- AllOps
    MaxEntries = 1
    Redis = TRUE
    RedisFails = TRUE
SYMMETRY ThreadSymmetry
INVARIANTS FreshUnlessRaced CacheBounded SavedUnlessDisturbed

SPECIFICATION Spec
CONSTANTS
    Nil = Nil
    w1 = w1
    w2 = w2
    r1 = r1
    a = a
    b = b
    Writers <- TwoWriters
    Readers <- OneReader
    Prefixes <- NestedPrefixes
    Vals <- OneVal
    Ips <- Addresses
    Ops <- InsertOnly
    NumShards = 1
    SizeMod = 8
    MaxNodes = 5
    MaxClears = 0
INVARIANT StableRouteFound
CHECK_DEADLOCK FALSE
SYMMETRY WriterSymmetry

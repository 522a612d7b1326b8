SPECIFICATION Spec
CONSTANTS
    Nil = Nil
    w1 = w1
    w2 = w2
    r1 = r1
    a = a
    b = b
    Writers <- OneWriter
    Readers <- OneReader
    Prefixes <- ThreePrefixes
    Vals <- OneVal
    Ips <- Addresses
    Ops <- AllOps
    NumShards = 2
    SizeMod = 8
    MaxNodes = 4
    MaxClears = 1
INVARIANTS SizeIsCount CallsTakeEffect StableRouteFound ResultWasPresent
PROPERTY Implements

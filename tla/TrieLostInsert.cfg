SPECIFICATION Spec
CONSTANTS
    Nil = Nil
    w1 = w1
    w2 = w2
    r1 = r1
    a = a
    b = b
    Writers <- TwoWriters
    Readers <- NoReader
    Prefixes <- ForkedPrefixes
    Vals <- OneVal
    Ips <- Addresses
    Ops <- InsertOnly
    NumShards = 1
    SizeMod = 8
    MaxNodes = 6
    MaxClears = 0
INVARIANT CallsTakeEffect
CHECK_DEADLOCK FALSE

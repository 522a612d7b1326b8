SPECIFICATION Spec
CONSTANTS
    Nil = Nil
    w1 = w1
    w2 = w2
    ByteBits = 3
    KeyLen = 3
    Cap4 = 2
    Cap16 = 3
    Cap48 = 6
    Grow48 = 5
    Scenarios <- MCScenarios
    Addrs <- MCAddrs
INVARIANTS TypeOK MatchSound LoneFound FreedOnlyThroughCover ShardsAgree
PROPERTIES OthersUntouched
CHECK_DEADLOCK FALSE

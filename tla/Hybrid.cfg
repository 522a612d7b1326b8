SPECIFICATION FairSpec
CONSTANTS
    Nil = Nil
    p1 = p1
    p2 = p2
    x1 = x1
    v1 = v1
    v2 = v2
    Procs <- TwoProcs
    Prefixes <- OnePrefix
    Metas <- TwoMetas
    Written <- TwoSpellings
    Deployments <- AnyDeployment
    Ops <- AllOps
    MaxCalls = 3
    MaxFaults = 1
CHECK_DEADLOCK FALSE
INVARIANTS ConvergesUnlessDisturbed
PROPERTY EventuallyConsistent

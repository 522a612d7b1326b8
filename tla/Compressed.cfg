SPECIFICATION Spec
CONSTANTS
    Nil = Nil
    a = a
    Langs <- BothLangs
    Prefixes <- V6Prefixes
    Ips <- V6Addresses
    Vals <- OneVal
    V6Width = 3
    V4Width = 1
INVARIANTS HoldsTable LookupSound LongestUnlessHidden

SPECIFICATION FairSpec
CONSTANTS
    Nil = Nil
    Bad = Bad
    Invalid = Invalid
    ip1 = ip1
    ip2 = ip2
    proxy = proxy
    Reqs = {1, 2}
    Ips = {ip1, ip2, proxy}
    Listed = {ip2}
    Upper <- MCUpper
    Subnet <- MCSubnet
    Configs <- MCConfigs
    Inputs <- MCInputs
    Notes <- MCNotes
    MaxWrites = 2
    MaxArrivals = 3
    MaxTicks = 1
    MaxEvents = 5
INVARIANTS LimitHolds BanHolds ForgedHopsIgnored
PROPERTIES ReloadConverges
CHECK_DEADLOCK FALSE

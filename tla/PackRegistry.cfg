SPECIFICATION ReleaseSpec
CONSTANTS
    s1 = s1
    s2 = s2
    g1 = g1
    g2 = g2
    Sessions = {s1, s2}
    Gprs = {g1, g2}
    AddressesOf <- TwoNames
    Asked = {g2}
    NoAddress = NoAddress
    None = None
    Null = Null
    ConnectionSize = 1
    MaxPuts = 0
INVARIANTS
    ConnectedTold
    OnlineIsConnected
    NoGhost
CHECK_DEADLOCK FALSE

SPECIFICATION Spec
CONSTANTS
    s1 = s1
    g1 = g1
    Sessions = {s1}
    Gprs = {g1}
    AddressesOf <- OneGprs
    Asked = {g1}
    NoAddress = NoAddress
    None = None
    Null = Null
    ConnectionSize = 0
    MaxPuts = 2
INVARIANT AsksBySms
CHECK_DEADLOCK FALSE

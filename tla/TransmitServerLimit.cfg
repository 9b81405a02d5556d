SPECIFICATION EitherSpec
CONSTANTS
    c1 = c1
    c2 = c2
    a1 = a1
    a2 = a2
    g1 = g1
    Sessions = {c1, c2}
    Addresses = {a1, a2}
    NoAddress = NoAddress
    Gprs = {g1}
    Limit = 1
    BeatLimit = 1
    NoSession = NoSession
    Null = Null
INVARIANT NoThreadStuck
CHECK_DEADLOCK FALSE

SPECIFICATION MonitoringSpec
CONSTANTS
    c1 = c1
    a1 = a1
    g1 = g1
    Sessions = {c1}
    Addresses = {a1}
    NoAddress = NoAddress
    Gprs = {g1}
    Limit = 2
    BeatLimit = 0
    NoSession = NoSession
    Null = Null
    MaxUnderWay = 1
    MaxWaits = 1
    MaxBreaks = 1
PROPERTY AnsweredTruly
CHECK_DEADLOCK FALSE

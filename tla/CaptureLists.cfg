SPECIFICATION FairSpec
CONSTANTS
    s1 = s1
    s2 = s2
    y1 = y1
    Sessions = {s1, s2}
    Addresses = {s1, s2}
    Systems = {y1}
    AddressOf <- OwnAddress
    SystemOf <- OneSystem
    LIST_NUM = 2
    ListOf <- OneList
    MaxQueueSize = 1
    ConnectionSize = 0
    MaxFrames = 4
    MaxFaults = 1
INVARIANTS
    TypeOK
    NothingLost
PROPERTIES
    IsChannel
    EveryListWritten
CHECK_DEADLOCK FALSE

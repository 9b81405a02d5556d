SPECIFICATION PackSpec
CONSTANTS
    s1 = s1
    s2 = s2
    Systems = {s1}
    KeysInOrder <- MCKeysInOrder
    MaxFile = 4
    MaxFileSize = 2
    MaxList = 2
    MaxFaults = 3
INVARIANTS
    SizeBounded
    Exclusive
    NoReupload
    NoSilentLoss
PROPERTIES
    NoOverwrite

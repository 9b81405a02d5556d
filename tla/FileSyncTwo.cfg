SPECIFICATION FairSpec
CONSTANTS
    s1 = s1
    s2 = s2
    Systems = {s1, s2}
    KeysInOrder <- MCKeysInOrder
    MaxFile = 3
    MaxFileSize = 1
    MaxFaults = 1
INVARIANTS
    TypeOK
    NoSilentLoss
PROPERTIES
    FirstSystemTaken

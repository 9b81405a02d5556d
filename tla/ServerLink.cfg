SPECIFICATION FairSpec
CONSTANTS
    MaxLinks = 3
    MaxCommands = 2
    MaxNotices = 2
    MaxRestarts = 2
INVARIANTS
    TypeOK
    ToldInOrder
PROPERTIES
    IsChannel
    EveryCommandArrives
    EveryCommandLeaves
CHECK_DEADLOCK FALSE

SPECIFICATION MCSpec
CONSTANTS
    Mac <- MCMac
    Addresses <- MCAddresses
    Times <- MCTimes
    MaxFrames = 2
    SmsRequests = {r1, r2, r3}
    MaxLine = 5
INVARIANTS
    Understood
    Checked
    OnePlace
    ReadAsMeant
CHECK_DEADLOCK FALSE

SPECIFICATION Spec
CONSTANTS
    MaxLogins = 2
    MaxAttempts = 1
    MaxPackets = 4
    MaxStrays = 1
    DeferLimit = 3
    MayRefuse = TRUE
    MayBreak = TRUE
CHECK_DEADLOCK FALSE
INVARIANTS NothingLost LiveStaysAttached QuestsReachPlayer

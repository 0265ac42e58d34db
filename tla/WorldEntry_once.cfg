SPECIFICATION FairSpec
CONSTANTS
    MaxLogins = 1
    MaxAttempts = 2
    MaxPackets = 5
    MaxStrays = 3
    DeferLimit = 4
    MayRefuse = TRUE
    MayBreak = TRUE
CHECK_DEADLOCK FALSE
INVARIANTS TypeOK OneConnectionPerKey
PROPERTIES StreamHonoured LoginCompletes

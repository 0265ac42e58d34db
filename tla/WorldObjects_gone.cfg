SPECIFICATION Spec
CONSTANTS
    boss = boss
    add = add
    corpse = corpse
    Units = {boss, add, corpse}
    Untranslated = {corpse}
    MaxPending = 2
    MaxReports = 3
    MaxTransfers = 2
    Returns = TRUE
    Chains = TRUE
CHECK_DEADLOCK FALSE
INVARIANT FramesFollowUnits

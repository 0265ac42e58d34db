SPECIFICATION FairSpec
CONSTANTS
    boss = boss
    add = add
    corpse = corpse
    Units = {boss, add, corpse}
    Untranslated = {corpse}
    MaxPending = 2
    MaxReports = 3
    MaxTransfers = 2
    Returns = FALSE
    Chains = TRUE
INVARIANTS
    TypeOK
    SpellsInOrder
    FramesFollowUnits
    EncounterBracketed
    ClientOnRealmMap
PROPERTIES
    SpellsHaveCasters
    TransferCompletes
CHECK_DEADLOCK FALSE

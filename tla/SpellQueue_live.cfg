SPECIFICATION FairSpec
CONSTANTS
    frostbolt = frostbolt
    fireball = fireball
    MaxCasts = 4
    PendingLimit = 8
    Spells = {frostbolt}
    LowerRank <- NoRanks
    Owners = {"player"}
    Dismissals = {}
    ClockEdge = FALSE
    NoSpell = NoSpell
CHECK_DEADLOCK FALSE
INVARIANTS OneRequestPerSpell
PROPERTY EveryCastAnswered

SPECIFICATION FairSpec
CONSTANTS
    frostbolt = frostbolt
    fireball = fireball
    MaxCasts = 3
    PendingLimit = 8
    Spells = {frostbolt, fireball}
    LowerRank <- NoRanks
    Owners = {"player"}
    Dismissals = {}
    ClockEdge = FALSE
    NoSpell = NoSpell
CHECK_DEADLOCK FALSE
PROPERTY EveryCastAnswered

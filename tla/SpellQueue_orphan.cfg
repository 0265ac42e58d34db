SPECIFICATION Spec
CONSTANTS
    frostbolt = frostbolt
    fireball = fireball
    MaxCasts = 3
    PendingLimit = 2
    Spells = {frostbolt, fireball}
    LowerRank <- NoRanks
    Owners = {"player", "item"}
    Dismissals = {}
    ClockEdge = FALSE
    NoSpell = NoSpell
CHECK_DEADLOCK FALSE
INVARIANT HeldBehindActive

SPECIFICATION Spec
CONSTANTS
    frostbolt = frostbolt
    fireball = fireball
    MaxCasts = 3
    PendingLimit = 2
    Spells = {frostbolt, fireball}
    LowerRank <- OneRank
    Owners = {"player", "item", "pet"}
    Dismissals = {}
    ClockEdge = FALSE
    NoSpell = NoSpell
CHECK_DEADLOCK FALSE
INVARIANT NothingForgotten

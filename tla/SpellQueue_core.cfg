SPECIFICATION Spec
CONSTANTS
    frostbolt = frostbolt
    fireball = fireball
    MaxCasts = 4
    PendingLimit = 8
    Spells = {frostbolt, fireball}
    LowerRank <- NoRanks
    Owners = {"player"}
    Dismissals = {}
    ClockEdge = TRUE
    NoSpell = NoSpell
CHECK_DEADLOCK FALSE
SYMMETRY SpellSymmetry
INVARIANTS TypeOK ActiveTracked HeldTracked HeldUnsent

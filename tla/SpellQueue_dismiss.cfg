SPECIFICATION Spec
CONSTANTS
    frostbolt = frostbolt
    fireball = fireball
    MaxCasts = 3
    PendingLimit = 8
    Spells = {frostbolt, fireball}
    LowerRank <- NoRanks
    Owners = {"player"}
    Dismissals = {"cancel", "cancelSpell", "logout"}
    ClockEdge = TRUE
    NoSpell = NoSpell
CHECK_DEADLOCK FALSE
SYMMETRY SpellSymmetry
INVARIANTS HeldBehindActive NothingForgotten
PROPERTY LifecycleHonoured

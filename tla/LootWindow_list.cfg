SPECIFICATION Spec
CONSTANTS
    Corpses = {orc, wolf}
    NoCorpse = none
    MaxOpens = 1
    MaxRequests = 1
INVARIANT WindowHasList
CHECK_DEADLOCK FALSE

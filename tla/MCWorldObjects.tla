--------------------------- MODULE MCWorldObjects ---------------------------
EXTENDS WorldObjects

CONSTANTS boss, add, corpse  \* the units
=============================================================================

---------------------------- MODULE MCSpellQueue ----------------------------
(* Instances of SpellQueue for TLC: spell IDs as model values.              *)
EXTENDS SpellQueue, TLC

CONSTANTS frostbolt, fireball

NoRanks == {}

\* Frostbolt is the lower rank of fireball, a stand-in for any ranked spell.
OneRank == {<<fireball, frostbolt>>}

SpellSymmetry == Permutations(Spells)
=============================================================================

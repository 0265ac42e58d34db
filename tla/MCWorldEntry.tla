---------------------------- MODULE MCWorldEntry ----------------------------
(* Instances of WorldEntry for TLC need no definitions of their own.        *)
EXTENDS WorldEntry
=============================================================================

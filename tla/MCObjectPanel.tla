---------------------------- MODULE MCObjectPanel ----------------------------
(* ObjectPanel for TLC: names are interchangeable, and so are schemas.        *)
EXTENDS ObjectPanel, TLC

Symmetry == Permutations(Name) \cup Permutations(Schema)
==============================================================================

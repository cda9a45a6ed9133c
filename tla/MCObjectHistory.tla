--------------------------- MODULE MCObjectHistory ---------------------------
(* ObjectHistory for TLC: names and loads are interchangeable, as the module  *)
(* only compares them for equality.                                           *)
EXTENDS ObjectHistory, TLC

Symmetry == Permutations(Name) \cup Permutations(Load)
==============================================================================

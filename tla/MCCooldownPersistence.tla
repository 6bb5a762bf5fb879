------------------------- MODULE MCCooldownPersistence -------------------------
(* Instances of CooldownPersistence for TLC. *)
EXTENDS CooldownPersistence, TLC

CONSTANTS a1, a2, w1, w2

Symmetry == Permutations(Workers)
=============================================================================

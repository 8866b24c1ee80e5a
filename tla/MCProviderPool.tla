--------------------------- MODULE MCProviderPool ---------------------------
(* ProviderPool on a few slots.                                             *)
EXTENDS ProviderPool, TLC

Symmetry == Permutations(Slot)
=============================================================================

---------------------------- MODULE MCMemoryStore ----------------------------
(* MemoryStore on a lock-like key and a counter.                            *)
EXTENDS MemoryStore, TLC

Symmetry == Permutations(Stored) \cup Permutations(Text)
=============================================================================

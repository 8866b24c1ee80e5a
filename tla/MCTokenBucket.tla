---------------------------- MODULE MCTokenBucket ----------------------------
(* TokenBucket on a few calls of one or two clients.                        *)
EXTENDS TokenBucket, TLC

Symmetry == Permutations(Req) \cup Permutations(Client)
=============================================================================

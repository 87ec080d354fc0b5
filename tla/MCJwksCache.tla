---------------------------- MODULE MCJwksCache ----------------------------
EXTENDS JwksCache, TLC
Symmetry == Permutations(Callers) \cup Permutations(Kids)
=============================================================================

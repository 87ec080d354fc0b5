--------------------------- MODULE MCRequestPool ---------------------------
EXTENDS RequestPool, TLC
Symmetry == Permutations(Requests) \cup Permutations(Connections)
=============================================================================

------------------------- MODULE MCIdentityMapping -------------------------
EXTENDS IdentityMapping, TLC
Symmetry == Permutations(Backends) \cup Permutations(Subjects) \cup Permutations(Users)
=============================================================================

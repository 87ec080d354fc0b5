----------------------------- MODULE MCAuthFlow -----------------------------
EXTENDS AuthFlow, TLC
Symmetry == Permutations(Requests) \cup Permutations(Sessions) \cup Permutations(Flows)
=============================================================================

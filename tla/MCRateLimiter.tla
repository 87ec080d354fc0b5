--------------------------- MODULE MCRateLimiter ---------------------------
EXTENDS RateLimiter, TLC
Symmetry == Permutations(Requests)
=============================================================================

-------------------------- MODULE MCSessionStore --------------------------
EXTENDS SessionStore, TLC
MCMembers == Users \X Tenants
Symmetry == Permutations(Sessions) \cup Permutations(Backends)
=============================================================================

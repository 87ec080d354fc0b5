CONSTANTS
  Backends = {b1, b2}
  Sessions = {s1, s2}
  Users = {u1}
  Tenants = {t1, t2}
  ActiveTenants = {t1}
  Members <- MCMembers
  AbsoluteTtl = 4
  IdleTtl = 2
  Grace = 0
  CallTimeout = 1
  MaxTime = 5
  Null = Null
SPECIFICATION Spec
INVARIANTS StoreInvariant ClaimsInvariant LoginTermsFixed
PROPERTIES DeadLoginStaysDead PurgeTakesOnlyDead RevokeAllCovers
SYMMETRY Symmetry

CONSTANTS
  Backends = {b1, b2}
  Sessions = {s1, s2, s3}
  Users = {u1}
  Tenants = {t1}
  ActiveTenants = {t1}
  Members <- MCMembers
  AbsoluteTtl = 3
  IdleTtl = 2
  Grace = 0
  CallTimeout = 1
  MaxTime = 2
  Null = Null
SPECIFICATION Spec
INVARIANT OneLivePerLogin
PROPERTY LineageSpec
SYMMETRY Symmetry

CONSTANTS
  Backends = {b1, b2}
  Sessions = {s1, s2}
  Users = {u1}
  Tenants = {t1}
  ActiveTenants = {t1}
  Members <- MCMembers
  AbsoluteTtl = 1
  IdleTtl = 1
  Grace = 0
  CallTimeout = 2
  MaxTime = 2
  Null = Null
SPECIFICATION FairSpec
INVARIANT NeverStuck
PROPERTY EveryCallReturns

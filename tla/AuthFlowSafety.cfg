CONSTANTS
  Requests = {r1, r2}
  Sessions = {s1, s2, s3}
  Flows = {f1, f2}
  MaxRefreshes = 2
  Null = Null
SPECIFICATION Spec
INVARIANTS FlowInvariant RefreshableUnlessStranded CookieIsNewest
PROPERTIES LogoutEndsUnracedLogin LineageSpec
SYMMETRY Symmetry

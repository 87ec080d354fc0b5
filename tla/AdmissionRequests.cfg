CONSTANTS
  Requests = {r1, r2}
  Principals <- MCPrincipals
  Addresses = {"c1", "c2", "p1", "p2"}
  Trusted = {"p1", "p2"}
  Origins <- MCOrigins
  Limits <- MCLimits
  DefaultOpen = TRUE
  LimiterBuilt = TRUE
  Policies <- MCPolicies
  Startup = Startup
  MaxCount = 2
  Null = Null
SPECIFICATION Spec
INVARIANTS StagesInvariant GateCoversService BucketIsTheClient ForeignLikeMissing
INVARIANTS DeniedIffTold ForgedLeavesNoTrace ReloadHolds
SYMMETRY Symmetry

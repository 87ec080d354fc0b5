CONSTANTS
  Callers = {c1, c2}
  Kids = {k1, k2}
  Ttl = 2
  MinInterval = 1
  FetchTimeout = 1
  MaxTime = 5
  Never = Never
SPECIFICATION Spec
INVARIANTS CacheInvariant RetiredKeyNotServed NewKeyRejectedBriefly
SYMMETRY Symmetry

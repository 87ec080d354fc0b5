CONSTANTS
  Requests = {r1, r2}
  Limit = 1
  Window = 2
  Tps = 3
  Delay = 1
  FailOpen = FALSE
  MaxCount = 2
  MaxTime = 8
  Never = Never
SPECIFICATION Spec
INVARIANTS LimiterInvariant BurstsBounded RetryAfterAlmostSuffices
SYMMETRY Symmetry

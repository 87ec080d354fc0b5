CONSTANTS
  Requests = {r1, r2}
  Connections = {c1, c2, c3}
  Kinds = {"probe", "read", "mutating"}
  Null = Null
SPECIFICATION FairSpec
INVARIANTS PoolInvariant PoolNeverStuck
PROPERTY EveryRequestAnswered

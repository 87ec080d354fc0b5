CONSTANTS
  Requests = {r1, r2, r3}
  Connections = {c1, c2}
  Kinds = {"probe", "mutating"}
  Null = Null
SPECIFICATION FairSpec
PROPERTY LiveProbeAnswered

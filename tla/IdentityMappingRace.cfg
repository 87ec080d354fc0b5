CONSTANTS
  Backends = {b1, b2}
  Subjects = {s1, s2}
  Users = {u1, u2}
  Null = Null
SPECIFICATION FairSpec
INVARIANTS IdentityInvariant LoserGetsWinner
PROPERTIES DirectorySpec LoginsOfMembers EveryCallEnds

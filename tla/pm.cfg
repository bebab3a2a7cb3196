SPECIFICATION PmSpec
CONSTANTS
  a = a
  b = b
  c = c
  s1 = s1
  s2 = s2
  Packages = {a, b, c}
  Sources = {s1, s2}
  Releases <- MCReleases
  MaxFaults = 1
  None = None
  Torn = Torn
  Users = {u1, u2}
  Installable = {a}
  MaxReleases = 2
  MaxPublished = 2
  MaxTime = 1
  Lifetime = 0
  MaxFailures = 1
  RequestsMade <- MCRequests
  MaxServed = 2
  Pieces = 2
  Nothing = Nothing
INVARIANTS
  PmTypeOK
  AssertionsHold
  SnapshotHonest
  StatementsWhole
PROPERTIES
  ImplementsUpdates
  PmAnswers
CHECK_DEADLOCK FALSE

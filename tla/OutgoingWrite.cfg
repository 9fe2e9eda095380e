\* Two calls, with or without a common mutation id and an attachment.
SPECIFICATION FairSpec
CONSTANTS
  k1 = k1  k2 = k2  m1 = m1  None = None
  Calls = {k1, k2}
  Mutations = {m1}
  Contents = {c1, c2}
  MaxParts = 1
  ReadAttempts = 2
  MaxTime = 1
  Views = FALSE
INVARIANTS TypeOK WritesAreCleared
PROPERTIES ImplementsMailWrite OnlyUntimedWaitsLast
CHECK_DEADLOCK FALSE

\* The evidence of the first attachment expires while the second is scanned.
SPECIFICATION Spec
CONSTANTS
  k1 = k1  k2 = k2  m1 = m1  None = None
  Calls = {k1}
  Mutations = {m1}
  Contents = {c1, c2}
  MaxParts = 2
  ReadAttempts = 2
  MaxTime = 2
  Views = FALSE
PROPERTY EvidenceIsCurrentAtWrite
CHECK_DEADLOCK FALSE

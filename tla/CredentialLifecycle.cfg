\* Two accounts share the file; refreshes, revocations and new consents overlap, writes
\* fail at every point, keys rotate, the process restarts.
SPECIFICATION Spec
CONSTANTS
  None = None
  Accounts = {a1, a2}
  Calls = {k1, k2}
  Grants = {1, 2}
  Keys = {e1, e2}
  FirstKey = e1
  ExpiresIns <- MCExpiresIns
  Skew = 1
  MaxTime = 1
  DiskFaults = TRUE
INVARIANTS TypeOK AcknowledgedSurvives VaultCanBeOpened
PROPERTIES RetryStateKept RevocationSticks
CHECK_DEADLOCK FALSE
SYMMETRY Symmetric

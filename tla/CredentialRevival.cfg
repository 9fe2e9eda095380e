\* A refresh answered after the revocation.
SPECIFICATION Spec
CONSTANTS
  None = None
  Accounts = {a1}
  Calls = {k1, k2}
  Grants = {1}
  Keys = {e1}
  FirstKey = e1
  ExpiresIns <- MCExpiresIns
  Skew = 1
  MaxTime = 0
  DiskFaults = FALSE
INVARIANT RevokedStaysRevoked
CHECK_DEADLOCK FALSE


\* Everything may go wrong, one object per user and one deletion at a time.
SPECIFICATION Spec
CONSTANTS
  u1 = u1  u2 = u2  a1 = a1  a2 = a2  c1 = c1  c2 = c2  w1 = w1  w2 = w2  None = None
  Users = {u1, u2}
  Accounts = {a1, a2}
  Owner <- MCOwner
  Objects = {1}
  Contents = {c1, c2}
  Ttls <- NeverSoonOrTooLong
  Workers = {w1, w2}
  SweepLimit = 1
  MaxTime = 2
  MaxPlain = 2
  MaxInstant = 6
  Durable = TRUE
  Disturbances = {"crash", "tamper", "unlink", "rm", "undo"}
INVARIANTS TypeOK DownloadsAreClean RecordsAreBacked NoOrphans
PROPERTIES RecordsOutliveFiles ImplementsPromise
CHECK_DEADLOCK FALSE
SYMMETRY Symmetry

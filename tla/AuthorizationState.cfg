\* Either store, used by one process, and the table used by several.
SPECIFICATION Spec
CONSTANTS
  None = None
  States = {s1, s2}
  Users = {u1, u2}
  Providers = {gmail}
  Requests = {r1, r2, r3}
  Ttl = 1
  MaxTime = 2
INVARIANTS TypeOK GrantsAreTimely NoLateReplay
PROPERTIES RefusalsCostNothing ImplementsOnce
CHECK_DEADLOCK FALSE
SYMMETRY Alike

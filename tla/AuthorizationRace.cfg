\* The same instance: several processes grant one state value twice.
SPECIFICATION Spec
CONSTANTS
  None = None
  States = {s1, s2}
  Users = {u1, u2}
  Providers = {gmail}
  Requests = {r1, r2, r3}
  Ttl = 1
  MaxTime = 2
INVARIANTS SingleUse
CHECK_DEADLOCK FALSE
SYMMETRY Alike

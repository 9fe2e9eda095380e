\* Two users, two accounts.
SPECIFICATION Spec
CONSTANTS
  u1 = u1
  u2 = u2
  a1 = a1
  a2 = a2
  Users = {u1, u2}
  Ids = {a1, a2}
  Grants <- MCGrants
  None = None
INVARIANTS
  TypeOK
  ScopesSuffice
PROPERTIES
  OthersAreInvisible
  RemovalQuiesces

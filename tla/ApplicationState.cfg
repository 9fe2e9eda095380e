\* Two processes on one database, one account, transactions of up to two writes.
SPECIFICATION Spec
CONSTANTS
  None = None
  Users = {u1, u2}
  Accounts = {a1}
  Providers = {gmail, other}
  Fingerprints = {f1, f2}
  Processes = {p1, p2}
  MaxWrites = 2
INVARIANTS TypeOK RowsAreOwned OneRequestPerKey SchemaIsComplete
PROPERTY TransactionsAreAtomic
CHECK_DEADLOCK FALSE
SYMMETRY Alike

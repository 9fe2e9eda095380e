\* The same instance: what demo mode refuses.
SPECIFICATION PageSpec
CONSTANTS
  None = None
  Messages = {m1, m2}
  MaxLoads = 3
  MaxMutations = 1
  Absent = Absent
  small = small
  large = large
  other = other
  Files = {small, large, other}
  Declared <- MCDeclared
  Actual = {1, 2, 3}
  MaxFiles = 2
  MaxFileSize = 2
  MaxTotal = 3
  MaxComposes = 2
  MaxSelections = 2
  MaxWrites = 2
INVARIANT DemoRefusesAttachments
CHECK_DEADLOCK FALSE
SYMMETRY Alike
